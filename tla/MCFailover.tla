----------------------------- MODULE MCFailover -----------------------------
(* Failover with three or four launchers, which are interchangeable. *)
EXTENDS Failover, TLC

Symmetry == Permutations(Launcher)
=============================================================================
