------------------------------ MODULE MCLaunch ------------------------------
(* Launch with a target and the processes it and they create, which are     *)
(* interchangeable.                                                         *)
EXTENDS Launch, TLC

Symmetry == Permutations(Guest)

(* At most one child gets lost; and what an image is, or the cache holds,   *)
(* is of interest only where images are scanned.                            *)
MaxLoose == 1
Bounded ==
    /\ Cardinality(loose) <= MaxLoose
    /\ ~ScanRoot => image[Root] \in Clean
    /\ ~ScanChildren => cache = {} /\ \A g \in Guest : image[g] \in Clean \cup {None}
=============================================================================
