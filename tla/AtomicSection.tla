---------------------------- MODULE AtomicSection ----------------------------
(***************************************************************************)
(* What the folder section promises to its readers: one register that      *)
(* holds the broker's identity, its pipe name and the set of trusted       *)
(* launchers.  Every update replaces the register in one step and moves    *)
(* its generation to the next even number; a snapshot returns the register *)
(* as it is at one instant, or gives up.                                   *)
(***************************************************************************)
EXTENDS Integers, FiniteSets

CONSTANTS Launcher,     \* (pid, create_time) identities of launcher processes
          Reader,       \* threads that take snapshots (hooks, launchers)
          MaxLaunchers  \* MAX_LAUNCHERS

VARIABLES pub,  \* the register: [gen, broker, pipe, members]
          got   \* got[r]: {what r's latest snapshot returned}, or {}

vars == <<pub, got>>

Init == /\ \E l \in Launcher :
              pub = [gen |-> 0, broker |-> l, pipe |-> l, members |-> {}]
        /\ got = [r \in Reader |-> {}]

Join(l) == /\ l \notin pub.members
           /\ Cardinality(pub.members) < MaxLaunchers
           /\ pub' = [pub EXCEPT !.gen = @ + 2, !.members = @ \cup {l}]
           /\ UNCHANGED got

Leave(l) == /\ l \in pub.members
            /\ pub' = [pub EXCEPT !.gen = @ + 2, !.members = @ \ {l}]
            /\ UNCHANGED got

(* A new broker trusts nobody but itself until the others attach again. *)
TakeOver(l) == /\ l # pub.broker
               /\ pub' = [gen |-> pub.gen + 2, broker |-> l, pipe |-> l,
                          members |-> {l}]
               /\ UNCHANGED got

Snapshot(r) == /\ got' = [got EXCEPT ![r] = {pub}]
               /\ UNCHANGED pub

GiveUp(r) == /\ got' = [got EXCEPT ![r] = {}]
             /\ UNCHANGED pub

Next == \/ \E l \in Launcher : Join(l) \/ Leave(l) \/ TakeOver(l)
        \/ \E r \in Reader : Snapshot(r) \/ GiveUp(r)

Spec == Init /\ [][Next]_vars
=============================================================================
