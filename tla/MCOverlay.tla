------------------------------ MODULE MCOverlay ------------------------------
(* Overlay on a few paths: threads, processes and paths outside the project *)
(* are interchangeable.                                                     *)
EXTENDS Overlay, TLC

(* Without a rule, reads pass through and writes are copied.  The other two *)
(* kinds of rule deny writes, or let them through.                          *)
NoRule == {[read |-> "Passthrough", write |-> "Cow"]}
AnyWrite == [read : {"Passthrough"}, write : {"Passthrough", "Cow", "Deny"}]

(* One call of each kind: reading with a disposition that changes the file  *)
(* is the same whichever it is, and a query is a read that publishes        *)
(* nothing.                                                                 *)
Typical == {r \in Request : /\ r.op = "read" => r.disp \in {"OPEN", "OVERWRITE_IF"}
                            /\ r.op # "query"}

Symmetry == Permutations(Thread) \cup Permutations(Process) \cup Permutations(External)
=============================================================================
