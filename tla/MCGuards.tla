------------------------------ MODULE MCGuards ------------------------------
(***************************************************************************)
(* The hook inside a guest, for TLC: what the guest may do to other        *)
(* processes (ProcGuard), to its own memory (MemoryGuard), the hooks       *)
(* themselves with the decisions of the remaining guards (HookRuntime),    *)
(* the listing of a directory (DirListing) and the requests of its threads *)
(* to the broker (GuestIpc).  A behaviour is one of one of them, chosen at *)
(* the start; the others stand still.                                      *)
(***************************************************************************)
EXTENDS ProcGuard, MemoryGuard, HookRuntime, DirListing, GuestIpc, TLC

VARIABLE guards

guardVars == <<guards, procVars, memVars, hookVars, listVars, ipcVars>>

(* Directory 1 has .winrsbox, a short and a long name; the overlay adds a  *)
(* name and either changes the long one or deletes the short one.          *)
ListingStart ==
    /\ disk = [d \in Dir |-> IF d = 1 THEN {0, 1, 3} ELSE {1}]
    /\ \E gone \in IF guards = "listing" THEN {{}, {1}} ELSE {{}} :
          /\ index = [d \in Dir |-> IF d = 1 /\ gone = {} THEN {2, 3} ELSE {2}]
          /\ tombs = [d \in Dir |-> IF d = 1 THEN gone ELSE {}]

Init ==
    /\ guards \in {"processes", "memory", "hooks", "listing", "ipc"}
    /\ ProcInit
    /\ MemInit
    /\ HookInit
    /\ ListingStart
    /\ ListingInit
    /\ IpcInit
    /\ guards # "ipc" => config = "section" /\ messages = 0
    /\ allow_rwx = FALSE                   \* at the static level it makes it the full one
    /\ guards # "memory" => level = "static"
                            /\ region = [r \in Region |-> FreeRegion]
    /\ guards # "hooks" => guard = "static" /\ allowRwx = FALSE /\ skipped = {}

(* The threads of a guest are interchangeable.                              *)
GuestSymmetry == Permutations(Worker) \cup Permutations(Thread)

AnyName(single, restart) == [mask |-> NoMask, single |-> single, restart |-> restart, room |-> 2]
Queries == {AnyName(FALSE, FALSE), AnyName(TRUE, FALSE), AnyName(FALSE, TRUE),
            [AnyName(FALSE, FALSE) EXCEPT !.mask = {1, 2}],
            [AnyName(FALSE, FALSE) EXCEPT !.room = 1]}     \* a name of Long does not fit

(* Nothing is followed after the end of the guest.  Where a second PID is   *)
(* used, it is used after the first, by one thread at a time and without    *)
(* what one PID already shows: a process that was reached, entries without  *)
(* a time, handles with rights that are not listed.                         *)
OneAtATime == Cardinality({t \in Worker : work[t].pc # "idle"}) <= 1
Bounded ==
    guards = "processes" =>
        /\ fate = "running"
        /\ tracked[1] = 0 => OneAtATime
        /\ live[2].ct # 0 => /\ live[1].ct # 0 /\ OneAtATime
                             /\ touched = {}
                             /\ 0 \notin {tracked[1], tracked[2]}
                             /\ \A h \in held : "unlisted" \notin h.acc

Next ==
    /\ UNCHANGED guards
    /\ \/ guards = "processes" /\ ProcNext /\ UNCHANGED <<memVars, hookVars, listVars, ipcVars>>
       \/ guards = "memory" /\ MemNext /\ UNCHANGED <<procVars, hookVars, listVars, ipcVars>>
       \/ guards = "hooks" /\ HookNext /\ UNCHANGED <<procVars, memVars, listVars, ipcVars>>
       \/ guards = "listing" /\ ListingNext /\ UNCHANGED <<procVars, memVars, hookVars, ipcVars>>
       \/ guards = "ipc" /\ IpcNext /\ UNCHANGED <<procVars, memVars, hookVars, listVars>>

Spec == Init /\ [][Next]_guardVars

(* The types of the modules; in ProcGuard also that the tracker and the     *)
(* kept handles name only processes this guest spawned, in GuestIpc that    *)
(* a thread inside the flush holds its mutex.                               *)
TypeOK ==
    CASE guards = "processes" -> ProcTypeOK
      [] guards = "memory"    -> MemTypeOK
      [] guards = "hooks"     -> HookTypeOK
      [] guards = "listing"   -> ListingTypeOK
      [] guards = "ipc"       -> IpcTypeOK
=============================================================================
