---------------------------- MODULE FolderSection ----------------------------
(***************************************************************************)
(* The folder section (winrsbox-ipc/src/folder_section.rs): a seqlock over *)
(* shared memory that every process of a folder maps.  The broker writes   *)
(* its identity, its pipe name and the launchers it trusts; hooks and      *)
(* launchers take snapshots at any time.                                   *)
(*                                                                         *)
(* The mapped fields are cells, written and read one at a time, so a       *)
(* writer may be seen, or killed, between any two of them.  An identity is *)
(* two cells (pid, create_time) and a pipe name, an array copied by several *)
(* machine stores, is two cells as well.  A launcher stands for its own    *)
(* pid, create_time and (when it is the broker) random pipe name: a cell   *)
(* holds a launcher, and a torn value is two cells with different          *)
(* launchers.  magic and version are the same constants in every write and *)
(* are left out.  Writers are serialised: only the broker writes (it holds *)
(* the policy database's lock) and FolderSectionWriter's mutex serialises  *)
(* its threads.                                                            *)
(***************************************************************************)
EXTENDS Integers, Sequences, FiniteSets

CONSTANTS Launcher,      \* identities of launcher processes
          Reader,        \* threads that call snapshot
          MaxLaunchers,  \* MAX_LAUNCHERS
          MaxRetries,    \* FOLDER_SECTION_SEQLOCK_MAX_RETRIES
          NoBroker,      \* no launcher is the broker
          MaxGen         \* bound on the generation, so that TLC terminates

ASSUME ConstantsAssumption ==
    /\ MaxLaunchers \in Nat \ {0}
    /\ MaxRetries \in Nat \ {0}
    /\ MaxGen \in Nat
    /\ NoBroker \notin Launcher

VARIABLES
    gen,     \* the generation counter: odd while a write is in progress
    mem,     \* the payload cells
    broker,  \* the process that may write, or NoBroker
    dead,    \* brokers that died; an identity is never used again
    serving, \* the broker has published itself (init or rebuild done)
    todo,    \* cell stores the write in progress has still to make
    rd,      \* rd[r]: where r's call of snapshot is
    result,  \* result[r]: what r's latest call returned: {snapshot}, or {} for
             \* an error (or when r has not called yet)
    pub,     \* history: the register as of the last completed write
    next     \* history: the register the write in progress will publish

section == <<gen, mem>>
writer == <<broker, dead, serving, todo, pub, next>>
vars == <<gen, mem, broker, dead, serving, todo, rd, result, pub, next>>

-----------------------------------------------------------------------------
(* The layout of RawFolderSection, numbered in the order snapshot reads it. *)

BrokerPid == 1
BrokerCreateTime == 2
PipeNameHead == 3
PipeNameTail == 4
LaunchersLen == 5
SlotPid(i) == 4 + 2 * i
SlotCreateTime(i) == 5 + 2 * i
NCells == 5 + 2 * MaxLaunchers
Cell == 1 .. NCells

CellValue == Launcher \cup Nat

(* The (pid, create_time) pair of a launcher slot in a copy m of the cells. *)
LauncherSlot(m, i) == <<m[SlotPid(i)], m[SlotCreateTime(i)]>>

(* FolderSectionSnapshot: what a copy of the cells decodes to. *)
FolderSectionSnapshot(g, m) ==
    [generation |-> g,
     broker     |-> <<m[BrokerPid], m[BrokerCreateTime]>>,
     pipe_name  |-> <<m[PipeNameHead], m[PipeNameTail]>>,
     launchers  |-> [i \in 1 .. m[LaunchersLen] |-> LauncherSlot(m, i)]]

Identity(l) == <<l, l>>

(* Does the launcher list in the cells hold l?  What add_launcher and       *)
(* remove_launcher look for before they write.                             *)
Listed(l) == \E i \in 1 .. mem[LaunchersLen] : LauncherSlot(mem, i) = Identity(l)

Position(l) == CHOOSE i \in 1 .. mem[LaunchersLen] : LauncherSlot(mem, i) = Identity(l)

(* A call that has loaded nothing yet in its current attempt. *)
Attempt(pc, tries) ==
    [pc |-> pc, g1 |-> 0, k |-> 1, buf |-> [c \in Cell |-> 0], tries |-> tries]

-----------------------------------------------------------------------------
(* Writing. *)

Idle == todo = <<>> /\ gen % 2 = 0

(* init: the mapping is not yet published, so its stores are one step.     *)
Init ==
    \E b \in Launcher :
        /\ gen = 0
        /\ mem = [c \in Cell |-> IF c \in BrokerPid .. PipeNameTail THEN b ELSE 0]
        /\ broker = b
        /\ dead = {}
        /\ serving = TRUE
        /\ todo = <<>>
        /\ rd = [r \in Reader |-> Attempt("idle", 0)]
        /\ result = [r \in Reader |-> {}]
        /\ pub = [gen |-> 0, broker |-> b, pipe |-> b, members |-> {}]
        /\ next = pub

(* begin_write, and the stores the caller makes before its end_write. *)
begin_write(stores, published) ==
    /\ gen' = gen + 1
    /\ todo' = stores
    /\ next' = published

(* end_write; for rebuild, the store of target_gen = write_marker + 1. *)
end_write ==
    /\ gen % 2 = 1
    /\ todo = <<>>
    /\ broker # NoBroker
    /\ gen' = gen + 1
    /\ serving' = TRUE
    /\ pub' = next
    /\ UNCHANGED <<mem, broker, dead, todo, rd, result, next>>

(* One write_volatile of the write in progress. *)
StoreCell ==
    /\ todo # <<>>
    /\ mem' = [mem EXCEPT ![Head(todo)[1]] = Head(todo)[2]]
    /\ todo' = Tail(todo)
    /\ UNCHANGED <<gen, broker, dead, serving, rd, result, pub, next>>

add_launcher(l) ==
    /\ serving /\ Idle /\ gen < MaxGen
    /\ l # broker /\ l \notin dead
    /\ ~Listed(l)
    /\ mem[LaunchersLen] < MaxLaunchers
    /\ LET len == mem[LaunchersLen]
       IN  begin_write(<< <<SlotPid(len + 1), l>>, <<SlotCreateTime(len + 1), l>>,
                          <<LaunchersLen, len + 1>> >>,
                       [pub EXCEPT !.gen = @ + 2, !.members = @ \cup {l}])
    /\ UNCHANGED <<mem, broker, dead, serving, rd, result, pub>>

(* The stores of a swap-remove: the last slot replaces the one that leaves. *)
SwapRemoveStores(idx, len) ==
    IF idx # len
    THEN << <<SlotPid(idx), mem[SlotPid(len)]>>,
            <<SlotCreateTime(idx), mem[SlotCreateTime(len)]>>,
            <<LaunchersLen, len - 1>> >>
    ELSE << <<LaunchersLen, len - 1>> >>

(* Called when l has exited, and to undo an attach that failed. *)
remove_launcher(l) ==
    /\ serving /\ Idle /\ gen < MaxGen
    /\ l # broker
    /\ Listed(l)
    /\ begin_write(SwapRemoveStores(Position(l), mem[LaunchersLen]),
                   [pub EXCEPT !.gen = @ + 2, !.members = @ \ {l}])
    /\ UNCHANGED <<mem, broker, dead, serving, rd, result, pub>>

(* A variant that stores what set_broker stores. *)
RebuildStores_BrokerOnly(l) ==
    << <<BrokerPid, l>>, <<BrokerCreateTime, l>>,
       <<PipeNameHead, l>>, <<PipeNameTail, l>> >>

(* The stores rebuild makes: every field, for a list of just the caller. *)
RebuildStores(l) ==
    << <<BrokerPid, l>>, <<BrokerCreateTime, l>>,
       <<PipeNameHead, l>>, <<PipeNameTail, l>>,
       <<SlotPid(1), l>>, <<SlotCreateTime(1), l>>, <<LaunchersLen, 1>> >>

(* `current | 1': the marker rebuild stores, odd whatever a dead broker left. *)
WriteMarker(current) == IF current % 2 = 0 THEN current + 1 ELSE current

(* A surviving launcher has won the database lock and rewrites the section. *)
rebuild(l) ==
    /\ broker = NoBroker
    /\ l \notin dead
    /\ gen < MaxGen
    /\ gen' = WriteMarker(gen)
    /\ todo' = RebuildStores(l)
    /\ next' = [gen |-> pub.gen + 2, broker |-> l, pipe |-> l, members |-> {l}]
    /\ broker' = l
    /\ UNCHANGED <<mem, dead, serving, rd, result, pub>>

(* The broker's process ends, perhaps in the middle of a write: the stores *)
(* it had still to make are never made.                                    *)
BrokerDies ==
    /\ broker # NoBroker
    /\ broker' = NoBroker
    /\ dead' = dead \cup {broker}
    /\ serving' = FALSE
    /\ todo' = <<>>
    /\ UNCHANGED <<gen, mem, rd, result, pub, next>>

-----------------------------------------------------------------------------
(* Reading: snapshot, one load at a time. *)

Call(r) ==
    /\ rd[r].pc = "idle"
    /\ rd' = [rd EXCEPT ![r] = Attempt("g1", 0)]
    /\ UNCHANGED <<section, writer, result>>

Return(r, outcome) ==
    /\ rd' = [rd EXCEPT ![r] = Attempt("idle", 0)]
    /\ result' = [result EXCEPT ![r] = outcome]

(* `continue': another attempt, or SeqlockRetryExhausted after the last. *)
Retry(r) ==
    \/ /\ rd[r].tries + 1 < MaxRetries
       /\ rd' = [rd EXCEPT ![r] = Attempt("g1", rd[r].tries + 1)]
       /\ UNCHANGED result
    \/ rd[r].tries + 1 >= MaxRetries /\ Return(r, {})

LoadG1(r) ==
    /\ rd[r].pc = "g1"
    /\ \/ /\ gen % 2 = 0
          /\ rd' = [rd EXCEPT ![r].pc = "read", ![r].g1 = gen]
          /\ UNCHANGED result
       \/ gen % 2 # 0 /\ Retry(r)
    /\ UNCHANGED <<section, writer>>

LoadCell(r) ==
    /\ rd[r].pc = "read"
    /\ rd' = [rd EXCEPT ![r].buf[rd[r].k] = mem[rd[r].k],
                        ![r].k = @ + 1,
                        ![r].pc = IF rd[r].k = NCells THEN "g2" ELSE "read"]
    /\ UNCHANGED <<section, writer, result>>

(* A variant that trusts the first load of the generation. *)
LoadG2_Unchecked(r) ==
    /\ rd[r].pc = "g2"
    /\ Return(r, {FolderSectionSnapshot(rd[r].g1, rd[r].buf)})
    /\ UNCHANGED <<section, writer>>

LoadG2(r) ==
    /\ rd[r].pc = "g2"
    /\ \/ gen = rd[r].g1 /\ Return(r, {FolderSectionSnapshot(gen, rd[r].buf)})
       \/ gen # rd[r].g1 /\ Retry(r)
    /\ UNCHANGED <<section, writer>>

snapshot(r) == LoadG1(r) \/ LoadCell(r) \/ LoadG2(r)

-----------------------------------------------------------------------------
Next ==
    \/ \E l \in Launcher : add_launcher(l) \/ remove_launcher(l) \/ rebuild(l)
    \/ StoreCell \/ end_write \/ BrokerDies
    \/ \E r \in Reader : Call(r) \/ snapshot(r)

Spec == Init /\ [][Next]_vars

-----------------------------------------------------------------------------
(* Properties. *)

ReaderState == [pc : {"idle", "g1", "read", "g2"}, g1 : Nat, k : 1 .. NCells + 1,
                buf : [Cell -> CellValue], tries : Nat]

Snapshot == [generation : Nat,
             broker : CellValue \X CellValue, pipe_name : CellValue \X CellValue,
             launchers : Seq(CellValue \X CellValue)]

Register == [gen : Nat, broker : Launcher, pipe : Launcher, members : SUBSET Launcher]

(* Every variable has its type; in particular the list never outgrows      *)
(* MAX_LAUNCHERS, and no write stores outside the mapped fields.           *)
TypeOK ==
    /\ gen \in Nat
    /\ mem \in [Cell -> CellValue]
    /\ mem[LaunchersLen] \in 0 .. MaxLaunchers
    /\ broker \in Launcher \cup {NoBroker}
    /\ dead \subseteq Launcher
    /\ serving \in BOOLEAN
    /\ todo \in Seq(Cell \X CellValue)
    /\ rd \in [Reader -> ReaderState]
    /\ result \in [Reader -> SUBSET Snapshot]
    /\ pub \in Register
    /\ next \in Register

(* A decoded snapshot s says what the register p says: whole identities, a *)
(* whole pipe name, and each member once, in any order.                    *)
Says(s, p) ==
    /\ s.generation = p.gen
    /\ s.broker = Identity(p.broker)
    /\ s.pipe_name = Identity(p.pipe)
    /\ {s.launchers[i] : i \in DOMAIN s.launchers} = {Identity(l) : l \in p.members}
    /\ \A i, j \in DOMAIN s.launchers : s.launchers[i] = s.launchers[j] => i = j

(* Whenever the generation is even, the cells hold exactly the last        *)
(* register a writer completed: no add_launcher, remove_launcher (with its *)
(* swap) or rebuild after a broker killed in the middle of a write leaves  *)
(* anything else behind.                                                   *)
QuiescentIsPublished ==
    gen % 2 = 0 => Says(FolderSectionSnapshot(gen, mem), pub)

(* A call of snapshot that succeeds returns the register of the last       *)
(* completed write, whole: never a mix of two writes, nor what a dead      *)
(* broker left half written.                                               *)
SnapshotIsExact ==
    [][\A r \in Reader :
          result'[r] # result[r] => \A s \in result'[r] : Says(s, pub)]_vars

(* Successive snapshots of one reader never go back to an older generation, *)
(* also across a change of broker.                                         *)
ReadersMonotone ==
    [][\A r \in Reader :
          result'[r] # result[r] =>
             \A s \in result[r], t \in result'[r] : t.generation >= s.generation]_vars

(* A snapshot as the abstract specification sees it. *)
Abstract(s) ==
    [gen |-> s.generation, broker |-> s.broker[1], pipe |-> s.pipe_name[1],
     members |-> {s.launchers[i][1] : i \in DOMAIN s.launchers}]

Atomic == INSTANCE AtomicSection WITH
              got <- [r \in Reader |-> {Abstract(s) : s \in result[r]}]

(* The seqlock implements the atomic register of AtomicSection. *)
ImplementsAtomicSection == Atomic!Spec
=============================================================================
