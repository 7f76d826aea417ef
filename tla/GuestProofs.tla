----------------------------- MODULE GuestProofs ----------------------------
(***************************************************************************)
(* What holds of a guest for every number of processes, regions, threads   *)
(* and requests: the parts of MCGuards that theorems are about.  Each part *)
(* has an inductive invariant, a lemma per action and its theorems.        *)
(***************************************************************************)
EXTENDS ProcGuard, MemoryGuard, HookRuntime, GuestIpc, SequenceTheorems, TLAPS

-----------------------------------------------------------------------------
(****************************************************************************)
(* Processes a guest spawned, holds and may touch (ProcGuard)               *)
(****************************************************************************)
Handle == [pid : ProcId, ct : 1..MaxCreated, acc : Rights]
CallState == [pc : {"idle", "spawned", "marked", "stored", "checked", "change", "end", "token"},
              pid : ProcId \cup {0}, acc : Rights \cup {{}}, stored : 0..Untracked,
              h : Handle \cup {NoHandle}]

ProcTypes ==
    /\ live \in [ProcId -> [alive : BOOLEAN, ct : 0..MaxCreated]]
    /\ created \in 0..MaxCreated
    /\ own \subseteq 1..created
    /\ tracked \in [ProcId -> own \cup crossed \cup {0, Untracked}]
    /\ kept \subseteq [pid : ProcId, ct : own \cup crossed]
    /\ held \subseteq [pid : ProcId, ct : 1..created, acc : Rights]
    /\ work \in [Worker -> CallState]
    /\ fate \in {"running", "killed"}
    /\ touched \cup crossed \cup unlisted \cup doubtful \subseteq 1..created \ own

(* Where a process may be that a call goes through to.                      *)
Reachable == own \cup crossed \cup unlisted \cup doubtful

(* A handle pins its process: the PID is not given to another.              *)
HeldPin == \A h \in held : live[h.pid].ct = h.ct

(* A process that lives was created.                                        *)
LiveIsNumbered == \A p \in ProcId : live[p].ct \in 0..created /\ (live[p].alive => live[p].ct # 0)

(* An entry without a creation time stands for a child or a doubtful process. *)
UnknownIsReachable == \A p \in ProcId : tracked[p] = 0 => live[p].ct \in Reachable

(* A handle that may change a process is to one that may be reached.        *)
HandlesReach == \A h \in held : MayChange(h) => h.ct \in Reachable

(* What a call has read and found, and what it may go on to.                *)
CallHolds(w) ==
    /\ w.pc \in {"spawned", "marked"} =>
           w.h.pid \in ProcId /\ live[w.h.pid].ct # 0 /\ w.h.ct \in own \cup crossed
    /\ w.pc \in {"stored", "checked"} => w.pid \in ProcId /\ w.acc \in Rights
    /\ w.pc = "stored" => /\ w.stored \in own \cup crossed \cup {0, Untracked}
                          /\ w.stored = 0 => live[w.pid].ct \in Reachable
    /\ w.pc = "checked" /\ live[w.pid].alive => live[w.pid].ct \in Reachable
    /\ w.pc = "token" \/ (w.pc \in {"change", "end"} /\ MayChange(w.h)) => w.h.ct \in Reachable

CallsHold == \A t \in Worker : CallHolds(work[t])

ProcInv ==
    /\ ProcTypes
    /\ LiveIsNumbered
    /\ HeldPin
    /\ UnknownIsReachable
    /\ CallsHold
    /\ HandlesReach
    /\ ForeignUntouched

LEMMA IdleCall == idleWork \in CallState /\ idleWork.pc = "idle"
  BY ProcGuardConstants DEF idleWork, CallState, Untracked

LEMMA ProcInvInit == ASSUME ProcInit PROVE ProcInv
  <1> USE DEF ProcInit
  <1>1. ProcTypes
    BY IdleCall, ProcGuardConstants DEF ProcTypes, Untracked
  <1>2. \A t \in Worker : CallHolds(work[t])
    BY IdleCall DEF CallHolds
  <1>3. UnknownIsReachable
    BY ProcGuardConstants DEF UnknownIsReachable, Untracked
  <1> QED
    BY <1>1, <1>2, <1>3
    DEF ProcInv, LiveIsNumbered, HeldPin, CallsHold, HandlesReach, ForeignUntouched

(* A step that creates no process: processes may end, histories grow, and   *)
(* one thread at most goes on, to w.                                        *)
LEMMA Grows ==
  ASSUME ProcInv, NEW w,
         UNCHANGED <<created, own>>,
         live' \in [ProcId -> [alive : BOOLEAN, ct : 0..MaxCreated]],
         \A p \in ProcId : live'[p].ct = live[p].ct /\ (live'[p].alive => live[p].alive),
         crossed \subseteq crossed', unlisted \subseteq unlisted', doubtful \subseteq doubtful',
         touched' \cup crossed' \cup unlisted' \cup doubtful' \subseteq 1..created \ own,
         touched' \subseteq Reachable',
         tracked' \in [ProcId -> own \cup crossed' \cup {0, Untracked}],
         \A p \in ProcId : tracked'[p] = 0 => live[p].ct \in Reachable',
         kept' \subseteq [pid : ProcId, ct : own \cup crossed'],
         held' \subseteq [pid : ProcId, ct : 1..created, acc : Rights],
         \A h \in held' : live[h.pid].ct = h.ct /\ (MayChange(h) => h.ct \in Reachable'),
         fate' \in {"running", "killed"},
         work' \in [Worker -> CallState],
         \A u \in Worker : work'[u] = work[u] \/ work'[u] = w,
         CallHolds(w)'
  PROVE  ProcInv'
  <1>1. Reachable \subseteq Reachable'
    BY DEF Reachable
  <1>2. ProcTypes'
    BY DEF ProcInv, ProcTypes
  <1>3. LiveIsNumbered'
    BY DEF ProcInv, LiveIsNumbered
  <1>4. HeldPin' /\ HandlesReach'
    BY DEF ProcInv, ProcTypes, HeldPin, HandlesReach, MayChange
  <1>5. UnknownIsReachable'
    BY DEF UnknownIsReachable
  <1>6. CallsHold'
    <2> SUFFICES ASSUME NEW u \in Worker, work'[u] = work[u] PROVE CallHolds(work[u])'
      BY DEF CallsHold
    <2>1. CallHolds(work[u])
      BY DEF ProcInv, CallsHold
    <2> QED
      BY <1>1, <2>1 DEF CallHolds, MayChange
  <1>7. ForeignUntouched'
    BY DEF ForeignUntouched, Reachable
  <1> QED
    BY <1>2, <1>3, <1>4, <1>5, <1>6, <1>7 DEF ProcInv

(* A new process on a PID that no handle pins.                              *)
LEMMA StartKeeps ==
  ASSUME ProcInv, NEW p \in ProcId, Fresh(p), StartProcess(p),
         own' \in {own, own \cup {created + 1}},
         crossed \subseteq crossed', unlisted' = unlisted, doubtful \subseteq doubtful',
         crossed' \cup doubtful' \subseteq 1..created' \ own',
         own' = own =>
             /\ (\E t \in Worker : work[t].pc \in {"stored", "checked"} /\ work[t].pid = p)
                    => created + 1 \in crossed'
             /\ tracked[p] = 0 => created + 1 \in doubtful',
         UNCHANGED <<tracked, kept, fate, touched>>,
         NEW child,
         held' = held \/ (held' = held \cup {child} /\ own' # own /\ child.pid = p
                          /\ child.ct = created + 1 /\ child \in [pid : ProcId, ct : 1..created', acc : Rights]),
         NEW w,
         work' \in [Worker -> CallState],
         \A u \in Worker : work'[u] = work[u] \/ work'[u] = w,
         CallHolds(w)'
  PROVE  ProcInv'
  <1>1. created' \in 0..MaxCreated /\ created' = created + 1 /\ created' \in 1..created'
    BY ProcGuardConstants DEF ProcInv, ProcTypes, StartProcess, Fresh
  <1>2. 1..created \subseteq 1..created' /\ created' \notin 1..created
    BY <1>1 DEF ProcInv, ProcTypes
  <1>3. live' = [live EXCEPT ![p] = [alive |-> TRUE, ct |-> created']]
    BY <1>1 DEF StartProcess
  <1>4. live' \in [ProcId -> [alive : BOOLEAN, ct : 0..MaxCreated]]
    <2>1. [alive |-> TRUE, ct |-> created'] \in [alive : BOOLEAN, ct : 0..MaxCreated]
      BY <1>1
    <2> QED
      BY <1>3, <2>1 DEF ProcInv, ProcTypes
  <1>5. live'[p].ct = created' /\ \A q \in ProcId : q # p => live'[q] = live[q]
    BY <1>3 DEF ProcInv, ProcTypes
  <1>6. own \subseteq own' /\ own' \subseteq 1..created' /\ (own' = own \/ created' \in own')
    BY <1>1, <1>2 DEF ProcInv, ProcTypes
  <1>7. Reachable \subseteq Reachable'
    BY <1>6 DEF Reachable
  <1>8. \A h \in held : h.pid # p
    <2> SUFFICES ASSUME NEW h \in held, h.pid = p PROVE FALSE
      OBVIOUS
    <2>1. [pid |-> h.pid, ct |-> h.ct] = Object(p)
      BY DEF ProcInv, HeldPin, Object
    <2> QED
      BY <2>1 DEF Pinned, Fresh
  <1>9. ProcTypes'
    <2>1. tracked' \in [ProcId -> own' \cup crossed' \cup {0, Untracked}]
      <3>1. tracked \in [ProcId -> own \cup crossed \cup {0, Untracked}] /\ tracked' = tracked
        BY DEF ProcInv, ProcTypes
      <3>2. own \cup crossed \cup {0, Untracked} \subseteq own' \cup crossed' \cup {0, Untracked}
        BY <1>6
      <3> QED
        BY <3>1, <3>2
    <2>2. kept' \subseteq [pid : ProcId, ct : own' \cup crossed']
      BY <1>6 DEF ProcInv, ProcTypes
    <2>3. held' \subseteq [pid : ProcId, ct : 1..created', acc : Rights]
      BY <1>2 DEF ProcInv, ProcTypes
    <2>4. touched' \cup crossed' \cup unlisted' \cup doubtful' \subseteq 1..created' \ own'
      <3>1. touched \cup unlisted \subseteq 1..created \ own
        BY DEF ProcInv, ProcTypes
      <3>2. created + 1 \notin touched \cup unlisted
        BY <1>1, <1>2, <3>1
      <3> QED
        BY <1>2, <3>1, <3>2
    <2>5. fate' \in {"running", "killed"}
      BY DEF ProcInv, ProcTypes
    <2> QED
      BY <1>1, <1>4, <1>6, <2>1, <2>2, <2>3, <2>4, <2>5 DEF ProcTypes
  <1>10. LiveIsNumbered'
    <2> SUFFICES ASSUME NEW q \in ProcId PROVE live'[q].ct \in 0..created' /\ (live'[q].alive => live'[q].ct # 0)
      BY DEF LiveIsNumbered
    <2> QED
      BY <1>1, <1>2, <1>5 DEF ProcInv, LiveIsNumbered
  <1>11. HeldPin'
    BY <1>1, <1>5, <1>8 DEF ProcInv, ProcTypes, HeldPin
  <1>12. created' \in Reachable' \/ own' = own
    BY <1>6 DEF Reachable
  <1>13. UnknownIsReachable'
    <2> SUFFICES ASSUME NEW q \in ProcId, tracked[q] = 0 PROVE live'[q].ct \in Reachable'
      BY DEF UnknownIsReachable
    <2>1. CASE q = p
      BY <1>1, <1>5, <1>12, <2>1 DEF Reachable
    <2>2. CASE q # p
      BY <1>5, <1>7, <2>2 DEF ProcInv, UnknownIsReachable
    <2> QED
      BY <2>1, <2>2
  <1>14. CallsHold'
    <2> SUFFICES ASSUME NEW u \in Worker, work'[u] = work[u] PROVE CallHolds(work[u])'
      BY DEF CallsHold
    <2>1. CallHolds(work[u])
      BY DEF ProcInv, CallsHold
    <2>2. CASE work[u].pc \in {"stored", "checked"} /\ work[u].pid = p
      <3>1. live'[p].ct \in Reachable'
        BY <1>1, <1>5, <1>12, <2>2 DEF Reachable
      <3> QED
        BY <1>6, <2>1, <2>2, <3>1 DEF CallHolds
    <2>3. CASE ~(work[u].pc \in {"stored", "checked"} /\ work[u].pid = p)
      <3>1. \A q \in ProcId : live[q].ct # 0 => live'[q].ct # 0
        BY <1>1, <1>5 DEF ProcInv, ProcTypes
      <3>2. work[u].pc \in {"stored", "checked"} => live'[work[u].pid] = live[work[u].pid]
        BY <1>5, <2>1, <2>3 DEF CallHolds
      <3> QED
        BY <1>6, <1>7, <2>1, <3>1, <3>2 DEF CallHolds, MayChange
    <2> QED
      BY <2>2, <2>3
  <1>15. HandlesReach'
    BY <1>1, <1>7, <1>12 DEF ProcInv, HandlesReach, MayChange
  <1>16. ForeignUntouched'
    BY DEF ProcInv, ForeignUntouched
  <1> QED
    BY <1>9, <1>10, <1>11, <1>13, <1>14, <1>15, <1>16 DEF ProcInv

LEMMA ForeignStartsStep ==
  ASSUME ProcInv, NEW p \in ProcId, ForeignStarts(p)
  PROVE  ProcInv'
  <1>1. created + 1 \notin own /\ created' = created + 1 /\ created + 1 \in 1..created'
    BY ProcGuardConstants DEF ForeignStarts, StartProcess, ProcInv, ProcTypes
  <1>2. crossed' \cup doubtful' \subseteq 1..created' \ own'
    BY <1>1 DEF ForeignStarts, ProcInv, ProcTypes
  <1>3. work' \in [Worker -> CallState]
    BY DEF ForeignStarts, ProcInv, ProcTypes
  <1>4. CallHolds(idleWork)'
    BY IdleCall DEF CallHolds
  <1> QED
    BY <1>2, <1>3, <1>4, StartKeeps DEF ForeignStarts

LEMMA OnCall ==
  ASSUME NEW pc \in {"spawned", "change", "end", "token"}, NEW h \in Handle
  PROVE  On(pc, h) \in CallState /\ On(pc, h).pc = pc /\ On(pc, h).h = h
  <1>1. Untracked \in 0..Untracked
    BY ProcGuardConstants DEF Untracked
  <1> QED
    BY <1>1 DEF On, idleWork, CallState

LEMMA SpawnChildStep ==
  ASSUME ProcInv, NEW t \in Worker, NEW p \in ProcId, NEW acc \in Rights, SpawnChild(t, p, acc)
  PROVE  ProcInv'
  <1> DEFINE child == [pid |-> p, ct |-> created + 1, acc |-> acc]
  <1>1. /\ Fresh(p) /\ StartProcess(p)
        /\ own' = own \cup {created + 1} /\ held' = held \cup {child}
        /\ UNCHANGED <<tracked, kept, fate, touched, unlisted, doubtful>>
    BY DEF SpawnChild
  <1>2. PICK h \in held' :
            /\ crossed' = crossed \cup Swapped(h, child)
            /\ work' = IF GetProcessId(h) = 0 THEN work ELSE [work EXCEPT ![t] = On("spawned", h)]
    BY DEF SpawnChild
  <1>3. /\ created' = created + 1 /\ created' \in 1..created' /\ created' \in 0..MaxCreated
        /\ created' \notin own /\ 1..created \subseteq 1..created'
    BY <1>1, ProcGuardConstants DEF StartProcess, Fresh, ProcInv, ProcTypes
  <1>4. child \in [pid : ProcId, ct : 1..created', acc : Rights]
    BY <1>3
  <1>5. held' \subseteq [pid : ProcId, ct : 1..created', acc : Rights]
    <2> HIDE DEF child
    <2> QED
      BY <1>1, <1>3, <1>4 DEF ProcInv, ProcTypes
  <1>6. h \in Handle /\ h.ct \in 1..created'
    <2>1. h \in [pid : ProcId, ct : 1..created', acc : Rights]
      BY <1>2, <1>5
    <2>2. 1..created' \subseteq 1..MaxCreated
      BY <1>3, ProcGuardConstants
    <2> QED
      BY <2>1, <2>2 DEF Handle
  <1>7. Swapped(h, child) \subseteq 1..created' \ own'
    <2>1. CASE h = child
      BY <2>1 DEF Swapped
    <2>2. CASE h # child
      <3>1. h \in held
        BY <1>1, <2>2
      <3>2. h.ct \in 1..created
        BY <3>1 DEF ProcInv, ProcTypes
      <3>3. created' \notin 1..created
        BY <1>3 DEF ProcInv, ProcTypes
      <3> QED
        BY <1>1, <1>3, <3>2, <3>3 DEF Swapped
    <2> QED
      BY <2>1, <2>2
  <1>8. crossed' \cup doubtful' \subseteq 1..created' \ own'
    <2>1. crossed \cup doubtful \subseteq 1..created \ own /\ created' \notin 1..created
      BY <1>3 DEF ProcInv, ProcTypes
    <2> QED
      BY <1>1, <1>2, <1>3, <1>7, <2>1
  <1>9. On("spawned", h) \in CallState /\ On("spawned", h).pc = "spawned" /\ On("spawned", h).h = h
    BY <1>6, OnCall
  <1>10. h.ct \in own' \cup crossed'
    BY <1>1, <1>2, <1>6, ProcGuardConstants DEF Swapped, NoHandle, Handle
  <1>11. CallHolds(On("spawned", h))'
    <2>1. live'[h.pid].ct # 0
      <3>1. live' = [live EXCEPT ![p] = [alive |-> TRUE, ct |-> created']]
        BY <1>1, <1>3 DEF StartProcess
      <3>2. CASE h.pid = p
        BY <1>3, <3>1, <3>2 DEF ProcInv, ProcTypes
      <3>3. CASE h.pid # p
        <4>1. h \in held
          BY <1>1, <3>3
        <4>2. live[h.pid].ct = h.ct /\ h.ct \in 1..created /\ h.pid \in ProcId
          BY <4>1 DEF ProcInv, ProcTypes, HeldPin
        <4> QED
          BY <3>1, <3>3, <4>2 DEF ProcInv, ProcTypes
      <3> QED
        BY <3>2, <3>3
    <2> QED
      BY <1>6, <1>9, <1>10, <2>1 DEF CallHolds, Handle
  <1>12. work' \in [Worker -> CallState]
    BY <1>2, <1>9 DEF ProcInv, ProcTypes
  <1>13. \A u \in Worker : work'[u] = work[u] \/ work'[u] = On("spawned", h)
    BY <1>2 DEF ProcInv, ProcTypes
  <1>14. own' # own /\ crossed \subseteq crossed' /\ child.pid = p /\ child.ct = created + 1
    BY <1>1, <1>2, <1>3
  <1> HIDE DEF child
  <1> QED
    BY <1>1, <1>4, <1>8, <1>11, <1>12, <1>13, <1>14, StartKeeps

(* A step that only takes away: handles, entries, lives.                    *)
LEMMA Turns ==
  ASSUME ProcInv, NEW w,
         UNCHANGED <<created, own, touched, crossed, unlisted, doubtful>>,
         live' \in [ProcId -> [alive : BOOLEAN, ct : 0..MaxCreated]],
         \A p \in ProcId : live'[p].ct = live[p].ct /\ (live'[p].alive => live[p].alive),
         tracked' \in [ProcId -> own \cup crossed \cup {0, Untracked}],
         \A p \in ProcId : tracked'[p] = 0 => tracked[p] = 0,
         kept' \subseteq kept, held' \subseteq held,
         fate' \in {"running", "killed"},
         work' \in [Worker -> CallState],
         \A u \in Worker : work'[u] = work[u] \/ work'[u] = w,
         CallHolds(w)
  PROVE  ProcInv'
  <1>1. Reachable' = Reachable
    BY DEF Reachable
  <1>2. CallHolds(w)'
    BY <1>1 DEF CallHolds, MayChange
  <1>3. \A p \in ProcId : tracked'[p] = 0 => live[p].ct \in Reachable'
    BY <1>1 DEF ProcInv, UnknownIsReachable
  <1>4. \A h \in held' : live[h.pid].ct = h.ct /\ (MayChange(h) => h.ct \in Reachable')
    BY <1>1 DEF ProcInv, HeldPin, HandlesReach
  <1>5. touched' \subseteq Reachable'
    BY <1>1 DEF ProcInv, ForeignUntouched, Reachable
  <1>6. /\ touched' \cup crossed' \cup unlisted' \cup doubtful' \subseteq 1..created \ own
        /\ tracked' \in [ProcId -> own \cup crossed' \cup {0, Untracked}]
        /\ kept' \subseteq [pid : ProcId, ct : own \cup crossed']
        /\ held' \subseteq [pid : ProcId, ct : 1..created, acc : Rights]
        /\ crossed \subseteq crossed' /\ unlisted \subseteq unlisted' /\ doubtful \subseteq doubtful'
    BY DEF ProcInv, ProcTypes
  <1> QED
    BY <1>2, <1>3, <1>4, <1>5, <1>6, Grows

LEMMA ExitsStep ==
  ASSUME ProcInv, NEW p \in ProcId, Exits(p)
  PROVE  ProcInv'
  <1> USE DEF Exits, history
  <1>1. live' \in [ProcId -> [alive : BOOLEAN, ct : 0..MaxCreated]]
    BY DEF ProcInv, ProcTypes
  <1>2. \A q \in ProcId : live'[q].ct = live[q].ct /\ (live'[q].alive => live[q].alive)
    BY DEF ProcInv, ProcTypes
  <1>3. CallHolds(idleWork)
    BY IdleCall DEF CallHolds
  <1>4. tracked' = tracked /\ tracked \in [ProcId -> own \cup crossed \cup {0, Untracked}]
        /\ fate' \in {"running", "killed"} /\ work' = work /\ work \in [Worker -> CallState]
    BY DEF ProcInv, ProcTypes
  <1> QED
    BY <1>1, <1>2, <1>3, <1>4, Turns

(* What the value of a handle names, when it is a process.                  *)
LEMMA NamedFacts ==
  ASSUME ProcInv, NEW h, NEW g \in Named(h)
  PROVE  /\ g \in held \/ g = NoHandle
         /\ Swapped(g, h) \subseteq 1..created \ own
         /\ g = h \/ g = NoHandle \/ g.ct \in own \cup Swapped(g, h)
  BY DEF ProcInv, ProcTypes, Named, Swapped, NoHandle

LEMMA MarkStep ==
  ASSUME ProcInv, NEW t \in Worker, NEW g, NEW ct \in 0..MaxCreated, mark_spawned(t, g, ct)
  PROVE  ProcInv'
  <1> DEFINE h == work[t].h
  <1>1. /\ g \in Named(h) /\ ct \in {0, g.ct} /\ work[t].pc = "spawned"
        /\ tracked' = [tracked EXCEPT ![h.pid] = ct]
        /\ crossed' = crossed \cup Swapped(g, h)
        /\ doubtful' = IF ct = 0 THEN doubtful \cup ({live[h.pid].ct} \ own) ELSE doubtful
        /\ UNCHANGED <<live, created, own, kept, held, fate, touched, unlisted>>
    BY DEF mark_spawned
  <1>2. h.pid \in ProcId /\ h.ct \in own \cup crossed /\ live[h.pid].ct # 0
    BY <1>1 DEF ProcInv, CallsHold, CallHolds
  <1>3. PICK w \in CallState : w.pc = "marked" /\ w.h = h /\ work' = [work EXCEPT ![t] = w]
    <2>1. [work[t] EXCEPT !.pc = "marked"] \in CallState
      BY DEF ProcInv, ProcTypes, CallState
    <2> QED
      BY <2>1 DEF mark_spawned, ProcInv, ProcTypes, CallState
  <1> HIDE DEF h
  <1>4. ct \in own \cup crossed' \cup {0}
    BY <1>1, <1>2, NamedFacts DEF NoHandle
  <1>5. Swapped(g, h) \subseteq 1..created \ own
    BY <1>1, NamedFacts
  <1>6. live[h.pid].ct \in 1..created
    BY <1>2 DEF ProcInv, ProcTypes, LiveIsNumbered
  <1>7. /\ touched' \cup crossed' \cup unlisted' \cup doubtful' \subseteq 1..created \ own
        /\ crossed \subseteq crossed' /\ unlisted \subseteq unlisted' /\ doubtful \subseteq doubtful'
    BY <1>1, <1>5, <1>6 DEF ProcInv, ProcTypes
  <1>8. Reachable \subseteq Reachable'
    BY <1>1, <1>7 DEF Reachable
  <1>9. tracked' \in [ProcId -> own \cup crossed' \cup {0, Untracked}]
    <2>1. tracked \in [ProcId -> own \cup crossed' \cup {0, Untracked}]
      <3>1. tracked \in [ProcId -> own \cup crossed \cup {0, Untracked}]
        BY DEF ProcInv, ProcTypes
      <3> QED
        BY <1>7, <3>1
    <2> QED
      BY <1>1, <1>2, <1>4, <2>1
  <1>10. \A p \in ProcId : tracked'[p] = 0 => live[p].ct \in Reachable'
    <2> SUFFICES ASSUME NEW p \in ProcId, tracked'[p] = 0 PROVE live[p].ct \in Reachable'
      OBVIOUS
    <2>1. CASE p # h.pid
      BY <1>1, <1>8, <2>1 DEF ProcInv, ProcTypes, UnknownIsReachable
    <2>2. CASE p = h.pid
      <3>1. ct = 0
        BY <1>1, <1>2, <2>2 DEF ProcInv, ProcTypes
      <3> QED
        BY <1>1, <2>2, <3>1 DEF Reachable
    <2> QED
      BY <2>1, <2>2
  <1>11. /\ kept' \subseteq [pid : ProcId, ct : own \cup crossed']
         /\ held' \subseteq [pid : ProcId, ct : 1..created, acc : Rights]
         /\ fate' \in {"running", "killed"}
         /\ live' \in [ProcId -> [alive : BOOLEAN, ct : 0..MaxCreated]]
    BY <1>1, <1>7 DEF ProcInv, ProcTypes
  <1>12. \A x \in held' : live[x.pid].ct = x.ct /\ (MayChange(x) => x.ct \in Reachable')
    BY <1>1, <1>8 DEF ProcInv, HeldPin, HandlesReach
  <1>13. touched' \subseteq Reachable'
    BY <1>1, <1>8 DEF ProcInv, ForeignUntouched, Reachable
  <1>14. CallHolds(w)'
    BY <1>1, <1>2, <1>3, <1>7 DEF CallHolds
  <1>15. work' \in [Worker -> CallState] /\ \A u \in Worker : work'[u] = work[u] \/ work'[u] = w
    BY <1>3 DEF ProcInv, ProcTypes
  <1> QED
    BY <1>1, <1>7, <1>9, <1>10, <1>11, <1>12, <1>13, <1>14, <1>15, Grows

(* A step that only adds to the histories, to the handles and to the        *)
(* duplicates.                                                              *)
LEMMA Adds ==
  ASSUME ProcInv, NEW t \in Worker, NEW w \in CallState, work' = [work EXCEPT ![t] = w],
         UNCHANGED <<live, created, own, tracked, fate, touched, doubtful>>,
         crossed \subseteq crossed', unlisted \subseteq unlisted',
         crossed' \cup unlisted' \subseteq 1..created \ own,
         kept' \subseteq kept \cup [pid : ProcId, ct : own \cup crossed'],
         held' \subseteq held \cup {h \in [pid : ProcId, ct : 1..created, acc : Rights] :
                                     live[h.pid].ct = h.ct /\ (MayChange(h) => h.ct \in Reachable')},
         CallHolds(w)'
  PROVE  ProcInv'
  <1>1. Reachable \subseteq Reachable'
    BY DEF Reachable
  <1>2. tracked' \in [ProcId -> own \cup crossed' \cup {0, Untracked}]
    <2>1. tracked \in [ProcId -> own \cup crossed \cup {0, Untracked}]
      BY DEF ProcInv, ProcTypes
    <2> QED
      BY <2>1
  <1>3. \A p \in ProcId : tracked'[p] = 0 => live[p].ct \in Reachable'
    BY <1>1 DEF ProcInv, UnknownIsReachable
  <1>4. /\ kept' \subseteq [pid : ProcId, ct : own \cup crossed']
        /\ fate' \in {"running", "killed"}
        /\ live' \in [ProcId -> [alive : BOOLEAN, ct : 0..MaxCreated]]
        /\ touched' \cup crossed' \cup unlisted' \cup doubtful' \subseteq 1..created \ own
    BY DEF ProcInv, ProcTypes
  <1>5. \A x \in held' : /\ x \in [pid : ProcId, ct : 1..created, acc : Rights]
                         /\ live[x.pid].ct = x.ct /\ (MayChange(x) => x.ct \in Reachable')
    BY <1>1 DEF ProcInv, ProcTypes, HeldPin, HandlesReach
  <1>6. touched' \subseteq Reachable'
    BY <1>1 DEF ProcInv, ForeignUntouched, Reachable
  <1>7. work' \in [Worker -> CallState] /\ \A u \in Worker : work'[u] = work[u] \/ work'[u] = w
    BY DEF ProcInv, ProcTypes
  <1> QED
    BY <1>2, <1>3, <1>4, <1>5, <1>6, <1>7, Grows

LEMMA RememberStep ==
  ASSUME ProcInv, NEW t \in Worker, NEW g, NEW ok \in BOOLEAN, remember(t, g, ok)
  PROVE  ProcInv'
  <1> DEFINE h == work[t].h
  <1>1. /\ g \in Named(h)
        /\ kept' = IF ok /\ g # NoHandle THEN prune(kept) \cup {[pid |-> g.pid, ct |-> g.ct]} ELSE kept
        /\ work' = [work EXCEPT ![t] = idleWork]
        /\ crossed' = crossed \cup Swapped(g, h)
        /\ UNCHANGED <<live, created, own, tracked, held, fate, touched, unlisted, doubtful>>
    BY DEF remember
  <1>2. h.ct \in own \cup crossed
    BY DEF remember, ProcInv, CallsHold, CallHolds
  <1> HIDE DEF h
  <1>3. kept' \subseteq kept \cup [pid : ProcId, ct : own \cup crossed']
    <2>1. g # NoHandle => g.pid \in ProcId /\ g.ct \in own \cup crossed'
      BY <1>1, <1>2, NamedFacts DEF ProcInv, ProcTypes
    <2> QED
      BY <1>1, <2>1 DEF prune
  <1>4. crossed' \cup unlisted' \subseteq 1..created \ own
    BY <1>1, NamedFacts DEF ProcInv, ProcTypes
  <1>5. CallHolds(idleWork)'
    BY IdleCall DEF CallHolds
  <1> QED
    BY <1>1, <1>3, <1>4, <1>5, IdleCall, Adds

(* What an open adds to the handles.                                        *)
LEMMA Opened ==
  ASSUME ProcInv, NEW p \in ProcId, NEW acc \in Rights, OpensHandle(p, acc),
         acc # {"query"} /\ live[p].alive => live[p].ct \in Reachable'
  PROVE  held' \subseteq held \cup {h \in [pid : ProcId, ct : 1..created, acc : Rights] :
                                     live[h.pid].ct = h.ct /\ (MayChange(h) => h.ct \in Reachable')}
  <1> DEFINE h == [pid |-> p, ct |-> live[p].ct, acc |-> acc]
  <1> SUFFICES ASSUME live[p].alive
               PROVE  /\ h \in [pid : ProcId, ct : 1..created, acc : Rights]
                      /\ live[h.pid].ct = h.ct /\ (MayChange(h) => h.ct \in Reachable')
    BY DEF OpensHandle
  <1>1. live[p].ct \in 1..created
    BY DEF ProcInv, ProcTypes, LiveIsNumbered
  <1>2. MayChange(h) => acc # {"query"}
    BY DEF MayChange
  <1> QED
    BY <1>1, <1>2

LEMMA OpenStep ==
  ASSUME ProcInv, NEW t \in Worker, NEW p \in ProcId, NEW acc \in Rights,
         hook_nt_open_process(t, p, acc)
  PROVE  ProcInv'
  <1>1. UNCHANGED <<live, created, own, tracked, kept, fate, touched, crossed, doubtful>>
    BY DEF hook_nt_open_process
  <1>2. CASE "listed" \in acc
    <2>1. UNCHANGED <<held, unlisted>>
      BY <1>2 DEF hook_nt_open_process
    <2>2. tracked[p] \in own \cup crossed \cup {0, Untracked}
      BY DEF ProcInv, ProcTypes
    <2>3. tracked[p] \in 0..Untracked
      <3>1. own \cup crossed \subseteq 1..created /\ created \in 0..MaxCreated
        BY DEF ProcInv, ProcTypes
      <3> QED
        BY <2>2, <3>1, ProcGuardConstants DEF Untracked
    <2>4. PICK w \in CallState : /\ w.pc = "stored" /\ w.pid = p /\ w.acc = acc
                                 /\ w.stored = tracked[p]
                                 /\ work' = [work EXCEPT ![t] = w]
      <3> DEFINE w == [idleWork EXCEPT !.pc = "stored", !.pid = p, !.acc = acc, !.stored = tracked[p]]
      <3>1. /\ w \in CallState /\ w.pc = "stored" /\ w.pid = p /\ w.acc = acc
            /\ w.stored = tracked[p]
        BY <2>3 DEF idleWork, CallState
      <3>2. work' = [work EXCEPT ![t] = w]
        BY <1>2 DEF hook_nt_open_process
      <3> QED
        BY <3>1, <3>2
    <2>5. CallHolds(w)'
      BY <1>1, <2>1, <2>2, <2>4 DEF CallHolds, Reachable, ProcInv, UnknownIsReachable
    <2>6. crossed' \cup unlisted' \subseteq 1..created \ own
      BY <1>1, <2>1 DEF ProcInv, ProcTypes
    <2> QED
      BY <1>1, <2>1, <2>4, <2>5, <2>6, Adds
  <1>3. CASE "listed" \notin acc
    <2>1. /\ OpensHandle(p, acc) /\ work' = work
          /\ unlisted' = IF "unlisted" \in acc /\ live[p].alive
                         THEN unlisted \cup ({live[p].ct} \ own) ELSE unlisted
      BY <1>3 DEF hook_nt_open_process
    <2>2. live[p].alive => live[p].ct \in 1..created
      BY DEF ProcInv, ProcTypes, LiveIsNumbered
    <2>3. unlisted \subseteq unlisted' /\ crossed' \cup unlisted' \subseteq 1..created \ own
      BY <1>1, <2>1, <2>2 DEF ProcInv, ProcTypes
    <2>4. acc # {"query"} => "unlisted" \in acc
      BY <1>3 DEF Rights
    <2>5. acc # {"query"} /\ live[p].alive => live[p].ct \in Reachable'
      BY <1>1, <2>1, <2>4 DEF Reachable
    <2>6. held' \subseteq held \cup {h \in [pid : ProcId, ct : 1..created, acc : Rights] :
                                     live[h.pid].ct = h.ct /\ (MayChange(h) => h.ct \in Reachable')}
      BY <2>1, <2>5, Opened
    <2>7. work[t] \in CallState /\ work' = [work EXCEPT ![t] = work[t]]
      BY <2>1 DEF ProcInv, ProcTypes
    <2>8. work[t].pc = "idle"
      BY DEF hook_nt_open_process
    <2>9. PICK w \in CallState : work' = [work EXCEPT ![t] = w] /\ w.pc = "idle"
      BY <2>7, <2>8
    <2>10. CallHolds(w)'
      BY <2>9 DEF CallHolds
    <2> QED
      BY <1>1, <2>3, <2>6, <2>9, <2>10, Adds
  <1> QED
    BY <1>2, <1>3

LEMMA VerifyStep ==
  ASSUME ProcInv, NEW t \in Worker, OpenVerify(t)
  PROVE  ProcInv'
  <1>1. UNCHANGED <<live, created, own, tracked, kept, held, fate, touched, crossed, unlisted, doubtful>>
    BY DEF OpenVerify, history
  <1>2. crossed' \cup unlisted' \subseteq 1..created \ own
    BY <1>1 DEF ProcInv, ProcTypes
  <1>3. CASE work' = [work EXCEPT ![t] = idleWork]
    <2>1. CallHolds(idleWork)'
      BY IdleCall DEF CallHolds
    <2> QED
      BY <1>1, <1>2, <1>3, <2>1, IdleCall, Adds
  <1>4. CASE Verified(work[t].stored, work[t].pid) /\ work' = [work EXCEPT ![t].pc = "checked"]
    <2>1. PICK w \in CallState : /\ w.pc = "checked" /\ w.pid = work[t].pid /\ w.acc = work[t].acc
                                 /\ work' = [work EXCEPT ![t] = w]
      <3>1. [work[t] EXCEPT !.pc = "checked"] \in CallState
        BY DEF ProcInv, ProcTypes, CallState
      <3> QED
        BY <1>4, <3>1 DEF ProcInv, ProcTypes, CallState
    <2>2. /\ work[t].pid \in ProcId /\ work[t].acc \in Rights
          /\ work[t].stored \in own \cup crossed \cup {0, Untracked}
          /\ work[t].stored = 0 => live[work[t].pid].ct \in Reachable
      BY DEF ProcInv, CallsHold, CallHolds, OpenVerify
    <2>3. live[work[t].pid].alive => live[work[t].pid].ct \in Reachable
      BY <1>4, <2>2 DEF Verified, query_process_create_time, Reachable
    <2>4. CallHolds(w)'
      BY <1>1, <2>1, <2>2, <2>3 DEF CallHolds, Reachable
    <2> QED
      BY <1>1, <1>2, <2>1, <2>4, Adds
  <1> QED
    BY <1>3, <1>4 DEF OpenVerify

LEMMA OpenOriginalStep ==
  ASSUME ProcInv, NEW t \in Worker, NEW p \in ProcId, OpenOriginal(t, p)
  PROVE  ProcInv'
  <1>1. /\ OpensHandle(p, work[t].acc) /\ work' = [work EXCEPT ![t] = idleWork]
        /\ crossed' = IF p # work[t].pid /\ live[p].alive
                      THEN crossed \cup ({live[p].ct} \ own) ELSE crossed
        /\ UNCHANGED <<live, created, own, tracked, kept, fate, touched, unlisted, doubtful>>
    BY DEF OpenOriginal
  <1>2. /\ work[t].acc \in Rights
        /\ live[work[t].pid].alive => live[work[t].pid].ct \in Reachable
    BY DEF ProcInv, CallsHold, CallHolds, OpenOriginal
  <1>3. live[p].alive => live[p].ct \in 1..created
    BY DEF ProcInv, ProcTypes, LiveIsNumbered
  <1>4. crossed \subseteq crossed' /\ crossed' \cup unlisted' \subseteq 1..created \ own
    BY <1>1, <1>3 DEF ProcInv, ProcTypes
  <1>5. live[p].alive => live[p].ct \in Reachable'
    BY <1>1, <1>2, <1>4 DEF Reachable
  <1>6. held' \subseteq held \cup {h \in [pid : ProcId, ct : 1..created, acc : Rights] :
                                   live[h.pid].ct = h.ct /\ (MayChange(h) => h.ct \in Reachable')}
    BY <1>1, <1>2, <1>5, Opened
  <1>7. CallHolds(idleWork)'
    BY IdleCall DEF CallHolds
  <1> QED
    BY <1>1, <1>4, <1>6, <1>7, IdleCall, Adds

LEMMA CloseStep ==
  ASSUME ProcInv, NEW h \in held, CloseHandle(h)
  PROVE  ProcInv'
  <1> USE DEF CloseHandle, history
  <1>1. /\ live' \in [ProcId -> [alive : BOOLEAN, ct : 0..MaxCreated]]
        /\ tracked' \in [ProcId -> own \cup crossed \cup {0, Untracked}]
        /\ fate' \in {"running", "killed"} /\ work' = work /\ work \in [Worker -> CallState]
    BY DEF ProcInv, ProcTypes
  <1>2. CallHolds(idleWork)
    BY IdleCall DEF CallHolds
  <1> QED
    BY <1>1, <1>2, Turns

(* What the hooks go on to: whatever is asked of a handle that may change   *)
(* its process, or of a child the token of.                                 *)
HookEffect(t, h) ==
    /\ UNCHANGED onHandle
    /\ tracked' = tracked \/ tracked' = [tracked EXCEPT ![h.pid] = Untracked]
    /\ kept' \subseteq kept
    /\ \/ Refused
       \/ report_and_terminate
       \/ GoesOn(t, h, "change") \/ GoesOn(t, h, "end")
       \/ GoesOn(t, h, "token") /\ is_owned_child(h.pid)

LEMMA HookEffects ==
  ASSUME NEW t \in Worker, NEW h \in held, HandleCall(t, h)
  PROVE  HookEffect(t, h)
  <1> USE DEF HookEffect
  <1>1. ASSUME NEW x \in BOOLEAN, ForeignExec(t, h, x) PROVE HookEffect(t, h)
    BY <1>1 DEF ForeignExec
  <1>2. ASSUME NEW stack, ThreadCall(t, h, stack) PROVE HookEffect(t, h)
    BY <1>2 DEF ThreadCall
  <1>3. CASE \E x \in BOOLEAN : \/ foreign_allocate(t, h, x)
                                 \/ foreign_allocate_ex(t, h, x)
                                 \/ foreign_protect(t, h, x)
    BY <1>1, <1>3 DEF foreign_allocate, foreign_allocate_ex, foreign_protect
  <1>4. CASE foreign_write(t, h)
    BY <1>4 DEF foreign_write
  <1>5. CASE foreign_map_view(t, h) \/ foreign_unmap_view(t, h)
    BY <1>5 DEF foreign_map_view, foreign_unmap_view
  <1>6. CASE hook_nt_create_thread_ex(t, h) \/ hook_nt_create_thread(t, h)
    BY <1>2, <1>6 DEF hook_nt_create_thread_ex, hook_nt_create_thread
  <1>7. CASE hook_nt_assign_process_to_job_object(t, h)
    BY <1>7 DEF hook_nt_assign_process_to_job_object, prune
  <1>8. CASE \E class \in InformationClass : hook_nt_set_information_process(t, h, class)
    BY <1>8 DEF hook_nt_set_information_process
  <1>9. CASE hook_nt_open_process_token_ex(t, h)
    BY <1>9 DEF hook_nt_open_process_token_ex, is_untrusted_token_pid, token_process_pid, GetProcessId
  <1>10. CASE hook_nt_terminate_process(t, h)
    BY <1>10 DEF hook_nt_terminate_process, forget
  <1> QED
    BY <1>3, <1>4, <1>5, <1>6, <1>7, <1>8, <1>9, <1>10 DEF HandleCall

LEMMA HandleCallStep ==
  ASSUME ProcInv, NEW t \in Worker, NEW h \in held, HandleCall(t, h)
  PROVE  ProcInv'
  <1>1. HookEffect(t, h)
    BY HookEffects
  <1>2. /\ h \in Handle /\ live[h.pid].ct = h.ct /\ (MayChange(h) => h.ct \in Reachable)
        /\ h.pid \in ProcId /\ h.ct \in 1..created
    BY DEF ProcInv, ProcTypes, HeldPin, HandlesReach, Handle
  <1>3. /\ UNCHANGED <<live, created, own, held, touched, crossed, unlisted, doubtful>>
        /\ kept' \subseteq kept
    BY <1>1 DEF HookEffect, onHandle, history
  <1>4. tracked' \in [ProcId -> own \cup crossed \cup {0, Untracked}]
    BY <1>1, <1>2 DEF ProcInv, ProcTypes, HookEffect
  <1>5. \A p \in ProcId : tracked'[p] = 0 => tracked[p] = 0
    BY <1>1, <1>2, ProcGuardConstants DEF ProcInv, ProcTypes, HookEffect, Untracked
  <1>6. fate' \in {"running", "killed"} /\ live' \in [ProcId -> [alive : BOOLEAN, ct : 0..MaxCreated]]
    BY <1>1, <1>3 DEF ProcInv, ProcTypes, HookEffect, Refused, report_and_terminate, GoesOn
  <1>7. CASE work' = work
    <2>1. CallHolds(idleWork)
      BY IdleCall DEF CallHolds
    <2>2. work' \in [Worker -> CallState]
      BY <1>7 DEF ProcInv, ProcTypes
    <2> QED
      BY <1>3, <1>4, <1>5, <1>6, <1>7, <2>1, <2>2, Turns
  <1>8. ASSUME NEW pc \in {"change", "end", "token"}, work' = [work EXCEPT ![t] = On(pc, h)],
               pc = "token" => is_owned_child(h.pid)
        PROVE  ProcInv'
    <2>1. On(pc, h) \in CallState /\ On(pc, h).pc = pc /\ On(pc, h).h = h
      BY <1>2, OnCall
    <2>2. is_owned_child(h.pid) => h.ct \in Reachable
      <3>1. tracked[h.pid] \in own \cup crossed \cup {0, Untracked}
        BY <1>2 DEF ProcInv, ProcTypes
      <3>2. tracked[h.pid] = 0 => live[h.pid].ct \in Reachable
        BY <1>2 DEF ProcInv, UnknownIsReachable
      <3> QED
        BY <1>2, <3>1, <3>2 DEF is_owned_child, Verified, query_process_create_time, Reachable
    <2>3. CallHolds(On(pc, h))
      BY <1>2, <1>8, <2>1, <2>2 DEF CallHolds
    <2>4. work' \in [Worker -> CallState] /\ \A u \in Worker : work'[u] = work[u] \/ work'[u] = On(pc, h)
      BY <1>8, <2>1 DEF ProcInv, ProcTypes
    <2> QED
      BY <1>3, <1>4, <1>5, <1>6, <2>3, <2>4, Turns
  <1> QED
    BY <1>1, <1>7, <1>8 DEF HookEffect, Refused, report_and_terminate, GoesOn

LEMMA OriginalStep ==
  ASSUME ProcInv, NEW t \in Worker, Original(t)
  PROVE  ProcInv'
  <1> DEFINE w == work[t]
             Reached(g) == IF w.pc = "token" THEN "query" \in g.acc ELSE MayChange(g)
  <1>1. PICK g \in Named(w.h) :
            /\ touched' = IF Reached(g) THEN touched \cup ({g.ct} \ own) ELSE touched
            /\ crossed' = crossed \cup Swapped(g, w.h)
            /\ live' = IF w.pc = "end" /\ Reached(g) /\ live[g.pid].ct = g.ct
                       THEN [live EXCEPT ![g.pid].alive = FALSE] ELSE live
    BY DEF Original
  <1>2. /\ w.pc \in {"change", "end", "token"} /\ work' = [work EXCEPT ![t] = idleWork]
        /\ UNCHANGED <<created, own, tracked, kept, held, fate, unlisted, doubtful>>
    BY DEF Original
  <1>3. CallHolds(w)
    BY DEF ProcInv, CallsHold
  <1>4. /\ g \in held \/ g = NoHandle
        /\ Swapped(g, w.h) \subseteq 1..created \ own
        /\ g = w.h \/ g = NoHandle \/ g.ct \in own \cup Swapped(g, w.h)
    BY <1>1, NamedFacts
  <1>5. Reached(g) => g \in held
    BY <1>4 DEF NoHandle, MayChange
  <1>6. g \in held => g.pid \in ProcId /\ g.ct \in 1..created
    BY DEF ProcInv, ProcTypes
  <1>7. crossed \subseteq crossed' /\ Reachable \subseteq Reachable'
    BY <1>1, <1>2 DEF Reachable
  <1>8. Reached(g) => g.ct \in Reachable'
    <2>1. CASE g = w.h
      BY <1>2, <1>3, <1>7, <2>1 DEF CallHolds
    <2>2. CASE g.ct \in own \cup Swapped(g, w.h)
      BY <1>1, <1>2, <2>2 DEF Reachable
    <2>3. CASE g = NoHandle
      BY <2>3 DEF NoHandle, MayChange
    <2> QED
      BY <1>4, <2>1, <2>2, <2>3
  <1> HIDE DEF w, Reached
  <1>9. touched' \cup crossed' \cup unlisted' \cup doubtful' \subseteq 1..created \ own
    BY <1>1, <1>2, <1>4, <1>5, <1>6 DEF ProcInv, ProcTypes
  <1>10. touched' \subseteq Reachable'
    <2>1. touched \subseteq Reachable'
      BY <1>7 DEF ProcInv, ForeignUntouched, Reachable
    <2> QED
      BY <1>1, <1>8, <2>1
  <1>11. /\ live' \in [ProcId -> [alive : BOOLEAN, ct : 0..MaxCreated]]
         /\ \A p \in ProcId : live'[p].ct = live[p].ct /\ (live'[p].alive => live[p].alive)
    BY <1>1, <1>5, <1>6 DEF ProcInv, ProcTypes
  <1>12. tracked' \in [ProcId -> own \cup crossed' \cup {0, Untracked}]
    <2>1. tracked \in [ProcId -> own \cup crossed \cup {0, Untracked}]
      BY DEF ProcInv, ProcTypes
    <2> QED
      BY <1>2, <1>7, <2>1
  <1>13. \A p \in ProcId : tracked'[p] = 0 => live[p].ct \in Reachable'
    BY <1>2, <1>7 DEF ProcInv, UnknownIsReachable
  <1>14. /\ kept' \subseteq [pid : ProcId, ct : own \cup crossed']
         /\ held' \subseteq [pid : ProcId, ct : 1..created, acc : Rights]
         /\ fate' \in {"running", "killed"}
    BY <1>2, <1>7 DEF ProcInv, ProcTypes
  <1>15. \A h \in held' : live[h.pid].ct = h.ct /\ (MayChange(h) => h.ct \in Reachable')
    BY <1>2, <1>7 DEF ProcInv, HeldPin, HandlesReach
  <1>16. work' \in [Worker -> CallState] /\ \A u \in Worker : work'[u] = work[u] \/ work'[u] = idleWork
    BY <1>2, IdleCall DEF ProcInv, ProcTypes
  <1>17. CallHolds(idleWork)'
    BY IdleCall DEF CallHolds
  <1> QED
    BY <1>2, <1>7, <1>9, <1>10, <1>11, <1>12, <1>13, <1>14, <1>15, <1>16, <1>17, Grows

LEMMA ProcInvStep == ASSUME ProcInv, [ProcNext]_procVars PROVE ProcInv'
  <1>1. CASE \E p \in ProcId : ForeignStarts(p) \/ Exits(p)
    BY <1>1, ForeignStartsStep, ExitsStep
  <1>2. ASSUME NEW t \in Worker,
               \/ \E p \in ProcId, acc \in Rights : SpawnChild(t, p, acc)
               \/ \E g \in held \cup {NoHandle} :
                      \/ \E ct \in 0..MaxCreated : mark_spawned(t, g, ct)
                      \/ \E ok \in BOOLEAN : remember(t, g, ok)
        PROVE  ProcInv'
    BY <1>2, SpawnChildStep, MarkStep, RememberStep
  <1>3. ASSUME NEW t \in Worker,
               \/ \E p \in ProcId, acc \in Rights : hook_nt_open_process(t, p, acc)
               \/ OpenVerify(t)
               \/ \E p \in ProcId : OpenOriginal(t, p)
               \/ \E h \in held : HandleCall(t, h)
               \/ Original(t)
        PROVE  ProcInv'
    BY <1>3, OpenStep, VerifyStep, OpenOriginalStep, HandleCallStep, OriginalStep
  <1>4. CASE \E h \in held : CloseHandle(h)
    BY <1>4, CloseStep
  <1>5. CASE UNCHANGED procVars
    BY <1>5 DEF procVars, ProcInv, ProcTypes, HeldPin, UnknownIsReachable, CallsHold, CallHolds,
                HandlesReach, ForeignUntouched, Reachable, LiveIsNumbered, MayChange
  <1> QED
    BY <1>1, <1>2, <1>3, <1>4, <1>5 DEF ProcNext

(* Every variable keeps its type; in particular an entry of the tracker and *)
(* a duplicate the guard keeps name only processes this guest created, or   *)
(* that took the place of one.                                              *)
THEOREM ProcTypeCorrect == ProcSpec => []ProcTypeOK
  <1>1. ProcInv => ProcTypeOK
    BY DEF ProcInv, ProcTypes, ProcTypeOK
  <1> QED
    BY <1>1, ProcInvInit, ProcInvStep, PTL DEF ProcSpec

(* For any number of processes, threads and handles: no hooked call goes    *)
(* through to a process the guest did not create, but for the exceptions    *)
(* that ForeignUntouched names.                                             *)
THEOREM ForeignsUntouched == ProcSpec => []ForeignUntouched
  <1>1. ProcInv => ForeignUntouched
    BY DEF ProcInv
  <1> QED
    BY <1>1, ProcInvInit, ProcInvStep, PTL DEF ProcSpec

-----------------------------------------------------------------------------
(****************************************************************************)
(* The memory of a guest (MemoryGuard)                                      *)
(****************************************************************************)
View == [kind : Kind, origin : Origin, prot : Prot, bytes : [Chunk -> Bytes]]
ScanState == [pc : {"idle", "scan", "flip", "inspect"}, r : Region, start : Chunk,
              prot : Prot, sweep : 0..4, next : Chunk]

(* Every key of the cache is of a chunk that was decoded clean.             *)
CacheClean == \A k \in cache : ~has_direct_syscall(k[4], k[2] = k[3], TRUE)

(* Of a call w and its region v, where the chunks of l were stored to late: *)
(* what the call has read for the last time was clean, or is late.          *)
Cleared(w, v, l) ==
    \A c \in Chunk : Settled(w, c, v.bytes[c]) =>
        c \in l \/ ~has_direct_syscall(v.bytes[c], c = 1 \/ c = w.start, TRUE)

Viewed(w, v, l) ==
    \A c \in Chunk : c < w.next => c \in l \/ ~has_direct_syscall(v.bytes[c], c = 1, FALSE)

CallSound(w, v, l) ==
    /\ w.pc = "scan" => w.sweep \in 1..Len(Sweeps(w.start)) /\ is_executable(w.prot)
    /\ w.pc \in {"scan", "flip"} /\ is_executable(w.prot) /\ v.kind # "image" => Cleared(w, v, l)
    /\ w.pc = "inspect" => v.kind \in MappedKind /\ Viewed(w, v, l)

RegionKept(v, e) ==
    /\ v.kind = "free" => v = FreeRegion
    /\ ~is_executable(v.prot) => e = {}

(* The two halves of ExecutableIsScanned, of one region.                    *)
Scanned(v, l, e) ==
    v.kind \in {"private", "file", "anonymous"} /\ e # {} =>
        \A c \in Chunk : c \in l \/ ~has_direct_syscall(v.bytes[c], c \in e \/ c = 1, TRUE)

Looked(v, l, e, inspected, full) ==
    /\ v.kind \in {"image", "file", "anonymous"}
    /\ v.origin = "user" \/ v.kind # "image"
    /\ e = {} /\ ~inspected
    => /\ v.kind # "anonymous"
       /\ full => \A c \in Chunk : c \in l \/ ~has_direct_syscall(v.bytes[c], c = 1, FALSE)

Admitted(v, l, e, inspected, full) ==
    is_executable(v.prot) => Scanned(v, l, e) /\ Looked(v, l, e, inspected, full)

(* Where nothing was looked at, or not all of it yet.                       *)
Exempt(r) == Inspected(r) \/ r \in unscanned

MemInv ==
    /\ MemTypeOK
    /\ CacheClean
    /\ Alive => \A t \in MemThread : CallSound(scan[t], region[scan[t].r], late[scan[t].r])
    /\ Alive => \A r \in Region : RegionKept(region[r], entry[r])
    /\ Alive => \A r \in Region : Admitted(region[r], late[r], entry[r], Exempt(r), is_full_or_static)

-----------------------------------------------------------------------------
LEMMA ChunkFacts == 1 \in Chunk /\ Chunk \subseteq Nat /\ Chunks \in Chunk /\ \A c \in Chunk : c <= Chunks
  BY MemoryConstants DEF Chunk

LEMMA Blanks ==
  /\ Plain \in [Chunk -> Bytes] /\ \A c \in Chunk : Plain[c] = "plain"
  /\ FreeRegion \in View /\ FreeRegion.kind = "free" /\ FreeRegion.prot = "none"
  /\ FreeRegion.bytes = Plain
  /\ NoScan \in ScanState /\ NoScan.pc = "idle"
  <1>1. Plain \in [Chunk -> Bytes] /\ \A c \in Chunk : Plain[c] = "plain"
    BY DEF Plain, Bytes
  <1>2. FreeRegion \in View /\ FreeRegion.kind = "free" /\ FreeRegion.prot = "none"
        /\ FreeRegion.bytes = Plain
    BY <1>1 DEF FreeRegion, View, Kind, Origin, Prot
  <1>3. (CHOOSE r \in Region : TRUE) \in Region
    BY MemoryConstants
  <1>4. NoScan \in ScanState /\ NoScan.pc = "idle"
    BY <1>3, ChunkFacts DEF NoScan, ScanState, Prot
  <1> QED
    BY <1>1, <1>2, <1>4

LEMMA PlainIsClean == ASSUME NEW a, NEW s PROVE ~has_direct_syscall("plain", a, s)
  BY DEF has_direct_syscall

LEMMA Idles == ASSUME NEW v, NEW l PROVE CallSound(NoScan, v, l)
  BY Blanks DEF CallSound

(* A region of plain bytes needs no scan.                                   *)
LEMMA PlainRegion ==
  ASSUME NEW v, NEW l, v.bytes = Plain
  PROVE  /\ \A w : Cleared(w, v, l)
         /\ \A e : Scanned(v, l, e)
         /\ \A w : Viewed(w, v, l)
  BY Blanks, PlainIsClean DEF Cleared, Scanned, Viewed

LEMMA Types ==
  ASSUME MemInv
  PROVE  /\ region \in [Region -> View] /\ scan \in [MemThread -> ScanState]
         /\ late \in [Region -> SUBSET Chunk] /\ entry \in [Region -> SUBSET Chunk]
         /\ cache \subseteq Region \X Chunk \X Chunk \X Bytes
         /\ stores \in 0..MaxStores /\ level \in GuardLevel /\ allow_rwx \in BOOLEAN
         /\ unscanned \subseteq Region
  BY DEF MemInv, MemTypeOK, View, ScanState

LEMMA MemInvInit == ASSUME MemInit PROVE MemInv
  <1>1. CriticalRegion \in View /\ CriticalRegion.kind = "image" /\ CriticalRegion.origin = "critical"
        /\ CriticalRegion.prot = "rx"
    BY Blanks DEF CriticalRegion, View, Kind, MappedKind, Origin, Prot
  <1>2. MemTypeOK
    <2>1. region \in [Region -> View]
      BY <1>1, Blanks DEF MemInit
    <2>2. scan \in [MemThread -> ScanState]
      BY Blanks DEF MemInit
    <2>3. late \in [Region -> SUBSET Chunk] /\ entry \in [Region -> SUBSET Chunk]
      BY DEF MemInit
    <2>4. stores \in 0..MaxStores
      BY MemoryConstants DEF MemInit
    <2>5. level \in GuardLevel /\ memFate \in {"running", "killed"} /\ cache = {} /\ unscanned = {}
      BY DEF MemInit
    <2>6. allow_rwx \in BOOLEAN
      BY Zenon DEF MemInit
    <2> QED
      BY <2>1, <2>2, <2>3, <2>4, <2>5, <2>6 DEF MemTypeOK, View, ScanState
  <1>3. CacheClean
    BY DEF MemInit, CacheClean
  <1>4. \A t \in MemThread : CallSound(scan[t], region[scan[t].r], late[scan[t].r])
    BY Idles DEF MemInit
  <1>5. \A r \in Region : RegionKept(region[r], entry[r])
    BY <1>1 DEF MemInit, RegionKept
  <1>6. \A r \in Region : Admitted(region[r], late[r], entry[r], Exempt(r), is_full_or_static)
    BY <1>1, Blanks DEF MemInit, Admitted, Scanned, Looked, is_executable
  <1> QED
    BY <1>2, <1>3, <1>4, <1>5, <1>6 DEF MemInv

(* The call that kills the guest is its last.                               *)
LEMMA KilledStep ==
  ASSUME MemInv, memFate' = "killed", MemTypeOK', UNCHANGED cache
  PROVE  MemInv'
  BY DEF MemInv, CacheClean, Alive

LEMMA KilledCall ==
  ASSUME MemInv, memFate' = "killed", scan' \in [MemThread -> ScanState],
         UNCHANGED <<level, allow_rwx, region, cache, late, entry, unscanned, stores>>
  PROVE  MemInv'
  BY KilledStep, Types DEF MemTypeOK, View, ScanState

(* A step that changes one region.                                          *)
LEMMA RegionStep ==
  ASSUME MemInv, Alive, NEW r \in Region, NEW v \in View, NEW l \in SUBSET Chunk, NEW e \in SUBSET Chunk,
         region' = [region EXCEPT ![r] = v], late' = [late EXCEPT ![r] = l],
         entry' = [entry EXCEPT ![r] = e],
         UNCHANGED <<level, allow_rwx, cache, memFate>>, stores' \in 0..MaxStores,
         unscanned' \subseteq Region,
         scan' \in [MemThread -> ScanState], \A x \in Region : x # r /\ Exempt(x) => Exempt(x)',
         \A t \in MemThread : scan'[t].r = r => CallSound(scan'[t], v, l),
         \A t \in MemThread : scan'[t].r # r => scan'[t].pc = "idle" \/ scan'[t] = scan[t],
         RegionKept(v, e), Admitted(v, l, e, Exempt(r)', is_full_or_static)
  PROVE  MemInv'
  <1>1. region' \in [Region -> View] /\ late' \in [Region -> SUBSET Chunk] /\ entry' \in [Region -> SUBSET Chunk]
    BY Types
  <1>2. MemTypeOK'
    BY <1>1, Types DEF MemInv, MemTypeOK, View, ScanState
  <1>3. CacheClean'
    BY DEF MemInv, CacheClean
  <1>4. /\ region'[r] = v /\ late'[r] = l /\ entry'[r] = e
        /\ \A x \in Region : x # r => region'[x] = region[x] /\ late'[x] = late[x] /\ entry'[x] = entry[x]
    BY Types
  <1>5. ASSUME NEW t \in MemThread PROVE CallSound(scan'[t], region'[scan'[t].r], late'[scan'[t].r])
    <2>1. scan'[t].r \in Region
      BY DEF ScanState
    <2>2. CASE scan'[t].r = r
      BY <1>4, <2>2
    <2>3. CASE scan'[t].r # r /\ scan'[t] = scan[t]
      <3>1. CallSound(scan[t], region[scan[t].r], late[scan[t].r])
        BY DEF MemInv
      <3> QED
        BY <1>4, <2>1, <2>3, <3>1
    <2>4. CASE scan'[t].pc = "idle"
      BY <2>4 DEF CallSound
    <2> QED
      BY <2>2, <2>3, <2>4
  <1>6. \A x \in Region : RegionKept(region'[x], entry'[x])
    BY <1>4 DEF MemInv
  <1>7. ASSUME NEW x \in Region PROVE Admitted(region'[x], late'[x], entry'[x], Exempt(x)', is_full_or_static')
    <2>0. is_full_or_static' <=> is_full_or_static
      BY DEF is_full_or_static
    <2>1. CASE x = r
      BY <1>4, <2>0, <2>1 DEF Admitted, Looked
    <2>2. CASE x # r
      <3>1. Admitted(region[x], late[x], entry[x], Exempt(x), is_full_or_static)
        BY DEF MemInv
      <3>2. Exempt(x) => Exempt(x)'
        BY <2>2
      <3> QED
        BY <1>4, <2>0, <2>2, <3>1, <3>2 DEF Admitted, Looked
    <2> QED
      BY <2>1, <2>2
  <1> QED
    BY <1>2, <1>3, <1>5, <1>6, <1>7 DEF MemInv

(* A step of a call that changes no region.                                 *)
LEMMA ScanStep ==
  ASSUME MemInv, Alive, NEW t \in MemThread, NEW w \in ScanState, scan' = [scan EXCEPT ![t] = w],
         UNCHANGED <<level, allow_rwx, region, memFate, late, entry, unscanned, stores>>,
         cache' \subseteq Region \X Chunk \X Chunk \X Bytes, CacheClean',
         CallSound(w, region[w.r], late[w.r]),
         \A x \in Region : Exempt(x) /\ ~Exempt(x)' =>
             Admitted(region[x], late[x], entry[x], FALSE, is_full_or_static)
  PROVE  MemInv'
  <1>1. /\ scan' \in [MemThread -> ScanState] /\ scan'[t] = w
        /\ \A u \in MemThread : u # t => scan'[u] = scan[u]
    BY Types
  <1>2. MemTypeOK'
    BY <1>1, Types DEF MemInv, MemTypeOK, View, ScanState
  <1>3. ASSUME NEW u \in MemThread PROVE CallSound(scan'[u], region'[scan'[u].r], late'[scan'[u].r])
    <2>1. CallSound(scan[u], region[scan[u].r], late[scan[u].r])
      BY DEF MemInv
    <2> QED
      BY <1>1, <2>1
  <1>4. \A x \in Region : RegionKept(region'[x], entry'[x])
    BY DEF MemInv
  <1>5. ASSUME NEW x \in Region PROVE Admitted(region'[x], late'[x], entry'[x], Exempt(x)', is_full_or_static')
    <2>0. is_full_or_static' <=> is_full_or_static
      BY DEF is_full_or_static
    <2>1. Admitted(region[x], late[x], entry[x], Exempt(x), is_full_or_static)
      BY DEF MemInv
    <2>2. CASE Exempt(x) /\ ~Exempt(x)'
      BY <2>0, <2>2 DEF Admitted, Looked
    <2>3. CASE ~(Exempt(x) /\ ~Exempt(x)')
      BY <2>0, <2>1, <2>3 DEF Admitted, Looked
    <2> QED
      BY <2>2, <2>3
  <1> QED
    BY <1>2, <1>3, <1>4, <1>5 DEF MemInv

(* A store: of a syscall it is late in an executable region, in a module,   *)
(* and where some call has read the chunk for the last time.                *)
LEMMA Puts ==
  ASSUME MemInv, Alive, NEW r \in Region, NEW c \in Chunk, NEW b \in Bytes, Put(r, c, b),
         UNCHANGED <<level, allow_rwx, scan, cache, memFate, entry, unscanned>>
  PROVE  MemInv'
  <1> DEFINE v == [region[r] EXCEPT !.bytes = [@ EXCEPT ![c] = b]]
             settled == is_executable(region[r].prot) \/ is_address_in_module(r) \/ SettledBySome(r, c, b)
             l == IF b # "plain" /\ settled THEN late[r] \cup {c} ELSE late[r] \ {c}
  <1>1. region[r] \in View /\ late[r] \subseteq Chunk /\ entry[r] \subseteq Chunk
    BY Types
  <1>2. region[r].bytes \in [Chunk -> Bytes] /\ region[r].kind # "free"
    BY <1>1 DEF View, Put
  <1>3. [region[r].bytes EXCEPT ![c] = b] \in [Chunk -> Bytes]
    BY <1>2
  <1>4. v \in View /\ v.kind = region[r].kind /\ v.origin = region[r].origin /\ v.prot = region[r].prot
        /\ v.bytes = [region[r].bytes EXCEPT ![c] = b]
    BY <1>1, <1>3 DEF View
  <1>5. v.bytes[c] = b /\ \A d \in Chunk : d # c => v.bytes[d] = region[r].bytes[d]
    BY <1>2, <1>4
  <1>6. region' = [region EXCEPT ![r] = v]
    BY Types DEF Put
  <1>7. late' = [late EXCEPT ![r] = l]
    BY Types DEF Put
  <1>8. entry' = [entry EXCEPT ![r] = entry[r]]
    BY Types
  <1>9. stores' \in 0..MaxStores
    <2>1. stores \in 0..MaxStores /\ MaxStores \in Nat
      BY Types, MemoryConstants
    <2>2. stores' = stores \/ (stores < MaxStores /\ stores' = stores + 1)
      BY DEF Put
    <2> QED
      BY <2>1, <2>2
  <1>10. l \in SUBSET Chunk /\ (\A d \in Chunk : d # c => (d \in l <=> d \in late[r]))
        /\ (settled => c \in l \/ b = "plain")
    BY <1>1
  <1> HIDE DEF v, l
  <1>11. ASSUME NEW t \in MemThread, scan[t].r = r
         PROVE  CallSound(scan[t], v, l)
    <2>1. CallSound(scan[t], region[r], late[r])
      BY <1>11 DEF MemInv
    <2>2. ASSUME Cleared(scan[t], region[r], late[r]) PROVE Cleared(scan[t], v, l)
      <3> SUFFICES ASSUME NEW d \in Chunk, Settled(scan[t], d, v.bytes[d])
                   PROVE  d \in l \/ ~has_direct_syscall(v.bytes[d], d = 1 \/ d = scan[t].start, TRUE)
        BY DEF Cleared
      <3>1. CASE d = c
        <4>1. c \in l \/ b = "plain"
          BY <1>5, <1>10, <1>11, <3>1 DEF SettledBySome
        <4> QED
          BY <1>5, <3>1, <4>1 DEF has_direct_syscall
      <3>2. CASE d # c
        BY <1>5, <1>10, <2>2, <3>2 DEF Cleared
      <3> QED
        BY <3>1, <3>2
    <2>3. ASSUME Viewed(scan[t], region[r], late[r]), scan[t].pc = "inspect" PROVE Viewed(scan[t], v, l)
      <3> SUFFICES ASSUME NEW d \in Chunk, d < scan[t].next
                   PROVE  d \in l \/ ~has_direct_syscall(v.bytes[d], d = 1, FALSE)
        BY DEF Viewed
      <3>1. CASE d = c
        <4>1. Settled(scan[t], c, b)
          BY <2>3, <3>1, ChunkFacts, Types DEF Settled, ScanState
        <4>2. c \in l \/ b = "plain"
          BY <1>10, <1>11, <4>1 DEF SettledBySome
        <4> QED
          BY <1>5, <3>1, <4>2 DEF has_direct_syscall
      <3>2. CASE d # c
        BY <1>5, <1>10, <2>3, <3>2 DEF Viewed
      <3> QED
        BY <3>1, <3>2
    <2> QED
      BY <1>4, <2>1, <2>2, <2>3 DEF CallSound
  <1>12. RegionKept(v, entry[r])
    <2>1. RegionKept(region[r], entry[r])
      BY DEF MemInv
    <2> QED
      BY <1>2, <1>4, <2>1 DEF RegionKept
  <1>13. Admitted(v, l, entry[r], Exempt(r)', is_full_or_static)
    <2> SUFFICES ASSUME is_executable(region[r].prot)
                 PROVE  Scanned(v, l, entry[r]) /\ Looked(v, l, entry[r], Exempt(r), is_full_or_static)
      <3>1. Exempt(r)' <=> Exempt(r)
        BY DEF Exempt, Inspected
      <3> QED
        BY <1>4, <3>1 DEF Admitted, Looked
    <2>1. Scanned(region[r], late[r], entry[r]) /\ Looked(region[r], late[r], entry[r], Exempt(r), is_full_or_static)
      BY DEF MemInv, Admitted
    <2>2. c \in l \/ b = "plain"
      BY <1>10
    <2>3. Scanned(v, l, entry[r])
      BY <1>4, <1>5, <1>10, <2>1, <2>2 DEF Scanned, has_direct_syscall
    <2>4. Looked(v, l, entry[r], Exempt(r), is_full_or_static)
      BY <1>4, <1>5, <1>10, <2>1, <2>2 DEF Looked, has_direct_syscall
    <2> QED
      BY <2>3, <2>4
  <1>14. unscanned' \subseteq Region /\ \A x \in Region : x # r /\ Exempt(x) => Exempt(x)'
    BY Types DEF Exempt, Inspected
  <1>15. scan' \in [MemThread -> ScanState] /\ \A t \in MemThread : scan'[t] = scan[t]
    BY Types
  <1>16. \A t \in MemThread : scan'[t].r = r => CallSound(scan'[t], v, l)
    BY <1>11, <1>15
  <1> QED
    BY <1>1, <1>4, <1>6, <1>7, <1>8, <1>9, <1>10, <1>12, <1>13, <1>14, <1>15, <1>16, RegionStep

LEMMA Writes ==
  ASSUME MemInv, NEW r \in Region, NEW c \in Chunk, NEW b \in Bytes,
         Store(r, c, b) \/ hook_nt_write_virtual_memory(r, c, b)
  PROVE  MemInv'
  <1>1. CASE Store(r, c, b)
    BY <1>1, Puts DEF Store
  <1>2. CASE hook_nt_write_virtual_memory(r, c, b) /\ memFate' = "killed"
    <2>1. Alive /\ UNCHANGED <<level, allow_rwx, scan, cache, entry, unscanned>>
      BY <1>2 DEF hook_nt_write_virtual_memory
    <2>2. UNCHANGED <<region, late, stores>>
      BY <1>2, <2>1 DEF hook_nt_write_virtual_memory, Alive
    <2> QED
      BY <1>2, <2>1, <2>2, KilledCall, Types
  <1>3. CASE hook_nt_write_virtual_memory(r, c, b) /\ memFate' # "killed"
    BY <1>3, Puts DEF hook_nt_write_virtual_memory, report_and_kill
  <1> QED
    BY <1>1, <1>2, <1>3

(* A fresh region holds plain bytes only, whichever calls are on their way. *)
LEMMA FreshRegion ==
  ASSUME MemInv, Alive, NEW r \in Region, NEW v \in View, v.bytes = Plain, NEW l \in SUBSET Chunk,
         region' = [region EXCEPT ![r] = v], late' = [late EXCEPT ![r] = l],
         entry' = [entry EXCEPT ![r] = {}], v.kind \in {"free", "private"}, v.kind = "free" => v = FreeRegion,
         unscanned' \subseteq Region, unscanned \ {r} \subseteq unscanned',
         scan' \in [MemThread -> ScanState],
         \A t \in MemThread : scan'[t] = scan[t] \/ (scan[t].r = r /\ scan'[t] = NoScan),
         \A t \in MemThread : scan'[t].r = r => scan'[t].pc # "inspect",
         UNCHANGED <<level, allow_rwx, cache, memFate, stores>>
  PROVE  MemInv'
  <1>1. ASSUME NEW t \in MemThread, scan'[t].r = r PROVE CallSound(scan'[t], v, l)
    <2>1. CASE scan'[t] = NoScan
      BY <2>1, Idles
    <2>2. CASE scan'[t] = scan[t]
      <3>1. CallSound(scan[t], region[r], late[r])
        BY <1>1, <2>2 DEF MemInv
      <3> QED
        BY <1>1, <2>2, <3>1, PlainRegion DEF CallSound
    <2> QED
      BY <2>1, <2>2
  <1>2. RegionKept(v, {}) /\ Admitted(v, l, {}, Exempt(r)', is_full_or_static)
    BY PlainRegion DEF RegionKept, Admitted, Looked
  <1>3. \A x \in Region : x # r /\ Exempt(x) => Exempt(x)'
    <2> SUFFICES ASSUME NEW x \in Region, x # r, NEW t \in MemThread, scan[t].pc = "inspect", scan[t].r = x
                 PROVE  scan'[t].pc = "inspect" /\ scan'[t].r = x
      BY DEF Exempt, Inspected
    <2> QED
      OBVIOUS
  <1>4. \A t \in MemThread : scan'[t].r # r => scan'[t].pc = "idle" \/ scan'[t] = scan[t]
    BY Blanks
  <1>5. stores' \in 0..MaxStores /\ {} \in SUBSET Chunk
    BY Types
  <1> QED
    BY <1>1, <1>2, <1>3, <1>4, <1>5, RegionStep

LEMMA Releases ==
  ASSUME MemInv, NEW r \in Region, Release(r)
  PROVE  MemInv'
  <1>1. Alive /\ UNCHANGED <<level, allow_rwx, cache, stores>>
    BY DEF Release
  <1>2. CASE memFate' = "killed" /\ UNCHANGED <<region, late, entry, unscanned, scan>>
    BY <1>1, <1>2, KilledCall, Types
  <1>3. CASE /\ region' = [region EXCEPT ![r] = FreeRegion]
             /\ late' = [late EXCEPT ![r] = {}] /\ entry' = [entry EXCEPT ![r] = {}]
             /\ unscanned' = unscanned \ {r}
             /\ scan' = [t \in MemThread |-> IF scan[t].pc = "inspect" /\ scan[t].r = r
                                            THEN NoScan ELSE scan[t]]
             /\ UNCHANGED memFate
    <2>1. {} \in SUBSET Chunk /\ unscanned' \subseteq Region
      BY <1>3, Types
    <2>2. scan' \in [MemThread -> ScanState]
      BY <1>3, Types, Blanks
    <2>3. \A t \in MemThread : scan'[t] = scan[t] \/ (scan[t].r = r /\ scan'[t] = NoScan)
      BY <1>3
    <2>4. \A t \in MemThread : scan'[t].r = r => scan'[t].pc # "inspect"
      BY <1>3, Blanks
    <2> QED
      BY <1>1, <1>3, <2>1, <2>2, <2>3, <2>4, FreshRegion, Blanks
  <1> QED
    BY <1>2, <1>3 DEF Release

(* What an allocation makes executable is not looked at.                    *)
LEMMA Allocates ==
  ASSUME MemInv, NEW r \in Region, NEW prot \in Prot, hook_nt_allocate_virtual_memory(r, prot)
  PROVE  MemInv'
  <1>1. /\ Alive /\ region[r].kind \in {"free", "private", "anonymous"}
        /\ UNCHANGED <<level, allow_rwx, scan, cache, late, stores>>
    BY DEF hook_nt_allocate_virtual_memory
  <1>2. CASE report_and_kill /\ UNCHANGED <<region, entry, unscanned>>
    BY <1>1, <1>2, KilledCall, Types DEF report_and_kill
  <1>3. CASE /\ region' = [region EXCEPT ![r] =
                              [region[r] EXCEPT !.kind = IF region[r].kind = "free" THEN "private" ELSE region[r].kind,
                                               !.prot = prot]]
             /\ entry' = [entry EXCEPT ![r] = {}]
             /\ unscanned' = IF is_executable(prot) THEN unscanned \cup {r} ELSE unscanned \ {r}
             /\ UNCHANGED memFate
    <2> DEFINE kind == IF region[r].kind = "free" THEN "private" ELSE region[r].kind
               v == [region[r] EXCEPT !.kind = kind, !.prot = prot]
    <2>1. region[r] \in View /\ late[r] \in SUBSET Chunk /\ late' = [late EXCEPT ![r] = late[r]]
      BY <1>1, Types
    <2>2. kind \in {"private", "anonymous"} /\ kind \in Kind
      BY <1>1 DEF Kind, MappedKind
    <2>3. v \in View /\ v.bytes = region[r].bytes /\ v.kind = kind /\ v.prot = prot
      BY <2>1, <2>2 DEF View
    <2>4. region' = [region EXCEPT ![r] = v]
      BY <1>3
    <2>5. unscanned' \subseteq Region /\ (\A x \in Region : x # r /\ Exempt(x) => Exempt(x)')
          /\ (is_executable(prot) => Exempt(r)')
      BY <1>1, <1>3, Types DEF Exempt, Inspected
    <2>6. scan' \in [MemThread -> ScanState] /\ scan' = scan
      BY <1>1, Types
    <2> HIDE DEF v
    <2>7. ASSUME NEW t \in MemThread, scan[t].r = r PROVE CallSound(scan[t], v, late[r])
      <3>1. CallSound(scan[t], region[r], late[r])
        BY <1>1, <2>7 DEF MemInv
      <3>2. region[r].kind = "free" => scan[t].pc # "inspect" /\ v.bytes = Plain
        BY <1>1, <2>3, <3>1, Blanks DEF CallSound, MappedKind, MemInv, RegionKept
      <3>3. region[r].kind # "free" => v.kind = region[r].kind
        BY <2>3
      <3> QED
        BY <2>3, <3>1, <3>2, <3>3, PlainRegion DEF CallSound, Cleared, Viewed
    <2>8. RegionKept(v, {})
      BY <2>2, <2>3 DEF RegionKept
    <2>9. Admitted(v, late[r], {}, Exempt(r)', is_full_or_static)
      BY <2>3, <2>5 DEF Admitted, Scanned, Looked
    <2>10. stores' \in 0..MaxStores /\ {} \in SUBSET Chunk
      BY <1>1, Types
    <2>11. \A t \in MemThread : scan'[t].r = r => CallSound(scan'[t], v, late[r])
      BY <2>6, <2>7
    <2> HIDE DEF kind
    <2> QED
      BY <1>1, <1>3, <2>1, <2>3, <2>4, <2>5, <2>6, <2>8, <2>9, <2>10, <2>11, RegionStep
  <1> QED
    BY <1>2, <1>3 DEF hook_nt_allocate_virtual_memory

(* A call enters the hook with nothing read yet.                            *)
LEMMA Protects ==
  ASSUME MemInv, NEW t \in MemThread, NEW r \in Region, NEW start \in Chunk, NEW prot \in Prot,
         hook_nt_protect_virtual_memory(t, r, start, prot)
  PROVE  MemInv'
  <1> DEFINE scanned == is_executable(prot) /\ ~is_address_in_module(r)
             w == [pc |-> IF scanned THEN "scan" ELSE "flip", r |-> r,
                   start |-> start, prot |-> prot, sweep |-> 1, next |-> 1]
  <1>1. /\ Alive /\ scan[t].pc = "idle" /\ scan' = [scan EXCEPT ![t] = w]
        /\ UNCHANGED <<level, allow_rwx, region, cache, memFate, late, entry, unscanned, stores>>
    BY DEF hook_nt_protect_virtual_memory
  <1>2. w \in ScanState
    BY ChunkFacts DEF ScanState
  <1>3. CallSound(w, region[w.r], late[w.r])
    <2>1. CASE scanned
      <3>1. w.pc = "scan" /\ w.r = r /\ w.prot = prot /\ w.sweep = 1 /\ w.next = 1 /\ w.start = start
        BY <2>1
      <3>2. w.sweep \in 1..Len(Sweeps(w.start)) /\ is_executable(w.prot)
        BY <2>1, <3>1 DEF Sweeps
      <3>3. \A c \in Chunk, b \in Bytes : ~Settled(w, c, b)
        BY <3>1 DEF Settled
      <3>4. Cleared(w, region[r], late[r])
        BY <3>3, Types DEF Cleared, View
      <3> HIDE DEF w
      <3> QED
        BY <3>1, <3>2, <3>4 DEF CallSound
    <2>2. CASE ~scanned
      <3>1. w.pc = "flip" /\ w.r = r /\ w.prot = prot
        BY <2>2
      <3> HIDE DEF w
      <3> QED
        BY <2>2, <3>1 DEF CallSound, is_address_in_module
    <2> QED
      BY <2>1, <2>2
  <1>4. CacheClean' /\ cache' \subseteq Region \X Chunk \X Chunk \X Bytes
    BY <1>1, Types DEF MemInv, CacheClean
  <1> HIDE DEF w
  <1>5. \A x \in Region : ~(Exempt(x) /\ ~Exempt(x)')
    BY <1>1, Types DEF Exempt, Inspected
  <1> QED
    BY <1>1, <1>2, <1>3, <1>4, <1>5, ScanStep

(* A chunk that the scan lets pass is clean, whether the cache or the       *)
(* decoder says so.                                                         *)
LEMMA CleanChunk ==
  ASSUME MemInv, NEW r \in Region, NEW c \in Chunk, NEW from \in Chunk, ChunkIsClean(r, c, from)
  PROVE  ~has_direct_syscall(region[r].bytes[c], c = from, TRUE)
  <1>1. CASE compute_key(r, c, from) \in cache
    <2> DEFINE k == <<r, c, from, region[r].bytes[c]>>
    <2>1. k \in cache
      BY <1>1 DEF compute_key
    <2>2. ~has_direct_syscall(k[4], k[2] = k[3], TRUE)
      BY <2>1 DEF MemInv, CacheClean
    <2> QED
      BY <2>2
  <1>2. CASE ~has_direct_syscall(region[r].bytes[c], c = from, TRUE)
    BY <1>2
  <1> QED
    BY <1>1, <1>2 DEF ChunkIsClean

LEMMA KeyAdded ==
  ASSUME MemInv, NEW r \in Region, NEW c \in Chunk, NEW from \in Chunk, ChunkIsClean(r, c, from),
         cache' = cache \cup {compute_key(r, c, from)}
  PROVE  CacheClean' /\ cache' \subseteq Region \X Chunk \X Chunk \X Bytes
  <1> DEFINE k == <<r, c, from, region[r].bytes[c]>>
  <1>1. cache' = cache \cup {k}
    BY DEF compute_key
  <1>2. region[r].bytes[c] \in Bytes
    BY Types DEF View
  <1>3. k \in Region \X Chunk \X Chunk \X Bytes
    BY <1>2
  <1>4. ~has_direct_syscall(k[4], k[2] = k[3], TRUE)
    BY CleanChunk
  <1>5. CacheClean'
    <2> SUFFICES ASSUME NEW j \in cache' PROVE ~has_direct_syscall(j[4], j[2] = j[3], TRUE)
      BY DEF CacheClean
    <2> HIDE DEF k
    <2>1. CASE j \in cache
      BY <2>1 DEF MemInv, CacheClean
    <2>2. CASE j = k
      BY <2>2, <1>4
    <2> QED
      BY <1>1, <2>1, <2>2
  <1> QED
    BY <1>1, <1>3, <1>5, Types

(* The sweeps: the pages twice; then, of a request that starts inside them, *)
(* its own range twice.                                                     *)
LEMMA SweepFacts ==
  ASSUME NEW start \in Chunk
  PROVE  /\ Sweeps(start) \in Seq(Chunk)
         /\ Len(Sweeps(start)) = IF start = 1 THEN 2 ELSE 4
         /\ \A i \in 1..Len(Sweeps(start)) : Sweeps(start)[i] = IF i <= 2 THEN 1 ELSE start
  <1>1. CASE start = 1
    BY <1>1, ChunkFacts DEF Sweeps, page_round_scan_range
  <1>2. CASE start # 1
    BY <1>2, ChunkFacts DEF Sweeps, page_round_scan_range
  <1> QED
    BY <1>1, <1>2

(* What one decoding says of a request: a sweep of the pages finds all but  *)
(* bytes shadowed inside them, a sweep of the request those at its start.   *)
LEMMA Decoded ==
  ASSUME NEW b, NEW c, NEW from, NEW start,
         \/ ~has_direct_syscall(b, c = from, TRUE) /\ from = 1 /\ (b # "shadowed" \/ c = 1)
         \/ ~has_direct_syscall(b, c = from, TRUE) /\ from = start /\ b = "shadowed" /\ c # 1
         \/ b = "shadowed" /\ c # 1 /\ c # start
  PROVE  ~has_direct_syscall(b, c = 1 \/ c = start, TRUE)
  BY DEF has_direct_syscall

Advanced(w) ==
    IF w.next < Chunks THEN [w EXCEPT !.next = w.next + 1]
    ELSE IF w.sweep = Len(Sweeps(w.start)) THEN [w EXCEPT !.pc = "flip"]
    ELSE [w EXCEPT !.sweep = w.sweep + 1, !.next = Sweeps(w.start)[w.sweep + 1]]

LEMMA AdvancedFields ==
  ASSUME NEW w \in ScanState, w.pc = "scan", w.sweep \in 1..Len(Sweeps(w.start))
  PROVE  LET a == Advanced(w)
         IN  /\ a \in ScanState
             /\ a.r = w.r /\ a.start = w.start /\ a.prot = w.prot
             /\ \/ /\ w.next < Chunks /\ a.pc = "scan" /\ a.sweep = w.sweep /\ a.next = w.next + 1
                \/ /\ w.next = Chunks /\ w.sweep = Len(Sweeps(w.start)) /\ a.pc = "flip"
                \/ /\ w.next = Chunks /\ w.sweep < Len(Sweeps(w.start)) /\ a.pc = "scan"
                   /\ a.sweep = w.sweep + 1
                   /\ a.next = IF w.sweep = 1 THEN 1 ELSE w.start
  <1>1. w.next \in Chunk /\ w.start \in Chunk
    BY DEF ScanState
  <1>2. /\ w.sweep \in 1..4 /\ Len(Sweeps(w.start)) \in {2, 4}
        /\ w.sweep < Len(Sweeps(w.start))
           => Sweeps(w.start)[w.sweep + 1] = (IF w.sweep = 1 THEN 1 ELSE w.start) /\ w.sweep + 1 \in 0..4
    <2>1. Len(Sweeps(w.start)) \in {2, 4}
      BY <1>1, SweepFacts
    <2>2. w.sweep \in 1..4
      <3>1. CASE Len(Sweeps(w.start)) = 2
        BY <3>1
      <3>2. CASE Len(Sweeps(w.start)) = 4
        BY <3>2
      <3> QED
        BY <2>1, <3>1, <3>2
    <2>3. ASSUME w.sweep < Len(Sweeps(w.start))
          PROVE  Sweeps(w.start)[w.sweep + 1] = (IF w.sweep = 1 THEN 1 ELSE w.start) /\ w.sweep + 1 \in 0..4
      <3>1. w.sweep + 1 \in 1..Len(Sweeps(w.start))
        BY <2>1, <2>2, <2>3
      <3>2. Sweeps(w.start)[w.sweep + 1] = IF w.sweep + 1 <= 2 THEN 1 ELSE w.start
        BY <1>1, <3>1, SweepFacts
      <3> QED
        BY <2>1, <2>2, <2>3, <3>2
    <2> QED
      BY <2>1, <2>2, <2>3
  <1>3. CASE w.next < Chunks
    <2>1. w.next + 1 \in Chunk
      BY <1>1, <1>3, ChunkFacts, MemoryConstants DEF Chunk
    <2> QED
      BY <1>3, <2>1 DEF Advanced, ScanState
  <1>4. CASE ~(w.next < Chunks) /\ w.sweep = Len(Sweeps(w.start))
    <2>1. w.next = Chunks
      BY <1>1, <1>4, ChunkFacts, MemoryConstants DEF Chunk
    <2> QED
      BY <1>4, <2>1 DEF Advanced, ScanState
  <1>5. CASE ~(w.next < Chunks) /\ w.sweep # Len(Sweeps(w.start))
    <2>1. w.next = Chunks
      BY <1>1, <1>5, ChunkFacts, MemoryConstants DEF Chunk
    <2>2. w.sweep < Len(Sweeps(w.start))
      BY <1>2, <1>5
    <2>3. Sweeps(w.start)[w.sweep + 1] \in Chunk
      BY <1>1, <1>2, <2>2, ChunkFacts
    <2>4. Advanced(w) = [w EXCEPT !.sweep = w.sweep + 1, !.next = Sweeps(w.start)[w.sweep + 1]]
      BY <1>5 DEF Advanced
    <2> DEFINE next == Sweeps(w.start)[w.sweep + 1]
    <2>5. next = (IF w.sweep = 1 THEN 1 ELSE w.start) /\ w.sweep + 1 \in 0..4 /\ next \in Chunk
      BY <1>2, <2>2, <2>3
    <2> HIDE DEF next
    <2>6. Advanced(w) = [w EXCEPT !.sweep = w.sweep + 1, !.next = next]
      BY <2>4 DEF next
    <2> QED
      BY <2>1, <2>2, <2>5, <2>6 DEF ScanState
  <1> QED
    BY <1>3, <1>4, <1>5

LEMMA Progress ==
  ASSUME NEW w \in ScanState, w.pc = "scan", NEW v \in View, NEW l, CallSound(w, v, l),
         ~has_direct_syscall(v.bytes[w.next], w.next = Sweeps(w.start)[w.sweep], TRUE)
  PROVE  Advanced(w) \in ScanState /\ CallSound(Advanced(w), v, l) /\ Advanced(w).r = w.r
  <1> DEFINE a == Advanced(w)
             from == Sweeps(w.start)[w.sweep]
  <1>1. w.sweep \in 1..Len(Sweeps(w.start)) /\ is_executable(w.prot)
    BY DEF CallSound
  <1>2. w.next \in Chunk /\ w.start \in Chunk
    BY DEF ScanState
  <1>3. /\ a \in ScanState
        /\ a.r = w.r /\ a.start = w.start /\ a.prot = w.prot
        /\ \/ /\ w.next < Chunks /\ a.pc = "scan" /\ a.sweep = w.sweep /\ a.next = w.next + 1
           \/ /\ w.next = Chunks /\ w.sweep = Len(Sweeps(w.start)) /\ a.pc = "flip"
           \/ /\ w.next = Chunks /\ w.sweep < Len(Sweeps(w.start)) /\ a.pc = "scan"
              /\ a.sweep = w.sweep + 1
              /\ a.next = IF w.sweep = 1 THEN 1 ELSE w.start
    BY <1>1, AdvancedFields
  <1> HIDE DEF a
  <1>4. /\ Len(Sweeps(w.start)) = (IF w.start = 1 THEN 2 ELSE 4)
        /\ from = (IF w.sweep <= 2 THEN 1 ELSE w.start)
    BY <1>1, <1>2, SweepFacts
  <1>5. w.sweep \in 1..4 /\ w.sweep <= Len(Sweeps(w.start))
    BY <1>1, <1>4
  <1>6. ~has_direct_syscall(v.bytes[w.next], w.next = from, TRUE)
    OBVIOUS
  <1> HIDE DEF from
  <1>7. ASSUME Cleared(w, v, l) PROVE Cleared(a, v, l)
    <2> SUFFICES ASSUME NEW c \in Chunk, Settled(a, c, v.bytes[c])
                 PROVE  c \in l \/ ~has_direct_syscall(v.bytes[c], c = 1 \/ c = a.start, TRUE)
      BY DEF Cleared
    <2> DEFINE b == v.bytes[c]
    <2>1. CASE Settled(w, c, b)
      BY <1>3, <1>7, <2>1 DEF Cleared
    <2>2. CASE ~Settled(w, c, b)
      <3>1. c \in Nat /\ c <= Chunks /\ c >= 1 /\ w.next \in Nat /\ w.start \in Nat /\ Chunks \in Nat
        BY <1>2, ChunkFacts, MemoryConstants DEF Chunk
      <3>2. CASE b = "shadowed" /\ c # 1
        <4>1. ~(w.sweep > 4) /\ ~(w.sweep = 4 /\ w.next > c)
          BY <2>2, <3>2 DEF Settled
        <4>2. a.pc = "flip" \/ a.sweep > 4 \/ (a.sweep = 4 /\ a.next > c)
          BY <1>3, <3>2 DEF Settled
        <4>3. c # w.start \/ (c = w.next /\ from = w.start)
          BY <1>3, <1>4, <1>5, <3>1, <3>2, <4>1, <4>2
        <4>4. CASE c # w.start
          BY <1>3, <3>2, <4>4 DEF has_direct_syscall
        <4>5. CASE c = w.next /\ from = w.start
          BY <1>3, <1>6, <3>2, <4>5, Decoded
        <4> QED
          BY <4>3, <4>4, <4>5
      <3>3. CASE ~(b = "shadowed" /\ c # 1)
        <4>1. ~(w.sweep > 2) /\ ~(w.sweep = 2 /\ w.next > c)
          BY <2>2, <3>3 DEF Settled
        <4>2. a.pc = "flip" \/ a.sweep > 2 \/ (a.sweep = 2 /\ a.next > c)
          BY <1>3, <3>3 DEF Settled
        <4>3. c = w.next /\ from = 1
          BY <1>3, <1>4, <1>5, <3>1, <4>1, <4>2
        <4>4. ~has_direct_syscall(b, c = from, TRUE)
          BY <1>6, <4>3
        <4>5. b # "shadowed" \/ c = 1
          BY <3>3
        <4>6. ~has_direct_syscall(b, c = 1 \/ c = w.start, TRUE)
          BY <4>3, <4>4, <4>5, Decoded
        <4> QED
          BY <1>3, <4>6
      <3> QED
        BY <3>2, <3>3
    <2> QED
      BY <2>1, <2>2
  <1>8. CallSound(a, v, l)
    <2>1. a.pc = "scan" => a.sweep \in 1..Len(Sweeps(a.start)) /\ is_executable(a.prot)
      BY <1>1, <1>3, <1>4, <1>5
    <2>2. a.pc \in {"scan", "flip"} /\ is_executable(a.prot) /\ v.kind # "image" => Cleared(a, v, l)
      BY <1>1, <1>7 DEF CallSound
    <2>3. a.pc # "inspect"
      BY <1>3
    <2> QED
      BY <2>1, <2>2, <2>3 DEF CallSound
  <1> QED
    BY <1>3, <1>8 DEF a

LEMMA Scans ==
  ASSUME MemInv, NEW t \in MemThread, guarded_scan_region(t)
  PROVE  MemInv'
  <1> DEFINE w == scan[t]
             from == Sweeps(w.start)[w.sweep]
  <1>1. /\ Alive /\ w.pc = "scan"
        /\ UNCHANGED <<level, allow_rwx, region, late, entry, unscanned, stores>>
    BY DEF guarded_scan_region
  <1>2. w \in ScanState /\ w.r \in Region /\ w.next \in Chunk /\ w.start \in Chunk
    BY Types DEF ScanState
  <1>3. CallSound(w, region[w.r], late[w.r]) /\ region[w.r] \in View
    BY <1>1, <1>2, Types DEF MemInv
  <1>4. from \in Chunk
    <2>1. w.sweep \in 1..Len(Sweeps(w.start))
      BY <1>1, <1>3 DEF CallSound
    <2> QED
      BY <1>2, <2>1, SweepFacts
  <1>5. ASSUME NEW u \in ScanState, scan' = [scan EXCEPT ![t] = u]
        PROVE  \A x \in Region : ~(Exempt(x) /\ ~Exempt(x)')
    BY <1>1, <1>5, Types DEF Exempt, Inspected
  <1>6. CASE scan' = [scan EXCEPT ![t] = NoScan] /\ UNCHANGED <<cache, memFate>>
    <2>1. CacheClean' /\ cache' \subseteq Region \X Chunk \X Chunk \X Bytes
      BY <1>6, Types DEF MemInv, CacheClean
    <2>2. CallSound(NoScan, region[NoScan.r], late[NoScan.r])
      BY Idles
    <2> QED
      BY <1>1, <1>5, <1>6, <2>1, <2>2, Blanks, ScanStep
  <1>7. CASE report_and_kill /\ scan' = [scan EXCEPT ![t] = NoScan] /\ UNCHANGED cache
    <2>1. scan' \in [MemThread -> ScanState]
      BY <1>7, Blanks, Types
    <2> QED
      BY <1>1, <1>7, <2>1, KilledCall DEF report_and_kill
  <1>8. CASE /\ ChunkIsClean(w.r, w.next, from)
             /\ cache' = cache \cup {compute_key(w.r, w.next, from)}
             /\ scan' = [scan EXCEPT ![t] = Advanced(w)]
             /\ UNCHANGED memFate
    <2>1. CacheClean' /\ cache' \subseteq Region \X Chunk \X Chunk \X Bytes
      BY <1>2, <1>4, <1>8, KeyAdded
    <2>2. ~has_direct_syscall(region[w.r].bytes[w.next], w.next = from, TRUE)
      BY <1>2, <1>4, <1>8, CleanChunk
    <2>3. Advanced(w) \in ScanState /\ CallSound(Advanced(w), region[w.r], late[w.r]) /\ Advanced(w).r = w.r
      BY <1>1, <1>2, <1>3, <2>2, Progress
    <2>4. CallSound(Advanced(w), region[Advanced(w).r], late[Advanced(w).r])
      BY <2>3
    <2>5. \A x \in Region : ~(Exempt(x) /\ ~Exempt(x)')
      BY <1>5, <1>8, <2>3
    <2> QED
      BY <1>1, <1>8, <2>1, <2>3, <2>4, <2>5, ScanStep
  <1>9. \/ /\ ChunkIsClean(w.r, w.next, from)
           /\ cache' = cache \cup {compute_key(w.r, w.next, from)}
           /\ scan' = [scan EXCEPT ![t] = Advanced(w)]
           /\ UNCHANGED memFate
        \/ scan' = [scan EXCEPT ![t] = NoScan] /\ UNCHANGED <<cache, memFate>>
        \/ report_and_kill /\ scan' = [scan EXCEPT ![t] = NoScan] /\ UNCHANGED cache
    BY DEF guarded_scan_region, Advanced
  <1> QED
    BY <1>6, <1>7, <1>8, <1>9

(* The original call: what is executable from now on has been read by this  *)
(* call, whoever changed the region in between, unless the range is another.*)
LEMMA Flips ==
  ASSUME MemInv, NEW t \in MemThread, NEW checked \in Region, NEW r \in Region, NEW start \in Chunk,
         ProtectOriginal(t, checked, r, start)
  PROVE  MemInv'
  <1>0. PICK w \in ScanState : w = scan[t]
    BY Types
  <1> DEFINE changed == <<r, start>> # <<w.r, w.start>>
  <1>1. /\ Alive /\ w.pc = "flip" /\ scan' = [scan EXCEPT ![t] = NoScan]
        /\ UNCHANGED <<level, allow_rwx, cache, late, stores>>
    BY <1>0 DEF ProtectOriginal
  <1>2. w.prot \in Prot
    BY DEF ScanState
  <1>3. scan' \in [MemThread -> ScanState] /\ scan'[t] = NoScan
        /\ \A u \in MemThread : u # t => scan'[u] = scan[u]
    BY <1>1, Blanks, Types
  <1>4. \A x \in Region : Inspected(x) => Inspected(x)'
    BY <1>0, <1>1, <1>3 DEF Inspected
  <1>5. CASE report_and_kill /\ UNCHANGED <<region, entry, unscanned>>
    BY <1>1, <1>3, <1>5, KilledCall DEF report_and_kill
  <1>6. CASE UNCHANGED <<memFate, region, entry, unscanned>>
    <2>1. CacheClean' /\ cache' \subseteq Region \X Chunk \X Chunk \X Bytes
      BY <1>1, Types DEF MemInv, CacheClean
    <2>2. CallSound(NoScan, region[NoScan.r], late[NoScan.r])
      BY Idles
    <2>3. \A x \in Region : ~(Exempt(x) /\ ~Exempt(x)')
      BY <1>4, <1>6 DEF Exempt
    <2> QED
      BY <1>1, <1>6, <2>1, <2>2, <2>3, Blanks, ScanStep
  <1>7. CASE /\ UNCHANGED memFate /\ region[r].kind # "free"
             /\ region' = [region EXCEPT ![r].prot = w.prot]
             /\ entry' = [entry EXCEPT ![r] =
                             IF is_executable(w.prot) /\ ~changed THEN @ \cup {start} ELSE {}]
             /\ unscanned' = IF is_executable(w.prot) /\ changed
                             THEN unscanned \cup {r} ELSE unscanned \ {r}
    <2> DEFINE v == [region[r] EXCEPT !.prot = w.prot]
               e == IF is_executable(w.prot) /\ ~changed THEN entry[r] \cup {start} ELSE {}
    <2>1. region[r] \in View /\ entry[r] \subseteq Chunk /\ late[r] \in SUBSET Chunk
      BY <1>2, Types
    <2>2. v \in View /\ v.kind = region[r].kind /\ v.origin = region[r].origin /\ v.prot = w.prot
          /\ v.bytes = region[r].bytes
      BY <1>2, <2>1 DEF View
    <2>3. region' = [region EXCEPT ![r] = v]
      BY <1>2, <1>7, Types
    <2>4. entry' = [entry EXCEPT ![r] = e]
      BY <1>2, <1>7, Types
    <2>5. late' = [late EXCEPT ![r] = late[r]]
      BY <1>1, <1>2, Types
    <2>6. e \in SUBSET Chunk
      BY <1>2, <2>1
    <2> HIDE DEF v
    <2>7. ASSUME NEW u \in MemThread, scan'[u].r = r PROVE CallSound(scan'[u], v, late[r])
      <3>1. CASE u = t
        BY <1>3, <3>1, Idles
      <3>2. CASE u # t
        <4>1. CallSound(scan[u], region[r], late[r]) /\ scan'[u] = scan[u]
          BY <1>1, <1>3, <2>7, <3>2 DEF MemInv
        <4> QED
          BY <2>2, <4>1 DEF CallSound, Cleared, Viewed
      <3> QED
        BY <3>1, <3>2
    <2>8. RegionKept(v, e)
      BY <1>7, <2>2 DEF RegionKept
    <2>9. ASSUME is_executable(v.prot), ~changed
          PROVE  Scanned(v, late[r], e) /\ Looked(v, late[r], e, Exempt(r)', is_full_or_static)
      <3>1. e = entry[r] \cup {w.start} /\ r = w.r
        BY <2>2, <2>9
      <3>2. Looked(v, late[r], e, Exempt(r)', is_full_or_static)
        BY <3>1 DEF Looked
      <3>3. ASSUME v.kind \in {"private", "file", "anonymous"}
            PROVE  \A c \in Chunk : c \in late[r] \/ ~has_direct_syscall(v.bytes[c], c \in e \/ c = 1, TRUE)
        <4> SUFFICES ASSUME NEW c \in Chunk, c \notin late[r]
                     PROVE  ~has_direct_syscall(v.bytes[c], c \in e \/ c = 1, TRUE)
          OBVIOUS
        <4>1. Cleared(w, v, late[r])
          <5>1. CallSound(w, region[r], late[r]) /\ v.kind # "image" /\ is_executable(w.prot)
            BY <1>0, <1>1, <2>2, <2>9, <3>1, <3>3 DEF MemInv
          <5> QED
            BY <1>1, <2>2, <5>1 DEF CallSound, Cleared
        <4>2. ~has_direct_syscall(v.bytes[c], c = 1 \/ c = w.start, TRUE)
          BY <1>1, <4>1 DEF Cleared, Settled
        <4>3. CASE c \notin entry[r]
          <5>1. c \in e \/ c = 1 <=> c = 1 \/ c = w.start
            BY <3>1, <4>3
          <5> QED
            BY <4>2, <5>1 DEF has_direct_syscall
        <4>4. CASE c \in entry[r]
          <5>1. is_executable(region[r].prot)
            BY <1>1, <4>4 DEF MemInv, RegionKept
          <5>2. Scanned(region[r], late[r], entry[r])
            BY <1>1, <5>1 DEF MemInv, Admitted
          <5>3. ~has_direct_syscall(v.bytes[c], c \in entry[r] \/ c = 1, TRUE)
            BY <2>2, <3>3, <4>4, <5>2 DEF Scanned
          <5> QED
            BY <4>4, <5>3 DEF has_direct_syscall
        <4> QED
          BY <4>3, <4>4
      <3> QED
        BY <3>2, <3>3 DEF Scanned
    <2>10. Admitted(v, late[r], e, Exempt(r)', is_full_or_static)
      <3>1. ASSUME is_executable(v.prot), changed PROVE e = {} /\ Exempt(r)'
        BY <1>7, <2>2, <3>1 DEF Exempt
      <3> HIDE DEF e, changed
      <3> QED
        BY <2>9, <3>1 DEF Admitted, Scanned, Looked
    <2>11. stores' \in 0..MaxStores
      BY <1>1, Types
    <2>12. \A u \in MemThread : scan'[u].r # r => scan'[u].pc = "idle" \/ scan'[u] = scan[u]
      BY <1>3, Blanks
    <2>13. unscanned' \subseteq Region /\ \A x \in Region : x # r /\ Exempt(x) => Exempt(x)'
      BY <1>4, <1>7, Types DEF Exempt
    <2> HIDE DEF e
    <2> QED
      BY <1>1, <1>3, <1>7, <2>1, <2>2, <2>3, <2>4, <2>5, <2>6, <2>7, <2>8, <2>10, <2>11, <2>12,
         <2>13, RegionStep
  <1> QED
    BY <1>0, <1>5, <1>6, <1>7 DEF ProtectOriginal

(* A view: a syscall that a call on the same address has passed is late.    *)
LEMMA Maps ==
  ASSUME MemInv, NEW t \in MemThread, NEW r \in Region, NEW kind \in MappedKind, NEW origin \in Origin,
         NEW prot \in Prot, NEW c \in Chunk, NEW b \in Bytes, NEW misled \in BOOLEAN,
         hook_nt_map_view_of_section(t, r, kind, origin, prot, c, b, misled)
  PROVE  MemInv'
  <1> DEFINE v == [kind |-> kind, origin |-> origin, prot |-> prot, bytes |-> [Plain EXCEPT ![c] = b]]
             l == {d \in Chunk : v.bytes[d] # "plain" /\ SettledBySome(r, d, v.bytes[d])}
             w == [NoScan EXCEPT !.pc = "inspect", !.r = r]
  <1>1. /\ Alive /\ region[r].kind = "free"
        /\ region' = [region EXCEPT ![r] = v]
        /\ \/ /\ unscanned' = unscanned \cup {r} /\ memFate' \in {memFate, "killed"}
              /\ UNCHANGED scan
           \/ /\ scan' = [scan EXCEPT ![t] = w]
              /\ UNCHANGED <<unscanned, memFate>>
        /\ UNCHANGED <<level, allow_rwx, cache, entry>>
    BY DEF hook_nt_map_view_of_section
  <1>2. v \in View /\ v.kind = kind /\ kind \in MappedKind
    <2>1. [Plain EXCEPT ![c] = b] \in [Chunk -> Bytes]
      BY Blanks
    <2> QED
      BY <2>1 DEF View, Kind, MappedKind
  <1>3. late' = [late EXCEPT ![r] = l]
    <2>1. region'[r] = v
      BY <1>1, Types
    <2>2. late' = [late EXCEPT ![r] = {d \in Chunk : /\ region'[r].bytes[d] # "plain"
                                                    /\ SettledBySome(r, d, region'[r].bytes[d])}]
      BY DEF hook_nt_map_view_of_section
    <2> HIDE DEF v
    <2> QED
      BY <2>1, <2>2
  <1>4. w \in ScanState /\ w.pc = "inspect" /\ w.r = r /\ w.next = 1
    BY Blanks, ChunkFacts DEF ScanState, NoScan
  <1> HIDE DEF v, w
  <1>5. /\ scan' \in [MemThread -> ScanState] /\ \A u \in MemThread : u # t => scan'[u] = scan[u]
        /\ scan'[t] = w \/ (scan'[t] = scan[t] /\ r \in unscanned')
    BY <1>1, <1>4, Types
  <1>6. stores' \in 0..MaxStores
    <2>1. stores \in 0..MaxStores /\ MaxStores \in Nat
      BY Types, MemoryConstants
    <2>2. stores' = stores \/ (stores < MaxStores /\ stores' = stores + 1)
      BY DEF hook_nt_map_view_of_section
    <2> QED
      BY <2>1, <2>2
  <1>7. entry[r] = {} /\ entry' = [entry EXCEPT ![r] = {}]
    <2>1. entry[r] = {}
      BY <1>1, Blanks DEF MemInv, RegionKept, is_executable
    <2> QED
      BY <1>1, <2>1, Types
  <1>8. scan[t].pc = "idle"
    BY DEF hook_nt_map_view_of_section
  <1>9. \A x \in Region : Exempt(x) => Exempt(x)'
    BY <1>1, <1>5, <1>8 DEF Exempt, Inspected
  <1>10. Exempt(r)' /\ unscanned' \subseteq Region
    BY <1>1, <1>4, <1>5, Types DEF Exempt, Inspected
  <1>11. ASSUME NEW u \in MemThread, scan'[u].r = r PROVE CallSound(scan'[u], v, l)
    <2>1. CASE u = t /\ scan'[t] = w
      <3>1. Viewed(w, v, l)
        BY <1>4, ChunkFacts DEF Viewed, Chunk
      <3> QED
        BY <1>2, <1>4, <1>5, <2>1, <3>1 DEF CallSound
    <2>2. CASE scan'[u] = scan[u]
      <3>1. CallSound(scan[u], region[r], late[r])
        BY <1>1, <1>11, <2>2 DEF MemInv
      <3>2. scan[u].pc # "inspect"
        BY <1>1, <3>1 DEF CallSound, MappedKind
      <3>3. Cleared(scan[u], v, l)
        BY <1>11, <2>2 DEF Cleared, SettledBySome, has_direct_syscall
      <3> QED
        BY <2>2, <3>1, <3>2, <3>3 DEF CallSound
    <2> QED
      BY <1>5, <2>1, <2>2
  <1>12. RegionKept(v, {})
    BY <1>2 DEF RegionKept, MappedKind
  <1>13. Admitted(v, l, {}, Exempt(r)', is_full_or_static)
    BY <1>10 DEF Admitted, Scanned, Looked
  <1>14. \A u \in MemThread : scan'[u].r # r => scan'[u].pc = "idle" \/ scan'[u] = scan[u]
    BY <1>4, <1>5, <1>8
  <1>15. l \in SUBSET Chunk /\ {} \in SUBSET Chunk
    OBVIOUS
  <1> HIDE DEF l
  <1>16. CASE memFate' = "killed"
    <2>1. region' \in [Region -> View] /\ late' \in [Region -> SUBSET Chunk]
      BY <1>1, <1>2, <1>3, <1>15, Types
    <2>2. MemTypeOK'
      BY <1>1, <1>5, <1>6, <1>10, <1>16, <2>1, Types DEF MemTypeOK, View, ScanState
    <2> QED
      BY <1>1, <1>16, <2>2, KilledStep
  <1>17. CASE UNCHANGED memFate
    BY <1>1, <1>2, <1>3, <1>5, <1>6, <1>7, <1>9, <1>10, <1>11, <1>12, <1>13, <1>14, <1>15, <1>17, RegionStep
  <1> QED
    BY <1>1, <1>16, <1>17

(* The inspection of a view: what it passes over is clean, and it ends with *)
(* every chunk passed over unless nothing is asked of the view.             *)
LEMMA Inspects ==
  ASSUME MemInv, NEW t \in MemThread, Inspect(t)
  PROVE  MemInv'
  <1>0. PICK w \in ScanState : w = scan[t]
    BY Types
  <1> DEFINE r == w.r
             v == region[r]
             hit == InspectsContent(v) /\ has_direct_syscall(v.bytes[w.next], w.next = 1, FALSE)
  <1>1. /\ Alive /\ w.pc = "inspect"
        /\ UNCHANGED <<level, allow_rwx, region, cache, late, entry, unscanned, stores>>
    BY <1>0 DEF Inspect
  <1>2. r \in Region /\ w.next \in Chunk /\ v \in View
    BY Types DEF ScanState
  <1>3. CallSound(w, v, late[r])
    BY <1>0, <1>1 DEF MemInv
  <1>4. CacheClean' /\ cache' \subseteq Region \X Chunk \X Chunk \X Bytes
    BY <1>1, Types DEF MemInv, CacheClean
  <1>5. CASE report_and_kill /\ scan' = [scan EXCEPT ![t] = NoScan]
    <2>1. scan' \in [MemThread -> ScanState]
      BY <1>5, Blanks, Types
    <2> QED
      BY <1>1, <1>5, <2>1, KilledCall DEF report_and_kill
  <1>6. CASE /\ InspectsContent(v) /\ ~hit /\ w.next < Chunks
             /\ scan' = [scan EXCEPT ![t] = [w EXCEPT !.next = w.next + 1]]
             /\ UNCHANGED memFate
    <2> DEFINE u == [w EXCEPT !.next = w.next + 1]
    <2>1. w.next + 1 \in Chunk
      BY <1>2, <1>6, ChunkFacts, MemoryConstants DEF Chunk
    <2>2. u \in ScanState /\ u.pc = "inspect" /\ u.r = r /\ u.next = w.next + 1
      BY <1>1, <2>1 DEF ScanState
    <2> HIDE DEF u
    <2>3. Viewed(u, v, late[r])
      <3> SUFFICES ASSUME NEW c \in Chunk, c < u.next
                   PROVE  c \in late[r] \/ ~has_direct_syscall(v.bytes[c], c = 1, FALSE)
        BY DEF Viewed
      <3>1. CASE c < w.next
        BY <1>1, <1>3, <3>1 DEF CallSound, Viewed
      <3>2. CASE c = w.next
        BY <1>6, <3>2
      <3>3. c < w.next \/ c = w.next
        <4>1. c \in Nat /\ w.next \in Nat /\ u.next = w.next + 1
          BY <1>2, <2>2, ChunkFacts
        <4> QED
          BY <4>1
      <3> QED
        BY <3>1, <3>2, <3>3
    <2>4. CallSound(u, region[u.r], late[u.r])
      BY <1>1, <1>3, <2>2, <2>3 DEF CallSound
    <2>5. scan' = [scan EXCEPT ![t] = u]
      BY <1>6 DEF u
    <2>6. \A x \in Region : ~(Exempt(x) /\ ~Exempt(x)')
      BY <1>0, <1>1, <2>2, <2>5, Types DEF Exempt, Inspected
    <2> QED
      BY <1>1, <1>4, <1>6, <2>2, <2>4, <2>5, <2>6, ScanStep
  <1>7. CASE /\ ~RefusedView(v)
             /\ hit => v.kind = "image" /\ v.origin = "microsoft"
             /\ ~(InspectsContent(v) /\ ~hit /\ w.next < Chunks)
             /\ scan' = [scan EXCEPT ![t] = NoScan]
             /\ UNCHANGED memFate
    <2>1. CallSound(NoScan, region[NoScan.r], late[NoScan.r])
      BY Idles
    <2>2. ASSUME NEW x \in Region, Exempt(x), ~Exempt(x)' PROVE x = r
      BY <1>0, <1>1, <1>7, <2>2, Types DEF Exempt, Inspected
    <2>3. Scanned(v, late[r], entry[r]) \/ ~is_executable(v.prot)
      BY <1>1, <1>2 DEF MemInv, Admitted
    <2>4. is_executable(v.prot) => Looked(v, late[r], entry[r], FALSE, is_full_or_static)
      <3> SUFFICES ASSUME is_executable(v.prot), v.kind \in {"image", "file", "anonymous"},
                          v.origin = "user" \/ v.kind # "image"
                   PROVE  /\ v.kind # "anonymous"
                          /\ is_full_or_static => \A c \in Chunk : c \in late[r] \/ ~has_direct_syscall(v.bytes[c], c = 1, FALSE)
        BY DEF Looked
      <3>1. v.kind # "anonymous"
        BY <1>7 DEF RefusedView
      <3>2. ASSUME is_full_or_static, NEW c \in Chunk
            PROVE  c \in late[r] \/ ~has_direct_syscall(v.bytes[c], c = 1, FALSE)
        <4>1. InspectsContent(v)
          BY <3>2 DEF InspectsContent
        <4>2. ~hit
          BY <1>7
        <4>6. ~(w.next < Chunks)
          BY <1>7, <4>1, <4>2, Zenon
        <4>7. c \in Nat /\ c <= Chunks /\ w.next \in Nat /\ w.next <= Chunks /\ Chunks \in Nat
          BY <1>2, ChunkFacts
        <4>3. c = w.next \/ c < w.next
          BY <4>6, <4>7
        <4>4. CASE c = w.next
          BY <4>1, <4>2, <4>4
        <4>5. CASE c < w.next
          BY <1>1, <1>3, <4>5 DEF CallSound, Viewed
        <4> QED
          BY <4>3, <4>4, <4>5
      <3> QED
        BY <3>1, <3>2
    <2>5. Admitted(v, late[r], entry[r], FALSE, is_full_or_static)
      BY <2>3, <2>4 DEF Admitted
    <2>6. \A x \in Region : Exempt(x) /\ ~Exempt(x)' =>
             Admitted(region[x], late[x], entry[x], FALSE, is_full_or_static)
      BY <2>2, <2>5
    <2> QED
      BY <1>1, <1>4, <1>7, <2>1, <2>6, Blanks, ScanStep
  <1>8. \/ report_and_kill /\ scan' = [scan EXCEPT ![t] = NoScan]
        \/ /\ ~RefusedView(v)
           /\ hit => v.kind = "image" /\ v.origin = "microsoft"
           /\ scan' = IF InspectsContent(v) /\ ~hit /\ w.next < Chunks
                      THEN [scan EXCEPT ![t] = [w EXCEPT !.next = w.next + 1]]
                      ELSE [scan EXCEPT ![t] = NoScan]
           /\ UNCHANGED memFate
    BY <1>0, Zenon DEF Inspect
  <1> HIDE DEF hit, v, r
  <1> QED
    BY <1>5, <1>6, <1>7, <1>8

LEMMA MemInvStep == ASSUME MemInv, [MemNext]_memVars PROVE MemInv'
  <1>1. CASE UNCHANGED memVars
    <2>1. MemTypeOK' /\ CacheClean'
      BY <1>1 DEF memVars, MemInv, MemTypeOK, CacheClean
    <2>2. Alive' => \A t \in MemThread : CallSound(scan'[t], region'[scan'[t].r], late'[scan'[t].r])
      BY <1>1 DEF memVars, MemInv, Alive
    <2>3. Alive' => \A r \in Region : RegionKept(region'[r], entry'[r])
      BY <1>1 DEF memVars, MemInv, Alive
    <2>4. ASSUME Alive', NEW r \in Region
          PROVE  Admitted(region'[r], late'[r], entry'[r], Exempt(r)', is_full_or_static')
      <3>1. Admitted(region[r], late[r], entry[r], Exempt(r), is_full_or_static)
        BY <1>1, <2>4 DEF memVars, MemInv, Alive
      <3>2. (Exempt(r)' <=> Exempt(r)) /\ (is_full_or_static' <=> is_full_or_static)
        BY <1>1 DEF memVars, Exempt, Inspected, is_full_or_static
      <3> QED
        BY <1>1, <3>1, <3>2 DEF memVars, Admitted, Looked
    <2> QED
      BY <2>1, <2>2, <2>3, <2>4 DEF MemInv
  <1>2. ASSUME NEW r \in Region, NEW c \in Chunk, NEW b \in Bytes,
               Store(r, c, b) \/ hook_nt_write_virtual_memory(r, c, b)
        PROVE  MemInv'
    BY <1>2, Writes
  <1>3. ASSUME NEW r \in Region, Release(r) PROVE MemInv'
    BY <1>3, Releases
  <1>4. ASSUME NEW r \in Region, NEW prot \in Prot, hook_nt_allocate_virtual_memory(r, prot) PROVE MemInv'
    BY <1>4, Allocates
  <1>5. ASSUME NEW t \in MemThread, NEW r \in Region, NEW c \in Chunk, NEW prot \in Prot,
               hook_nt_protect_virtual_memory(t, r, c, prot)
        PROVE  MemInv'
    BY <1>5, Protects
  <1>6. ASSUME NEW t \in MemThread, NEW r \in Region, NEW c \in Chunk, NEW prot \in Prot,
               NEW kind \in MappedKind, NEW origin \in Origin, NEW b \in Bytes, NEW misled \in BOOLEAN,
               hook_nt_map_view_of_section(t, r, kind, origin, prot, c, b, misled)
        PROVE  MemInv'
    BY <1>6, Maps
  <1>7. ASSUME NEW t \in MemThread, NEW checked \in Region, NEW r \in Region, NEW start \in Chunk,
               ProtectOriginal(t, checked, r, start)
        PROVE  MemInv'
    BY <1>7, Flips
  <1>8. ASSUME NEW t \in MemThread, guarded_scan_region(t) \/ Inspect(t) PROVE MemInv'
    BY <1>8, Scans, Inspects
  <1> QED
    BY <1>1, <1>2, <1>3, <1>4, <1>5, <1>6, <1>7, <1>8 DEF MemNext

LEMMA MemAlways == MemSpec => []MemInv
  <1>1. MemInit => MemInv
    BY MemInvInit
  <1>2. MemInv /\ [MemNext]_memVars => MemInv'
    BY MemInvStep
  <1> QED
    BY <1>1, <1>2, PTL DEF MemSpec

(* The variables of the memory guard keep to their values: a scan stays     *)
(* within its sweeps and its chunks (guarded_scan_region).                  *)
THEOREM MemTypeCorrect == MemSpec => []MemTypeOK
  <1>1. MemInv => MemTypeOK
    BY DEF MemInv
  <1> QED
    BY <1>1, MemAlways, PTL

(* Memory outside the modules that a scanning call made executable holds    *)
(* nothing the scanner objects to, but for bytes stored after the second    *)
(* pass over them, and a view mapped executable has been inspected; memory  *)
(* allocated executable and ranges changed between two reads are excepted   *)
(* (scan_protect_request, hook_nt_map_view_of_section).                     *)
THEOREM ExecutablesAreScanned == MemSpec => []ExecutableIsScanned
  <1>1. MemInv => ExecutableIsScanned
    <2> SUFFICES ASSUME MemInv, memFate = "running",
                        NEW r \in Region \ unscanned, is_executable(region[r].prot)
                 PROVE  /\ region[r].kind \in {"private", "file", "anonymous"} /\ entry[r] # {}
                           => Dirty(r, TRUE) \subseteq late[r]
                        /\ /\ region[r].kind \in {"image", "file", "anonymous"}
                           /\ region[r].origin = "user" \/ region[r].kind # "image"
                           /\ entry[r] = {} /\ ~Inspected(r)
                           => /\ region[r].kind # "anonymous"
                              /\ is_full_or_static => Dirty(r, FALSE) \subseteq late[r]
      BY DEF ExecutableIsScanned
    <2>1. /\ Scanned(region[r], late[r], entry[r])
          /\ Looked(region[r], late[r], entry[r], Exempt(r), is_full_or_static)
      BY DEF MemInv, Admitted, Alive
    <2>2. \A c \in Chunk : c \in entry[r] \cup {1} <=> c \in entry[r] \/ c = 1
      OBVIOUS
    <2>3. region[r].kind \in {"private", "file", "anonymous"} /\ entry[r] # {}
          => Dirty(r, TRUE) \subseteq late[r]
      BY <2>1, <2>2 DEF Scanned, Dirty, has_direct_syscall
    <2>4. ASSUME region[r].kind \in {"image", "file", "anonymous"},
                 region[r].origin = "user" \/ region[r].kind # "image",
                 entry[r] = {}, ~Inspected(r)
          PROVE  /\ region[r].kind # "anonymous"
                 /\ is_full_or_static => Dirty(r, FALSE) \subseteq late[r]
      <3>1. \A c \in Chunk : c \in entry[r] \cup {1} <=> c = 1
        BY <2>4
      <3> QED
        BY <2>1, <2>4, <3>1 DEF Looked, Exempt, Dirty, has_direct_syscall
    <2> QED
      BY <2>3, <2>4
  <1> QED
    BY <1>1, MemAlways, PTL

-----------------------------------------------------------------------------
(****************************************************************************)
(* The hooks and the decisions of the guards (HookRuntime, GuardDecisions)  *)
(****************************************************************************)
Verdict == {"pass", "refuse", "kill"}

LEMMA Orders ==
  /\ Len(InstallOrder) = 13 /\ Len(TeardownOrder) = 14
  /\ \A i \in 1..13 : InstallOrder[i] \in GuardCategory
  /\ \A i \in 1..13 : InstallOrder[i] = "fs" <=> i = 1
  /\ \A i \in 1..14 : TeardownOrder[i] = "begin_teardown" <=> i = 1
  <1>1. Len(InstallOrder) = 13 /\ Len(TeardownOrder) = 14
    BY DEF InstallOrder, TeardownOrder
  <1>2. DOMAIN InstallOrder = 1..13
    BY DEF InstallOrder
  <1>3. \A i \in 1..13 : InstallOrder[i] \in GuardCategory
    BY <1>2 DEF GuardCategory
  <1>4. \A i \in 1..13 : InstallOrder[i] = "fs" <=> i = 1
    BY DEF InstallOrder
  <1>5. \A i \in 1..14 : TeardownOrder[i] = "begin_teardown" <=> i = 1
    BY DEF TeardownOrder
  <1> QED
    BY <1>1, <1>3, <1>4, <1>5

LEMMA Categories ==
  /\ DOMAIN Install = {"fs", "shell", "com", "service", "alpc", "net", "token", "inject", "proc", "system", "ui"}
  /\ GuardCategory = {"fs", "memory", "inject", "reg", "net", "alpc", "token", "ui", "proc", "com",
                      "service", "shell", "system"}
  <1>1. DOMAIN Install = {"fs", "shell", "com", "service", "alpc", "net", "token", "inject", "proc", "system", "ui"}
    BY DEF Install
  <1>2. GuardCategory = {"fs", "memory", "inject", "reg", "net", "alpc", "token", "ui", "proc", "com",
                      "service", "shell", "system"}
    BY DEF GuardCategory, InstallOrder
  <1> QED
    BY <1>1, <1>2

(* The hooks of each guard, by name.                                        *)
LEMMA Hooks ==
  /\ Api.fs = fs_hooks_install.hooks
  /\ Api.shell = shell_guard_install.hooks
  /\ Api.com = com_guard_install.hooks
  /\ Api.service = service_guard_install.hooks
  /\ Api.alpc = alpc_guard_install.hooks
  /\ Api.net = net_hooks_install.hooks
  /\ Api.token = token_guard_install.hooks
  /\ Api.inject = inject_guard_install.hooks
  /\ Api.proc = proc_guard_install.hooks
  /\ Api.system = system_guard_install.hooks
  /\ Api.ui = ui_guard_install.hooks
  BY DEF Api, Install


LEMMA HooksOfGuards ==
  /\ \A g \in DOMAIN Install : ApisOf(g) = Install[g].hooks
  /\ ApisOf("memory") = {} /\ ApisOf("reg") = {}
  /\ Reported("memory") = {} /\ Reported("reg") = {} /\ Silent("memory") = {} /\ Silent("reg") = {}
  BY Categories DEF ApisOf, Api, Reported, Silent

(* The guard of a hook: no two guards hook one entry point.                 *)
LEMMA ApisDisjoint ==
  ASSUME NEW g \in GuardCategory, NEW h \in GuardCategory, NEW a, a \in ApisOf(g), a \in ApisOf(h)
  PROVE  g = h
  <1> USE HooksOfGuards, Categories DEF Install, fs_hooks_install, shell_guard_install, com_guard_install,
        service_guard_install, alpc_guard_install, net_hooks_install, token_guard_install, inject_guard_install,
        proc_guard_install, system_guard_install, ui_guard_install, InputCall, FindWindowCall, PostMessageCall,
        SendMessageCall, ClipboardCall
  <1> QED
    OBVIOUS

LEMMA ReportedHooks ==
  ASSUME NEW g \in GuardCategory
  PROVE  /\ Reported(g) \subseteq ApisOf(g)
         /\ Silent(g) \subseteq ApisOf(g)
         /\ g = "ui" => Reported(g) = ApisOf(g)
  <1> DEFINE Sound(i) == i.reported \subseteq i.hooks /\ i.silent \subseteq i.hooks
  <1>1. CASE g \in DOMAIN Install
    <2>1. /\ Sound(fs_hooks_install) /\ Sound(shell_guard_install) /\ Sound(com_guard_install)
          /\ Sound(service_guard_install) /\ Sound(alpc_guard_install) /\ Sound(net_hooks_install)
          /\ Sound(token_guard_install)
      BY DEF fs_hooks_install, shell_guard_install, com_guard_install, service_guard_install,
             alpc_guard_install, net_hooks_install, token_guard_install
    <2>2. /\ Sound(inject_guard_install) /\ Sound(proc_guard_install)
          /\ Sound(system_guard_install) /\ Sound(ui_guard_install)
      BY DEF inject_guard_install, proc_guard_install, system_guard_install, ui_guard_install
    <2> HIDE DEF Sound
    <2>3. Sound(Install[g])
      BY <1>1, <2>1, <2>2, Categories DEF Install
    <2>4. Install["ui"] = ui_guard_install /\ ui_guard_install.reported = ui_guard_install.hooks
      BY DEF Install, ui_guard_install
    <2> QED
      BY <1>1, <2>3, <2>4, HooksOfGuards DEF Reported, Silent, Sound
  <1>2. CASE g \notin DOMAIN Install
    BY <1>2, Categories DEF Reported, Silent
  <1> QED
    BY <1>1, <1>2

(* A decision is one of three, and passing means that the promise is kept.  *)
Keeps(api) ==
    \A q \in Requests(api) :
        /\ Decision(api, q) \in Verdict
        /\ Promised(api, q) \in BOOLEAN
        /\ Decision(api, q) = "pass" => Promised(api, q)

LEMMA HookNames ==
  /\ Api.fs = {"NtCreateUserProcess"}
  /\ Api.shell = {"ShellExecuteW", "ShellExecuteA", "ShellExecuteExW", "ShellExecuteExA"}
  /\ Api.com = {"CoCreateInstance", "CoCreateInstanceEx", "CoGetClassObject",
                "RoGetActivationFactory", "RoActivateInstance"}
  /\ Api.service = {"OpenSCManagerW", "OpenSCManagerA", "OpenServiceW", "OpenServiceA"}
  /\ Api.alpc = {"NtAlpcConnectPort", "NtAlpcConnectPortEx", "NtSecureConnectPort"}
  /\ Api.net = {"connect"}
  /\ Api.token = {"NtAdjustPrivilegesToken", "NtDuplicateToken", "NtSetInformationThread",
                  "NtImpersonateThread", "NtOpenThreadTokenEx"}
  /\ Api.inject = {"NtQueueApcThread", "NtQueueApcThreadEx", "NtSetContextThread"}
  /\ Api.proc = {"NtCreateProcess", "NtCreateProcessEx"}
  /\ Api.system = {"NtShutdownSystem", "NtSetSystemInformation", "NtCreateDebugObject", "NtRaiseHardError",
                   "NtCreateSymbolicLinkObject", "NtLoadDriver", "NtUnloadDriver"}
  /\ Api.ui = InputCall \cup FindWindowCall \cup PostMessageCall \cup SendMessageCall \cup ClipboardCall
                \cup {"ExitWindowsEx"}
  BY Hooks DEF fs_hooks_install, shell_guard_install, com_guard_install,
        service_guard_install, alpc_guard_install, net_hooks_install, token_guard_install, inject_guard_install,
        proc_guard_install, system_guard_install, ui_guard_install

LEMMA SpawnFields ==
  ASSUME NEW q \in SpawnRequest
  PROVE  q.image \in ImageName /\ q.list \in AttributeList /\ q.env \in ChildEnv
  <1>1. "plain" \in ImageName /\ "null" \in AttributeList /\ "plain" \in ChildEnv
    BY DEF ImageName, AttributeList, ChildEnv
  <1>2. CASE \E i \in ImageName : q = [PlainSpawn EXCEPT !.image = i]
    BY <1>1, <1>2 DEF PlainSpawn
  <1>3. CASE \E l \in AttributeList : q = [PlainSpawn EXCEPT !.list = l]
    BY <1>1, <1>3 DEF PlainSpawn
  <1>4. CASE \E e \in ChildEnv \X BOOLEAN : q = [PlainSpawn EXCEPT !.env = e[1], !.no_track = e[2]]
    BY <1>1, <1>4 DEF PlainSpawn
  <1> QED
    BY <1>2, <1>3, <1>4 DEF SpawnRequest

LEMMA ShellFields ==
  ASSUME NEW q \in ShellRequest
  PROVE  /\ q.verb \in Verb /\ q.file \in ShellString /\ q.params \in ShellString \ {"unicode"}
         /\ q.size \in {"full", "short"}
  BY DEF ShellRequest, PlainShell, Verb, ShellString

LEMMA SpawnKeeps == Keeps("NtCreateUserProcess")
  <1> DEFINE Kept(q) == /\ q.image \in {"plain", "unreadable"}
                        /\ q.list \notin {"parent", "handles", "imageDenied"}
                        /\ q.env \in {"noParams", "null", "plain", "ownSection"} \/ (q.env = "no_track" /\ q.no_track)
  <1>1. Requests("NtCreateUserProcess") = SpawnRequest
    BY HookNames DEF Requests, FindWindowCall, PostMessageCall, SendMessageCall
  <1>2. \A q : Decision("NtCreateUserProcess", q) = hook_nt_create_user_process(q)
    BY HookNames DEF Decision, FindWindowCall, PostMessageCall, SendMessageCall, InputCall, ClipboardCall
  <1>3. \A q : Kept(q) \in BOOLEAN
    OBVIOUS
  <1>4. \A q : Promised("NtCreateUserProcess", q) = Kept(q)
    BY Zenon, HookNames DEF Promised, FindWindowCall, PostMessageCall, SendMessageCall
  <1> HIDE DEF Kept
  <1>5. ASSUME NEW q \in SpawnRequest
        PROVE  hook_nt_create_user_process(q) \in Verdict /\ (hook_nt_create_user_process(q) = "pass" => Kept(q))
    BY SpawnFields DEF Kept, Verdict, hook_nt_create_user_process, extract_image_path, is_denylisted,
       is_denied_by_names, basename_of, original_filename, is_path_locked_wsl_bash,
       attribute_list_contains_parent_process, attribute_list_contains_handle_list, attr_count,
       readable_region, attr5_image_denied, image_name_from_attr_list, child_guard_env_violation,
       read_guard_env_entries, guard_env_mismatch, ImageName, AttributeList, ChildEnv
  <1> QED
    BY <1>1, <1>2, <1>3, <1>4, <1>5 DEF Keeps

LEMMA ShellKeeps == ASSUME NEW api \in {"ShellExecuteW", "ShellExecuteA"} PROVE Keeps(api)
  <1> DEFINE Kept(q) == /\ q.verb \in {"null", "open"}
                        /\ q.file \in {"null", "unreadable", "plain"}
                        /\ q.params \in {"null", "unreadable", "plain"}
  <1>1. Requests(api) = ShellRequest
    BY HookNames DEF Requests, FindWindowCall, PostMessageCall, SendMessageCall
  <1>2. \A q : Decision(api, q) = Refuse(shell_execute_w_deny(q))
    BY HookNames DEF Decision, FindWindowCall, PostMessageCall, SendMessageCall, InputCall, ClipboardCall, hook_shell_execute_w,
               hook_shell_execute_a, shell_execute_w_deny, shell_execute_a_deny
  <1>3. \A q : Kept(q) \in BOOLEAN
    OBVIOUS
  <1>4. \A q : Promised(api, q) = Kept(q)
    BY Zenon, HookNames DEF Promised, FindWindowCall, PostMessageCall, SendMessageCall
  <1> HIDE DEF Kept
  <1>5. ASSUME NEW q \in ShellRequest
        PROVE  Refuse(shell_execute_w_deny(q)) \in Verdict /\ (Refuse(shell_execute_w_deny(q)) = "pass" => Kept(q))
    BY ShellFields DEF Kept, Verdict, Refuse, shell_execute_w_deny, uninspected_deny_reason,
       shell_deny_reason, read_lpcstr, shell_verb_deny_reason, is_shell_target_denied,
       is_suspicious_unicode_scheme, is_shell_params_denied, ShellString, Verb
  <1> QED
    BY <1>1, <1>2, <1>3, <1>4, <1>5 DEF Keeps

LEMMA ShellExKeeps == ASSUME NEW api \in {"ShellExecuteExW", "ShellExecuteExA"} PROVE Keeps(api)
  <1> DEFINE Kept(q) == \/ q.size = "short"
                        \/ /\ q.verb \in {"null", "open"}
                           /\ q.file \in {"null", "unreadable", "plain"}
                           /\ q.params \in {"null", "unreadable", "plain"}
                           /\ q.mask = "none"
  <1>1. Requests(api) = ShellRequest
    BY HookNames DEF Requests, FindWindowCall, PostMessageCall, SendMessageCall
  <1>2. \A q : Decision(api, q) = Refuse(shell_execute_ex_w_deny(q))
    BY HookNames DEF Decision, FindWindowCall, PostMessageCall, SendMessageCall, InputCall, ClipboardCall, hook_shell_execute_ex_w,
               hook_shell_execute_ex_a, shell_execute_ex_w_deny, shell_execute_ex_a_deny
  <1>3. \A q : Kept(q) \in BOOLEAN
    OBVIOUS
  <1>4. \A q : Promised(api, q) = Kept(q)
    BY Zenon, HookNames DEF Promised, FindWindowCall, PostMessageCall, SendMessageCall
  <1> HIDE DEF Kept
  <1>5. ASSUME NEW q \in ShellRequest
        PROVE  Refuse(shell_execute_ex_w_deny(q)) \in Verdict /\ (Refuse(shell_execute_ex_w_deny(q)) = "pass" => Kept(q))
    BY ShellFields DEF Kept, Verdict, Refuse, shell_execute_ex_w_deny, shell_fmask_deny_reason,
       uninspected_deny_reason, shell_deny_reason, read_lpcstr, shell_verb_deny_reason,
       is_shell_target_denied, is_suspicious_unicode_scheme, is_shell_params_denied, ShellString, Verb
  <1> QED
    BY <1>1, <1>2, <1>3, <1>4, <1>5 DEF Keeps

LEMMA WinRtKeeps == ASSUME NEW api \in {"RoGetActivationFactory", "RoActivateInstance"} PROVE Keeps(api)
  <1> DEFINE Kept(q) == q \notin {"denied", "fatal"}
  <1>1. Requests(api) = WinRtClass
    BY HookNames DEF Requests, FindWindowCall, PostMessageCall, SendMessageCall
  <1>2. \A q : Decision(api, q) = Refuse(ro_activation_deny(q))
    BY HookNames DEF Decision, FindWindowCall, PostMessageCall, SendMessageCall, InputCall, ClipboardCall, hook_ro_get_activation_factory,
               hook_ro_activate_instance
  <1>3. \A q : Kept(q) \in BOOLEAN
    OBVIOUS
  <1>4. \A q : Promised(api, q) = Kept(q)
    BY Zenon, HookNames DEF Promised, FindWindowCall, PostMessageCall, SendMessageCall
  <1> HIDE DEF Kept
  <1>5. ASSUME NEW q \in WinRtClass
        PROVE  Refuse(ro_activation_deny(q)) \in Verdict /\ (Refuse(ro_activation_deny(q)) = "pass" => Kept(q))
    BY DEF Kept, Verdict, Refuse, ro_activation_deny, is_winrt_class_denied, WinRtClass
  <1> QED
    BY <1>1, <1>2, <1>3, <1>4, <1>5 DEF Keeps

LEMMA ComKeeps == ASSUME NEW api \in {"CoCreateInstance", "CoCreateInstanceEx", "CoGetClassObject"} PROVE Keeps(api)
  <1> DEFINE Kept(q) == q \notin {"denied", "fatal"}
  <1>1. Requests(api) = ClassId
    BY HookNames DEF Requests, FindWindowCall, PostMessageCall, SendMessageCall
  <1>2. \A q : Decision(api, q) = check_denylist(q)
    BY HookNames DEF Decision, FindWindowCall, PostMessageCall, SendMessageCall, InputCall, ClipboardCall, hook_co_create_instance,
               hook_co_create_instance_ex, hook_co_get_class_object
  <1>3. \A q : Kept(q) \in BOOLEAN
    OBVIOUS
  <1>4. \A q : Promised(api, q) = Kept(q)
    BY Zenon, HookNames DEF Promised, FindWindowCall, PostMessageCall, SendMessageCall
  <1> HIDE DEF Kept
  <1>5. ASSUME NEW q \in ClassId
        PROVE  check_denylist(q) \in Verdict /\ (check_denylist(q) = "pass" => Kept(q))
    BY DEF Kept, Verdict, check_denylist, ClassId
  <1> QED
    BY <1>1, <1>2, <1>3, <1>4, <1>5 DEF Keeps

LEMMA ScmKeeps == ASSUME NEW api \in {"OpenSCManagerW", "OpenSCManagerA"} PROVE Keeps(api)
  <1> DEFINE Kept(q) == q \subseteq ReadRights \cup {"GENERIC_READ"}
  <1>1. Requests(api) = {{r} : r \in ScmRight}
    BY HookNames DEF Requests, FindWindowCall, PostMessageCall, SendMessageCall
  <1>2. \A q : Decision(api, q) = Refuse(is_dangerous_scm_access(q))
    BY HookNames DEF Decision, FindWindowCall, PostMessageCall, SendMessageCall, InputCall, ClipboardCall, hook_open_sc_manager
  <1>3. \A q : Kept(q) \in BOOLEAN
    OBVIOUS
  <1>4. \A q : Promised(api, q) = Kept(q)
    BY Zenon, HookNames DEF Promised, FindWindowCall, PostMessageCall, SendMessageCall
  <1> HIDE DEF Kept
  <1>5. ASSUME NEW q \in {{r} : r \in ScmRight}
        PROVE  Refuse(is_dangerous_scm_access(q)) \in Verdict /\ (Refuse(is_dangerous_scm_access(q)) = "pass" => Kept(q))
    BY DEF Kept, Verdict, Refuse, is_dangerous_scm_access, scm_map_generic, GenericRight, SCM_DANGEROUS,
       ReadRights, ScmRight
  <1> QED
    BY <1>1, <1>2, <1>3, <1>4, <1>5 DEF Keeps

LEMMA ServiceKeeps == ASSUME NEW api \in {"OpenServiceW", "OpenServiceA"} PROVE Keeps(api)
  <1> DEFINE Kept(q) == q \subseteq ReadRights \cup {"GENERIC_READ"}
  <1>1. Requests(api) = {{r} : r \in ServiceRight}
    BY HookNames DEF Requests, FindWindowCall, PostMessageCall, SendMessageCall
  <1>2. \A q : Decision(api, q) = Refuse(is_dangerous_service_access(q))
    BY HookNames DEF Decision, FindWindowCall, PostMessageCall, SendMessageCall, InputCall, ClipboardCall, hook_open_service
  <1>3. \A q : Kept(q) \in BOOLEAN
    OBVIOUS
  <1>4. \A q : Promised(api, q) = Kept(q)
    BY Zenon, HookNames DEF Promised, FindWindowCall, PostMessageCall, SendMessageCall
  <1> HIDE DEF Kept
  <1>5. ASSUME NEW q \in {{r} : r \in ServiceRight}
        PROVE  Refuse(is_dangerous_service_access(q)) \in Verdict /\ (Refuse(is_dangerous_service_access(q)) = "pass" => Kept(q))
    BY DEF Kept, Verdict, Refuse, is_dangerous_service_access, service_map_generic, GenericRight,
       SERVICE_DANGEROUS, ReadRights, ServiceRight
  <1> QED
    BY <1>1, <1>2, <1>3, <1>4, <1>5 DEF Keeps

LEMMA AlpcKeeps == Keeps("NtAlpcConnectPort")
  <1> DEFINE Kept(q) == (IF q[1] \in {"null", "empty"} THEN q[2] ELSE q[1]) \in {"null", "empty", "harmless"}
  <1>1. Requests("NtAlpcConnectPort") = PortName \X PortName
    BY HookNames DEF Requests, FindWindowCall, PostMessageCall, SendMessageCall
  <1>2. \A q : Decision("NtAlpcConnectPort", q) = decide_connect(q[1], q[2])
    BY HookNames DEF Decision, FindWindowCall, PostMessageCall, SendMessageCall, InputCall, ClipboardCall, hook_nt_alpc_connect_port
  <1>3. \A q : Kept(q) \in BOOLEAN
    OBVIOUS
  <1>4. \A q : Promised("NtAlpcConnectPort", q) = Kept(q)
    BY Zenon, HookNames DEF Promised, FindWindowCall, PostMessageCall, SendMessageCall, PortOf
  <1> HIDE DEF Kept
  <1>5. ASSUME NEW q \in PortName \X PortName
        PROVE  decide_connect(q[1], q[2]) \in Verdict /\ (decide_connect(q[1], q[2]) = "pass" => Kept(q))
    BY DEF Kept, Verdict, decide_connect, try_resolve_ustr, classify_port, PortName
  <1> QED
    BY <1>1, <1>2, <1>3, <1>4, <1>5 DEF Keeps

LEMMA AlpcExKeeps == Keeps("NtAlpcConnectPortEx")
  <1> DEFINE Kept(q) == q[2] \in {"null", "empty", "harmless"}
  <1>1. Requests("NtAlpcConnectPortEx") = PortName \X PortName
    BY HookNames DEF Requests, FindWindowCall, PostMessageCall, SendMessageCall
  <1>2. \A q : Decision("NtAlpcConnectPortEx", q) = decide_connect_ex(q[2])
    BY HookNames DEF Decision, FindWindowCall, PostMessageCall, SendMessageCall, InputCall, ClipboardCall, hook_nt_alpc_connect_port_ex
  <1>3. \A q : Kept(q) \in BOOLEAN
    OBVIOUS
  <1>4. \A q : Promised("NtAlpcConnectPortEx", q) = Kept(q)
    BY Zenon, HookNames DEF Promised, FindWindowCall, PostMessageCall, SendMessageCall, PortOf
  <1> HIDE DEF Kept
  <1>5. ASSUME NEW q \in PortName \X PortName
        PROVE  decide_connect_ex(q[2]) \in Verdict /\ (decide_connect_ex(q[2]) = "pass" => Kept(q))
    BY DEF Kept, Verdict, decide_connect_ex, decide_connect, try_resolve_ustr, classify_port, PortName
  <1> QED
    BY <1>1, <1>2, <1>3, <1>4, <1>5 DEF Keeps

LEMMA SecureAlpcKeeps == Keeps("NtSecureConnectPort")
  <1> DEFINE Kept(q) == q[1] \in {"null", "empty", "harmless"}
  <1>1. Requests("NtSecureConnectPort") = PortName \X PortName
    BY HookNames DEF Requests, FindWindowCall, PostMessageCall, SendMessageCall
  <1>2. \A q : Decision("NtSecureConnectPort", q) = decide_connect(q[1], "null")
    BY HookNames DEF Decision, FindWindowCall, PostMessageCall, SendMessageCall, InputCall, ClipboardCall, hook_nt_alpc_secure_connect_port
  <1>3. \A q : Kept(q) \in BOOLEAN
    OBVIOUS
  <1>4. \A q : Promised("NtSecureConnectPort", q) = Kept(q)
    BY Zenon, HookNames DEF Promised, FindWindowCall, PostMessageCall, SendMessageCall, PortOf
  <1> HIDE DEF Kept
  <1>5. ASSUME NEW q \in PortName \X PortName
        PROVE  decide_connect(q[1], "null") \in Verdict /\ (decide_connect(q[1], "null") = "pass" => Kept(q))
    BY DEF Kept, Verdict, decide_connect, try_resolve_ustr, classify_port, PortName
  <1> QED
    BY <1>1, <1>2, <1>3, <1>4, <1>5 DEF Keeps

LEMMA ConnectKeeps == Keeps("connect")
  <1> DEFINE Kept(q) == \/ q[1] \in {"null", "otherFamily"}
                        \/ q[1] = "localhost" /\ ~q[2]
                        \/ q[1] = "host" /\ q[3] = "allow"
  <1>1. Requests("connect") = SockAddr \X BOOLEAN \X BrokerAnswer
    BY HookNames DEF Requests, FindWindowCall, PostMessageCall, SendMessageCall
  <1>2. \A q : Decision("connect", q) = hook_connect(q[1], q[2], q[3])
    BY HookNames DEF Decision, FindWindowCall, PostMessageCall, SendMessageCall, InputCall, ClipboardCall
  <1>3. \A q : Kept(q) \in BOOLEAN
    OBVIOUS
  <1>4. \A q : Promised("connect", q) = Kept(q)
    BY Zenon, HookNames DEF Promised, FindWindowCall, PostMessageCall, SendMessageCall
  <1> HIDE DEF Kept
  <1>5. ASSUME NEW q \in SockAddr \X BOOLEAN \X BrokerAnswer
        PROVE  hook_connect(q[1], q[2], q[3]) \in Verdict /\ (hook_connect(q[1], q[2], q[3]) = "pass" => Kept(q))
    BY DEF Kept, Verdict, hook_connect, parse_sockaddr, is_localhost, is_connection_denied, SockAddr,
       BrokerAnswer
  <1> QED
    BY <1>1, <1>2, <1>3, <1>4, <1>5 DEF Keeps

LEMMA PrivilegeKeeps == Keeps("NtAdjustPrivilegesToken")
  <1> DEFINE Kept(q) == q # "dangerous"
  <1>1. Requests("NtAdjustPrivilegesToken") = Privileges
    BY HookNames DEF Requests, FindWindowCall, PostMessageCall, SendMessageCall
  <1>2. \A q : Decision("NtAdjustPrivilegesToken", q) = Refuse(enables_dangerous_privilege(q))
    BY HookNames DEF Decision, FindWindowCall, PostMessageCall, SendMessageCall, InputCall, ClipboardCall, hook_nt_adjust_privileges_token
  <1>3. \A q : Kept(q) \in BOOLEAN
    OBVIOUS
  <1>4. \A q : Promised("NtAdjustPrivilegesToken", q) = Kept(q)
    BY Zenon, HookNames DEF Promised, FindWindowCall, PostMessageCall, SendMessageCall
  <1> HIDE DEF Kept
  <1>5. ASSUME NEW q \in Privileges
        PROVE  Refuse(enables_dangerous_privilege(q)) \in Verdict /\ (Refuse(enables_dangerous_privilege(q)) = "pass" => Kept(q))
    BY DEF Kept, Verdict, Refuse, enables_dangerous_privilege, Privileges
  <1> QED
    BY <1>1, <1>2, <1>3, <1>4, <1>5 DEF Keeps

LEMMA DuplicateKeeps == Keeps("NtDuplicateToken")
  <1> DEFINE Kept(q) == ~q
  <1>1. Requests("NtDuplicateToken") = BOOLEAN
    BY HookNames DEF Requests, FindWindowCall, PostMessageCall, SendMessageCall
  <1>2. \A q : Decision("NtDuplicateToken", q) = Refuse(q)
    BY HookNames DEF Decision, FindWindowCall, PostMessageCall, SendMessageCall, InputCall, ClipboardCall, hook_nt_duplicate_token
  <1>3. \A q : Kept(q) \in BOOLEAN
    OBVIOUS
  <1>4. \A q : Promised("NtDuplicateToken", q) = Kept(q)
    BY Zenon, HookNames DEF Promised, FindWindowCall, PostMessageCall, SendMessageCall
  <1> HIDE DEF Kept
  <1>5. ASSUME NEW q \in BOOLEAN
        PROVE  Refuse(q) \in Verdict /\ (Refuse(q) = "pass" => Kept(q))
    BY DEF Kept, Verdict, Refuse
  <1> QED
    BY <1>1, <1>2, <1>3, <1>4, <1>5 DEF Keeps

LEMMA ThreadTokenKeeps == Keeps("NtSetInformationThread")
  <1> DEFINE Kept(q) == q[1] \in {"self", "child"} \/ ~q[2]
  <1>1. Requests("NtSetInformationThread") = Owner \X BOOLEAN
    BY HookNames DEF Requests, FindWindowCall, PostMessageCall, SendMessageCall
  <1>2. \A q : Decision("NtSetInformationThread", q) = Refuse(q[2] /\ ~is_self_thread_impersonation(q[1]))
    BY HookNames DEF Decision, FindWindowCall, PostMessageCall, SendMessageCall, InputCall, ClipboardCall, hook_nt_set_information_thread
  <1>3. \A q : Kept(q) \in BOOLEAN
    OBVIOUS
  <1>4. \A q : Promised("NtSetInformationThread", q) = Kept(q)
    BY Zenon, HookNames DEF Promised, FindWindowCall, PostMessageCall, SendMessageCall
  <1> HIDE DEF Kept
  <1>5. ASSUME NEW q \in Owner \X BOOLEAN
        PROVE  Refuse(q[2] /\ ~is_self_thread_impersonation(q[1])) \in Verdict /\ (Refuse(q[2] /\ ~is_self_thread_impersonation(q[1])) = "pass" => Kept(q))
    BY DEF Kept, Verdict, Refuse, is_self_thread_impersonation, Owner
  <1> QED
    BY <1>1, <1>2, <1>3, <1>4, <1>5 DEF Keeps

LEMMA OpenTokenKeeps == Keeps("NtOpenThreadTokenEx")
  <1> DEFINE Kept(q) == q[1] \in {"self", "child"} \/ ~q[2]
  <1>1. Requests("NtOpenThreadTokenEx") = Owner \X BOOLEAN
    BY HookNames DEF Requests, FindWindowCall, PostMessageCall, SendMessageCall
  <1>2. \A q : Decision("NtOpenThreadTokenEx", q) = Refuse(q[2] /\ untrusted_token_owner(q[1]))
    BY HookNames DEF Decision, FindWindowCall, PostMessageCall, SendMessageCall, InputCall, ClipboardCall, hook_nt_open_thread_token_ex
  <1>3. \A q : Kept(q) \in BOOLEAN
    OBVIOUS
  <1>4. \A q : Promised("NtOpenThreadTokenEx", q) = Kept(q)
    BY Zenon, HookNames DEF Promised, FindWindowCall, PostMessageCall, SendMessageCall
  <1> HIDE DEF Kept
  <1>5. ASSUME NEW q \in Owner \X BOOLEAN
        PROVE  Refuse(q[2] /\ untrusted_token_owner(q[1])) \in Verdict /\ (Refuse(q[2] /\ untrusted_token_owner(q[1])) = "pass" => Kept(q))
    BY DEF Kept, Verdict, Refuse, untrusted_token_owner, Owner
  <1> QED
    BY <1>1, <1>2, <1>3, <1>4, <1>5 DEF Keeps

LEMMA ImpersonateKeeps == Keeps("NtImpersonateThread")
  <1> DEFINE Kept(q) == q \in {"self", "child"}
  <1>1. Requests("NtImpersonateThread") = Owner
    BY HookNames DEF Requests, FindWindowCall, PostMessageCall, SendMessageCall
  <1>2. \A q : Decision("NtImpersonateThread", q) = Refuse(untrusted_token_owner(q))
    BY HookNames DEF Decision, FindWindowCall, PostMessageCall, SendMessageCall, InputCall, ClipboardCall, hook_nt_impersonate_thread
  <1>3. \A q : Kept(q) \in BOOLEAN
    OBVIOUS
  <1>4. \A q : Promised("NtImpersonateThread", q) = Kept(q)
    BY Zenon, HookNames DEF Promised, FindWindowCall, PostMessageCall, SendMessageCall
  <1> HIDE DEF Kept
  <1>5. ASSUME NEW q \in Owner
        PROVE  Refuse(untrusted_token_owner(q)) \in Verdict /\ (Refuse(untrusted_token_owner(q)) = "pass" => Kept(q))
    BY DEF Kept, Verdict, Refuse, untrusted_token_owner, Owner
  <1> QED
    BY <1>1, <1>2, <1>3, <1>4, <1>5 DEF Keeps

LEMMA ApcKeeps == ASSUME NEW api \in {"NtQueueApcThread", "NtQueueApcThreadEx"} PROVE Keeps(api)
  <1> DEFINE Kept(q) == q # "foreign"
  <1>1. Requests(api) = Owner
    BY HookNames DEF Requests, FindWindowCall, PostMessageCall, SendMessageCall
  <1>2. \A q : Decision(api, q) = hook_nt_queue_apc_thread(q)
    BY HookNames DEF Decision, FindWindowCall, PostMessageCall, SendMessageCall, InputCall, ClipboardCall
  <1>3. \A q : Kept(q) \in BOOLEAN
    OBVIOUS
  <1>4. \A q : Promised(api, q) = Kept(q)
    BY Zenon, HookNames DEF Promised, FindWindowCall, PostMessageCall, SendMessageCall
  <1> HIDE DEF Kept
  <1>5. ASSUME NEW q \in Owner
        PROVE  hook_nt_queue_apc_thread(q) \in Verdict /\ (hook_nt_queue_apc_thread(q) = "pass" => Kept(q))
    BY DEF Kept, Verdict, hook_nt_queue_apc_thread, should_block_thread, Owner
  <1> QED
    BY <1>1, <1>2, <1>3, <1>4, <1>5 DEF Keeps

LEMMA ContextKeeps == Keeps("NtSetContextThread")
  <1> DEFINE Kept(q) == q[1] # "foreign" \/ q[2] \notin {"outside", "debugOutside"}
  <1>1. Requests("NtSetContextThread") = Owner \X Context
    BY HookNames DEF Requests, FindWindowCall, PostMessageCall, SendMessageCall
  <1>2. \A q : Decision("NtSetContextThread", q) = hook_nt_set_context_thread(q)
    BY HookNames DEF Decision, FindWindowCall, PostMessageCall, SendMessageCall, InputCall, ClipboardCall
  <1>3. \A q : Kept(q) \in BOOLEAN
    OBVIOUS
  <1>4. \A q : Promised("NtSetContextThread", q) = Kept(q)
    BY Zenon, HookNames DEF Promised, FindWindowCall, PostMessageCall, SendMessageCall
  <1> HIDE DEF Kept
  <1>5. ASSUME NEW q \in Owner \X Context
        PROVE  hook_nt_set_context_thread(q) \in Verdict /\ (hook_nt_set_context_thread(q) = "pass" => Kept(q))
    BY DEF Kept, Verdict, hook_nt_set_context_thread, should_block_thread, context_hijacks, Owner,
       Context
  <1> QED
    BY <1>1, <1>2, <1>3, <1>4, <1>5 DEF Keeps

LEMMA WindowKeeps ==
  ASSUME NEW api \in FindWindowCall \cup PostMessageCall \cup SendMessageCall
  PROVE  Keeps(api)
  <1> DEFINE Kept(q) == q \in {"null", "own", "child"}
             d(q) == Refuse(f3_denied(classify_hwnd(q)))
  <1>1. Requests(api) = Window
    BY HookNames DEF Requests, FindWindowCall, PostMessageCall, SendMessageCall
  <1>2. \A q : Decision(api, q) = d(q)
    BY HookNames DEF Decision, FindWindowCall, PostMessageCall, SendMessageCall, InputCall, ClipboardCall,
                     hook_find_window, hook_post_message, hook_send_message
  <1>3. \A q : Kept(q) \in BOOLEAN
    OBVIOUS
  <1>4. \A q : Promised(api, q) = Kept(q)
    BY HookNames DEF Promised, FindWindowCall, PostMessageCall, SendMessageCall
  <1> HIDE DEF Kept
  <1>5. ASSUME NEW q \in Window
        PROVE  d(q) \in Verdict /\ (d(q) = "pass" => Kept(q))
    BY DEF Kept, Verdict, Refuse, f3_denied, classify_hwnd, Window
  <1> HIDE DEF d
  <1> QED
    BY <1>1, <1>2, <1>3, <1>4, <1>5 DEF Keeps

(* Calls that never pass.                                                   *)
LEMMA NeverKeeps ==
  ASSUME NEW api \in InputCall \cup ClipboardCall \cup {"ExitWindowsEx"} \cup Api.system \cup Api.proc
  PROVE  Keeps(api)
  <1>1. \A q : Decision(api, q) \in {"refuse", "kill"}
    BY HookNames DEF Decision, FindWindowCall, PostMessageCall, SendMessageCall, InputCall, ClipboardCall,
                     hook_input, hook_clipboard, hook_exit_windows_ex, hook_system, hook_nt_create_process
  <1>2. \A q : Promised(api, q) = FALSE
    BY HookNames DEF Promised, FindWindowCall, PostMessageCall, SendMessageCall, InputCall, ClipboardCall
  <1> QED
    BY <1>1, <1>2 DEF Keeps, Verdict

(* Whatever guarded function is called with whatever arguments: a call that *)
(* the guards let pass is one they promise to let pass.                     *)
LEMMA DecisionsKeep == ASSUME NEW g \in GuardCategory, NEW api \in ApisOf(g) PROVE Keeps(api)
  <1>1. CASE g \in {"memory", "reg"}
    BY <1>1, HooksOfGuards
  <1>2. CASE g = "ui"
    <2>1. api \in Api.ui
      BY <1>2, HooksOfGuards, Hooks, Categories DEF Install
    <2> QED
      BY <2>1, HookNames, WindowKeeps, NeverKeeps
  <1>3. CASE g \in {"fs", "shell", "com", "service", "alpc"}
    <2>1. api \in Api.fs \cup Api.shell \cup Api.com \cup Api.service \cup Api.alpc
      BY <1>3, HooksOfGuards, Hooks, Categories DEF Install
    <2> QED
      BY <2>1, HookNames, SpawnKeeps, ShellKeeps, ShellExKeeps, WinRtKeeps, ComKeeps, ScmKeeps, ServiceKeeps,
         AlpcKeeps, AlpcExKeeps, SecureAlpcKeeps
  <1>4. CASE g \in {"net", "token", "inject", "proc", "system"}
    <2>1. api \in Api.net \cup Api.token \cup Api.inject \cup Api.proc \cup Api.system
      BY <1>4, HooksOfGuards, Hooks, Categories DEF Install
    <2> QED
      BY <2>1, HookNames, ConnectKeeps, PrivilegeKeeps, DuplicateKeeps, ThreadTokenKeeps, OpenTokenKeeps,
         ImpersonateKeeps, ApcKeeps, ContextKeeps, NeverKeeps
  <1> QED
    BY <1>1, <1>2, <1>3, <1>4, Categories

(* How far the install and the teardown are.                                *)
StepTypes ==
    /\ guard \in {"none", "scan", "full", "static"}
    /\ skipped \in DisableChoices
    /\ phase \in {"installing", "running", "detaching", "gone"}
    /\ step \in 1..15
    /\ installed \subseteq GuardCategory
    /\ ack \in {"none", "ok", "degraded", "failed"}

Flags == errors \in BOOLEAN /\ loader \in BOOLEAN /\ teardown \in BOOLEAN /\ allowRwx \in BOOLEAN

StepOrder ==
    /\ phase = "installing" => step <= 14
    /\ phase = "installing" /\ step = 1 => installed = {}
    /\ phase = "detaching" /\ step > 1 => teardown
    /\ phase = "running" => step = 14

HookSteps == StepTypes /\ Flags /\ StepOrder

(* What the steps taken so far have put in.                                 *)
EnabledAreIn ==
    phase \in {"installing", "running"} =>
        \A i \in 1..13 : i < step /\ Enabled(InstallOrder[i]) =>
            \/ InstallOrder[i] \in installed
            \/ InstallOrder[i] = "ui" /\ errors

(* What is missing was reported, or is skipped in silence.                  *)
MissingIsKnown ==
    \A g \in GuardCategory :
        /\ absent \cap ApisOf(g) \subseteq Reported(g) \cup Silent(g)
        /\ ~errors => absent \cap ApisOf(g) \subseteq Silent(g)

AbsentIsHooked == \A a \in absent : \E g \in GuardCategory : a \in ApisOf(g)

AckIsHonest ==
    phase = "running" => ack \in {"ok", "degraded"} /\ (ack = "ok" => ~errors)

InstallInv == HookSteps /\ EnabledAreIn /\ MissingIsKnown /\ AbsentIsHooked /\ AckIsHonest /\ OwnNeverKilled

(* A thread's window is open just while it searches or decides, or runs an  *)
(* original that cannot call back.                                          *)
Guarded(fs) ==
    /\ fs # <<>>
    /\ \/ fs[Len(fs)].pc \in {"search", "decide", "given"}
       \/ fs[Len(fs)].pc = "original" /\ ~fs[Len(fs)].closes

FrameKept(f) ==
    /\ f.entered
    /\ f.calls = f.closes
    /\ f.pc = "callback" => f.closes
    /\ f.searches => ~f.closes
    /\ f.pc \in {"search", "given"} => f.searches
    /\ f.verdict = "pass" => f.promised
    /\ f.pc \in {"original", "callback", "given"} => f.promised

(* The calls a thread is in: every one but the newest waits in a callback.  *)
Stack(fs) ==
    /\ fs \in Seq(Frame)
    /\ Len(fs) <= MaxFrames
    /\ \A i \in 1..Len(fs) : FrameKept(fs[i])
    /\ \A i \in 1..Len(fs) : i < Len(fs) => fs[i].pc = "callback"

FramesInv ==
    /\ window \in [HookThread -> BOOLEAN]
    /\ frames \in [HookThread -> Seq(Frame)]
    /\ \A t \in HookThread : Stack(frames[t]) /\ (window[t] <=> Guarded(frames[t]))

HookInv == InstallInv /\ FramesInv

-----------------------------------------------------------------------------
LEMMA EmptyStack == Stack(<<>>) /\ ~Guarded(<<>>)
  <1>1. <<>> \in Seq(Frame) /\ Len(<<>>) = 0
    OBVIOUS
  <1> QED
    BY <1>1, HookConstants DEF Stack, Guarded

LEMMA Pushed ==
  ASSUME NEW fs, Stack(fs), fs # <<>> => fs[Len(fs)].pc = "callback",
         Len(fs) < MaxFrames, NEW f \in Frame, FrameKept(f)
  PROVE  LET gs == Append(fs, f) IN Stack(gs) /\ gs # <<>> /\ Len(gs) = Len(fs) + 1 /\ gs[Len(gs)] = f
  <1> DEFINE gs == Append(fs, f)
  <1>1. fs \in Seq(Frame) /\ Len(fs) \in Nat
    BY DEF Stack
  <1>2. gs \in Seq(Frame) /\ Len(gs) = Len(fs) + 1 /\ gs[Len(fs) + 1] = f
        /\ \A i \in 1..Len(fs) : gs[i] = fs[i]
    BY <1>1
  <1>3. gs # <<>>
    BY <1>1, <1>2
  <1> HIDE DEF gs
  <1>4. \A i \in 1..Len(gs) : FrameKept(gs[i])
    BY <1>1, <1>2 DEF Stack
  <1>5. \A i \in 1..Len(gs) : i < Len(gs) => gs[i].pc = "callback"
    <2> SUFFICES ASSUME NEW i \in 1..Len(fs) PROVE fs[i].pc = "callback"
      BY <1>1, <1>2
    <2>1. fs # <<>>
      BY <1>1
    <2>2. CASE i = Len(fs)
      BY <2>1, <2>2
    <2>3. CASE i < Len(fs)
      BY <2>3 DEF Stack
    <2> QED
      BY <1>1, <2>2, <2>3
  <1>6. Len(gs) <= MaxFrames
    BY <1>1, <1>2, HookConstants
  <1>7. Stack(gs)
    BY <1>2, <1>4, <1>5, <1>6 DEF Stack
  <1> QED
    BY <1>2, <1>3, <1>7 DEF gs

LEMMA Popped ==
  ASSUME NEW fs, Stack(fs), fs # <<>>
  PROVE  LET gs == SubSeq(fs, 1, Len(fs) - 1) IN Stack(gs) /\ ~Guarded(gs)
  <1> DEFINE gs == SubSeq(fs, 1, Len(fs) - 1)
  <1>1. fs \in Seq(Frame) /\ Len(fs) \in Nat \ {0}
    BY EmptySeq DEF Stack
  <1>2. gs \in Seq(Frame) /\ Len(gs) = Len(fs) - 1 /\ \A i \in 1..Len(gs) : gs[i] = fs[i]
    BY <1>1
  <1> HIDE DEF gs
  <1>3. \A i \in 1..Len(gs) : gs[i].pc = "callback" /\ FrameKept(gs[i])
    BY <1>1, <1>2 DEF Stack
  <1>4. Len(gs) <= MaxFrames
    BY <1>1, <1>2, HookConstants DEF Stack
  <1>5. Stack(gs)
    BY <1>2, <1>3, <1>4 DEF Stack
  <1>6. gs # <<>> => Len(gs) \in 1..Len(gs)
    BY <1>2
  <1>7. ~Guarded(gs)
    BY <1>3, <1>6 DEF Guarded
  <1> QED
    BY <1>5, <1>7 DEF gs

LEMMA TopSet ==
  ASSUME NEW fs, Stack(fs), fs # <<>>, NEW pc \in {"search", "decide", "given", "original", "callback"},
         pc = "callback" => fs[Len(fs)].closes,
         pc \in {"search", "given"} => fs[Len(fs)].searches,
         pc \in {"original", "callback", "given"} => fs[Len(fs)].promised
  PROVE  LET gs == [fs EXCEPT ![Len(fs)].pc = pc]
         IN  Stack(gs) /\ gs # <<>> /\ Len(gs) = Len(fs) /\ gs[Len(gs)] = [fs[Len(fs)] EXCEPT !.pc = pc]
  <1> DEFINE n == Len(fs)
             gs == [fs EXCEPT ![Len(fs)].pc = pc]
             f == [fs[Len(fs)] EXCEPT !.pc = pc]
  <1>1. fs \in Seq(Frame) /\ n \in Nat \ {0} /\ n \in 1..n
    BY EmptySeq DEF Stack
  <1>2. fs[n] \in Frame /\ FrameKept(fs[n])
    BY <1>1 DEF Stack
  <1>3. f \in Frame /\ f.pc = pc
    BY <1>2 DEF Frame
  <1>4. FrameKept(f)
    BY <1>2, <1>3 DEF FrameKept, Frame
  <1>5. gs = [fs EXCEPT ![n] = f]
    OBVIOUS
  <1> HIDE DEF f, gs
  <1>6. gs \in Seq(Frame) /\ Len(gs) = n /\ gs[n] = f /\ \A i \in 1..n : i # n => gs[i] = fs[i]
    BY <1>1, <1>3, <1>5
  <1>7. gs # <<>>
    BY <1>1, <1>6
  <1>8. \A i \in 1..Len(gs) : FrameKept(gs[i])
    BY <1>1, <1>4, <1>6 DEF Stack
  <1>9. \A i \in 1..Len(gs) : i < Len(gs) => gs[i].pc = "callback"
    BY <1>1, <1>6 DEF Stack
  <1>10. Stack(gs)
    BY <1>6, <1>8, <1>9 DEF Stack
  <1> QED
    BY <1>6, <1>7, <1>10 DEF gs, f

-----------------------------------------------------------------------------
LEMMA HookInvInit == ASSUME HookInit PROVE HookInv
  <1>1. StepTypes /\ Flags /\ StepOrder
    <2>1. StepTypes
      BY DEF HookInit, StepTypes
    <2>2. StepOrder
      BY DEF HookInit, StepOrder
    <2>3. Flags
      BY Zenon DEF HookInit, Flags
    <2> QED
      BY <2>1, <2>2, <2>3
  <1>2. EnabledAreIn /\ MissingIsKnown /\ AbsentIsHooked /\ AckIsHonest /\ OwnNeverKilled
    BY DEF HookInit, EnabledAreIn, MissingIsKnown, AbsentIsHooked, AckIsHonest, OwnNeverKilled
  <1>3. FramesInv
    BY EmptyStack DEF HookInit, FramesInv, Stack
  <1> QED
    BY <1>1, <1>2, <1>3 DEF HookInv, InstallInv, HookSteps

(* Patching in the order of the install and of the teardown is excused.     *)
LEMMA PatchedQuietly ==
  ASSUME NEW g, NEW putsIn \in BOOLEAN, Patched(g, putsIn), OwnNeverKilled,
         \/ "memory" \notin installed /\ g # "memory"
         \/ loader
         \/ teardown /\ ~putsIn
  PROVE  OwnNeverKilled'
  BY DEF Patched, AllocKills, ProtectKills, OwnNeverKilled

LEMMA InstallStep ==
  ASSUME HookInv, NEW missing \in MissingChoices, InstallGuard(missing)
  PROVE  HookInv'
  <1> DEFINE g == InstallOrder[step]
  <1>1. /\ phase = "installing" /\ step \in 1..13 /\ step + 1 \in 1..14
        /\ g \in GuardCategory
    BY Orders DEF HookInv, InstallInv, HookSteps, StepTypes, Flags, StepOrder, InstallGuard, OnLoad
  <1>2. /\ loader = (g # "fs")
        /\ missing \subseteq Reported(g) \cup Silent(g)
        /\ installed' = installed \cup {g}
        /\ absent' = absent \cup missing
        /\ errors' = (errors \/ Buffers(g, missing))
        /\ Patched(g, TRUE)
        /\ step' = step + 1
        /\ UNCHANGED <<guard, allowRwx, skipped, phase, ack, window, loader, teardown, frames>>
    BY DEF InstallGuard
  <1>3. g = "fs" => step = 1 /\ installed = {}
    BY <1>1, Orders DEF HookInv, InstallInv, HookSteps, StepTypes, Flags, StepOrder
  <1> HIDE DEF g
  <1>4. errors' \in BOOLEAN /\ (errors => errors')
    BY <1>2 DEF HookInv, InstallInv, HookSteps, StepTypes, Flags, StepOrder, Buffers
  <1>5. HookSteps'
    BY <1>1, <1>2, <1>4 DEF HookInv, InstallInv, HookSteps, StepTypes, Flags, StepOrder
  <1>6. EnabledAreIn'
    <2> SUFFICES ASSUME NEW i \in 1..13, i < step', Enabled(InstallOrder[i])'
                 PROVE  \/ InstallOrder[i] \in installed'
                        \/ InstallOrder[i] = "ui" /\ errors'
      BY DEF EnabledAreIn
    <2>1. CASE i = step
      BY <1>2, <2>1 DEF g
    <2>2. CASE i < step
      <3>1. Enabled(InstallOrder[i])
        BY <1>2 DEF Enabled
      <3> QED
        BY <1>1, <1>2, <1>4, <2>2, <3>1 DEF HookInv, InstallInv, EnabledAreIn
    <2> QED
      BY <1>1, <1>2, <2>1, <2>2
  <1>7. MissingIsKnown'
    <2> SUFFICES ASSUME NEW h \in GuardCategory
                 PROVE  /\ absent' \cap ApisOf(h) \subseteq Reported(h) \cup Silent(h)
                        /\ ~errors' => absent' \cap ApisOf(h) \subseteq Silent(h)
      BY DEF MissingIsKnown
    <2>1. h # g => missing \cap ApisOf(h) = {}
      BY <1>1, <1>2, ApisDisjoint, ReportedHooks
    <2>2. ~errors' => missing \subseteq Silent(g)
      BY <1>2 DEF Buffers
    <2> QED
      BY <1>2, <1>4, <2>1, <2>2 DEF HookInv, InstallInv, MissingIsKnown
  <1>8. AbsentIsHooked'
    BY <1>1, <1>2, ReportedHooks DEF HookInv, InstallInv, AbsentIsHooked
  <1>9. AckIsHonest'
    BY <1>1, <1>2 DEF AckIsHonest
  <1>10. OwnNeverKilled'
    BY <1>2, <1>3, PatchedQuietly DEF HookInv, InstallInv
  <1>11. FramesInv'
    BY <1>2 DEF HookInv, FramesInv
  <1> QED
    BY <1>5, <1>6, <1>7, <1>8, <1>9, <1>10, <1>11 DEF HookInv, InstallInv

(* A step of the loader that hooks nothing.                                 *)
LEMMA LoaderStep ==
  ASSUME HookInv,
         SkipGuard \/ OpenInstallWindow \/ FailOptional \/ FailInstall
           \/ \E enforced \in BOOLEAN : apply_mitigations(enforced)
  PROVE  HookInv'
  <1> USE DEF HookInv, InstallInv
  <1>1. UNCHANGED <<installed, absent, window, frames, ownFate, skipped, guard>>
    BY DEF SkipGuard, OpenInstallWindow, FailOptional, FailInstall, apply_mitigations
  <1>2. errors' \in BOOLEAN /\ (errors => errors')
    BY DEF SkipGuard, OpenInstallWindow, FailOptional, FailInstall, apply_mitigations, HookSteps, StepTypes, Flags, StepOrder
  <1>3. FramesInv' /\ OwnNeverKilled' /\ AbsentIsHooked'
    BY <1>1 DEF FramesInv, OwnNeverKilled, AbsentIsHooked
  <1>4. MissingIsKnown'
    BY <1>1, <1>2 DEF MissingIsKnown
  <1>5. CASE SkipGuard
    <2>1. HookSteps' /\ AckIsHonest'
      BY <1>5, Orders DEF SkipGuard, OnLoad, HookSteps, StepTypes, Flags, StepOrder, AckIsHonest
    <2>2. EnabledAreIn'
      BY <1>5, Orders DEF SkipGuard, OnLoad, HookSteps, StepTypes, Flags, StepOrder, EnabledAreIn, Enabled
    <2> QED
      BY <1>3, <1>4, <2>1, <2>2
  <1>6. CASE OpenInstallWindow
    <2>1. HookSteps' /\ AckIsHonest' /\ EnabledAreIn'
      BY <1>6, Orders DEF OpenInstallWindow, OnLoad, HookSteps, StepTypes, Flags, StepOrder, AckIsHonest, EnabledAreIn, Enabled
    <2> QED
      BY <1>3, <1>4, <2>1
  <1>7. CASE FailOptional
    <2>1. HookSteps' /\ AckIsHonest'
      BY <1>7, Orders DEF FailOptional, OnLoad, HookSteps, StepTypes, Flags, StepOrder, AckIsHonest
    <2>2. EnabledAreIn'
      BY <1>7, Orders DEF FailOptional, OnLoad, HookSteps, StepTypes, Flags, StepOrder, EnabledAreIn, Enabled
    <2> QED
      BY <1>3, <1>4, <2>1, <2>2
  <1>8. CASE FailInstall
    <2>1. AckIsHonest' /\ EnabledAreIn'
      BY <1>8 DEF FailInstall, AckIsHonest, EnabledAreIn
    <2>2. StepTypes' /\ Flags'
      <3>1. loader' = FALSE /\ UNCHANGED <<errors, teardown, allowRwx>>
        BY <1>8 DEF FailInstall
      <3>2. Flags'
        BY <3>1, Zenon DEF HookSteps, Flags
      <3> QED
        BY <1>8, <3>2 DEF FailInstall, HookSteps, StepTypes
    <2>3. StepOrder'
      BY <1>8 DEF FailInstall, StepOrder
    <2> QED
      BY <1>3, <1>4, <2>1, <2>2, <2>3 DEF HookSteps
  <1>9. ASSUME NEW enforced \in BOOLEAN, apply_mitigations(enforced) PROVE HookInv'
    <2>1. StepTypes' /\ Flags'
      <3>1. ack' \in {"ok", "degraded"}
        BY <1>9 DEF apply_mitigations
      <3>2. loader' = FALSE /\ UNCHANGED <<teardown, allowRwx>>
        BY <1>9 DEF apply_mitigations
      <3>3. Flags'
        BY <1>2, <3>2, Zenon DEF HookSteps, Flags
      <3> QED
        BY <1>9, <3>1, <3>3 DEF apply_mitigations, HookSteps, StepTypes
    <2>3. StepOrder'
      BY <1>9, Orders DEF apply_mitigations, StepOrder
    <2>4. AckIsHonest'
      BY <1>9 DEF apply_mitigations, AckIsHonest
    <2>2. EnabledAreIn'
      BY <1>2, <1>9, Orders DEF apply_mitigations, OnLoad, HookSteps, StepTypes, Flags, StepOrder, EnabledAreIn, Enabled
    <2> QED
      BY <1>3, <1>4, <2>1, <2>2, <2>3, <2>4 DEF HookSteps
  <1> QED
    BY <1>5, <1>6, <1>7, <1>8, <1>9

(* What the guest does leaves the install alone.                            *)
LEMMA InstallStays ==
  ASSUME InstallInv, phase' \in {phase, "gone"},
         UNCHANGED <<guard, allowRwx, skipped, step, installed, absent, errors, ack, loader, teardown, ownFate>>
  PROVE  InstallInv'
  <1> USE DEF InstallInv
  <1>1. HookSteps' /\ MissingIsKnown' /\ AbsentIsHooked' /\ AckIsHonest' /\ OwnNeverKilled'
    BY DEF HookSteps, StepTypes, Flags, StepOrder, MissingIsKnown, AbsentIsHooked, AckIsHonest, OwnNeverKilled
  <1>2. EnabledAreIn'
    BY DEF EnabledAreIn, Enabled
  <1> QED
    BY <1>1, <1>2

LEMMA ThreadMoves ==
  ASSUME FramesInv, NEW t \in HookThread, NEW gs, Stack(gs), NEW b \in BOOLEAN, b <=> Guarded(gs),
         frames' = [frames EXCEPT ![t] = gs], window' = [window EXCEPT ![t] = b]
  PROVE  FramesInv'
  <1>1. gs \in Seq(Frame)
    BY DEF Stack
  <1> QED
    BY <1>1 DEF FramesInv

LEMMA EmptyFrames ==
  ASSUME frames' = [t \in HookThread |-> <<>>], window' = [t \in HookThread |-> FALSE]
  PROVE  FramesInv'
  <1>1. <<>> \in Seq(Frame)
    OBVIOUS
  <1> QED
    BY <1>1, EmptyStack DEF FramesInv

LEMMA ThreadCallStep ==
  ASSUME HookInv, NEW t \in HookThread, NEW api \in Hooked, NEW q \in Requests(api), Call(t, api, q)
  PROVE  HookInv'
  <1> DEFINE fs == frames[t]
             f == [verdict |-> Decision(api, q), promised |-> Promised(api, q),
                   calls |-> api \in CallbackCapable, closes |-> ClosesBefore(api), searches |-> Searches(api),
                   pc |-> IF window[t] /\ ~RefusesAlways(api)
                          THEN (IF Searches(api) THEN "given" ELSE "original")
                          ELSE (IF Searches(api) THEN "search" ELSE "decide"),
                   entered |-> ~window[t]]
  <1>1. /\ GuestRuns(t)
        /\ Len(fs) < MaxFrames
        /\ frames' = [frames EXCEPT ![t] = Append(fs, f)]
        /\ window' = [window EXCEPT ![t] = TRUE]
        /\ UNCHANGED <<guard, allowRwx, skipped, phase, step, installed, absent, errors, ack, loader,
                       teardown, ownFate>>
    <2>1. t \in DOMAIN frames
      BY DEF HookInv, FramesInv
    <2> QED
      BY <2>1 DEF Call
  <1>2. InstallInv'
    BY <1>1, InstallStays DEF HookInv
  <1>3. Stack(fs) /\ (window[t] <=> Guarded(fs)) /\ window[t] \in BOOLEAN
    BY DEF HookInv, FramesInv
  <1>4. fs # <<>> => fs[Len(fs)].pc = "callback"
    BY <1>1 DEF GuestRuns, Top
  <1>5. window[t] = FALSE
    BY <1>3, <1>4 DEF Guarded
  <1>6. Keeps(api)
    <2>1. \E g \in GuardCategory : api \in ApisOf(g)
      BY DEF Hooked, HookInv, InstallInv, HookSteps, StepTypes, Flags, StepOrder
    <2> QED
      BY <2>1, DecisionsKeep
  <1>7. /\ Decision(api, q) \in Verdict
        /\ Promised(api, q) \in BOOLEAN
        /\ Decision(api, q) = "pass" => Promised(api, q)
    BY <1>6 DEF Keeps
  <1>8. f \in Frame
    BY <1>5, <1>7 DEF Frame, Verdict, ClosesBefore, Searches
  <1>9. FrameKept(f) /\ f.pc \in {"search", "decide"}
    <2>1. Searches(api) => ~ClosesBefore(api)
      BY DEF Searches, ClosesBefore, CallbackCapable, FindWindowCall, SendMessageCall, Api, Install,
             shell_guard_install, com_guard_install
    <2> QED
      BY <1>5, <1>7, <2>1 DEF FrameKept, ClosesBefore
  <1> HIDE DEF f, fs
  <1>10. LET gs == Append(fs, f) IN Stack(gs) /\ gs # <<>> /\ gs[Len(gs)] = f
    BY <1>1, <1>3, <1>4, <1>8, <1>9, Pushed
  <1>11. Guarded(Append(fs, f))
    BY <1>9, <1>10 DEF Guarded
  <1>12. FramesInv'
    BY <1>1, <1>10, <1>11, ThreadMoves DEF HookInv
  <1> QED
    BY <1>2, <1>12 DEF HookInv

LEMMA SearchStep ==
  ASSUME HookInv, NEW t \in HookThread, Search(t)
  PROVE  HookInv'
  <1> DEFINE fs == frames[t]
             gs == [fs EXCEPT ![Len(fs)].pc = "decide"]
  <1>1. t \in DOMAIN frames /\ Stack(fs) /\ (window[t] <=> Guarded(fs)) /\ window \in [HookThread -> BOOLEAN]
    BY DEF HookInv, FramesInv
  <1>2. fs # <<>> /\ fs[Len(fs)].pc = "search"
    BY DEF Search, GuestRuns, Top
  <1>3. fs[Len(fs)] \in Frame
    BY <1>1, <1>2, EmptySeq DEF Stack
  <1>4. InstallInv'
    BY InstallStays DEF HookInv, Search
  <1>5. frames' = [frames EXCEPT ![t] = gs]
    BY <1>1 DEF Search, SetTop
  <1>6. Stack(gs) /\ gs # <<>> /\ gs[Len(gs)] = [fs[Len(fs)] EXCEPT !.pc = "decide"]
    BY <1>1, <1>2, TopSet
  <1> HIDE DEF gs
  <1>7. Guarded(gs) /\ window[t] = TRUE
    BY <1>1, <1>2, <1>3, <1>6 DEF Guarded, Frame
  <1>8. window' = [window EXCEPT ![t] = TRUE]
    BY <1>1, <1>7 DEF Search
  <1>9. FramesInv'
    BY <1>5, <1>6, <1>7, <1>8, ThreadMoves DEF HookInv
  <1> QED
    BY <1>4, <1>9 DEF HookInv

LEMMA DecideStep ==
  ASSUME HookInv, NEW t \in HookThread, Decide(t)
  PROVE  HookInv'
  <1> DEFINE fs == frames[t]
  <1>1. t \in DOMAIN frames /\ Stack(fs) /\ (window[t] <=> Guarded(fs))
    BY DEF HookInv, FramesInv
  <1>2. fs # <<>> /\ fs[Len(fs)].pc = "decide" /\ Top(t) = fs[Len(fs)]
    BY DEF Decide, GuestRuns, Top
  <1>3. fs[Len(fs)] \in Frame /\ FrameKept(fs[Len(fs)])
    BY <1>1, <1>2, EmptySeq DEF Stack
  <1>4. InstallInv'
    <2>1. phase' \in {phase, "gone"}
      BY DEF Decide
    <2> QED
      BY <2>1, InstallStays DEF HookInv, Decide
  <1>5. CASE /\ Top(t).verdict = "pass"
             /\ frames' = SetTop(t, IF Top(t).searches THEN "given" ELSE "original")
             /\ window' = [window EXCEPT ![t] = ~Top(t).closes]
    <2> DEFINE pc == IF fs[Len(fs)].searches THEN "given" ELSE "original"
               gs == [fs EXCEPT ![Len(fs)].pc = pc]
    <2>1. frames' = [frames EXCEPT ![t] = gs]
      BY <1>1, <1>2, <1>5 DEF SetTop
    <2>2. fs[Len(fs)].promised
      BY <1>2, <1>3, <1>5 DEF FrameKept
    <2>3. Stack(gs) /\ gs # <<>> /\ gs[Len(gs)] = [fs[Len(fs)] EXCEPT !.pc = pc]
      BY <1>1, <1>2, <2>2, TopSet
    <2> HIDE DEF gs
    <2>4. /\ gs[Len(gs)].pc = pc
          /\ gs[Len(gs)].closes = fs[Len(fs)].closes
          /\ fs[Len(fs)].closes \in BOOLEAN
          /\ fs[Len(fs)].searches => ~fs[Len(fs)].closes
      BY <1>3, <2>3 DEF Frame, FrameKept
    <2>5. ~Top(t).closes <=> Guarded(gs)
      BY <1>2, <2>3, <2>4 DEF Guarded
    <2>6. FramesInv'
      BY <1>5, <2>1, <2>3, <2>5, ThreadMoves DEF HookInv
    <2> QED
      BY <1>4, <2>6 DEF HookInv
  <1>6. CASE /\ frames' = [frames EXCEPT ![t] = SubSeq(@, 1, Len(@) - 1)]
             /\ window' = [window EXCEPT ![t] = ~Top(t).entered]
    <2> DEFINE gs == SubSeq(fs, 1, Len(fs) - 1)
    <2>1. frames' = [frames EXCEPT ![t] = gs]
      BY <1>1, <1>6
    <2>2. Stack(gs) /\ ~Guarded(gs)
      BY <1>1, <1>2, Popped
    <2> HIDE DEF gs
    <2>3. Top(t).entered = TRUE
      BY <1>2, <1>3 DEF FrameKept, Frame
    <2>4. window' = [window EXCEPT ![t] = FALSE]
      BY <1>6, <2>3
    <2>5. FramesInv'
      BY <2>1, <2>2, <2>4, ThreadMoves DEF HookInv
    <2> QED
      BY <1>4, <2>5 DEF HookInv
  <1>7. CASE /\ frames' = [u \in HookThread |-> <<>>]
             /\ window' = [u \in HookThread |-> FALSE]
    BY <1>4, <1>7, EmptyFrames DEF HookInv
  <1> QED
    BY <1>5, <1>6, <1>7 DEF Decide

LEMMA CallbackStep ==
  ASSUME HookInv, NEW t \in HookThread, Callback(t)
  PROVE  HookInv'
  <1> DEFINE fs == frames[t]
             gs == [fs EXCEPT ![Len(fs)].pc = "callback"]
  <1>1. t \in DOMAIN frames /\ Stack(fs) /\ (window[t] <=> Guarded(fs)) /\ window \in [HookThread -> BOOLEAN]
    BY DEF HookInv, FramesInv
  <1>2. fs # <<>> /\ fs[Len(fs)].pc = "original" /\ fs[Len(fs)].calls
    BY DEF Callback, GuestRuns, Top
  <1>3. fs[Len(fs)] \in Frame /\ FrameKept(fs[Len(fs)])
    BY <1>1, <1>2, EmptySeq DEF Stack
  <1>4. fs[Len(fs)].closes /\ fs[Len(fs)].promised
    BY <1>2, <1>3 DEF FrameKept
  <1>5. InstallInv'
    BY InstallStays DEF HookInv, Callback
  <1>6. frames' = [frames EXCEPT ![t] = gs]
    BY <1>1 DEF Callback, SetTop
  <1>7. Stack(gs) /\ gs[Len(gs)] = [fs[Len(fs)] EXCEPT !.pc = "callback"]
    BY <1>1, <1>2, <1>4, TopSet
  <1> HIDE DEF gs
  <1>8. gs[Len(gs)].pc = "callback"
    BY <1>3, <1>7 DEF Frame
  <1>9. ~Guarded(gs) /\ window[t] = FALSE
    BY <1>1, <1>2, <1>4, <1>8 DEF Guarded
  <1>10. window' = [window EXCEPT ![t] = FALSE]
    BY <1>1, <1>9 DEF Callback
  <1>11. FramesInv'
    BY <1>6, <1>7, <1>9, <1>10, ThreadMoves DEF HookInv
  <1> QED
    BY <1>5, <1>11 DEF HookInv

LEMMA ReturnStep ==
  ASSUME HookInv, NEW t \in HookThread, Return(t)
  PROVE  HookInv'
  <1> DEFINE fs == frames[t]
             gs == SubSeq(fs, 1, Len(fs) - 1)
  <1>1. t \in DOMAIN frames /\ Stack(fs) /\ (window[t] <=> Guarded(fs)) /\ window \in [HookThread -> BOOLEAN]
    BY DEF HookInv, FramesInv
  <1>2. fs # <<>> /\ fs[Len(fs)].pc \in {"original", "callback", "given"} /\ Top(t) = fs[Len(fs)]
    BY DEF Return, Top
  <1>3. fs[Len(fs)] \in Frame /\ FrameKept(fs[Len(fs)])
    BY <1>1, <1>2, EmptySeq DEF Stack
  <1>4. InstallInv'
    BY InstallStays DEF HookInv, Return
  <1>5. frames' = [frames EXCEPT ![t] = gs]
    BY <1>1 DEF Return
  <1>6. Stack(gs) /\ ~Guarded(gs)
    BY <1>1, <1>2, Popped
  <1> HIDE DEF gs
  <1>7. window' = [window EXCEPT ![t] = FALSE]
    <2>1. CASE fs[Len(fs)].closes
      <3>1. window[t] = FALSE /\ window' = window
        BY <1>1, <1>2, <1>3, <2>1 DEF FrameKept, Guarded, Return
      <3> QED
        BY <1>1, <3>1
    <2>2. CASE ~fs[Len(fs)].closes
      BY <1>2, <1>3, <2>2 DEF FrameKept, Return
    <2> QED
      BY <2>1, <2>2
  <1>8. FramesInv'
    BY <1>5, <1>6, <1>7, ThreadMoves DEF HookInv
  <1> QED
    BY <1>4, <1>8 DEF HookInv

LEMMA DetachStep == ASSUME HookInv, Detach PROVE HookInv'
  <1> USE DEF HookInv, InstallInv, Detach
  <1>1. HookSteps' /\ EnabledAreIn' /\ AckIsHonest'
    BY DEF HookSteps, StepTypes, Flags, StepOrder, EnabledAreIn, AckIsHonest
  <1>2. MissingIsKnown' /\ AbsentIsHooked' /\ OwnNeverKilled'
    BY DEF MissingIsKnown, AbsentIsHooked, OwnNeverKilled
  <1>3. FramesInv'
    BY EmptyFrames
  <1> QED
    BY <1>1, <1>2, <1>3

LEMMA UninstallStep == ASSUME HookInv, UninstallGuard PROVE HookInv'
  <1> DEFINE g == TeardownOrder[step]
  <1>1. /\ phase = "detaching" /\ step \in 1..14
        /\ step' = step + 1
        /\ phase' \in {"detaching", "gone"}
        /\ UNCHANGED <<guard, allowRwx, skipped, errors, ack, window, loader, frames>>
    BY Orders DEF UninstallGuard, HookInv, InstallInv, HookSteps, StepTypes, Flags, StepOrder
  <1>2. \/ g = "begin_teardown" /\ teardown' = TRUE /\ UNCHANGED <<installed, absent, ownFate>>
        \/ /\ g # "begin_teardown"
           /\ Patched(g, FALSE) \/ UNCHANGED ownFate
           /\ installed' = installed \ {g}
           /\ absent' = absent \ ApisOf(g)
           /\ UNCHANGED teardown
    BY DEF UninstallGuard
  <1>3. g # "begin_teardown" => teardown
    BY <1>1, Orders DEF HookInv, InstallInv, HookSteps, StepTypes, Flags, StepOrder
  <1> HIDE DEF g
  <1>4. HookSteps'
    <2>1. StepTypes'
      <3>1. installed' \subseteq installed
        BY <1>2
      <3>2. installed' \subseteq GuardCategory
        BY <3>1 DEF HookInv, InstallInv, HookSteps, StepTypes
      <3>3. step' \in 1..15
        BY <1>1
      <3> QED
        BY <1>1, <3>2, <3>3 DEF HookInv, InstallInv, HookSteps, StepTypes
    <2>2. teardown' = TRUE
      <3>1. CASE g = "begin_teardown"
        BY <1>2, <3>1
      <3>2. CASE g # "begin_teardown"
        <4>1. teardown = TRUE
          BY <1>3, <3>2 DEF HookInv, InstallInv, HookSteps, Flags
        <4> QED
          BY <1>2, <3>2, <4>1
      <3> QED
        BY <3>1, <3>2
    <2>4. Flags'
      BY <1>1, <2>2, Zenon DEF HookInv, InstallInv, HookSteps, Flags
    <2>3. StepOrder'
      BY <1>1, <2>2 DEF StepOrder
    <2> QED
      BY <2>1, <2>3, <2>4 DEF HookSteps
  <1>5. EnabledAreIn' /\ AckIsHonest'
    BY <1>1 DEF EnabledAreIn, AckIsHonest
  <1>6. absent' \subseteq absent
    BY <1>2
  <1>7. MissingIsKnown' /\ AbsentIsHooked'
    BY <1>1, <1>6 DEF HookInv, InstallInv, MissingIsKnown, AbsentIsHooked
  <1>8. OwnNeverKilled'
    <2>1. CASE UNCHANGED ownFate
      BY <2>1 DEF HookInv, InstallInv, OwnNeverKilled
    <2>2. CASE g # "begin_teardown" /\ Patched(g, FALSE)
      BY <1>3, <2>2, PatchedQuietly DEF HookInv, InstallInv
    <2> QED
      BY <1>2, <2>1, <2>2
  <1>9. FramesInv'
    BY <1>1 DEF HookInv, FramesInv
  <1> QED
    BY <1>4, <1>5, <1>7, <1>8, <1>9 DEF HookInv, InstallInv

LEMMA HookInvStep == ASSUME HookInv, [HookNext]_hookVars PROVE HookInv'
  <1>1. CASE SkipGuard \/ OpenInstallWindow \/ FailOptional \/ FailInstall
               \/ \E enforced \in BOOLEAN : apply_mitigations(enforced)
    BY <1>1, LoaderStep
  <1>2. CASE \E missing \in MissingChoices : InstallGuard(missing)
    BY <1>2, InstallStep
  <1>3. ASSUME NEW t \in HookThread,
               \/ \E api \in Hooked : \E q \in Requests(api) : Call(t, api, q)
               \/ Search(t)
               \/ Decide(t)
               \/ Callback(t)
               \/ Return(t)
        PROVE  HookInv'
    BY <1>3, ThreadCallStep, SearchStep, DecideStep, CallbackStep, ReturnStep
  <1>4. CASE Detach \/ UninstallGuard
    BY <1>4, DetachStep, UninstallStep
  <1>5. CASE UNCHANGED hookVars
    <2>1. FramesInv'
      BY <1>5 DEF hookVars, HookInv, FramesInv
    <2>2. InstallInv'
      BY <1>5, InstallStays DEF hookVars, HookInv
    <2> QED
      BY <2>1, <2>2 DEF HookInv
  <1> QED
    BY <1>1, <1>2, <1>3, <1>4, <1>5 DEF HookNext

-----------------------------------------------------------------------------
(* Every variable keeps its type: an absent entry point is one of a guard,  *)
(* and a thread is never deeper in hooked calls than it can be.             *)
THEOREM HookTypeCorrect == HookSpec => []HookTypeOK
  <1>1. HookInv => HookTypeOK
    <2> SUFFICES ASSUME HookInv PROVE HookTypeOK
      OBVIOUS
    <2>1. \A g \in GuardCategory : ApisOf(g) \subseteq UNION {Api[h] : h \in DOMAIN Api}
      BY DEF ApisOf
    <2>2. absent \subseteq UNION {Api[g] : g \in DOMAIN Api}
      BY <2>1 DEF HookInv, InstallInv, AbsentIsHooked
    <2>3. \A t \in HookThread : frames[t] \in Seq(Frame) /\ Len(frames[t]) <= MaxFrames
      BY DEF HookInv, FramesInv, Stack
    <2> QED
      BY <2>2, <2>3, Orders DEF HookInv, InstallInv, HookSteps, StepTypes, Flags, StepOrder, FramesInv, OwnNeverKilled, HookTypeOK
  <1> QED
    BY <1>1, HookInvInit, HookInvStep, PTL DEF HookSpec

(* Whatever is disabled or missing: putting the hooks in and out never trips *)
(* the memory guard (install_hooks, uninstall_hooks, begin_teardown).       *)
THEOREM OwnSurvives == HookSpec => []OwnNeverKilled
  <1>1. HookInv => OwnNeverKilled
    BY DEF HookInv, InstallInv
  <1> QED
    BY <1>1, HookInvInit, HookInvStep, PTL DEF HookSpec

(* Whatever is disabled or missing: "ok" and "degraded" mean what they say  *)
(* (signal_init_events, install_hooks' buffered errors).                    *)
THEOREM AckTrue == HookSpec => []AckTellsTheHooks
  <1>1. HookInv => AckTellsTheHooks
    <2> SUFFICES ASSUME HookInv PROVE AckTellsTheHooks
      OBVIOUS
    <2> SUFFICES ASSUME phase = "running", NEW g \in GuardCategory, Enabled(g)
                 PROVE  /\ ack = "ok" => ApisOf(g) \ Silent(g) \subseteq Hooked
                        /\ ack = "degraded" => ApisOf(g) \ (Reported(g) \cup Silent(g)) \subseteq Hooked
      BY DEF AckTellsTheHooks
    <2>1. g \in installed \/ (g = "ui" /\ errors)
      <3>1. PICK i \in 1..13 : g = InstallOrder[i]
        BY Orders DEF GuardCategory
      <3> QED
        BY <3>1 DEF HookInv, InstallInv, HookSteps, StepTypes, Flags, StepOrder, EnabledAreIn
    <2>2. CASE g \in installed
      <3>1. ApisOf(g) \ absent \subseteq Hooked
        <4> DEFINE all == UNION {ApisOf(h) : h \in installed}
        <4>1. Hooked = all \ absent
          BY DEF Hooked
        <4>2. ApisOf(g) \subseteq all
          BY <2>2
        <4> HIDE DEF all
        <4> QED
          BY <4>1, <4>2
      <3> QED
        BY <3>1 DEF HookInv, InstallInv, MissingIsKnown, AckIsHonest
    <2>3. CASE g = "ui" /\ errors
      BY <2>3, ReportedHooks DEF HookInv, InstallInv, AckIsHonest
    <2> QED
      BY <2>1, <2>2, <2>3
  <1> QED
    BY <1>1, HookInvInit, HookInvStep, PTL DEF HookSpec

(* For any threads and any nesting of calls: an original runs, for a call   *)
(* of guest code, only if the guards promise to let it, and of the windows  *)
(* a search finds only those get to the guest (anti_rec::enter,             *)
(* ClosesBefore, and the decision of every guard).                          *)
THEOREM CallsDecided == HookSpec => []GuestCallsAreDecided
  <1>1. HookInv => GuestCallsAreDecided
    <2> SUFFICES ASSUME HookInv PROVE GuestCallsAreDecided
      OBVIOUS
    <2> SUFFICES ASSUME NEW t \in HookThread, NEW i \in DOMAIN frames[t],
                        frames[t][i].pc \in {"original", "callback", "given"}
                 PROVE  frames[t][i].promised
      BY DEF GuestCallsAreDecided
    <2>1. Stack(frames[t])
      BY DEF HookInv, FramesInv
    <2>2. i \in 1..Len(frames[t])
      BY <2>1 DEF Stack
    <2> QED
      BY <2>1, <2>2 DEF Stack, FrameKept
  <1> QED
    BY <1>1, HookInvInit, HookInvStep, PTL DEF HookSpec

-----------------------------------------------------------------------------
(****************************************************************************)
(* The requests of the threads of a guest (GuestIpc)                        *)
(****************************************************************************)
Kinds == {"none", "hello", "decide", "record", "log"}
Request == [kind : Kinds, n : Nat]
Result == {"none", "ok", "refused"}
Answer == [req : Request, res : Result]
Connection == [srv : Server \cup {Stranger}, up : BOOLEAN, requests : Seq(Request), answers : Seq(Answer)]
Places == {"idle", "resolve", "connect", "verify", "hello answer", "send", "answer", "leave", "flush"}
State == [pc : Places, req : Request, name : Server \cup {Stranger}, first : BOOLEAN, res : Result,
          got : Request, outer : Request, outerRes : Result]

(* The launchers, as the section and the guest know them.                   *)
WorldTypes ==
    /\ config \in Config
    /\ section \in [broker : Server, members : SUBSET Server, open : BOOLEAN]
    /\ running \subseteq Server

GuestTypes ==
    /\ link \in [Thread -> Connection]
    /\ th \in [Thread -> State]
    /\ hello_sent \in [Thread -> BOOLEAN]
    /\ messages \in Nat
    /\ asked \in Nat
    /\ flusher \in Thread \cup {NoThread}

Count ==
    /\ failures \in 0..IPC_FAIL_THRESHOLD
    /\ ended \in BOOLEAN
    /\ ~ended => failures < IPC_FAIL_THRESHOLD

(* Of a thread t: its call w, its connection l, whether it has said Hello,  *)
(* who holds the mutex of the messages, and the requests that are done.     *)

(* A request is on its way, or its answer is; nothing else is.              *)
InFlight(l, r, done) ==
    \/ l.requests = <<r>> /\ l.answers = <<>>
    \/ /\ l.requests = <<>>
       /\ \E res \in {"ok", "refused"} : l.answers = <<[req |-> r, res |-> res]>>
       /\ r.kind = "record" => r \in done

Quiet(l) == l.requests = <<>> /\ l.answers = <<>>

(* The other end of a connection that is more than opened is a launcher.    *)
Linked(w, l) ==
    /\ l = NoLink \/ l.srv \in Server \/ w.pc = "verify"
    /\ w.pc \in {"hello answer", "send", "answer"} => l.srv \in Server

(* What travels on it is what the thread waits for.                         *)
Streams(w, l, done) ==
    /\ w.pc = "hello answer" => InFlight(l, HelloRequest, done)
    /\ w.pc = "answer" => InFlight(l, w.req, done)
    /\ w.pc \notin {"hello answer", "answer"} => Quiet(l)

(* What it has read last.                                                   *)
Got(w) ==
    /\ w.pc = "idle" => w = Idle
    /\ w.pc \in {"resolve", "connect", "verify", "hello answer"} => w.got = NoRequest
    /\ w.pc = "send" => w.got \in {NoRequest, HelloRequest}
    /\ w.pc \in {"leave", "flush"} => w.got \in {NoRequest, w.req}

(* A result other than none is of a request that was handled.               *)
Results(w, done) ==
    /\ w.req.kind = "record" /\ w.res # "none" => w.req \in done
    /\ w.outer.kind = "record" /\ w.outerRes # "none" => w.outer \in done

(* A thread in the flush waits for a Log request, and has said Hello.       *)
Flushing(t, w, said, holder) ==
    /\ w.pc # "idle" => w.req.kind \in {"decide", "record", "log"}
    /\ w.req.kind = "log" <=> w.outer # NoRequest
    /\ w.outer # NoRequest => /\ said /\ ~w.first /\ w.pc # "flush"
                              /\ w.outer.kind \in {"decide", "record"}
    /\ w.first => w.pc \in {"send", "answer", "leave", "flush"}
    /\ w.pc = "flush" => said
    /\ w.outer # NoRequest <=> holder = t

Good(t, w, l, said, holder, done) ==
    /\ Linked(w, l)
    /\ Streams(w, l, done)
    /\ Got(w)
    /\ Results(w, done)
    /\ Flushing(t, w, said, holder)

IpcInv ==
    /\ WorldTypes
    /\ GuestTypes
    /\ Count
    /\ ~ended => \A t \in Thread : Good(t, th[t], link[t], hello_sent[t], flusher, handled)
    /\ ended => \A t \in Thread : th[t] = Idle /\ link[t] = NoLink
    /\ delivered \subseteq handled

-----------------------------------------------------------------------------
LEMMA ServerChosen == PinnedServer \in Server
  BY GuestIpcConstants DEF PinnedServer

LEMMA Blank ==
  /\ NoRequest \in Request /\ HelloRequest \in Request
  /\ NoLink \in Connection /\ Quiet(NoLink)
  /\ Idle \in State /\ Idle.pc = "idle" /\ Idle.req = NoRequest /\ Idle.outer = NoRequest
  /\ Idle.got = NoRequest /\ Idle.res = "none" /\ Idle.first = FALSE
  <1>1. NoRequest \in Request /\ HelloRequest \in Request
    BY DEF NoRequest, HelloRequest, Request, Kinds
  <1>2. NoLink \in Connection /\ Quiet(NoLink)
    <2>1. <<>> \in Seq(Request) /\ <<>> \in Seq(Answer)
      OBVIOUS
    <2> QED
      BY <2>1 DEF NoLink, Connection, Quiet
  <1>3. Idle \in State
    BY <1>1 DEF Idle, State, Places, Result
  <1>4. /\ Idle.pc = "idle" /\ Idle.req = NoRequest /\ Idle.outer = NoRequest
        /\ Idle.got = NoRequest /\ Idle.res = "none" /\ Idle.first = FALSE
    BY DEF Idle
  <1> QED
    BY <1>1, <1>2, <1>3, <1>4

LEMMA IdleGood ==
  ASSUME NEW t, NEW l, l = NoLink \/ l.srv \in Server, Quiet(l), NEW said, NEW holder, holder # t, NEW done
  PROVE  Good(t, Idle, l, said, holder, done)
  <1>1. NoRequest.kind = "none"
    BY DEF NoRequest
  <1>2. Linked(Idle, l) /\ Streams(Idle, l, done)
    BY Blank DEF Linked, Streams
  <1>3. Got(Idle) /\ Results(Idle, done) /\ Flushing(t, Idle, said, holder)
    BY <1>1, Blank DEF Got, Results, Flushing
  <1> QED
    BY <1>2, <1>3 DEF Good

LEMMA GoodStays ==
  ASSUME NEW t, NEW w, NEW l, NEW said, NEW holder, NEW done, Good(t, w, l, said, holder, done),
         NEW holder2, holder2 = t <=> holder = t, NEW done2, done \subseteq done2
  PROVE  Good(t, w, l, said, holder2, done2)
  <1>1. Streams(w, l, done2)
    <2>1. ASSUME NEW r, InFlight(l, r, done) PROVE InFlight(l, r, done2)
      BY <2>1 DEF InFlight
    <2> QED
      BY <2>1 DEF Good, Streams
  <1>2. Results(w, done2) /\ Flushing(t, w, said, holder2)
    BY DEF Good, Results, Flushing
  <1> QED
    BY <1>1, <1>2 DEF Good

LEMMA IpcInvInit == ASSUME IpcInit PROVE IpcInv
  <1>1. WorldTypes
    BY ServerChosen DEF IpcInit, WorldTypes
  <1>2. GuestTypes
    <2>0. messages \in 0..1 /\ asked = 0
      BY DEF IpcInit
    <2>1. messages \in Nat /\ asked \in Nat
      BY <2>0
    <2>4. flusher \in Thread \cup {NoThread}
      BY DEF IpcInit
    <2>2. link \in [Thread -> Connection] /\ th \in [Thread -> State]
      BY Blank DEF IpcInit
    <2>3. hello_sent \in [Thread -> BOOLEAN]
      BY DEF IpcInit
    <2> QED
      BY <2>1, <2>2, <2>3, <2>4 DEF GuestTypes
  <1>3. Count
    <2>1. ended \in BOOLEAN
      BY Zenon DEF IpcInit
    <2>2. failures = 0 /\ IPC_FAIL_THRESHOLD \in Nat \ {0}
      BY GuestIpcConstants DEF IpcInit
    <2>3. failures \in 0..IPC_FAIL_THRESHOLD
      BY <2>2
    <2>4. failures < IPC_FAIL_THRESHOLD
      BY <2>2
    <2> QED
      BY <2>1, <2>3, <2>4 DEF Count
  <1>4. \A t \in Thread : Good(t, th[t], link[t], hello_sent[t], flusher, handled)
    BY IdleGood, Blank, GuestIpcConstants DEF IpcInit
  <1>5. delivered \subseteq handled
    BY DEF IpcInit
  <1> QED
    BY <1>1, <1>2, <1>3, <1>4, <1>5 DEF IpcInv, IpcInit

(* A step of thread t, or of the server on its connection.                  *)
LEMMA ThreadStep ==
  ASSUME IpcInv, ~ended, NEW t \in Thread,
         th' \in [Thread -> State], \A u \in Thread : u # t => th'[u] = th[u],
         link' \in [Thread -> Connection], \A u \in Thread : u # t => link'[u] = link[u],
         hello_sent' \in [Thread -> BOOLEAN], \A u \in Thread : u # t => hello_sent'[u] = hello_sent[u],
         flusher' \in Thread \cup {NoThread}, \A u \in Thread : u # t => (flusher' = u <=> flusher = u),
         messages' \in Nat, asked' \in Nat, handled \subseteq handled',
         Good(t, th'[t], link'[t], hello_sent'[t], flusher', handled'),
         delivered' \subseteq handled', WorldTypes', Count', UNCHANGED ended
  PROVE  IpcInv'
  <1>1. \A u \in Thread : Good(u, th'[u], link'[u], hello_sent'[u], flusher', handled')
    <2> SUFFICES ASSUME NEW u \in Thread, u # t
                 PROVE  Good(u, th'[u], link'[u], hello_sent'[u], flusher', handled')
      OBVIOUS
    <2>1. Good(u, th[u], link[u], hello_sent[u], flusher, handled)
      BY DEF IpcInv
    <2>2. Good(u, th[u], link[u], hello_sent[u], flusher', handled')
      BY <2>1, GoodStays
    <2> QED
      BY <2>2
  <1>2. GuestTypes'
    BY DEF GuestTypes
  <1> QED
    BY <1>1, <1>2 DEF IpcInv

(* The same for a step that only moves the call and its connection.         *)
LEMMA CallStep ==
  ASSUME IpcInv, ~ended, NEW t \in Thread, NEW v \in State, NEW l \in Connection,
         th' = [th EXCEPT ![t] = v], link' = [link EXCEPT ![t] = l],
         Good(t, v, l, hello_sent[t], flusher, handled), asked' \in Nat,
         UNCHANGED <<worldVars, hello_sent, flusher, messages, failures, ended, handled, delivered>>
  PROVE  IpcInv'
  <1>1. WorldTypes' /\ Count' /\ delivered' \subseteq handled'
    BY DEF IpcInv, WorldTypes, Count, worldVars
  <1>2. /\ hello_sent' \in [Thread -> BOOLEAN] /\ messages' \in Nat
        /\ flusher' \in Thread \cup {NoThread}
    BY DEF IpcInv, GuestTypes
  <1>4. th \in [Thread -> State] /\ link \in [Thread -> Connection]
    BY DEF IpcInv, GuestTypes
  <1>5. /\ th' \in [Thread -> State] /\ th'[t] = v
        /\ \A u \in Thread : u # t => th'[u] = th[u]
    BY <1>4
  <1>6. /\ link' \in [Thread -> Connection] /\ link'[t] = l
        /\ \A u \in Thread : u # t => link'[u] = link[u]
    BY <1>4
  <1>3. Good(t, th'[t], link'[t], hello_sent'[t], flusher', handled')
    BY <1>5, <1>6
  <1> QED
    BY <1>1, <1>2, <1>3, <1>5, <1>6, ThreadStep

LEMMA Of ==
  ASSUME IpcInv, ~ended, NEW t \in Thread
  PROVE  /\ th[t] \in State /\ link[t] \in Connection
         /\ th = [th EXCEPT ![t] = th[t]] /\ link = [link EXCEPT ![t] = link[t]]
         /\ Linked(th[t], link[t])
         /\ Streams(th[t], link[t], handled)
         /\ Got(th[t])
         /\ Results(th[t], handled)
         /\ Flushing(t, th[t], hello_sent[t], flusher)
  <1>1. th \in [Thread -> State] /\ link \in [Thread -> Connection]
    BY DEF IpcInv, GuestTypes
  <1>2. Good(t, th[t], link[t], hello_sent[t], flusher, handled)
    BY DEF IpcInv
  <1> QED
    BY <1>1, <1>2 DEF Good

(* A call that ends without an answer.                                      *)
LEMMA Unanswered ==
  ASSUME IpcInv, ~ended, NEW t \in Thread, Unavailable(t), th[t].pc # "idle", th[t].pc # "flush",
         NEW l \in Connection,
         l = NoLink \/ (l = link[t] /\ th[t].pc \in {"resolve", "connect"}),
         link' = [link EXCEPT ![t] = l], asked' \in Nat,
         UNCHANGED <<worldVars, hello_sent, flusher, messages, failures, ended, handled, delivered>>
  PROVE  IpcInv'
  <1> DEFINE v == [th[t] EXCEPT !.pc = "leave", !.res = "none", !.name = Stranger, !.got = NoRequest]
  <1>1. th' = [th EXCEPT ![t] = v]
    BY DEF Unavailable
  <1>2. v \in State
    BY Of, Blank DEF State, Places, Result
  <1>3. /\ v.pc = "leave" /\ v.res = "none" /\ v.got = NoRequest
        /\ v.req = th[t].req /\ v.first = th[t].first /\ v.outer = th[t].outer
        /\ v.outerRes = th[t].outerRes
    BY Of DEF State
  <1> HIDE DEF v
  <1>5. Linked(v, l)
    BY <1>3, Of DEF Linked
  <1>6. Streams(v, l, handled)
    BY <1>3, Of, Blank DEF Streams
  <1>7. Got(v)
    BY <1>3 DEF Got
  <1>8. Results(v, handled)
    BY <1>3, Of DEF Results
  <1>9. Flushing(t, v, hello_sent[t], flusher)
    BY <1>3, Of DEF Flushing
  <1>10. Good(t, v, l, hello_sent[t], flusher, handled)
    BY <1>5, <1>6, <1>7, <1>8, <1>9 DEF Good
  <1> QED
    BY <1>1, <1>2, <1>10, CallStep

LEMMA Calls ==
  ASSUME IpcInv, NEW t \in Thread, NEW kind \in {"decide", "record"}, ensure_ipc_and(t, kind)
  PROVE  IpcInv'
  <1> DEFINE v == [th[t] EXCEPT !.pc = IF link[t] = NoLink THEN "resolve" ELSE "send",
                                !.req = [kind |-> kind, n |-> asked], !.first = FALSE, !.res = "none"]
  <1>1. ~ended /\ th[t].pc = "idle"
    BY DEF ensure_ipc_and, Runs
  <1>2. th[t] = Idle
    BY <1>1, Of DEF Got
  <1>3. asked \in Nat /\ asked' = asked + 1
    BY DEF ensure_ipc_and, IpcInv, GuestTypes
  <1>4. [kind |-> kind, n |-> asked] \in Request
    BY <1>3 DEF Request, Kinds
  <1>5. v \in State
    BY <1>1, <1>4, Of DEF State, Places, Result
  <1>6. /\ v.pc = IF link[t] = NoLink THEN "resolve" ELSE "send"
        /\ v.req.kind = kind /\ v.res = "none" /\ v.first = FALSE /\ v.got = NoRequest
        /\ v.outer = NoRequest
    BY <1>1, <1>2, Of, Blank DEF State
  <1>7. th' = [th EXCEPT ![t] = v] /\ asked' \in Nat
    BY <1>3 DEF ensure_ipc_and
  <1>8. UNCHANGED <<worldVars, link, hello_sent, flusher, messages, failures, ended, handled, delivered>>
    BY DEF ensure_ipc_and
  <1> HIDE DEF v
  <1>9. Linked(v, link[t])
    BY <1>1, <1>6, Of DEF Linked
  <1>10. Streams(v, link[t], handled)
    BY <1>1, <1>6, Of DEF Streams
  <1>11. Got(v)
    BY <1>6 DEF Got
  <1>12. Results(v, handled)
    BY <1>6 DEF Results, NoRequest
  <1>13. Flushing(t, v, hello_sent[t], flusher)
    BY <1>1, <1>2, <1>6, Of, Blank DEF Flushing
  <1>14. Good(t, v, link[t], hello_sent[t], flusher, handled)
    BY <1>9, <1>10, <1>11, <1>12, <1>13 DEF Good
  <1>15. link[t] \in Connection /\ link' = [link EXCEPT ![t] = link[t]]
    BY <1>1, <1>8, Of
  <1> QED
    BY <1>1, <1>5, <1>7, <1>8, <1>14, <1>15, CallStep

LEMMA Resolves ==
  ASSUME IpcInv, NEW t \in Thread, resolve_connect_pipe_name(t)
  PROVE  IpcInv'
  <1>1. ~ended /\ th[t].pc = "resolve"
    BY DEF resolve_connect_pipe_name, Runs
  <1>2. UNCHANGED <<worldVars, link, hello_sent, flusher, messages, failures, ended, handled, delivered, asked>>
    BY DEF resolve_connect_pipe_name
  <1>3. asked' \in Nat /\ link[t] \in Connection /\ link' = [link EXCEPT ![t] = link[t]]
    BY <1>1, <1>2, Of DEF IpcInv, GuestTypes
  <1>4. CASE Unavailable(t)
    BY <1>1, <1>2, <1>3, <1>4, Unanswered
  <1>5. CASE ~Unavailable(t)
    <2> DEFINE name == IF mapped THEN section.broker ELSE PinnedServer
               v == [th[t] EXCEPT !.pc = "connect", !.name = name]
    <2>1. th' = [th EXCEPT ![t] = v]
      BY <1>5 DEF resolve_connect_pipe_name
    <2>2. name \in Server
      BY ServerChosen DEF IpcInv, WorldTypes
    <2> HIDE DEF name
    <2>3. v \in State
      BY <1>1, <2>2, Of DEF State, Places
    <2>4. /\ v.pc = "connect" /\ v.req = th[t].req /\ v.res = th[t].res /\ v.first = th[t].first
          /\ v.got = th[t].got /\ v.outer = th[t].outer /\ v.outerRes = th[t].outerRes
      BY <1>1, Of DEF State
    <2> HIDE DEF v
    <2>5. Linked(v, link[t])
      BY <1>1, <2>4, Of DEF Linked
    <2>6. Streams(v, link[t], handled)
      BY <1>1, <2>4, Of DEF Streams
    <2>7. Got(v)
      BY <1>1, <2>4, Of DEF Got
    <2>8. Results(v, handled)
      BY <1>1, <2>4, Of DEF Results
    <2>9. Flushing(t, v, hello_sent[t], flusher)
      BY <1>1, <2>4, Of DEF Flushing
    <2>10. Good(t, v, link[t], hello_sent[t], flusher, handled)
      BY <2>5, <2>6, <2>7, <2>8, <2>9 DEF Good
    <2> QED
      BY <1>1, <1>2, <1>3, <2>1, <2>3, <2>10, CallStep
  <1> QED
    BY <1>4, <1>5

LEMMA Connects ==
  ASSUME IpcInv, NEW t \in Thread, connect(t)
  PROVE  IpcInv'
  <1>1. ~ended /\ th[t].pc = "connect"
    BY DEF connect, Runs
  <1>2. UNCHANGED <<worldVars, hello_sent, flusher, messages, failures, ended, handled, delivered, asked>>
    BY DEF connect
  <1>3. asked' \in Nat
    BY <1>2 DEF IpcInv, GuestTypes
  <1>4. PICK s \in ServedBy(th[t].name) :
               link' = [link EXCEPT ![t] = [NoLink EXCEPT !.srv = s, !.up = TRUE]]
    BY DEF connect
  <1>5. s \in Server \cup {Stranger}
    BY DEF ServedBy, IpcInv, WorldTypes
  <1> DEFINE l == [NoLink EXCEPT !.srv = s, !.up = TRUE]
             v == [th[t] EXCEPT !.pc = "verify"]
  <1>6. l \in Connection /\ Quiet(l)
    BY <1>5, Blank DEF Connection, Quiet
  <1>7. v \in State
    BY <1>1, Of DEF State, Places
  <1>8. /\ v.pc = "verify" /\ v.req = th[t].req /\ v.res = th[t].res /\ v.first = th[t].first
        /\ v.got = th[t].got /\ v.outer = th[t].outer /\ v.outerRes = th[t].outerRes
    BY <1>1, Of DEF State
  <1>9. th' = [th EXCEPT ![t] = v] /\ link' = [link EXCEPT ![t] = l]
    BY <1>4 DEF connect, Step
  <1> HIDE DEF v, l
  <1>10. Linked(v, l)
    BY <1>8 DEF Linked
  <1>11. Streams(v, l, handled)
    BY <1>6, <1>8 DEF Streams
  <1>12. Got(v)
    BY <1>1, <1>8, Of DEF Got
  <1>13. Results(v, handled)
    BY <1>1, <1>8, Of DEF Results
  <1>14. Flushing(t, v, hello_sent[t], flusher)
    BY <1>1, <1>8, Of DEF Flushing
  <1>15. Good(t, v, l, hello_sent[t], flusher, handled)
    BY <1>10, <1>11, <1>12, <1>13, <1>14 DEF Good
  <1> QED
    BY <1>1, <1>2, <1>3, <1>6, <1>7, <1>9, <1>15, CallStep

LEMMA ConnectsNot ==
  ASSUME IpcInv, NEW t \in Thread, ConnectFails(t)
  PROVE  IpcInv'
  <1>1. ~ended /\ th[t].pc = "connect" /\ Unavailable(t)
    BY DEF ConnectFails, Runs
  <1>2. UNCHANGED <<worldVars, link, hello_sent, flusher, messages, failures, ended, handled, delivered, asked>>
    BY DEF ConnectFails
  <1>3. asked' \in Nat /\ link[t] \in Connection /\ link' = [link EXCEPT ![t] = link[t]]
    BY <1>1, <1>2, Of DEF IpcInv, GuestTypes
  <1> QED
    BY <1>1, <1>2, <1>3, Unanswered

(* A server that passes the check is a launcher of the folder: a stranger   *)
(* is in no section and is not the pinned launcher.                         *)
LEMMA TrustedIsServer ==
  ASSUME IpcInv, NEW srv, Trusted(srv)
  PROVE  srv \in Server
  BY ServerChosen DEF Trusted, IpcInv, WorldTypes

LEMMA Verifies ==
  ASSUME IpcInv, NEW t \in Thread, verify_pipe_server_identity(t)
  PROVE  IpcInv'
  <1>1. ~ended /\ th[t].pc = "verify"
    BY DEF verify_pipe_server_identity, Runs
  <1>2. UNCHANGED <<worldVars, hello_sent, flusher, messages, failures, ended, handled, delivered, asked>>
    BY DEF verify_pipe_server_identity
  <1>3. asked' \in Nat
    BY <1>2 DEF IpcInv, GuestTypes
  <1>4. CASE ~Trusted(link[t].srv)
    <2>1. Unavailable(t) /\ link' = [link EXCEPT ![t] = NoLink]
      BY <1>4 DEF verify_pipe_server_identity, Reject
    <2> QED
      BY <1>1, <1>2, <1>3, <2>1, Blank, Unanswered
  <1>5. CASE Trusted(link[t].srv)
    <2> DEFINE l == [link[t] EXCEPT !.requests = <<HelloRequest>>]
               v == [th[t] EXCEPT !.pc = "hello answer", !.name = Stranger]
    <2>1. Accept(t)
      BY <1>5 DEF verify_pipe_server_identity
    <2>2. link' = [link EXCEPT ![t] = l]
      BY <2>1, <1>1, Of DEF Accept
    <2>3. th' = [th EXCEPT ![t] = v]
      BY <2>1 DEF Accept
    <2>4. l \in Connection /\ l.srv = link[t].srv /\ l.requests = <<HelloRequest>>
          /\ l.answers = link[t].answers
      <3>1. <<HelloRequest>> \in Seq(Request)
        BY Blank
      <3> QED
        BY <1>1, <3>1, Of DEF Connection
    <2>5. v \in State
      BY <1>1, Of DEF State, Places
    <2>6. /\ v.pc = "hello answer" /\ v.req = th[t].req /\ v.res = th[t].res /\ v.first = th[t].first
          /\ v.got = th[t].got /\ v.outer = th[t].outer /\ v.outerRes = th[t].outerRes
      BY <1>1, Of DEF State
    <2> HIDE DEF v, l
    <2>7. Linked(v, l)
      BY <1>5, <2>4, TrustedIsServer DEF Linked
    <2>8. Streams(v, l, handled)
      BY <1>1, <2>4, <2>6, Of DEF Streams, Quiet, InFlight
    <2>9. Got(v)
      BY <1>1, <2>6, Of DEF Got
    <2>10. Results(v, handled)
      BY <1>1, <2>6, Of DEF Results
    <2>11. Flushing(t, v, hello_sent[t], flusher)
      BY <1>1, <2>6, Of DEF Flushing
    <2>12. Good(t, v, l, hello_sent[t], flusher, handled)
      BY <2>7, <2>8, <2>9, <2>10, <2>11 DEF Good
    <2> QED
      BY <1>1, <1>2, <1>3, <2>2, <2>3, <2>4, <2>5, <2>12, CallStep
  <1> QED
    BY <1>4, <1>5

LEMMA Sends ==
  ASSUME IpcInv, NEW t \in Thread, SendRequest(t)
  PROVE  IpcInv'
  <1>1. ~ended /\ th[t].pc = "send"
    BY DEF SendRequest, Runs
  <1>2. UNCHANGED <<worldVars, hello_sent, flusher, messages, failures, ended, handled, delivered, asked>>
    BY DEF SendRequest
  <1>3. asked' \in Nat
    BY <1>2 DEF IpcInv, GuestTypes
  <1>4. link[t].requests = <<>> /\ link[t].answers = <<>> /\ link[t].srv \in Server
    BY <1>1, Of DEF Streams, Quiet, Linked
  <1> DEFINE l == [link[t] EXCEPT !.requests = Append(@, th[t].req)]
             v == [th[t] EXCEPT !.pc = "answer"]
  <1>5. link' = [link EXCEPT ![t] = l]
    BY <1>1, Of DEF SendRequest
  <1>6. th' = [th EXCEPT ![t] = v]
    BY DEF SendRequest, Step
  <1>7. l \in Connection /\ l.srv = link[t].srv /\ l.requests = <<th[t].req>> /\ l.answers = <<>>
    <2>1. th[t].req \in Request /\ link[t] \in Connection
      BY <1>1, Of DEF State
    <2>2. Append(link[t].requests, th[t].req) = <<th[t].req>>
      BY <1>4, <2>1
    <2>3. <<th[t].req>> \in Seq(Request)
      BY <2>1
    <2>4. l = [link[t] EXCEPT !.requests = <<th[t].req>>]
      BY <2>2
    <2> QED
      BY <1>4, <2>1, <2>3, <2>4 DEF Connection
  <1>8. v \in State
    BY <1>1, Of DEF State, Places
  <1>9. /\ v.pc = "answer" /\ v.req = th[t].req /\ v.res = th[t].res /\ v.first = th[t].first
        /\ v.got = th[t].got /\ v.outer = th[t].outer /\ v.outerRes = th[t].outerRes
    BY <1>1, Of DEF State
  <1> HIDE DEF v, l
  <1>10. Linked(v, l)
    BY <1>4, <1>7 DEF Linked
  <1>11. Streams(v, l, handled)
    BY <1>7, <1>9 DEF Streams, InFlight
  <1>12. Got(v)
    BY <1>9 DEF Got
  <1>13. Results(v, handled)
    BY <1>1, <1>9, Of DEF Results
  <1>14. Flushing(t, v, hello_sent[t], flusher)
    BY <1>1, <1>9, Of DEF Flushing
  <1>15. Good(t, v, l, hello_sent[t], flusher, handled)
    BY <1>10, <1>11, <1>12, <1>13, <1>14 DEF Good
  <1> QED
    BY <1>1, <1>2, <1>3, <1>5, <1>6, <1>7, <1>8, <1>15, CallStep

(* The one answer that can be there is to the request r.                    *)
LEMMA OneAnswer ==
  ASSUME NEW l \in Connection, NEW r \in Request, NEW done, InFlight(l, r, done), l.answers # <<>>
  PROVE  /\ l.requests = <<>>
         /\ Head(l.answers).req = r
         /\ Head(l.answers).res \in {"ok", "refused"}
         /\ r.kind = "record" => r \in done
         /\ [l EXCEPT !.answers = Tail(@)] \in Connection
         /\ [l EXCEPT !.answers = Tail(@)].srv = l.srv
         /\ Quiet([l EXCEPT !.answers = Tail(@)])
  <1>1. PICK res \in {"ok", "refused"} : l.answers = <<[req |-> r, res |-> res]>>
    BY DEF InFlight
  <1>2. l.requests = <<>> /\ (r.kind = "record" => r \in done)
    BY DEF InFlight
  <1>3. Head(l.answers) = [req |-> r, res |-> res] /\ Tail(l.answers) = <<>>
    BY <1>1
  <1>4. <<>> \in Seq(Answer)
    OBVIOUS
  <1>5. [l EXCEPT !.answers = Tail(@)] = [l EXCEPT !.answers = <<>>]
    BY <1>3
  <1>6. [l EXCEPT !.answers = <<>>] \in Connection
    BY <1>4 DEF Connection
  <1>7. [l EXCEPT !.answers = <<>>].srv = l.srv /\ Quiet([l EXCEPT !.answers = <<>>])
    BY <1>2 DEF Connection, Quiet
  <1>8. Head(l.answers).req = r /\ Head(l.answers).res = res
    BY <1>3
  <1> QED
    BY <1>2, <1>5, <1>6, <1>7, <1>8

LEMMA HelloReturns ==
  ASSUME IpcInv, NEW t \in Thread, HelloAnswered(t)
  PROVE  IpcInv'
  <1>1. ~ended /\ th[t].pc = "hello answer" /\ link[t].answers # <<>>
    BY DEF HelloAnswered, Runs, ReadAnswer
  <1>2. UNCHANGED <<worldVars, hello_sent, flusher, messages, failures, ended, handled, delivered, asked>>
    BY DEF HelloAnswered
  <1>3. asked' \in Nat /\ hello_sent[t] \in BOOLEAN
    BY <1>2 DEF IpcInv, GuestTypes
  <1>4. InFlight(link[t], HelloRequest, handled) /\ link[t].srv \in Server
    BY <1>1, Of DEF Streams, Linked
  <1> DEFINE l == [link[t] EXCEPT !.answers = Tail(@)]
             v == [th[t] EXCEPT !.pc = "send", !.first = ~hello_sent[t],
                                !.got = Head(link[t].answers).req]
  <1>5. link' = [link EXCEPT ![t] = l]
    BY <1>1, Of DEF HelloAnswered, ReadAnswer
  <1>6. th' = [th EXCEPT ![t] = v]
    BY DEF HelloAnswered
  <1>7. /\ l \in Connection /\ l.srv = link[t].srv /\ Quiet(l)
        /\ Head(link[t].answers).req = HelloRequest
    <2>1. HelloRequest \in Request /\ link[t] \in Connection
      BY <1>1, Of, Blank
    <2> QED
      BY <1>1, <1>4, <2>1, OneAnswer
  <1>8. v \in State
    <2>1. (~hello_sent[t]) \in BOOLEAN
      OBVIOUS
    <2> DEFINE first == ~hello_sent[t]
    <2> HIDE DEF first
    <2>2. first \in BOOLEAN
      BY <2>1 DEF first
    <2>3. [th[t] EXCEPT !.pc = "send", !.first = first, !.got = HelloRequest] \in State
      BY <1>1, <2>2, Of, Blank DEF State, Places
    <2>4. v = [th[t] EXCEPT !.pc = "send", !.first = first, !.got = HelloRequest]
      BY <1>7 DEF first
    <2> QED
      BY <2>3, <2>4
  <1>9. /\ v.pc = "send" /\ v.req = th[t].req /\ v.res = th[t].res
        /\ v.got = HelloRequest /\ v.outer = th[t].outer /\ v.outerRes = th[t].outerRes
    BY <1>1, <1>7, Of DEF State
  <1>16. v.first = ~hello_sent[t]
    BY <1>1, <1>7, Of, Zenon DEF State
  <1> HIDE DEF v, l
  <1>10. Linked(v, l)
    BY <1>4, <1>7 DEF Linked
  <1>11. Streams(v, l, handled)
    BY <1>7, <1>9 DEF Streams
  <1>12. Got(v)
    BY <1>9 DEF Got
  <1>13. Results(v, handled)
    BY <1>1, <1>9, Of DEF Results
  <1>14. Flushing(t, v, hello_sent[t], flusher)
    BY <1>1, <1>3, <1>9, <1>16, Of DEF Flushing
  <1>15. Good(t, v, l, hello_sent[t], flusher, handled)
    BY <1>10, <1>11, <1>12, <1>13, <1>14 DEF Good
  <1> QED
    BY <1>1, <1>2, <1>3, <1>5, <1>6, <1>7, <1>8, <1>15, CallStep

LEMMA Returned ==
  ASSUME IpcInv, NEW t \in Thread, Answered(t)
  PROVE  IpcInv'
  <1>1. ~ended /\ th[t].pc = "answer" /\ link[t].answers # <<>>
    BY DEF Answered, Runs, ReadAnswer
  <1>2. UNCHANGED <<worldVars, hello_sent, flusher, messages, failures, ended, handled, delivered, asked>>
    BY DEF Answered
  <1>3. asked' \in Nat
    BY <1>2 DEF IpcInv, GuestTypes
  <1>4. InFlight(link[t], th[t].req, handled) /\ link[t].srv \in Server /\ th[t].req \in Request
    BY <1>1, Of DEF Streams, Linked, State
  <1> DEFINE l == [link[t] EXCEPT !.answers = Tail(@)]
             v == [th[t] EXCEPT !.pc = "leave", !.res = Head(link[t].answers).res,
                                !.got = Head(link[t].answers).req]
  <1>5. link' = [link EXCEPT ![t] = l]
    BY <1>1, Of DEF Answered, ReadAnswer
  <1>6. th' = [th EXCEPT ![t] = v]
    BY DEF Answered
  <1>7. /\ l \in Connection /\ l.srv = link[t].srv /\ Quiet(l)
        /\ Head(link[t].answers).req = th[t].req
        /\ Head(link[t].answers).res \in {"ok", "refused"}
        /\ th[t].req.kind = "record" => th[t].req \in handled
    BY <1>1, <1>4, Of, OneAnswer
  <1>8. v \in State
    BY <1>1, <1>4, <1>7, Of DEF State, Places, Result
  <1>9. /\ v.pc = "leave" /\ v.req = th[t].req /\ v.first = th[t].first
        /\ v.got = th[t].req /\ v.outer = th[t].outer /\ v.outerRes = th[t].outerRes
    BY <1>1, <1>7, Of DEF State
  <1> HIDE DEF v, l
  <1>10. Linked(v, l)
    BY <1>4, <1>7 DEF Linked
  <1>11. Streams(v, l, handled)
    BY <1>7, <1>9 DEF Streams
  <1>12. Got(v)
    BY <1>9 DEF Got
  <1>13. Results(v, handled)
    BY <1>1, <1>7, <1>9, Of DEF Results
  <1>14. Flushing(t, v, hello_sent[t], flusher)
    BY <1>1, <1>9, Of DEF Flushing
  <1>15. Good(t, v, l, hello_sent[t], flusher, handled)
    BY <1>10, <1>11, <1>12, <1>13, <1>14 DEF Good
  <1> QED
    BY <1>1, <1>2, <1>3, <1>5, <1>6, <1>7, <1>8, <1>15, CallStep

LEMMA Lost ==
  ASSUME IpcInv, NEW t \in Thread, TimedOut(t) \/ Broken(t)
  PROVE  IpcInv'
  <1>1. /\ ~ended /\ th[t].pc \in {"hello answer", "send", "answer"} /\ Unavailable(t)
        /\ link' = [link EXCEPT ![t] = NoLink]
    BY DEF TimedOut, Broken, Runs, Dropped
  <1>2. UNCHANGED <<worldVars, hello_sent, flusher, messages, failures, ended, handled, delivered, asked>>
    BY DEF TimedOut, Broken
  <1>3. asked' \in Nat
    BY <1>2 DEF IpcInv, GuestTypes
  <1> QED
    BY <1>1, <1>2, <1>3, Blank, Unanswered

LEMMA LeavesFirst ==
  ASSUME IpcInv, NEW t \in Thread, LeaveFirst(t)
  PROVE  IpcInv'
  <1>1. ~ended /\ th[t].pc = "leave" /\ th[t].first = TRUE
    <2>1. ~ended /\ th[t].pc = "leave" /\ th[t].first
      BY DEF LeaveFirst, Runs
    <2>2. th[t].first \in BOOLEAN
      BY <2>1, Of DEF State
    <2> QED
      BY <2>1, <2>2, Zenon
  <1>2. UNCHANGED <<worldVars, link, flusher, messages, failures, ended, handled, delivered, asked>>
    BY DEF LeaveFirst
  <1> DEFINE v == [th[t] EXCEPT !.pc = "flush"]
  <1>3. th' = [th EXCEPT ![t] = v] /\ hello_sent' = [hello_sent EXCEPT ![t] = TRUE]
    BY DEF LeaveFirst, MarkHello
  <1>4. v \in State
    BY <1>1, Of DEF State, Places
  <1>5. /\ v.pc = "flush" /\ v.req = th[t].req /\ v.res = th[t].res /\ v.first = th[t].first
        /\ v.got = th[t].got /\ v.outer = th[t].outer /\ v.outerRes = th[t].outerRes
    BY <1>1, Of DEF State
  <1> HIDE DEF v
  <1>6. th' \in [Thread -> State] /\ th'[t] = v /\ \A u \in Thread : u # t => th'[u] = th[u]
    BY <1>3, <1>4 DEF IpcInv, GuestTypes
  <1>7. /\ hello_sent' \in [Thread -> BOOLEAN] /\ hello_sent'[t] = TRUE
        /\ \A u \in Thread : u # t => hello_sent'[u] = hello_sent[u]
    BY <1>3 DEF IpcInv, GuestTypes
  <1>8. Linked(v, link[t]) /\ Streams(v, link[t], handled) /\ Got(v) /\ Results(v, handled)
    BY <1>1, <1>5, Of DEF Linked, Streams, Got, Results
  <1>9. Flushing(t, v, TRUE, flusher)
    <2>1. Flushing(t, th[t], hello_sent[t], flusher)
      BY <1>1, Of
    <2>2. th[t].outer = NoRequest
      BY <1>1, <2>1, Zenon DEF Flushing
    <2> QED
      BY <1>1, <1>5, <2>1, <2>2 DEF Flushing
  <1>10. Good(t, th'[t], link'[t], hello_sent'[t], flusher', handled')
    BY <1>2, <1>6, <1>7, <1>8, <1>9 DEF Good
  <1>11. WorldTypes' /\ Count' /\ delivered' \subseteq handled'
    BY <1>2 DEF IpcInv, WorldTypes, Count, worldVars
  <1>12. /\ link' \in [Thread -> Connection] /\ messages' \in Nat /\ asked' \in Nat
         /\ flusher' \in Thread \cup {NoThread}
    BY <1>2 DEF IpcInv, GuestTypes
  <1> QED
    BY <1>1, <1>2, <1>6, <1>7, <1>10, <1>11, <1>12, ThreadStep

(* A step of the flush: the call, its mutex and the messages change.        *)
LEMMA FlushStep ==
  ASSUME IpcInv, ~ended, NEW t \in Thread, NEW v \in State, th' = [th EXCEPT ![t] = v],
         flusher' \in Thread \cup {NoThread}, \A u \in Thread : u # t => (flusher' = u <=> flusher = u),
         messages' \in Nat, Good(t, v, link[t], hello_sent[t], flusher', handled),
         UNCHANGED <<worldVars, link, hello_sent, failures, ended, handled, delivered, asked>>
  PROVE  IpcInv'
  <1>1. WorldTypes' /\ Count' /\ delivered' \subseteq handled'
    BY DEF IpcInv, WorldTypes, Count, worldVars
  <1>2. /\ hello_sent' \in [Thread -> BOOLEAN] /\ asked' \in Nat
        /\ link' \in [Thread -> Connection]
    BY DEF IpcInv, GuestTypes
  <1>3. th' \in [Thread -> State] /\ th'[t] = v /\ \A u \in Thread : u # t => th'[u] = th[u]
    BY DEF IpcInv, GuestTypes
  <1>4. Good(t, th'[t], link'[t], hello_sent'[t], flusher', handled')
    BY <1>3
  <1> QED
    BY <1>1, <1>2, <1>3, <1>4, ThreadStep

LEMMA TakesMessage ==
  ASSUME IpcInv, ~ended, NEW t \in Thread, messages > 0
  PROVE  /\ (messages - 1) \in Nat
         /\ [kind |-> "log", n |-> messages] \in Request
         /\ [kind |-> "log", n |-> messages].kind = "log"
  BY DEF IpcInv, GuestTypes, Request, Kinds

LEMMA Flushes ==
  ASSUME IpcInv, NEW t \in Thread, flush_install_errors(t)
  PROVE  IpcInv'
  <1>1. ~ended /\ th[t].pc = "flush" /\ flusher = NoThread
    BY DEF flush_install_errors, Runs
  <1>2. UNCHANGED <<worldVars, link, hello_sent, failures, ended, handled, delivered, asked>>
    BY DEF flush_install_errors
  <1>3. hello_sent[t] = TRUE /\ th[t].outer = NoRequest /\ th[t].req.kind \in {"decide", "record"}
    <2>1. Flushing(t, th[t], hello_sent[t], flusher) /\ hello_sent[t] \in BOOLEAN
      BY <1>1, Of DEF IpcInv, GuestTypes
    <2>2. hello_sent[t] = TRUE
      BY <1>1, <2>1, Zenon DEF Flushing
    <2>3. th[t].outer = NoRequest
      BY <1>1, <2>1, Zenon DEF Flushing
    <2> QED
      BY <1>1, <2>1, <2>2, <2>3 DEF Flushing
  <1>4. CASE messages > 0
    <2> DEFINE v == [th[t] EXCEPT !.outer = th[t].req, !.outerRes = th[t].res, !.first = FALSE,
                                  !.got = NoRequest, !.req = [kind |-> "log", n |-> messages],
                                  !.pc = IF link[t] = NoLink THEN "resolve" ELSE "send"]
    <2>1. flusher' = t /\ messages' = messages - 1
      BY <1>4 DEF flush_install_errors
    <2>2. th' = [th EXCEPT ![t] = v]
      BY <1>4 DEF flush_install_errors
    <2>3. v \in State
      BY <1>1, <1>4, Of, Blank, TakesMessage DEF State, Places, Result
    <2>4. /\ v.pc = IF link[t] = NoLink THEN "resolve" ELSE "send"
          /\ v.req.kind = "log" /\ v.first = FALSE /\ v.got = NoRequest
          /\ v.outer = th[t].req /\ v.outerRes = th[t].res
      BY <1>1, Of DEF State
    <2> HIDE DEF v
    <2>5. Linked(v, link[t])
      BY <1>1, <2>4, Of DEF Linked
    <2>6. Streams(v, link[t], handled)
      BY <1>1, <2>4, Of DEF Streams
    <2>7. Got(v)
      BY <2>4 DEF Got
    <2>8. Results(v, handled)
      BY <1>1, <2>4, Of DEF Results
    <2>9. th[t].req # NoRequest
      BY <1>3 DEF NoRequest
    <2>10. Flushing(t, v, hello_sent[t], t)
      BY <1>3, <2>4, <2>9 DEF Flushing
    <2>11. Good(t, v, link[t], hello_sent[t], flusher', handled)
      BY <2>1, <2>5, <2>6, <2>7, <2>8, <2>10 DEF Good
    <2>12. \A u \in Thread : u # t => (flusher' = u <=> flusher = u)
      BY <1>1, <2>1, GuestIpcConstants
    <2>13. messages' \in Nat /\ flusher' \in Thread \cup {NoThread}
      BY <1>1, <1>4, <2>1, TakesMessage
    <2> QED
      BY <1>1, <1>2, <2>2, <2>3, <2>11, <2>12, <2>13, FlushStep
  <1>5. CASE ~(messages > 0)
    <2> DEFINE v == [th[t] EXCEPT !.pc = "leave", !.first = FALSE]
    <2>1. th' = [th EXCEPT ![t] = v] /\ flusher' = flusher /\ messages' = messages
      BY <1>5 DEF flush_install_errors
    <2>2. v \in State
      BY <1>1, Of DEF State, Places
    <2>3. /\ v.pc = "leave" /\ v.first = FALSE /\ v.req = th[t].req /\ v.res = th[t].res
          /\ v.got = th[t].got /\ v.outer = th[t].outer /\ v.outerRes = th[t].outerRes
      BY <1>1, Of DEF State
    <2> HIDE DEF v
    <2>4. Linked(v, link[t]) /\ Streams(v, link[t], handled) /\ Got(v) /\ Results(v, handled)
      BY <1>1, <2>3, Of DEF Linked, Streams, Got, Results
    <2>5. Flushing(t, v, hello_sent[t], flusher)
      BY <1>1, <1>3, <2>3, Of DEF Flushing
    <2>6. Good(t, v, link[t], hello_sent[t], flusher', handled)
      BY <2>1, <2>4, <2>5 DEF Good
    <2>7. messages' \in Nat /\ flusher' \in Thread \cup {NoThread}
      BY <2>1 DEF IpcInv, GuestTypes
    <2> QED
      BY <1>1, <1>2, <2>1, <2>2, <2>6, <2>7, FlushStep
  <1> QED
    BY <1>4, <1>5

LEMMA LogReturns ==
  ASSUME IpcInv, NEW t \in Thread, LogLeaves(t)
  PROVE  IpcInv'
  <1>1. ~ended /\ th[t].pc = "leave" /\ th[t].req.kind = "log"
    BY DEF LogLeaves, Returns, Runs
  <1>2. UNCHANGED <<worldVars, link, hello_sent, failures, ended, handled, delivered, asked>>
    BY DEF LogLeaves
  <1>3. /\ flusher = t /\ th[t].outer # NoRequest /\ th[t].outer.kind \in {"decide", "record"}
        /\ th[t].first = FALSE
    <2>1. Flushing(t, th[t], hello_sent[t], flusher) /\ th[t].first \in BOOLEAN
      BY <1>1, Of DEF State
    <2>2. th[t].outer # NoRequest
      BY <1>1, <2>1, Zenon DEF Flushing
    <2>3. th[t].first = FALSE
      BY <2>1, <2>2, Zenon DEF Flushing
    <2> QED
      BY <2>1, <2>2, <2>3 DEF Flushing
  <1>4. CASE messages > 0
    <2> DEFINE v == [th[t] EXCEPT !.req = [kind |-> "log", n |-> messages], !.got = NoRequest,
                                  !.pc = IF link[t] = NoLink THEN "resolve" ELSE "send"]
    <2>1. flusher' = flusher /\ messages' = messages - 1
      BY <1>4 DEF LogLeaves
    <2>2. th' = [th EXCEPT ![t] = v]
      BY <1>4 DEF LogLeaves
    <2>3. v \in State
      BY <1>1, <1>4, Of, Blank, TakesMessage DEF State, Places
    <2>4. /\ v.pc = IF link[t] = NoLink THEN "resolve" ELSE "send"
          /\ v.req.kind = "log" /\ v.first = th[t].first /\ v.got = NoRequest
          /\ v.outer = th[t].outer /\ v.outerRes = th[t].outerRes
      BY <1>1, Of DEF State
    <2> HIDE DEF v
    <2>5. Linked(v, link[t])
      BY <1>1, <2>4, Of DEF Linked
    <2>6. Streams(v, link[t], handled)
      BY <1>1, <2>4, Of DEF Streams
    <2>7. Got(v)
      BY <2>4 DEF Got
    <2>8. Results(v, handled)
      BY <1>1, <2>4, Of DEF Results
    <2>10. Flushing(t, v, hello_sent[t], flusher)
      BY <1>1, <1>3, <2>4, Of DEF Flushing
    <2>11. Good(t, v, link[t], hello_sent[t], flusher', handled)
      BY <2>1, <2>5, <2>6, <2>7, <2>8, <2>10 DEF Good
    <2>12. messages' \in Nat /\ flusher' \in Thread \cup {NoThread}
      BY <1>1, <1>3, <1>4, <2>1, TakesMessage
    <2> QED
      BY <1>1, <1>2, <2>1, <2>2, <2>3, <2>11, <2>12, FlushStep
  <1>5. CASE ~(messages > 0)
    <2> DEFINE v == [th[t] EXCEPT !.req = th[t].outer, !.res = th[t].outerRes, !.outer = NoRequest,
                                  !.outerRes = "none", !.got = NoRequest]
    <2>1. th' = [th EXCEPT ![t] = v] /\ flusher' = NoThread /\ messages' = messages
      BY <1>5 DEF LogLeaves
    <2>2. v \in State
      BY <1>1, Of, Blank DEF State, Places, Result
    <2>3. /\ v.pc = "leave" /\ v.first = FALSE /\ v.req = th[t].outer /\ v.res = th[t].outerRes
          /\ v.got = NoRequest /\ v.outer = NoRequest
      BY <1>1, <1>3, Of DEF State
    <2> HIDE DEF v
    <2>4. Linked(v, link[t]) /\ Streams(v, link[t], handled) /\ Got(v)
      BY <1>1, <2>3, Of DEF Linked, Streams, Got
    <2>8. Results(v, handled)
      <3>1. NoRequest.kind = "none"
        BY DEF NoRequest
      <3> QED
        BY <1>1, <2>3, <3>1, Of DEF Results
    <2>5. Flushing(t, v, hello_sent[t], NoThread)
      BY <1>3, <2>3, GuestIpcConstants DEF Flushing
    <2>6. Good(t, v, link[t], hello_sent[t], flusher', handled)
      BY <2>1, <2>4, <2>5, <2>8 DEF Good
    <2>7. messages' \in Nat /\ flusher' \in Thread \cup {NoThread}
      BY <2>1 DEF IpcInv, GuestTypes
    <2>9. \A u \in Thread : u # t => (flusher' = u <=> flusher = u)
      BY <1>3, <2>1, GuestIpcConstants
    <2> QED
      BY <1>1, <1>2, <2>1, <2>2, <2>6, <2>7, <2>9, FlushStep
  <1> QED
    BY <1>4, <1>5

(* A call returns: what it leaves behind is a thread that is idle.          *)
LEMMA IdleAfter ==
  ASSUME IpcInv, NEW t \in Thread, NEW kind \in {"decide", "record"}, Returns(t, kind)
  PROVE  /\ ~ended
         /\ Good(t, Idle, link[t], hello_sent[t], flusher, handled)
         /\ th[t].res # "none" /\ kind = "record" => th[t].req \in handled
  <1>1. ~ended /\ th[t].pc = "leave" /\ th[t].req.kind = kind
    BY DEF Returns, Runs
  <1>2. flusher # t
    BY <1>1, Of DEF Flushing
  <1>3. Quiet(link[t]) /\ (link[t] = NoLink \/ link[t].srv \in Server)
    BY <1>1, Of DEF Streams, Linked
  <1>4. th[t].res # "none" /\ kind = "record" => th[t].req \in handled
    BY <1>1, Of DEF Results
  <1>5. Good(t, Idle, link[t], hello_sent[t], flusher, handled)
    BY <1>2, <1>3, IdleGood
  <1> QED
    BY <1>1, <1>4, <1>5

LEMMA Decides ==
  ASSUME IpcInv, NEW t \in Thread, DecideAnswered(t)
  PROVE  IpcInv'
  <1>1. ~ended /\ Good(t, Idle, link[t], hello_sent[t], flusher, handled)
    BY IdleAfter DEF DecideAnswered
  <1>2. UNCHANGED <<worldVars, link, hello_sent, messages, flusher, ended, handled, delivered, asked>>
    BY DEF DecideAnswered
  <1>3. /\ th' \in [Thread -> State] /\ th'[t] = Idle /\ \A u \in Thread : u # t => th'[u] = th[u]
    BY Blank DEF DecideAnswered, IpcInv, GuestTypes
  <1>4. WorldTypes' /\ delivered' \subseteq handled'
    BY <1>2 DEF IpcInv, WorldTypes, worldVars
  <1>5. Count'
    <2>1. failures' = 0 /\ ended' = ended /\ ended \in BOOLEAN
      BY <1>2 DEF DecideAnswered, IpcInv, Count
    <2>2. failures' \in 0..IPC_FAIL_THRESHOLD /\ failures' < IPC_FAIL_THRESHOLD
      BY <2>1, GuestIpcConstants
    <2> QED
      BY <2>1, <2>2 DEF Count
  <1>6. /\ link' \in [Thread -> Connection] /\ messages' \in Nat /\ asked' \in Nat
        /\ hello_sent' \in [Thread -> BOOLEAN] /\ flusher' \in Thread \cup {NoThread}
    BY <1>2 DEF IpcInv, GuestTypes
  <1>7. Good(t, th'[t], link'[t], hello_sent'[t], flusher', handled')
    BY <1>1, <1>2, <1>3
  <1> QED
    BY <1>1, <1>2, <1>3, <1>4, <1>5, <1>6, <1>7, ThreadStep

LEMMA Records ==
  ASSUME IpcInv, NEW t \in Thread, RecordReturns(t)
  PROVE  IpcInv'
  <1>1. /\ ~ended /\ Good(t, Idle, link[t], hello_sent[t], flusher, handled)
        /\ th[t].res # "none" => th[t].req \in handled
    BY IdleAfter DEF RecordReturns
  <1>2. UNCHANGED <<worldVars, link, hello_sent, messages, flusher, ended, failures, handled, asked>>
    BY DEF RecordReturns
  <1>3. /\ th' \in [Thread -> State] /\ th'[t] = Idle /\ \A u \in Thread : u # t => th'[u] = th[u]
    BY Blank DEF RecordReturns, IpcInv, GuestTypes
  <1>4. WorldTypes' /\ Count'
    BY <1>2 DEF IpcInv, WorldTypes, worldVars, Count
  <1>5. delivered' \subseteq handled'
    <2>1. delivered' = IF overlay_delivery(th[t].res) THEN delivered \cup {th[t].req} ELSE delivered
      BY DEF RecordReturns
    <2> QED
      BY <1>1, <1>2, <2>1 DEF overlay_delivery, IpcInv
  <1>6. /\ link' \in [Thread -> Connection] /\ messages' \in Nat /\ asked' \in Nat
        /\ hello_sent' \in [Thread -> BOOLEAN] /\ flusher' \in Thread \cup {NoThread}
    BY <1>2 DEF IpcInv, GuestTypes
  <1>7. Good(t, th'[t], link'[t], hello_sent'[t], flusher', handled')
    BY <1>1, <1>2, <1>3
  <1> QED
    BY <1>1, <1>2, <1>3, <1>4, <1>5, <1>6, <1>7, ThreadStep

(* At the threshold every thread goes with the process.                     *)
LEMMA DecidesNot ==
  ASSUME IpcInv, NEW t \in Thread, DecideFails(t)
  PROVE  IpcInv'
  <1>1. ~ended /\ Good(t, Idle, link[t], hello_sent[t], flusher, handled)
    BY IdleAfter DEF DecideFails
  <1>2. UNCHANGED <<worldVars, hello_sent, messages, flusher, handled, delivered, asked>>
    BY DEF DecideFails
  <1>3. /\ failures' = failures + 1 /\ ended' = (failures + 1 >= IPC_FAIL_THRESHOLD)
        /\ failures \in 0..IPC_FAIL_THRESHOLD /\ failures < IPC_FAIL_THRESHOLD
        /\ IPC_FAIL_THRESHOLD \in Nat
    BY <1>1, GuestIpcConstants DEF DecideFails, IpcInv, Count
  <1>4. Count'
    <2>1. failures' \in 0..IPC_FAIL_THRESHOLD
      BY <1>3
    <2>2. ended' \in BOOLEAN
      BY <1>3
    <2>3. ~ended' => failures' < IPC_FAIL_THRESHOLD
      <3>1. ended' \/ ~(failures + 1 >= IPC_FAIL_THRESHOLD)
        BY <1>3, Zenon
      <3> QED
        BY <1>3, <3>1
    <2> QED
      BY <2>1, <2>2, <2>3 DEF Count
  <1>5. WorldTypes' /\ delivered' \subseteq handled'
    BY <1>2 DEF IpcInv, WorldTypes, worldVars
  <1>6. /\ messages' \in Nat /\ asked' \in Nat
        /\ hello_sent' \in [Thread -> BOOLEAN] /\ flusher' \in Thread \cup {NoThread}
    BY <1>2 DEF IpcInv, GuestTypes
  <1>7. CASE ended'
    <2>1. link' = [u \in Thread |-> NoLink] /\ th' = [u \in Thread |-> Idle]
      BY <1>7 DEF DecideFails
    <2>2. link' \in [Thread -> Connection] /\ th' \in [Thread -> State]
      BY <2>1, Blank
    <2>3. \A u \in Thread : th'[u] = Idle /\ link'[u] = NoLink
      BY <2>1
    <2> QED
      BY <1>4, <1>5, <1>6, <1>7, <2>2, <2>3 DEF IpcInv, GuestTypes
  <1>8. CASE ~ended'
    <2>1. link' = link /\ th' = [th EXCEPT ![t] = Idle]
      BY <1>8 DEF DecideFails
    <2>2. link' \in [Thread -> Connection] /\ th' \in [Thread -> State]
      BY <2>1, Blank DEF IpcInv, GuestTypes
    <2>3. \A u \in Thread : Good(u, th'[u], link'[u], hello_sent'[u], flusher', handled')
      <3> SUFFICES ASSUME NEW u \in Thread
                   PROVE  Good(u, th'[u], link[u], hello_sent[u], flusher, handled)
        BY <1>2, <2>1
      <3>1. CASE u = t
        BY <1>1, <2>1, <3>1 DEF IpcInv, GuestTypes
      <3>2. CASE u # t
        BY <1>1, <2>1, <3>2 DEF IpcInv, GuestTypes
      <3> QED
        BY <3>1, <3>2
    <2> QED
      BY <1>4, <1>5, <1>6, <1>8, <2>2, <2>3 DEF IpcInv, GuestTypes
  <1> QED
    BY <1>7, <1>8

(* The server turns the request it finds into its answer.                   *)
LEMMA OneRequest ==
  ASSUME NEW l \in Connection, NEW r \in Request, NEW done, InFlight(l, r, done), l.requests # <<>>,
         NEW res \in {"ok", "refused"}, NEW done2, r.kind = "record" => r \in done2,
         NEW l2, l2 = [l EXCEPT !.requests = Tail(@),
                                !.answers = Append(@, [req |-> Head(l.requests), res |-> res])]
  PROVE  l2 \in Connection /\ l2.srv = l.srv /\ InFlight(l2, r, done2)
  <1> DEFINE a == [req |-> r, res |-> res]
             l3 == [l EXCEPT !.requests = <<>>, !.answers = <<a>>]
  <1>1. l.requests = <<r>> /\ l.answers = <<>>
    BY DEF InFlight
  <1>2. Head(l.requests) = r /\ Tail(l.requests) = <<>>
    BY <1>1
  <1>3. a \in Answer
    BY DEF Answer, Result
  <1>4. <<>> \in Seq(Request) /\ <<a>> \in Seq(Answer) /\ Append(<<>>, a) = <<a>>
    BY <1>3
  <1>5. l3 \in Connection /\ l3.srv = l.srv /\ l3.requests = <<>> /\ l3.answers = <<a>>
    BY <1>4 DEF Connection
  <1>6. l2 = l3
    BY <1>1, <1>2, <1>4
  <1>7. InFlight(l3, r, done2)
    <2> HIDE DEF l3
    <2> QED
      BY <1>5 DEF InFlight
  <1> HIDE DEF l3
  <1> QED
    BY <1>5, <1>6, <1>7

LEMMA Serves ==
  ASSUME IpcInv, NEW t \in Thread, NEW res \in {"ok", "refused"}, ServerAnswers(t, res)
  PROVE  IpcInv'
  <1>1. link[t].up /\ link[t].requests # <<>>
    BY DEF ServerAnswers
  <1>2. ~ended
    BY <1>1 DEF IpcInv, NoLink
  <1>3. UNCHANGED <<worldVars, th, hello_sent, messages, flusher, failures, ended, delivered, asked>>
    BY DEF ServerAnswers
  <1> DEFINE r == IF th[t].pc = "hello answer" THEN HelloRequest ELSE th[t].req
             a == [req |-> Head(link[t].requests), res |-> res]
             l == [link[t] EXCEPT !.requests = Tail(@), !.answers = Append(@, a)]
  <1>4. InFlight(link[t], r, handled) /\ th[t].pc \in {"hello answer", "answer"} /\ r \in Request
    BY <1>1, <1>2, Of, Blank DEF Streams, Quiet, State
  <1>5. handled \subseteq handled' /\ (r.kind = "record" => r \in handled')
    <2> HIDE DEF r
    <2>1. Head(link[t].requests) = r
      <3>1. link[t].requests = <<r>>
        BY <1>1, <1>4 DEF InFlight
      <3> QED
        BY <3>1
    <2> QED
      BY <2>1 DEF ServerAnswers
  <1>6. l \in Connection /\ l.srv = link[t].srv /\ InFlight(l, r, handled')
    <2>1. link[t] \in Connection
      BY <1>2, Of
    <2> HIDE DEF r
    <2>2. \A l2 : l2 = l => l2 \in Connection /\ l2.srv = link[t].srv /\ InFlight(l2, r, handled')
      BY <1>1, <1>4, <1>5, <2>1, OneRequest
    <2> HIDE DEF l
    <2> QED
      BY <2>2
  <1>7. link' = [link EXCEPT ![t] = l]
    BY Zenon DEF ServerAnswers
  <1> HIDE DEF l
  <1>8. /\ link' \in [Thread -> Connection] /\ link'[t] = l
        /\ \A u \in Thread : u # t => link'[u] = link[u]
    BY <1>6, <1>7 DEF IpcInv, GuestTypes
  <1>9. Linked(th[t], l)
    BY <1>2, <1>4, <1>6, Of DEF Linked
  <1>10. Streams(th[t], l, handled')
    BY <1>4, <1>6 DEF Streams
  <1>11. Results(th[t], handled')
    BY <1>2, <1>5, Of DEF Results
  <1>12. Good(t, th[t], l, hello_sent[t], flusher, handled')
    BY <1>2, <1>9, <1>10, <1>11, Of DEF Good
  <1>13. Good(t, th'[t], link'[t], hello_sent'[t], flusher', handled')
    BY <1>3, <1>8, <1>12
  <1>14. WorldTypes' /\ Count'
    BY <1>3 DEF IpcInv, WorldTypes, worldVars, Count
  <1>15. delivered' \subseteq handled'
    BY <1>3, <1>5 DEF IpcInv
  <1>16. /\ th' \in [Thread -> State] /\ messages' \in Nat /\ asked' \in Nat
         /\ hello_sent' \in [Thread -> BOOLEAN] /\ flusher' \in Thread \cup {NoThread}
    BY <1>3 DEF IpcInv, GuestTypes
  <1> QED
    BY <1>2, <1>3, <1>5, <1>8, <1>13, <1>14, <1>15, <1>16, ThreadStep

(* With a launcher its connections break: what travels on them is what it   *)
(* was.                                                                     *)
LEMMA Dies ==
  ASSUME IpcInv, NEW s \in Server, LauncherDies(s)
  PROVE  IpcInv'
  <1>1. UNCHANGED <<config, th, hello_sent, messages, flusher, failures, ended, handled, delivered, asked>>
    BY DEF LauncherDies
  <1>2. WorldTypes'
    <2>1. running' \subseteq Server /\ config' \in Config
      BY <1>1 DEF LauncherDies, IpcInv, WorldTypes
    <2>2. section' = section \/ section' = [section EXCEPT !.open = TRUE]
      BY DEF LauncherDies
    <2>3. section' \in [broker : Server, members : SUBSET Server, open : BOOLEAN]
      BY <2>2 DEF IpcInv, WorldTypes
    <2> QED
      BY <2>1, <2>3 DEF IpcInv, WorldTypes
  <1>3. Count' /\ delivered' \subseteq handled'
    BY <1>1 DEF IpcInv, Count
  <1>4. ASSUME NEW t \in Thread
        PROVE  /\ link'[t] \in Connection /\ link'[t].srv = link[t].srv
               /\ link'[t].requests = link[t].requests /\ link'[t].answers = link[t].answers
               /\ link[t] = NoLink => link'[t] = NoLink
    <2>1. link'[t] = IF link[t].srv = s THEN [link[t] EXCEPT !.up = FALSE] ELSE link[t]
      BY DEF LauncherDies
    <2>2. link[t] \in Connection
      BY DEF IpcInv, GuestTypes
    <2>3. link[t] = NoLink => link'[t] = NoLink
      BY <2>1, GuestIpcConstants DEF NoLink
    <2>4. [link[t] EXCEPT !.up = FALSE] \in Connection
      BY <2>2 DEF Connection
    <2>5. /\ [link[t] EXCEPT !.up = FALSE].srv = link[t].srv
          /\ [link[t] EXCEPT !.up = FALSE].requests = link[t].requests
          /\ [link[t] EXCEPT !.up = FALSE].answers = link[t].answers
      BY <2>2 DEF Connection
    <2> QED
      BY <2>1, <2>2, <2>3, <2>4, <2>5
  <1>5. GuestTypes'
    <2>1. link' \in [Thread -> Connection]
      <3>1. link' = [t \in Thread |-> link'[t]]
        BY DEF LauncherDies
      <3> QED
        BY <1>4, <3>1
    <2> QED
      BY <1>1, <2>1 DEF IpcInv, GuestTypes
  <1>6. ASSUME ~ended', NEW t \in Thread
        PROVE  Good(t, th'[t], link'[t], hello_sent'[t], flusher', handled')
    <2>1. ~ended
      BY <1>1, <1>6
    <2>2. Linked(th[t], link'[t])
      BY <1>4, <2>1, Of DEF Linked
    <2>3. Streams(th[t], link'[t], handled)
      BY <1>4, <2>1, Of DEF Streams, InFlight, Quiet
    <2>4. Good(t, th[t], link'[t], hello_sent[t], flusher, handled)
      BY <2>1, <2>2, <2>3, Of DEF Good
    <2> QED
      BY <1>1, <2>4
  <1>7. ended' => \A t \in Thread : th'[t] = Idle /\ link'[t] = NoLink
    BY <1>1, <1>4 DEF IpcInv
  <1> QED
    BY <1>2, <1>3, <1>5, <1>6, <1>7 DEF IpcInv

LEMMA WorldStep ==
  ASSUME IpcInv, WorldTypes', UNCHANGED <<guestVars, handled>>
  PROVE  IpcInv'
  BY DEF IpcInv, GuestTypes, Count, guestVars

LEMMA Rebuilds ==
  ASSUME IpcInv, RebuildBegins \/ \E s \in Server : RebuildEnds(s) \/ NameReused(s)
  PROVE  IpcInv'
  <1>1. CASE RebuildBegins
    <2>0. section' = [section EXCEPT !.open = TRUE]
      BY <1>1 DEF RebuildBegins
    <2>1. section' \in [broker : Server, members : SUBSET Server, open : BOOLEAN]
      BY <2>0 DEF IpcInv, WorldTypes
    <2>2. WorldTypes'
      BY <1>1, <2>1 DEF RebuildBegins, IpcInv, WorldTypes
    <2> QED
      BY <1>1, <2>2, WorldStep DEF RebuildBegins
  <1>2. ASSUME NEW s \in Server, RebuildEnds(s) PROVE IpcInv'
    <2>1. section' \in [broker : Server, members : SUBSET Server, open : BOOLEAN]
      BY <1>2 DEF RebuildEnds
    <2>2. WorldTypes'
      BY <1>2, <2>1 DEF RebuildEnds, IpcInv, WorldTypes
    <2> QED
      BY <1>2, <2>2, WorldStep DEF RebuildEnds
  <1>3. ASSUME NEW s \in Server, NameReused(s) PROVE IpcInv'
    <2>1. WorldTypes'
      BY <1>3 DEF NameReused, IpcInv, WorldTypes
    <2> QED
      BY <1>3, <2>1, WorldStep DEF NameReused
  <1> QED
    BY <1>1, <1>2, <1>3

LEMMA IpcInvStep == ASSUME IpcInv, [IpcNext]_ipcVars PROVE IpcInv'
  <1>1. CASE UNCHANGED ipcVars
    BY <1>1 DEF ipcVars, IpcInv, WorldTypes, GuestTypes, Count
  <1>2. ASSUME NEW t \in Thread, NEW kind \in {"decide", "record"}, ensure_ipc_and(t, kind) PROVE IpcInv'
    BY <1>2, Calls
  <1>3. ASSUME NEW t \in Thread, \/ resolve_connect_pipe_name(t) \/ connect(t) \/ ConnectFails(t)
                                 \/ verify_pipe_server_identity(t)
        PROVE  IpcInv'
    BY <1>3, Resolves, Connects, ConnectsNot, Verifies
  <1>4. ASSUME NEW t \in Thread, \/ SendRequest(t) \/ HelloAnswered(t) \/ Answered(t)
                                 \/ TimedOut(t) \/ Broken(t)
        PROVE  IpcInv'
    BY <1>4, Sends, HelloReturns, Returned, Lost
  <1>5. ASSUME NEW t \in Thread, \/ LeaveFirst(t) \/ flush_install_errors(t) \/ LogLeaves(t)
                                 \/ DecideAnswered(t) \/ DecideFails(t) \/ RecordReturns(t)
        PROVE  IpcInv'
    BY <1>5, LeavesFirst, Flushes, LogReturns, Decides, DecidesNot, Records
  <1>6. ASSUME NEW t \in Thread, NEW res \in {"ok", "refused"}, ServerAnswers(t, res) PROVE IpcInv'
    BY <1>6, Serves
  <1>7. ASSUME NEW s \in Server, LauncherDies(s) PROVE IpcInv'
    BY <1>7, Dies
  <1>8. ASSUME RebuildBegins \/ \E s \in Server : RebuildEnds(s) \/ NameReused(s) PROVE IpcInv'
    BY <1>8, Rebuilds
  <1> QED
    BY <1>1, <1>2, <1>3, <1>4, <1>5, <1>6, <1>7, <1>8 DEF IpcNext

LEMMA IpcAlways == IpcSpec => []IpcInv
  <1>1. IpcInit => IpcInv
    BY IpcInvInit
  <1>2. IpcInv /\ [IpcNext]_ipcVars => IpcInv'
    BY IpcInvStep
  <1> QED
    BY <1>1, <1>2, PTL DEF IpcSpec

(* A thread in the flush holds the mutex of the messages and never waits    *)
(* for it, and the count of failures is below the threshold while the guest *)
(* runs (flush_install_errors, ipc_decide).                                 *)
THEOREM IpcTypeCorrect == IpcSpec => []IpcTypeOK
  <1>1. IpcInv => IpcTypeOK
    <2> SUFFICES ASSUME IpcInv PROVE IpcTypeOK
      OBVIOUS
    <2>1. ~ended => \A t \in Thread : th[t].outer # NoRequest <=> flusher = t
      BY Of DEF Flushing
    <2>2. ASSUME NEW t \in Thread, th[t].pc = "flush" PROVE flusher # t
      <3>1. ~ended
        BY <2>2, Blank DEF IpcInv
      <3> QED
        BY <2>2, <3>1, Of DEF Flushing
    <2> QED
      BY <2>1, <2>2 DEF IpcInv, GuestTypes, Count, IpcTypeOK
  <1> QED
    BY <1>1, IpcAlways, PTL

(* The answer a thread takes is the answer to the request it waits for, and *)
(* what counts as published has been handled by a broker (try_send,         *)
(* send_timed, overlay_delivery).                                           *)
THEOREM AnswersAreMine == IpcSpec => []AnswerIsMine
  <1>1. IpcInv => AnswerIsMine
    <2> SUFFICES ASSUME IpcInv, NEW t \in Thread
                 PROVE  /\ th[t].pc = "send" => th[t].got \in {NoRequest, HelloRequest}
                        /\ th[t].pc = "leave" => th[t].got \in {NoRequest, th[t].req}
                        /\ delivered \subseteq handled
      BY DEF AnswerIsMine, IpcInv
    <2>1. CASE ended
      BY <2>1, Blank DEF IpcInv
    <2>2. CASE ~ended
      BY <2>2, Of DEF Got, IpcInv
    <2> QED
      BY <2>1, <2>2
  <1> QED
    BY <1>1, IpcAlways, PTL

(* Every request goes to a launcher of the folder, whoever serves the name  *)
(* of the pipe (verify_pipe_server_identity, folder_section_trust_check).   *)
THEOREM ServersAreTrusted == IpcSpec => []ServerIsTrusted
  <1>1. IpcInv => ServerIsTrusted
    <2> SUFFICES ASSUME IpcInv, NEW t \in Thread, th[t].pc \in {"hello answer", "send", "answer"}
                 PROVE  link[t].srv \in Server
      BY DEF ServerIsTrusted
    <2>1. ~ended
      BY Blank DEF IpcInv
    <2> QED
      BY <2>1, Of DEF Linked
  <1> QED
    BY <1>1, IpcAlways, PTL
=============================================================================
