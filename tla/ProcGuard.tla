------------------------------ MODULE ProcGuard -----------------------------
(***************************************************************************)
(* What a guest may do to other processes: the process tracker and the     *)
(* child handles (winrsbox-hook/src/proc/), and the hooks that ask them:   *)
(* proc_guard (open, job, set-information, terminate), token_guard,        *)
(* inject_guard (threads, APCs, contexts) and the cross-process half of    *)
(* memory_guard.                                                           *)
(*                                                                         *)
(* A process is a PID and a creation time.  A PID is given to a new        *)
(* process once its process has ended and the last handle to it is closed. *)
(* The tracker remembers a child by PID and creation time; a hook reads    *)
(* the entry under the lock, asks the kernel for the live creation time    *)
(* after it, and makes the original call after that.                       *)
(*                                                                         *)
(* What a call names stays in the guest's hands until the original reads   *)
(* it: another thread may change the CLIENT_ID, close the handle and have  *)
(* its value name another process, or overwrite the handle of a new child. *)
(***************************************************************************)
EXTENDS Naturals, FiniteSets

CONSTANTS
    ProcId,        \* process identifiers other than the guest's own
    SystemPid,     \* those below SYSTEM_PID_THRESHOLD
    Worker,        \* threads of the guest
    MaxCreated,    \* bound: processes created in a behaviour
    MaxHeld,       \* bound: process handles held, but for one more of a new child
    SourceFails    \* whether GetProcessTimes may fail on the handle of a new child

ASSUME ProcGuardConstants ==
    /\ 0 \notin ProcId              \* the answer of GetProcessId when it fails
    /\ SystemPid \subseteq ProcId
    /\ MaxCreated \in Nat
    /\ MaxHeld \in Nat
    /\ SourceFails \in BOOLEAN

VARIABLES
    live,     \* live[p]: the process with PID p; ct 0 when the PID was never used
    created,  \* creation time of the newest process
    own,      \* creation times of the processes this guest spawned
    tracked,  \* SPAWNED: PID -> creation time (0 unknown); Untracked
    kept,     \* HANDLES: the guard's own duplicates
    held,     \* process handles of the guest's code
    work,     \* work[t]: the hooked call thread t is in
    fate,     \* of the guest: "running", or "killed" by report_and_terminate
    \* Histories, of processes (by creation time) that this guest did not spawn:
    touched,  \* a call went through to it
    crossed,  \* it took the place of one that a call had checked
    unlisted, \* it was opened with rights that DANGEROUS_ACCESS leaves out
    doubtful  \* its PID had an entry without a creation time

procVars == <<live, created, own, tracked, kept, held, work, fate, touched, crossed, unlisted,
              doubtful>>

Untracked == MaxCreated + 1
NoHandle == [pid |-> 0, ct |-> 0, acc |-> {}]

(* What a handle may do: ask (GetProcessId answers 0 without it), what      *)
(* DANGEROUS_ACCESS lists, and the rights to change a process that it does  *)
(* not list (GENERIC_WRITE, WRITE_DAC, WRITE_OWNER).                        *)
Rights == {{"query"}, {"listed"}, {"unlisted"}, {"query", "listed"}, {"query", "unlisted"}}

Object(p) == [pid |-> p, ct |-> live[p].ct]
Pinned(o) == \E h \in kept \cup {[pid |-> x.pid, ct |-> x.ct] : x \in held} : h = o

(***************************************************************************)
(* process_tracker, child_handles                                          *)
(***************************************************************************)
query_process_create_time(p) == IF live[p].alive THEN live[p].ct ELSE 0

(* A variant without the fingerprint: membership alone.                     *)
Verified_MembershipOnly(stored, p) == stored # Untracked

(* is_owned_child, after its read of the stored creation time               *)
Verified(stored, p) ==
    CASE stored = Untracked -> FALSE
      [] stored = 0         -> TRUE
      [] OTHER              -> query_process_create_time(p) = stored

is_owned_child(p) == p \in ProcId /\ Verified(tracked[p], p)

(* GetProcessId: needs query rights.                                        *)
GetProcessId(h) == IF "query" \in h.acc THEN h.pid ELSE 0

prune(set) == {o \in set : live[o.pid].ct = o.ct /\ live[o.pid].alive}

(* NtCompareObjects against the live duplicates                             *)
child_pid_of(h) == {o \in prune(kept) : o = [pid |-> h.pid, ct |-> h.ct]}

forget(p) == {o \in kept : o.pid # p}

idleWork == [pc |-> "idle", pid |-> 0, acc |-> {}, stored |-> Untracked, h |-> NoHandle]
On(pc, h) == [idleWork EXCEPT !.pc = pc, !.h = h]

(* What the value of a handle that was h names now, and whether it is a     *)
(* process other than h's.                                                  *)
Named(h) == IF h \in held THEN {h} ELSE held \cup {NoHandle}
Swapped(g, h) == IF g \in {h, NoHandle} THEN {} ELSE {g.ct} \ own

Running == fate = "running"
history == <<crossed, unlisted, doubtful>>

(***************************************************************************)
(* The kernel                                                              *)
(***************************************************************************)
Fresh(p) == /\ ~live[p].alive
            /\ ~Pinned(Object(p))
            /\ created < MaxCreated

StartProcess(p) ==
    /\ created' = created + 1
    /\ live' = [live EXCEPT ![p] = [alive |-> TRUE, ct |-> created + 1]]

ForeignStarts(p) ==
    /\ Fresh(p)
    /\ StartProcess(p)
    /\ crossed' = IF \E t \in Worker : work[t].pc \in {"stored", "checked"} /\ work[t].pid = p
                  THEN crossed \cup {created + 1} ELSE crossed
    /\ doubtful' = IF tracked[p] = 0 THEN doubtful \cup {created + 1} ELSE doubtful
    /\ UNCHANGED <<own, tracked, kept, held, work, fate, touched, unlisted>>

Exits(p) ==
    /\ live[p].alive
    /\ live' = [live EXCEPT ![p].alive = FALSE]
    /\ UNCHANGED <<created, own, tracked, kept, held, work, fate, touched, history>>

(***************************************************************************)
(* NtCreateUserProcess: the child is created suspended, then marked with   *)
(* the creation time read from its handle and remembered.  The handle has  *)
(* the rights the caller asked for, and is read back from the caller's     *)
(* memory: a handle that does not tell its PID is not marked.              *)
(***************************************************************************)
SpawnChild(t, p, acc) ==
    LET child == [pid |-> p, ct |-> created + 1, acc |-> acc]
    IN
    /\ Running
    /\ work[t].pc = "idle"
    /\ p \notin SystemPid
    /\ Cardinality(held) <= MaxHeld
    /\ Fresh(p)
    /\ StartProcess(p)
    /\ own' = own \cup {created + 1}
    /\ held' = held \cup {child}
    /\ \E h \in held' :
         /\ crossed' = crossed \cup Swapped(h, child)
         /\ work' = IF GetProcessId(h) = 0 THEN work ELSE [work EXCEPT ![t] = On("spawned", h)]
    /\ UNCHANGED <<tracked, kept, fate, touched, unlisted, doubtful>>

(* The entry is made under the PID read before.                             *)
mark_spawned(t, g, ct) ==
    LET h == work[t].h
    IN
    /\ Running
    /\ work[t].pc = "spawned"
    /\ g \in Named(h)
    /\ ct = g.ct \/ (SourceFails /\ ct = 0)
    /\ tracked' = [tracked EXCEPT ![h.pid] = ct]
    /\ work' = [work EXCEPT ![t].pc = "marked"]
    /\ crossed' = crossed \cup Swapped(g, h)
    /\ doubtful' = IF ct = 0 THEN doubtful \cup ({live[h.pid].ct} \ own) ELSE doubtful
    /\ UNCHANGED <<live, created, own, kept, held, fate, touched, unlisted>>

(* DuplicateHandle may fail, and then nothing is remembered.                *)
remember(t, g, ok) ==
    LET h == work[t].h
    IN
    /\ Running
    /\ work[t].pc = "marked"
    /\ g \in Named(h)
    /\ kept' = IF ok /\ g # NoHandle THEN prune(kept) \cup {[pid |-> g.pid, ct |-> g.ct]} ELSE kept
    /\ work' = [work EXCEPT ![t] = idleWork]
    /\ crossed' = crossed \cup Swapped(g, h)
    /\ UNCHANGED <<live, created, own, tracked, held, fate, touched, unlisted, doubtful>>

(***************************************************************************)
(* NtOpenProcess.  Only rights that DANGEROUS_ACCESS lists are checked.    *)
(* The check reads the PID of the CLIENT_ID; the kernel reads it again.    *)
(***************************************************************************)
OpensHandle(p, acc) ==
    /\ Cardinality(held) < MaxHeld
    /\ held' = IF live[p].alive
               THEN held \cup {[pid |-> p, ct |-> live[p].ct, acc |-> acc]}
               ELSE held

hook_nt_open_process(t, p, acc) ==
    /\ Running
    /\ work[t].pc = "idle"
    /\ IF "listed" \in acc
       THEN /\ work' = [work EXCEPT ![t] = [idleWork EXCEPT !.pc = "stored", !.pid = p, !.acc = acc,
                                                            !.stored = tracked[p]]]
            /\ UNCHANGED <<held, unlisted>>
       ELSE /\ OpensHandle(p, acc)
            /\ unlisted' = IF "unlisted" \in acc /\ live[p].alive
                           THEN unlisted \cup ({live[p].ct} \ own) ELSE unlisted
            /\ UNCHANGED work
    /\ UNCHANGED <<live, created, own, tracked, kept, fate, touched, crossed, doubtful>>

OpenVerify(t) ==
    /\ Running
    /\ work[t].pc = "stored"
    /\ work' = IF Verified(work[t].stored, work[t].pid)
               THEN [work EXCEPT ![t].pc = "checked"]
               ELSE [work EXCEPT ![t] = idleWork]
    /\ UNCHANGED <<live, created, own, tracked, kept, held, fate, touched, history>>

OpenOriginal(t, p) ==
    /\ Running
    /\ work[t].pc = "checked"
    /\ OpensHandle(p, work[t].acc)
    /\ crossed' = IF p # work[t].pid /\ live[p].alive
                  THEN crossed \cup ({live[p].ct} \ own) ELSE crossed
    /\ work' = [work EXCEPT ![t] = idleWork]
    /\ UNCHANGED <<live, created, own, tracked, kept, fate, touched, unlisted, doubtful>>

CloseHandle(h) ==
    /\ Running
    /\ h \in held
    /\ held' = held \ {h}
    /\ UNCHANGED <<live, created, own, tracked, kept, work, fate, touched, history>>

(***************************************************************************)
(* Calls on a handle: the hook refuses, kills, or goes on to the original. *)
(* A token needs a handle that may ask; whatever else the hooks see needs  *)
(* rights to change the process.                                           *)
(***************************************************************************)
GoesOn(t, h, pc) == work' = [work EXCEPT ![t] = On(pc, h)] /\ UNCHANGED fate
Refused == UNCHANGED <<work, fate>>

report_and_terminate ==
    /\ fate' = "killed"
    /\ UNCHANGED work

MayChange(h) == h.acc \cap {"listed", "unlisted"} # {}

Original(t) ==
    LET w == work[t]
    IN
    /\ Running
    /\ w.pc \in {"change", "end", "token"}
    /\ \E g \in Named(w.h) :
         LET reached == IF w.pc = "token" THEN "query" \in g.acc ELSE MayChange(g)
         IN  /\ touched' = IF reached THEN touched \cup ({g.ct} \ own) ELSE touched
             /\ crossed' = crossed \cup Swapped(g, w.h)
             /\ live' = IF w.pc = "end" /\ reached /\ live[g.pid].ct = g.ct
                        THEN [live EXCEPT ![g.pid].alive = FALSE] ELSE live
    /\ work' = [work EXCEPT ![t] = idleWork]
    /\ UNCHANGED <<created, own, tracked, kept, held, fate, unlisted, doubtful>>

onHandle == <<live, created, own, held, touched, history>>

(* memory_guard: executable memory in another process                       *)
ForeignExec(t, h, executable) ==
    /\ IF executable /\ ~is_owned_child(GetProcessId(h))
       THEN report_and_terminate
       ELSE GoesOn(t, h, "change")
    /\ UNCHANGED <<onHandle, tracked, kept>>

foreign_allocate(t, h, executable) == ForeignExec(t, h, executable)
foreign_allocate_ex(t, h, executable) == ForeignExec(t, h, executable)
foreign_protect(t, h, executable) == ForeignExec(t, h, executable)

foreign_write_decision(h) ==
    IF is_owned_child(GetProcessId(h)) THEN "Allow" ELSE "Deny"

foreign_write(t, h) ==
    /\ IF foreign_write_decision(h) = "Deny"
       THEN report_and_terminate
       ELSE GoesOn(t, h, "change")
    /\ UNCHANGED <<onHandle, tracked, kept>>

(* memory_guard: views of another process, whoever it is                    *)
foreign_map_view(t, h) == Refused /\ UNCHANGED <<onHandle, tracked, kept>>
foreign_unmap_view(t, h) == Refused /\ UNCHANGED <<onHandle, tracked, kept>>

(* inject_guard.  The stack of a guest's call always holds a frame of the   *)
(* guest.  SYSTEM_DLLS frames are compared with a directory that ends in    *)
(* two separators and are never trusted: only hook.dll's own frames are.    *)
stack_is_system(stack) == stack # {} /\ stack \subseteq {"hook.dll"}
GuestStack == {"guest", "ntdll.dll"}

should_block(p, stack) ==
    /\ p \notin SystemPid \cup {0}
    /\ ~stack_is_system(stack)

ThreadCall(t, h, stack) ==
    /\ IF should_block(GetProcessId(h), stack)
       THEN report_and_terminate
       ELSE GoesOn(t, h, "change")
    /\ UNCHANGED <<onHandle, tracked, kept>>

hook_nt_create_thread_ex(t, h) == ThreadCall(t, h, GuestStack)
hook_nt_create_thread(t, h) == ThreadCall(t, h, GuestStack)

(* proc_guard: NtAssignProcessToJobObject                                   *)
hook_nt_assign_process_to_job_object(t, h) ==
    /\ kept' = prune(kept)
    /\ IF child_pid_of(h) # {} THEN GoesOn(t, h, "change") ELSE Refused
    /\ UNCHANGED <<onHandle, tracked>>

(* proc_guard: NtSetInformationProcess; of a dangerous class the PID comes  *)
(* from NtQueryInformationProcess, and 0 passes.                            *)
resolve_process_pid(h) == GetProcessId(h)
InformationClass == {"deviceMap", "dangerous", "other"}

hook_nt_set_information_process(t, h, class) ==
    /\ IF \/ class = "other"
          \/ class = "dangerous" /\ (resolve_process_pid(h) = 0 \/ is_owned_child(resolve_process_pid(h)))
       THEN GoesOn(t, h, "change") ELSE Refused
    /\ UNCHANGED <<onHandle, tracked, kept>>

(* token_guard: NtOpenProcessTokenEx with rights that matter; an unresolved *)
(* PID is untrusted.                                                        *)
token_process_pid(h) == GetProcessId(h)
is_untrusted_token_pid(p) == p = 0 \/ ~is_owned_child(p)

hook_nt_open_process_token_ex(t, h) ==
    /\ IF is_untrusted_token_pid(token_process_pid(h)) THEN Refused ELSE GoesOn(t, h, "token")
    /\ UNCHANGED <<onHandle, tracked, kept>>

(* proc_guard: NtTerminateProcess; the entry is dropped before the call,    *)
(* which ends the process only if the handle has the right.                 *)
hook_nt_terminate_process(t, h) ==
    /\ IF GetProcessId(h) = 0
       THEN UNCHANGED <<tracked, kept>>
       ELSE /\ tracked' = [tracked EXCEPT ![h.pid] = Untracked]
            /\ kept' = forget(h.pid)
    /\ GoesOn(t, h, "end")
    /\ UNCHANGED onHandle

HandleCall(t, h) ==
    /\ Running
    /\ work[t].pc = "idle"
    /\ h \in held
    /\ \/ \E x \in BOOLEAN : \/ foreign_allocate(t, h, x)
                              \/ foreign_allocate_ex(t, h, x)
                              \/ foreign_protect(t, h, x)
       \/ foreign_write(t, h)
       \/ foreign_map_view(t, h)
       \/ foreign_unmap_view(t, h)
       \/ hook_nt_create_thread_ex(t, h)
       \/ hook_nt_create_thread(t, h)
       \/ hook_nt_assign_process_to_job_object(t, h)
       \/ \E class \in InformationClass : hook_nt_set_information_process(t, h, class)
       \/ hook_nt_open_process_token_ex(t, h)
       \/ hook_nt_terminate_process(t, h)

ProcInit ==
    /\ live = [p \in ProcId |-> [alive |-> FALSE, ct |-> 0]]
    /\ created = 0
    /\ own = {}
    /\ tracked = [p \in ProcId |-> Untracked]
    /\ kept = {}
    /\ held = {}
    /\ work = [t \in Worker |-> idleWork]
    /\ fate = "running"
    /\ touched = {} /\ crossed = {} /\ unlisted = {} /\ doubtful = {}

ProcNext ==
    \/ \E p \in ProcId : ForeignStarts(p) \/ Exits(p)
    \/ \E t \in Worker :
         \/ \E p \in ProcId, acc \in Rights : SpawnChild(t, p, acc)
         \/ \E g \in held \cup {NoHandle} : \/ \E ct \in 0..MaxCreated : mark_spawned(t, g, ct)
                                           \/ \E ok \in BOOLEAN : remember(t, g, ok)
         \/ \E p \in ProcId, acc \in Rights : hook_nt_open_process(t, p, acc)
         \/ OpenVerify(t)
         \/ \E p \in ProcId : OpenOriginal(t, p)
         \/ \E h \in held : HandleCall(t, h)
         \/ Original(t)
    \/ \E h \in held : CloseHandle(h)

ProcSpec == ProcInit /\ [][ProcNext]_procVars

-----------------------------------------------------------------------------
(* The tracker's entries and the guard's duplicates name processes that     *)
(* this guest spawned, or that took the place of one.                       *)
ProcTypeOK ==
    /\ live \in [ProcId -> [alive : BOOLEAN, ct : 0..MaxCreated]]
    /\ own \subseteq 1..created
    /\ tracked \in [ProcId -> own \cup crossed \cup {0, Untracked}]
    /\ \A o \in kept : o.pid \in ProcId /\ o.ct \in own \cup crossed
    /\ \A h \in held : h.pid \in ProcId /\ h.ct \in 1..created /\ h.acc \in Rights
    /\ touched \cup crossed \cup unlisted \cup doubtful \subseteq 1..created \ own
    /\ fate \in {"running", "killed"}

(* No hooked call goes through to a process the guest did not spawn, with   *)
(* PIDs recycled at any moment.  The exceptions: a process that came under  *)
(* the PID, the CLIENT_ID or the handle of a call after the check of it     *)
(* (the hooks and the originals read them one after the other); one that    *)
(* was opened with rights DANGEROUS_ACCESS does not list; and one whose PID *)
(* had an entry without a creation time (is_owned_child's fallback).  A     *)
(* handle that may only ask is covered: no token is had through it.         *)
ForeignUntouched == touched \subseteq crossed \cup unlisted \cup doubtful
=============================================================================
