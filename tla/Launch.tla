------------------------------- MODULE Launch -------------------------------
(***************************************************************************)
(* One session of the sandbox: a launcher starts its target, confirms that *)
(* hook.dll is in charge of it, waits for it and for what it left behind,  *)
(* and exits (winrsbox-launcher/src/main/session.rs, sandbox/).  Inside,   *)
(* every guest that creates a process repeats the same protocol on its     *)
(* child (winrsbox-hook/src/core/hooks/spawn.rs, ipc/init_ack.rs).         *)
(*                                                                         *)
(* A new process is created suspended, scanned, given hook.dll by a queued *)
(* APC, put in two kernel jobs and only then resumed.  DllMain installs    *)
(* the hooks and reports: the root through two inherited events, a child   *)
(* through an event its creator waits on.  A process that does not report  *)
(* is terminated, by the launcher or by its creator.  The handles of the   *)
(* jobs close when the launcher is gone, and closing kills the members.    *)
(*                                                                         *)
(* A creator cannot hide its child, nor always kill it.  The thread of the *)
(* child is visible as soon as the kernel has made it, and a guest may     *)
(* resume it before the hook has scanned or injected it.  The hook's       *)
(* handles are the ones its caller asked for: they come back through the   *)
(* caller's memory, and may lack the right to terminate.                   *)
(*                                                                         *)
(* Spawns that are refused before the process exists (denylist, forged     *)
(* environment, parent or handle-list attributes) change nothing and are   *)
(* left out, as are logs, exit codes and the process table.                *)
(***************************************************************************)
EXTENDS Naturals, Sequences, FiniteSets

CONSTANTS
    Root,      \* the target the launcher was asked to run
    Guest,     \* the processes created inside the session
    None,
    Image,     \* executables
    Clean,     \* executables without direct system calls
    QueueCap   \* CHILD_PID_QUEUE_CAP

ASSUME ConstantsAssumption ==
    /\ Root \notin Guest
    /\ None \notin Guest \cup {Root} \cup Image
    /\ Clean \subseteq Image
    /\ QueueCap \in Nat \ {0}

Process == Guest \cup {Root}

VARIABLES
    opt,     \* how the launcher was started: its role, whose images are scanned
    lpc,     \* where run_target_session is
    life,    \* life[p]: how far process p has come
    apc,     \* processes with LoadLibraryW(hook.dll) queued
    jobs,    \* jobs[p]: the jobs p is a member of
    image,   \* image[p]: what p runs (None: not scanned by anyone)
    spawner, \* spawner[p]: the hooked process that created p, or None
    held,    \* processes whose creator asked for them to stay suspended
    loose,   \* children that the hook of their creator lost, or could not kill
    err,     \* the target has a buffered install error
    init,    \* the init event is set
    degr,    \* the status event is set
    warned,  \* the launcher has reported a degraded sandbox
    sp,      \* sp[p]: p's call of NtCreateUserProcess
    acked,   \* children whose acknowledgement event is set
    cache,   \* images recorded as scanned and clean
    queue,   \* child_pids
    waited,  \* the processes the exit drain waits for
    calm     \* the drain ended because there was nothing left to wait for

launcher == <<opt, lpc, warned, waited, calm>>
processes == <<life, apc, jobs, image, spawner, held, loose, err>>
events == <<init, degr, acked>>
vars == <<launcher, processes, events, sp, cache, queue>>

(* Resumed: in the loader, running DllMain, or in its own code.             *)
Loading == {"booting", "installed", "signalled"}
Running == Loading \cup {"hooked", "bare"}
Life == {"absent", "suspended", "dead"} \cup Running

(* A call of NtCreateUserProcess: key says that its image was scanned clean. *)
Call == [pc : {"idle", "scan", "inject", "resume", "ack", "register", "spawned", "record"},
         child : Guest \cup {None}, key : BOOLEAN]
Idle == [pc |-> "idle", child |-> None, key |-> FALSE]

(* Guard levels full and static scan the images of children, and that of   *)
(* the target unless --no-pre-scan.                                         *)
Options == [role : {"broker", "client"}, scans : {{}, {"child"}, {"root", "child"}}]
ScanRoot == "root" \in opt.scans
ScanChildren == "child" \in opt.scans

-----------------------------------------------------------------------------
(* TerminateProcess, or the end of a process: what it was doing ends too.   *)
Ended(S) == [p \in Process |-> IF p \in S /\ life[p] # "absent" THEN "dead" ELSE life[p]]
Dropped(S) == [p \in Process |-> IF p \in S THEN Idle ELSE sp[p]]

(* The children that S leave without the end of their scan.                 *)
Unscanned(S) == {sp[p].child : p \in {q \in S : sp[q].pc = "scan"}}

End(S) ==
    /\ life' = Ended(S)
    /\ sp' = Dropped(S)
    /\ loose' = loose \cup Unscanned(S)

(* A cached image is not scanned again; a scan can also fail to read.       *)
MayPass(i) == i \in cache \cup Clean

(* A variant in which the session job does not kill its members. *)
Closing_FolderOnly(others) == {p \in Process : "folder" \in jobs[p] /\ ~others}

(* Both jobs are KILL_ON_JOB_CLOSE and allow no breakaway.  The launcher    *)
(* has the only handle of the session job; the folder job stays open while  *)
(* another launcher of the folder lives.                                    *)
Closing(others) == {p \in Process : \/ "session" \in jobs[p]
                                    \/ "folder" \in jobs[p] /\ ~others}

(* queue_child_pid: a full queue drops the report.                          *)
queue_child_pid(p) == IF Len(queue) >= QueueCap THEN queue ELSE Append(queue, p)

Init ==
    /\ opt \in Options
    /\ lpc = "start"
    /\ life = [p \in Process |-> "absent"]
    /\ apc = {}
    /\ jobs = [p \in Process |-> {}]
    /\ image \in {[p \in Process |-> IF p = Root THEN i ELSE None] : i \in Image}
    /\ spawner = [p \in Process |-> None]
    /\ held = {}
    /\ loose = {}
    /\ err = FALSE
    /\ init = FALSE
    /\ degr = FALSE
    /\ warned = FALSE
    /\ sp = [p \in Process |-> Idle]
    /\ acked = {}
    /\ cache \in SUBSET Clean
    /\ queue = << >>
    /\ waited = {}
    /\ calm = FALSE

-----------------------------------------------------------------------------
(* The launcher: run_target_session.                                        *)

At(from, to) == lpc = from /\ lpc' = to

(* An early failure that terminates the target before the launcher exits.   *)
Refuse(from) ==
    /\ At(from, "exit")
    /\ End({Root})
    /\ UNCHANGED <<opt, warned, waited, calm, apc, jobs, image, spawner, held, err,
                   events, cache, queue>>

(* An early failure that does not.                                          *)
GiveUp(from) ==
    /\ At(from, "exit")
    /\ UNCHANGED <<opt, warned, waited, calm, processes, events, sp, cache, queue>>

launch_suspended ==
    \/ /\ At("start", "check")
       /\ life' = [life EXCEPT ![Root] = "suspended"]
       /\ UNCHANGED <<opt, warned, waited, calm, apc, jobs, image, spawner, held, loose, err,
                      events, sp, cache, queue>>
    \/ GiveUp("start")

(* The handles it inherited, the shape of its token, native x64.            *)
CheckRoot ==
    \/ /\ At("check", "scan")
       /\ UNCHANGED <<opt, warned, waited, calm, processes, events, sp, cache, queue>>
    \/ Refuse("check")

pre_launch_scan ==
    \/ /\ At("scan", "inject")
       /\ ScanRoot => MayPass(image[Root])
       /\ cache' \in {cache} \cup (IF ScanRoot THEN {cache \cup {image[Root]}} ELSE {})
       /\ UNCHANGED <<opt, warned, waited, calm, processes, events, sp, queue>>
    \/ ScanRoot /\ image[Root] \notin cache /\ Refuse("scan")

inject_dll ==
    \/ /\ At("inject", "folder")
       /\ apc' = apc \cup {Root}
       /\ UNCHANGED <<opt, warned, waited, calm, life, jobs, image, spawner, held, loose, err,
                      events, sp, cache, queue>>
    \/ Refuse("inject")

Join(from, to, job) ==
    /\ At(from, to)
    /\ jobs' = [jobs EXCEPT ![Root] = @ \cup {job}]
    /\ UNCHANGED <<opt, warned, waited, calm, life, apc, image, spawner, held, loose, err,
                   events, sp, cache, queue>>

assign_process_to_raw_job ==
    \/ Join("folder", "session", "folder")
    \/ GiveUp("folder")

(* The UI restrictions are set after the assignment, and may fail then.     *)
setup_job_object ==
    \/ Join("session", "wfp", "session")
    \/ Join("session", "exit", "session")
    \/ GiveUp("session")

install_outbound_filters ==
    \/ /\ At("wfp", "resume")
       /\ UNCHANGED <<opt, warned, waited, calm, processes, events, sp, cache, queue>>
    \/ Refuse("wfp")

ResumeRoot ==
    /\ At("resume", "wait")
    /\ life' = [life EXCEPT ![Root] = "booting"]
    /\ UNCHANGED <<opt, warned, waited, calm, apc, jobs, image, spawner, held, loose, err,
                   events, sp, cache, queue>>

(* A variant that takes either event for a confirmation. *)
WaitInit_AnyEvent ==
    /\ \/ At("wait", "poll") /\ (init \/ degr) /\ init' = FALSE /\ UNCHANGED degr
       \/ At("wait", "kill") /\ ~init /\ ~degr /\ UNCHANGED <<init, degr>>
    /\ UNCHANGED <<opt, warned, waited, calm, processes, acked, sp, cache, queue>>

(* WaitForMultipleObjects takes the init event when both are set, and the   *)
(* events reset themselves; 5 s without either is the third outcome.        *)
WaitInit ==
    /\ \/ At("wait", "poll") /\ init /\ init' = FALSE /\ UNCHANGED degr
       \/ At("wait", "kill") /\ ~init /\ degr /\ degr' = FALSE /\ UNCHANGED init
       \/ At("wait", "kill") /\ ~init /\ ~degr /\ UNCHANGED <<init, degr>>
    /\ UNCHANGED <<opt, warned, waited, calm, processes, acked, sp, cache, queue>>

KillRoot == Refuse("kill")

(* One look at the status event, without waiting.                           *)
PollDegraded ==
    /\ At("poll", "target")
    /\ warned' = degr
    /\ degr' = FALSE
    /\ UNCHANGED <<opt, waited, calm, processes, init, acked, sp, cache, queue>>

(* The target has exited: a broker takes the reported children off the      *)
(* queue, once; a client watches its own session job.                       *)
TargetExited ==
    /\ At("target", "drain")
    /\ life[Root] = "dead"
    /\ IF opt.role = "broker"
       THEN /\ waited' = {queue[i] : i \in DOMAIN queue}
            /\ queue' = << >>
       ELSE UNCHANGED <<waited, queue>>
    /\ UNCHANGED <<opt, warned, calm, processes, events, sp, cache>>

(* A variant that is satisfied when one child has exited. *)
Remaining_WaitAny ==
    IF opt.role = "broker"
    THEN IF \E p \in waited : life[p] = "dead" THEN {} ELSE waited
    ELSE {p \in Process : "session" \in jobs[p] /\ life[p] # "dead"}

Remaining ==
    IF opt.role = "broker"
    THEN {p \in waited : life[p] # "dead"}
    ELSE {p \in Process : "session" \in jobs[p] /\ life[p] # "dead"}

(* A variant that waits until nothing remains. *)
Drain_NoDeadline ==
    /\ At("drain", "exit")
    /\ Remaining = {}
    /\ calm' = TRUE
    /\ UNCHANGED <<opt, warned, waited, processes, events, sp, cache, queue>>

(* CHILD_DRAIN_GRACE bounds the wait.                                       *)
Drain ==
    /\ At("drain", "exit")
    /\ calm' \in {FALSE, Remaining = {}}
    /\ UNCHANGED <<opt, warned, waited, processes, events, sp, cache, queue>>

Gone(others) ==
    /\ lpc' = "gone"
    /\ End(Closing(others))
    /\ UNCHANGED <<opt, warned, waited, calm, apc, jobs, image, spawner, held, err,
                   events, cache, queue>>

Exit == lpc = "exit" /\ \E others \in BOOLEAN : Gone(others)

(* The launcher can be killed at any point.                                 *)
Crash == lpc \notin {"exit", "gone"} /\ \E others \in BOOLEAN : Gone(others)

LauncherStep ==
    \/ launch_suspended \/ CheckRoot \/ pre_launch_scan \/ inject_dll
    \/ assign_process_to_raw_job \/ setup_job_object \/ install_outbound_filters
    \/ ResumeRoot \/ WaitInit \/ KillRoot \/ PollDegraded \/ TargetExited \/ Drain
    \/ Exit

-----------------------------------------------------------------------------
(* hook.dll in a new process: DllMain, run by the queued APC.               *)

(* install_hooks up to its reports.  An optional part may fail (err); when  *)
(* a required one does the DLL is unloaded, the status event set, and the   *)
(* process goes on without hooks.  A process that was resumed without the   *)
(* APC goes on too; one queued later still loads the DLL.                   *)
install_hooks(p) ==
    /\ \/ /\ p \in apc /\ life[p] \in {"booting", "bare"}
          /\ life' = [life EXCEPT ![p] = "installed"]
          /\ err' \in {err, err \/ p = Root}
          /\ UNCHANGED degr
       \/ /\ p \in apc /\ life[p] \in {"booting", "bare"}
          /\ life' = [life EXCEPT ![p] = "bare"]
          /\ degr' = (degr \/ p = Root)
          /\ UNCHANGED err
       \/ /\ p \notin apc /\ life[p] = "booting"
          /\ life' = [life EXCEPT ![p] = "bare"]
          /\ UNCHANGED <<err, degr>>
    /\ apc' = apc \ {p}
    /\ UNCHANGED <<launcher, jobs, image, spawner, held, loose, init, acked, sp, cache, queue>>

(* signal_init_events, one event after the other.  Only the root inherited  *)
(* the launcher's two.  A SetEvent that fails is an install error.          *)
SignalInit ==
    /\ life[Root] = "installed"
    /\ life' = [life EXCEPT ![Root] = "signalled"]
    /\ \/ init' = TRUE /\ UNCHANGED err
       \/ err' = TRUE /\ UNCHANGED init
    /\ UNCHANGED <<launcher, apc, jobs, image, spawner, held, loose, degr, acked, sp, cache, queue>>

SignalDegraded ==
    /\ life[Root] = "signalled"
    /\ life' = [life EXCEPT ![Root] = "hooked"]
    /\ degr' = (degr \/ err)
    /\ UNCHANGED <<launcher, apc, jobs, image, spawner, held, loose, err, init, acked, sp, cache, queue>>

(* The event exists while the creator is inside its call.                   *)
SignalAck(g) ==
    /\ life[g] = "installed"
    /\ life' = [life EXCEPT ![g] = "hooked"]
    /\ acked' = IF spawner[g] \in Process /\ sp[spawner[g]].child = g
                THEN acked \cup {g} ELSE acked
    /\ UNCHANGED <<launcher, apc, jobs, image, spawner, held, loose, err, init, degr, sp, cache, queue>>

-----------------------------------------------------------------------------
(* A guest creates a process: hook_nt_create_user_process.                  *)

Step(p, from, to) == sp[p].pc = from /\ sp' = [sp EXCEPT ![p].pc = to]

(* The hook gives up on the child it has created, and returns.  What        *)
(* TerminateProcess says is not looked at: its handle has the access the    *)
(* caller of NtCreateUserProcess asked for, so the child may live on.       *)
TerminateChild(p, from) ==
    LET c == sp[p].child IN
    /\ sp[p].pc = from
    /\ \/ /\ life' = Ended({c})
          /\ sp' = [Dropped({c}) EXCEPT ![p] = Idle]
          /\ loose' = loose \cup Unscanned({c})
       \/ /\ sp' = [sp EXCEPT ![p] = Idle]
          /\ loose' = loose \cup {c}
          /\ UNCHANGED life
    /\ UNCHANGED <<launcher, apc, jobs, image, spawner, held, err, events, cache, queue>>

(* The kernel puts the child in its creator's jobs.  The hook reads the     *)
(* handles back from where the caller wanted them; when another thread has  *)
(* cleared them meanwhile, the call ends there.                             *)
CreateChild(p, c, i, suspended) ==
    /\ life[p] = "hooked" /\ sp[p] = Idle
    /\ c # Root /\ life[c] = "absent"
    /\ life' = [life EXCEPT ![c] = "suspended"]
    /\ jobs' = [jobs EXCEPT ![c] = jobs[p]]
    /\ spawner' = [spawner EXCEPT ![c] = p]
    /\ image' = [image EXCEPT ![c] = i]
    /\ held' = IF suspended THEN held \cup {c} ELSE held
    /\ \/ /\ sp' = [sp EXCEPT ![p] = [pc |-> "scan", child |-> c, key |-> FALSE]]
          /\ UNCHANGED loose
       \/ /\ loose' = loose \cup {c}
          /\ UNCHANGED sp
    /\ UNCHANGED <<launcher, apc, err, events, cache, queue>>

(* A variant that takes an image it could not read for a clean one. *)
ScanChild_ReadErrorPasses(p) ==
    LET i == image[sp[p].child] IN
    \/ /\ sp[p].pc = "scan"
       /\ sp' = [sp EXCEPT ![p].pc = "inject", ![p].key = ScanChildren /\ i \notin cache]
       /\ UNCHANGED <<launcher, processes, events, cache, queue>>
    \/ /\ sp[p].pc = "scan" /\ ScanChildren /\ i \notin cache \cup Clean
       /\ TerminateChild(p, "scan")

(* An image that had to be scanned and is clean is recorded later.          *)
ScanChild(p) ==
    LET i == image[sp[p].child] IN
    \/ /\ sp[p].pc = "scan"
       /\ ScanChildren => MayPass(i)
       /\ \E k \in {FALSE, ScanChildren /\ i \notin cache} :
              sp' = [sp EXCEPT ![p].pc = "inject", ![p].key = k]
       /\ UNCHANGED <<launcher, processes, events, cache, queue>>
    \/ /\ sp[p].pc = "scan" /\ ScanChildren /\ i \notin cache
       /\ TerminateChild(p, "scan")

(* Creating the acknowledgement event, then inject_via_apc; a child the     *)
(* caller wants suspended is not resumed here.                              *)
InjectChild(p) ==
    LET c == sp[p].child IN
    \/ /\ Step(p, "inject", IF c \in held THEN "register" ELSE "resume")
       /\ apc' = apc \cup {c}
       /\ UNCHANGED <<launcher, life, jobs, image, spawner, held, loose, err, events, cache, queue>>
    \/ TerminateChild(p, "inject")

(* Nothing happens to a child that runs already.                            *)
ResumeChild(p) ==
    LET c == sp[p].child IN
    /\ Step(p, "resume", "ack")
    /\ life' = [life EXCEPT ![c] = IF @ = "suspended" THEN "booting" ELSE @]
    /\ UNCHANGED <<launcher, apc, jobs, image, spawner, held, loose, err, events, cache, queue>>

wait_for_ack(p) ==
    LET c == sp[p].child IN
    \/ /\ Step(p, "ack", "register")
       /\ c \in acked
       /\ acked' = acked \ {c}
       /\ UNCHANGED <<launcher, processes, init, degr, cache, queue>>
    \/ c \notin acked /\ TerminateChild(p, "ack")

(* Two reports of the same pid, either of which may not arrive; the reports *)
(* of a client's guests go to another launcher.                             *)
Report(p, from, to) ==
    /\ Step(p, from, to)
    /\ queue' \in {queue} \cup (IF opt.role = "broker" THEN {queue_child_pid(sp[p].child)} ELSE {})
    /\ UNCHANGED <<launcher, processes, events, cache>>

RegisterChild(p) == Report(p, "register", "spawned")
SpawnedChild(p) == Report(p, "spawned", "record")

(* The last request, and the call returns.                                  *)
RecordCleanImage(p) ==
    /\ sp[p].pc = "record"
    /\ cache' \in {cache} \cup (IF sp[p].key THEN {cache \cup {image[sp[p].child]}} ELSE {})
    /\ sp' = [sp EXCEPT ![p] = Idle]
    /\ UNCHANGED <<launcher, processes, events, queue>>

SpawnStep(p) ==
    \/ ScanChild(p) \/ InjectChild(p) \/ ResumeChild(p) \/ wait_for_ack(p)
    \/ RegisterChild(p) \/ SpawnedChild(p) \/ RecordCleanImage(p)

-----------------------------------------------------------------------------
(* What guests do by themselves.                                            *)

(* Any guest resumes a suspended child: the caller that wanted it so, or a  *)
(* thread that found it before the hook had done with it.  ResumeThread is  *)
(* not hooked.                                                              *)
GuestResumes(c) ==
    /\ life[c] = "suspended"
    /\ \E q \in Process : life[q] \in {"hooked", "bare"}
    /\ life' = [life EXCEPT ![c] = "booting"]
    /\ UNCHANGED <<launcher, apc, jobs, image, spawner, held, loose, err, events, sp, cache, queue>>

(* A process without hooks creates one: no hook intervenes.                 *)
BareSpawn(p, c) ==
    /\ life[p] = "bare"
    /\ c # Root /\ life[c] = "absent"
    /\ life' = [life EXCEPT ![c] = "bare"]
    /\ jobs' = [jobs EXCEPT ![c] = jobs[p]]
    /\ UNCHANGED <<launcher, apc, image, spawner, held, loose, err, events, sp, cache, queue>>

Die(p) ==
    /\ life[p] \in Running
    /\ End({p})
    /\ UNCHANGED <<launcher, apc, jobs, image, spawner, held, err, events, cache, queue>>

-----------------------------------------------------------------------------
Next ==
    \/ LauncherStep \/ Crash
    \/ SignalInit \/ SignalDegraded
    \/ \E p \in Process : install_hooks(p) \/ SpawnStep(p) \/ Die(p)
    \/ \E g \in Guest : SignalAck(g) \/ GuestResumes(g)
    \/ \E p \in Process, c \in Guest :
           \/ BareSpawn(p, c)
           \/ \E i \in Image, s \in BOOLEAN : CreateChild(p, c, i, s)

Spec == Init /\ [][Next]_vars

(* The waits of the launcher and of a creating hook are bounded, all but    *)
(* the one for the target's end.  Nothing is assumed of DllMain, of guests, *)
(* or of the launcher staying alive.                                        *)
LiveSpec ==
    /\ Spec
    /\ WF_vars(LauncherStep)
    /\ \A p \in Process : WF_vars(SpawnStep(p))

-----------------------------------------------------------------------------
(* Every variable has its type; the queue of reported children stays below  *)
(* CHILD_PID_QUEUE_CAP.                                                     *)
TypeOK ==
    /\ opt \in Options
    /\ lpc \in {"start", "check", "scan", "inject", "folder", "session", "wfp", "resume",
                "wait", "kill", "poll", "target", "drain", "exit", "gone"}
    /\ life \in [Process -> Life]
    /\ apc \subseteq Process /\ held \cup loose \subseteq Guest
    /\ jobs \in [Process -> SUBSET {"folder", "session"}]
    /\ image \in [Process -> Image \cup {None}]
    /\ spawner \in [Process -> Process \cup {None}]
    /\ {err, init, degr, warned, calm} \subseteq BOOLEAN
    /\ sp \in [Process -> Call]
    /\ acked \subseteq Guest
    /\ cache \subseteq Image
    /\ queue \in Seq(Guest) /\ Len(queue) <= QueueCap
    /\ waited \subseteq Guest

(* A process that has been resumed is in the folder job and in the session  *)
(* job, however it was created: the launcher resumes its target only after  *)
(* both assignments (session.rs), and membership is inherited.              *)
Contained == \A p \in Process : life[p] \in Running => jobs[p] = {"folder", "session"}

(* However the launcher ended, and whatever its last step was, no process   *)
(* of the session runs on.  What can be left is a target that never ran and *)
(* that an early failure or the launcher's death left suspended.            *)
NothingRunsOn ==
    lpc = "gone" => \A p \in Process :
        \/ life[p] \in {"absent", "dead"}
        \/ p = Root /\ life[p] = "suspended" /\ "session" \notin jobs[p]

(* A child is reported to the launcher only once its hooks are in place     *)
(* ("a child that failed to bootstrap was already terminated", spawn.rs),   *)
(* unless its creator keeps it suspended.                                   *)
ReportedIsHooked ==
    \A g \in waited \cup {queue[i] : i \in DOMAIN queue} :
        g \in held \/ life[g] \in {"hooked", "dead"}

(* Where scanning is on, an image with direct system calls never runs under *)
(* the launcher or a hooked creator, also through the cache of clean images *)
(* that all of them read and write; but a child that a guest resumes early  *)
(* may run until its scan ends, and one that the hook has lost (its creator *)
(* died in the scan, its handles were overwritten) or could not kill may    *)
(* run for good.                                                            *)
ScannedRuns ==
    \A p \in Process :
        /\ life[p] \in Running
        /\ (p = Root /\ ScanRoot) \/ (spawner[p] # None /\ ScanChildren)
        => image[p] \in Clean \/ p \in loose \cup Unscanned(Process)

(* A drain that finds nothing left to wait for cuts nobody off: the         *)
(* processes reported to the broker by then, or all of a client's session,  *)
(* have exited by themselves.                                               *)
DrainedIsOver ==
    calm => /\ \A g \in waited : life[g] = "dead"
            /\ opt.role = "client" => \A p \in Process :
                   "session" \in jobs[p] => life[p] = "dead"

(* Once the target is dead the launcher ends, whatever it was waiting for   *)
(* and whatever the target's descendants do.                                *)
SessionEnds == life[Root] = "dead" ~> lpc = "gone"

(* Fail closed: a target whose hooks could not be installed is terminated,  *)
(* and so is a child, unless its creator died first, had asked to resume it *)
(* itself, or lost it or could not kill it.  A child that was resumed too   *)
(* early can also get its hooks late.                                       *)
UnhookedIsKilled ==
    /\ life[Root] = "bare" ~> life[Root] = "dead"
    /\ \A g \in Guest :
           (life[g] = "bare" /\ g \notin held /\ spawner[g] # None)
               ~> \/ life[g] \in {"dead", "hooked"} \/ g \in loose
                  \/ spawner[g] # None /\ life[spawner[g]] = "dead"
=============================================================================
