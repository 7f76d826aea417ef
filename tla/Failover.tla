------------------------------ MODULE Failover ------------------------------
(***************************************************************************)
(* The launchers of one folder: who is the broker, how the others attach   *)
(* to it, and what happens when it dies (winrsbox-launcher/src/main:       *)
(* broker.rs, client.rs, failover.rs, and the start of mod.rs).            *)
(*                                                                         *)
(* A launcher is a process.  The first to open policy.redb is the broker:  *)
(* it creates the folder's kernel objects (a job and a section), writes    *)
(* broker.json and serves a pipe.  A later launcher attaches through that  *)
(* pipe, receives handles of the job and the section, and runs its own     *)
(* guest in the same job.  When the broker dies the clients race for       *)
(* policy.redb; the winner takes the old section over, the others attach   *)
(* to it.                                                                  *)
(*                                                                         *)
(* A launcher stands for its (pid, create_time), so a reused pid is a      *)
(* different launcher, and for its random pipe name.  The job and section  *)
(* a broker creates are named by their creator.  The section is the        *)
(* register that AtomicSection specifies and FolderSection implements.     *)
(***************************************************************************)
EXTENDS Integers, FiniteSets

CONSTANTS
    Launcher,      \* the launcher processes that are ever started
    None,
    Retries,       \* CLIENT_DB_OPEN_RETRIES
    MaxLaunchers,  \* MAX_LAUNCHERS
    FreshYields,   \* assumption: a launcher that is starting does not open
                   \* policy.redb while clients of a dead broker race for it
    MaxTimeouts,   \* bound on the Attach calls that hit SEND_TIMEOUT
    MaxFailures    \* bound on the failures of become_new_broker

ASSUME ConstantsAssumption ==
    /\ None \notin Launcher
    /\ Retries \in Nat \ {0}
    /\ MaxLaunchers \in Nat \ {0}
    /\ FreshYields \in BOOLEAN
    /\ MaxTimeouts \in Nat
    /\ MaxFailures \in Nat

VARIABLES
    pc,       \* where each launcher's role thread is (main, then the watcher)
    tries,    \* attempts made in the retry loop the launcher is in
    lock,     \* the process that has policy.redb open
    json,     \* broker.json: [pid, section], or None
    section,  \* section[f]: the contents of the section created by f
    folder,   \* folder[l]: the job and section l's role thread has handles of
    named,    \* named[l]: the section whose name l knows (folder_section_name)
    watched,  \* watched[l]: current_broker_pid of l's failover watcher
    home,     \* home[l]: the job l's guest is put in (SessionParams.folder_job)
    jobOpen,  \* jobOpen[l]: l has not closed the handle of home[l]
    session,  \* session[l]: how far run_target_session is
    conns,    \* Attach connections: [cli, srv, st, open]
    exitWatch,\* exitWatch[b]: clients b waits for (spawn_launcher_exit_watch)
    timeouts, \* Attach calls that have timed out
    failures  \* become_new_broker calls that have failed

role == <<pc, tries>>
objects == <<lock, json, section>>
handles == <<folder, named, watched, home, jobOpen>>
faults == <<timeouts, failures>>
vars == <<pc, tries, lock, json, section, folder, named, watched, home,
          jobOpen, session, conns, exitWatch, timeouts, failures>>

RacePC == {"race_open", "race_read"}
AttachPC == {"attach", "sent"}
BecomePC == {"rebuild", "publish", "listen"}
PC == {"off", "open", "setup", "serving", "wait", "gone", "dead"}
          \cup RacePC \cup AttachPC \cup BecomePC

(* What a section holds: the broker and the trusted launchers. *)
Contents == [broker : Launcher, members : SUBSET Launcher]

Connection == [cli : Launcher, srv : Launcher, st : {"sent", "added", "replied"},
               open : BOOLEAN]

TypeOK ==
    /\ pc \in [Launcher -> PC]
    /\ tries \in [Launcher -> 0 .. Retries - 1]
    /\ lock \in Launcher \cup {None}
    /\ json \in [pid : Launcher, section : Launcher] \cup {None}
    /\ section \in [Launcher -> Contents \cup {None}]
    /\ folder \in [Launcher -> Launcher \cup {None}]
    /\ named \in [Launcher -> Launcher \cup {None}]
    /\ watched \in [Launcher -> Launcher \cup {None}]
    /\ home \in [Launcher -> Launcher \cup {None}]
    /\ jobOpen \in [Launcher -> BOOLEAN]
    /\ session \in [Launcher -> {"none", "launch", "running"}]
    /\ conns \subseteq Connection
    /\ exitWatch \in [Launcher -> SUBSET Launcher]
    /\ timeouts \in 0 .. MaxTimeouts
    /\ failures \in 0 .. MaxFailures

Init ==
    /\ pc = [l \in Launcher |-> "off"]
    /\ tries = [l \in Launcher |-> 0]
    /\ lock = None
    /\ json = None
    /\ section = [f \in Launcher |-> None]
    /\ folder = [l \in Launcher |-> None]
    /\ named = [l \in Launcher |-> None]
    /\ watched = [l \in Launcher |-> None]
    /\ home = [l \in Launcher |-> None]
    /\ jobOpen = [l \in Launcher |-> FALSE]
    /\ session = [l \in Launcher |-> "none"]
    /\ conns = {}
    /\ exitWatch = [l \in Launcher |-> {}]
    /\ timeouts = 0
    /\ failures = 0

-----------------------------------------------------------------------------
Alive(l) == pc[l] \notin {"off", "dead"}

Serving(l) == pc[l] = "serving"

(* The process that broker.json names is alive; its pipe exists. *)
NamedAlive == json # None /\ Alive(json.pid)
NamedServes == json # None /\ Serving(json.pid)

(* l has attached before: its role thread is the failover watcher. *)
Joined(l) == watched[l] # None

Watching(l) == Joined(l) /\ pc[l] \in {"wait"} \cup RacePC \cup AttachPC

(* l is a client of the folder as it was before the broker died: it watches, *)
(* or the answer to its Attach is on the way.                                *)
Surviving(l) == Watching(l) \/ \E c \in conns : c.cli = l /\ c.open

Goto(l, p) == pc' = [pc EXCEPT ![l] = p]

(* Leave one retry loop, or enter the next one with a full budget. *)
Enter(l, p) == /\ Goto(l, p)
               /\ tries' = [tries EXCEPT ![l] = 0]

-----------------------------------------------------------------------------
(* Choosing a role. *)

Start(l) ==
    /\ pc[l] = "off"
    /\ Goto(l, "open")
    /\ UNCHANGED <<tries, objects, handles, session, conns, exitWatch, faults>>

(* Wrong: the database is opened without its exclusive lock. *)
MayOpen_Shared(l) == Joined(l) \/ lock = None

(* policy.redb opens for one process at a time; the lock is granted when    *)
(* nobody has it.  FreshYields restricts the launchers that are starting.   *)
MayOpen(l) ==
    /\ lock = None
    /\ Joined(l) \/ ~FreshYields \/ ~\E m \in Launcher : Surviving(m)

BecameBroker(l) ==
    /\ MayOpen(l)
    /\ lock' = l
    /\ Enter(l, IF Joined(l) THEN "rebuild" ELSE "setup")
    /\ UNCHANGED <<json, section, handles, session, conns, exitWatch, faults>>

open_policy_or_decide_role(l) ==
    /\ pc[l] = "open"
    /\ \/ BecameBroker(l)
       \/ /\ lock # None
          /\ Enter(l, "race_open")
          /\ UNCHANGED <<objects, handles, session, conns, exitWatch, faults>>

(* One round of resolve_client_role: try to open the database ...           *)
try_open(l) ==
    /\ pc[l] = "race_open"
    /\ \/ BecameBroker(l)
       \/ /\ lock # None
          /\ Goto(l, "race_read")
          /\ UNCHANGED <<tries, objects, handles, session, conns, exitWatch, faults>>

(* ... then ask whether the broker that broker.json names is alive.  The    *)
(* check reads the creation time through OpenProcess, which still works for *)
(* a dead process while somebody has a handle of it: for a dead broker      *)
(* either answer is possible.  Both a live broker and an exhausted budget   *)
(* lead to Attach.                                                          *)
resolve_client_role(l) ==
    /\ pc[l] = "race_read"
    /\ \/ /\ json # None
          /\ Enter(l, "attach")
       \/ /\ ~NamedAlive
          /\ IF tries[l] + 1 < Retries
             THEN /\ Goto(l, "race_open")
                  /\ tries' = [tries EXCEPT ![l] = @ + 1]
             ELSE Enter(l, "attach")
    /\ UNCHANGED <<objects, handles, session, conns, exitWatch, faults>>

-----------------------------------------------------------------------------
(* A process ends: its target exited, it was killed, or it gave up.  The    *)
(* clients of its pipe lose the request unless the answer is already in the *)
(* pipe; its own connections are closed.  policy.redb stays locked until    *)
(* ReleaseLock.                                                             *)
ConnsAfterExit(l) ==
    {c \in conns : c.cli # l /\ (c.srv # l \/ (c.st = "replied" /\ c.open))}
        \cup {[c EXCEPT !.open = FALSE] :
                 c \in {d \in conns : d.cli = l /\ d.srv # l /\ d.st # "replied"}}

exit(l) ==
    /\ pc' = [pc EXCEPT ![l] = "dead"]
    /\ tries' = [tries EXCEPT ![l] = 0]
    /\ session' = [session EXCEPT ![l] = "none"]
    /\ conns' = ConnsAfterExit(l)
    /\ exitWatch' = [exitWatch EXCEPT ![l] = {}]
    /\ UNCHANGED <<objects, handles, faults>>

ProcessDies(l) == Alive(l) /\ exit(l)

ReleaseLock ==
    /\ lock # None
    /\ pc[lock] = "dead"
    /\ lock' = None
    /\ UNCHANGED <<role, json, section, handles, session, conns, exitWatch, faults>>

-----------------------------------------------------------------------------
(* Attach, the client's side.                                              *)

(* attach_with_retries: one attempt failed.  When the budget is exhausted a *)
(* starting launcher exits with EXIT_CONFLICT, a watcher goes back to       *)
(* waiting for the broker it already knows to be dead.                      *)
AttachFailed(l) ==
    IF tries[l] + 1 < Retries
    THEN /\ Goto(l, "attach")
         /\ tries' = [tries EXCEPT ![l] = @ + 1]
    ELSE Enter(l, IF Joined(l) THEN "wait" ELSE "dead")

(* client_attach: connect to the pipe that broker.json names and send       *)
(* Attach.                                                                  *)
client_attach(l) ==
    /\ pc[l] = "attach"
    /\ NamedServes
    /\ conns' = conns \cup {[cli |-> l, srv |-> json.pid, st |-> "sent", open |-> TRUE]}
    /\ Goto(l, "sent")
    /\ UNCHANGED <<tries, objects, handles, session, exitWatch, faults>>

(* ... or find no file, no live broker or no pipe.                          *)
ConnectFails(l) ==
    /\ pc[l] = "attach"
    /\ ~NamedServes
    /\ AttachFailed(l)
    /\ UNCHANGED <<objects, handles, session, conns, exitWatch, faults>>

(* The connection is gone without an answer: the broker refused or died.    *)
AttachRefused(l) ==
    /\ pc[l] = "sent"
    /\ ~\E c \in conns : c.cli = l /\ c.open /\ Alive(c.srv)
    /\ AttachFailed(l)
    /\ conns' = {c \in conns : ~(c.cli = l /\ c.open)}
    /\ UNCHANGED <<objects, handles, session, exitWatch, faults>>

(* SEND_TIMEOUT passes before the answer is read.  The client closes the    *)
(* connection; the broker's handler is not told.                            *)
AttachTimesOut(l) ==
    /\ pc[l] = "sent"
    /\ timeouts < MaxTimeouts
    /\ timeouts' = timeouts + 1
    /\ \E c \in conns :
          /\ c.cli = l /\ c.open
          /\ conns' = (conns \ {c}) \cup
                         (IF c.st = "replied" THEN {} ELSE {[c EXCEPT !.open = FALSE]})
    /\ AttachFailed(l)
    /\ UNCHANGED <<objects, handles, session, exitWatch, failures>>

(* run_as_client after its Attach: the watcher and the session start, both  *)
(* with the same job handle.                                                *)
run_as_client(l, b) ==
    /\ folder' = [folder EXCEPT ![l] = folder[b]]
    /\ home' = [home EXCEPT ![l] = folder[b]]
    /\ named' = [named EXCEPT ![l] = named[b]]
    /\ jobOpen' = [jobOpen EXCEPT ![l] = TRUE]
    /\ session' = [session EXCEPT ![l] = "launch"]

(* reattach_as_client after its Attach: the old handles are closed, the new *)
(* ones adopted; folder_section_name keeps its value.                       *)
reattach_as_client(l, b) ==
    /\ folder' = [folder EXCEPT ![l] = folder[b]]
    /\ jobOpen' = [jobOpen EXCEPT ![l] = FALSE]
    /\ UNCHANGED <<home, named, session>>

Attached(l) ==
    /\ pc[l] = "sent"
    /\ \E c \in conns :
          /\ c.cli = l /\ c.open /\ c.st = "replied"
          /\ watched' = [watched EXCEPT ![l] = c.srv]
          /\ IF Joined(l) THEN reattach_as_client(l, c.srv) ELSE run_as_client(l, c.srv)
          /\ conns' = conns \ {c}
    /\ Enter(l, "wait")
    /\ UNCHANGED <<objects, exitWatch, faults>>

-----------------------------------------------------------------------------
(* Attach, the broker's side (try_complete_attach): the handles are         *)
(* duplicated and the client added to the trusted launchers, then the       *)
(* answer is written.                                                       *)

SetMembers(b, S) == section' = [section EXCEPT ![folder[b]].members = S]

Members(b) == section[folder[b]].members

Addable(b, l) == l \notin Members(b) /\ Cardinality(Members(b)) < MaxLaunchers

AttachAdds(c) ==
    /\ Serving(c.srv) /\ c.st = "sent"
    /\ IF Alive(c.cli) /\ Addable(c.srv, c.cli)
       THEN /\ SetMembers(c.srv, Members(c.srv) \cup {c.cli})
            /\ conns' = (conns \ {c}) \cup {[c EXCEPT !.st = "added"]}
       ELSE /\ conns' = conns \ {c}
            /\ UNCHANGED section
    /\ UNCHANGED <<role, lock, json, handles, session, exitWatch, faults>>

(* Wrong: a failed write leaves the client registered. *)
AttachReplies_NoRollback(c) ==
    /\ Serving(c.srv) /\ c.st = "added"
    /\ conns' = (conns \ {c}) \cup (IF c.open THEN {[c EXCEPT !.st = "replied"]} ELSE {})
    /\ exitWatch' = [exitWatch EXCEPT ![c.srv] = IF c.open THEN @ \cup {c.cli} ELSE @]
    /\ UNCHANGED <<role, objects, handles, session, faults>>

(* The write fails when the client has closed the connection, and then the  *)
(* registration is rolled back.                                             *)
AttachReplies(c) ==
    /\ Serving(c.srv) /\ c.st = "added"
    /\ IF c.open
       THEN /\ conns' = (conns \ {c}) \cup {[c EXCEPT !.st = "replied"]}
            /\ exitWatch' = [exitWatch EXCEPT ![c.srv] = @ \cup {c.cli}]
            /\ UNCHANGED section
       ELSE /\ conns' = conns \ {c}
            /\ SetMembers(c.srv, Members(c.srv) \ {c.cli})
            /\ UNCHANGED exitWatch
    /\ UNCHANGED <<role, lock, json, handles, session, faults>>

(* Wrong: the watch ends without remove_launcher. *)
spawn_launcher_exit_watch_Forgets(b, l) ==
    /\ Serving(b)
    /\ l \in exitWatch[b]
    /\ pc[l] = "dead"
    /\ exitWatch' = [exitWatch EXCEPT ![b] = @ \ {l}]
    /\ UNCHANGED <<role, objects, handles, session, conns, faults>>

(* The exit watch of an attached launcher fires. *)
spawn_launcher_exit_watch(b, l) ==
    /\ Serving(b)
    /\ l \in exitWatch[b]
    /\ pc[l] = "dead"
    /\ SetMembers(b, Members(b) \ {l})
    /\ exitWatch' = [exitWatch EXCEPT ![b] = @ \ {l}]
    /\ UNCHANGED <<role, lock, json, handles, session, conns, faults>>

-----------------------------------------------------------------------------
(* Becoming the broker. *)

(* setup_broker_folder of a launcher that starts: new job, new section. *)
setup_broker_folder(l) ==
    /\ pc[l] = "setup"
    /\ section' = [section EXCEPT ![l] = [broker |-> l, members |-> {}]]
    /\ folder' = [folder EXCEPT ![l] = l]
    /\ named' = [named EXCEPT ![l] = l]
    /\ home' = [home EXCEPT ![l] = l]
    /\ jobOpen' = [jobOpen EXCEPT ![l] = TRUE]
    /\ Goto(l, "publish")
    /\ UNCHANGED <<tries, lock, json, watched, session, conns, exitWatch, faults>>

(* Wrong: the winner makes new folder objects, as a starting broker does. *)
Rebuild_NewFolder(l) ==
    /\ pc[l] = "rebuild"
    /\ section' = [section EXCEPT ![l] = [broker |-> l, members |-> {}]]
    /\ folder' = [folder EXCEPT ![l] = l]
    /\ Goto(l, "publish")
    /\ UNCHANGED <<tries, lock, json, named, watched, home, jobOpen, session, conns,
                   exitWatch, faults>>

(* Wrong: the winner only replaces the broker's identity (set_broker). *)
Rebuild_KeepsMembers(l) ==
    /\ pc[l] = "rebuild"
    /\ section' = [section EXCEPT ![folder[l]].broker = l]
    /\ Goto(l, "publish")
    /\ UNCHANGED <<tries, lock, json, handles, session, conns, exitWatch, faults>>

(* become_new_broker of a client: the section it has a handle of is rebuilt *)
(* with nobody but itself.                                                  *)
Rebuild(l) ==
    /\ pc[l] = "rebuild"
    /\ section' = [section EXCEPT ![folder[l]] = [broker |-> l, members |-> {l}]]
    /\ Goto(l, "publish")
    /\ UNCHANGED <<tries, lock, json, handles, session, conns, exitWatch, faults>>

(* Wrong: an existing broker.json is left as it is. *)
write_broker_json_Once(l) ==
    /\ pc[l] = "publish"
    /\ json' = IF json = None THEN [pid |-> l, section |-> named[l]] ELSE json
    /\ Goto(l, "listen")
    /\ UNCHANGED <<tries, lock, section, handles, session, conns, exitWatch, faults>>

write_broker_json(l) ==
    /\ pc[l] = "publish"
    /\ json' = [pid |-> l, section |-> named[l]]
    /\ Goto(l, "listen")
    /\ UNCHANGED <<tries, lock, section, handles, session, conns, exitWatch, faults>>

(* The first pipe instance exists; a starting broker goes on to its session. *)
pipe_accept_loop(l) ==
    /\ pc[l] = "listen"
    /\ Goto(l, "serving")
    /\ session' = [session EXCEPT ![l] = IF Joined(l) THEN @ ELSE "launch"]
    /\ UNCHANGED <<tries, objects, handles, conns, exitWatch, faults>>

(* Wrong: the failed winner keeps the database open. *)
BecomeFails_KeepsLock(l) ==
    /\ Joined(l) /\ pc[l] \in BecomePC
    /\ failures < MaxFailures
    /\ failures' = failures + 1
    /\ Goto(l, "gone")
    /\ UNCHANGED <<tries, objects, handles, session, conns, exitWatch, timeouts>>

(* Any error on the way: the database is closed, the watcher returns, the   *)
(* process and its guest go on.  From from_raw_owned on, the job handle is  *)
(* closed as well.                                                          *)
BecomeFails(l) ==
    /\ Joined(l) /\ pc[l] \in BecomePC
    /\ failures < MaxFailures
    /\ failures' = failures + 1
    /\ lock' = None
    /\ jobOpen' = [jobOpen EXCEPT ![l] = @ /\ pc[l] = "rebuild"]
    /\ Goto(l, "gone")
    /\ UNCHANGED <<tries, json, section, folder, named, watched, home, session,
                   conns, exitWatch, timeouts>>

-----------------------------------------------------------------------------
(* The failover watcher wakes up, and run_target_session puts the suspended *)
(* guest into the folder job.                                               *)

watch_loop(l) ==
    /\ pc[l] = "wait"
    /\ pc[watched[l]] = "dead"
    /\ Enter(l, "race_open")
    /\ UNCHANGED <<objects, handles, session, conns, exitWatch, faults>>

(* With a closed handle AssignProcessToJobObject fails and so does the      *)
(* launcher.                                                                *)
run_target_session(l) ==
    /\ session[l] = "launch"
    /\ IF jobOpen[l]
       THEN /\ session' = [session EXCEPT ![l] = "running"]
            /\ UNCHANGED <<role, objects, handles, conns, exitWatch, faults>>
       ELSE exit(l)

-----------------------------------------------------------------------------
(* One launcher's steps, other than being started and dying. *)
Step(l) ==
    \/ open_policy_or_decide_role(l) \/ try_open(l) \/ resolve_client_role(l)
    \/ client_attach(l) \/ ConnectFails(l) \/ AttachRefused(l) \/ Attached(l)
    \/ setup_broker_folder(l) \/ Rebuild(l) \/ write_broker_json(l)
    \/ pipe_accept_loop(l) \/ watch_loop(l)

(* The broker's handler of l's Attach: of the connection l waits on, or of  *)
(* one that l has closed.                                                   *)
Handle(l, open) ==
    \E c \in conns : c.cli = l /\ c.open = open /\ (AttachAdds(c) \/ AttachReplies(c))

Notice(l) == \E b \in Launcher : spawn_launcher_exit_watch(b, l)

Next ==
    \/ ReleaseLock
    \/ \E l \in Launcher :
          \/ Start(l) \/ ProcessDies(l)
          \/ Step(l) \/ run_target_session(l)
          \/ Handle(l, TRUE) \/ Handle(l, FALSE) \/ Notice(l)
          \/ AttachTimesOut(l) \/ BecomeFails(l)

(* Every thread that can go on does, and the system releases the lock of a  *)
(* dead process.  Nobody has to start, die, time out or fail.               *)
Fairness ==
    /\ WF_vars(ReleaseLock)
    /\ \A l \in Launcher :
          /\ WF_vars(Step(l))
          /\ WF_vars(Handle(l, TRUE))
          /\ WF_vars(Handle(l, FALSE))
          /\ WF_vars(Notice(l))
          /\ WF_vars(run_target_session(l))

Spec == Init /\ [][Next]_vars /\ Fairness

-----------------------------------------------------------------------------
(* Properties. *)

(* The contract FolderSection is built on: a section is written only by the *)
(* process that has policy.redb open, and what is in it afterwards names    *)
(* that process.  It covers the writes of Attach, of the exit watches, of   *)
(* setup and of rebuild, in every order and around every death.             *)
SingleWriter ==
    [][\A f \in Launcher : section'[f] # section[f] =>
          /\ lock # None
          /\ Alive(lock)
          /\ section'[f].broker = lock]_vars

(* While a broker serves, a launcher and a guest find it: broker.json names  *)
(* it, and so does the section it has handles of.                           *)
BrokerIsPublished ==
    \A b \in Launcher : Serving(b) =>
        /\ json = [pid |-> b, section |-> named[b]]
        /\ folder[b] # None
        /\ section[folder[b]].broker = b

(* A dead launcher stays in the trusted set only while something is left    *)
(* that will take it out: the broker's exit watch for it, or an Attach      *)
(* handler that is going to find the connection closed and roll back.       *)
DeadAreWatched ==
    \A b, l \in Launcher :
        Serving(b) /\ l \in Members(b) /\ pc[l] = "dead" =>
            \/ l \in exitWatch[b]
            \/ \E c \in conns : c.cli = l /\ c.srv = b /\ c.st = "added"

(* Guests of surviving sessions are unaffected by a failover: whoever       *)
(* serves the folder does so for the job the guest is in and publishes      *)
(* itself in the section the guest has open.  (A launcher whose             *)
(* become_new_broker failed has given failover up and is left out.)         *)
GuestsFollowTheBroker ==
    \A b, l \in Launcher :
        Serving(b) /\ session[l] = "running" /\ pc[l] # "gone" =>
            home[l] = folder[b] /\ named[l] = folder[b]

(* A guest whose launcher still has a failover watcher gets a broker again: *)
(* one that writes the guest's section, or the guest's launcher is gone.    *)
GuestIsServed(l) ==
    \E b \in Launcher : Serving(b) /\ folder[b] = home[l]

ServedAgain ==
    \A l \in Launcher :
        (Watching(l) /\ session[l] = "running")
            ~> (GuestIsServed(l) \/ ~(Watching(l) /\ session[l] = "running"))

(* Every surviving client attaches again: it ends up trusted by a broker    *)
(* that serves, as a first Attach would have made it, unless it dies or     *)
(* becomes the broker itself.                                               *)
ReAttached ==
    \A l \in Launcher :
        Watching(l) ~> \/ ~Watching(l)
                       \/ \E b \in Launcher :
                             Serving(b) /\ watched[l] = b /\ l \in Members(b)

(* A dead launcher does not stay trusted by a broker that lives on. *)
DeadAreForgotten ==
    \A b, l \in Launcher :
        (Serving(b) /\ pc[l] = "dead") ~> (~Serving(b) \/ l \notin Members(b))
=============================================================================
