------------------------------ MODULE GuestIpc ------------------------------
(***************************************************************************)
(* The threads of one guest ask their broker                               *)
(* (winrsbox-hook/src/ipc/ipc_client/, trusted_boot.rs,                    *)
(* winrsbox-ipc/src/sync_client.rs, timed_pipe.rs).                        *)
(*                                                                         *)
(* Every thread has a connection of its own, opened when it is first       *)
(* needed and after every error: the name of the pipe is read from the     *)
(* folder section, the process behind the pipe is looked up in a second    *)
(* snapshot, and Hello is the first request.  A request and its answer     *)
(* share one deadline.  The first Hello of a thread makes it send the      *)
(* errors that installing the hooks left behind.  Failed decisions are     *)
(* counted for the whole process, which ends itself at the threshold.      *)
(*                                                                         *)
(* A process is a model value standing for its PID and creation time, and  *)
(* the name of a launcher's pipe is the launcher.  The section's writers   *)
(* are those of FolderSection.tla; here a write is open or not.            *)
(***************************************************************************)
EXTENDS Integers, FiniteSets, Sequences

CONSTANTS
    Thread,              \* threads of the guest
    Server,              \* launchers of the folder
    Stranger,            \* any other process that serves a pipe
    NoThread,
    IPC_FAIL_THRESHOLD,
    MaxRequests,         \* bound on the calls of the hooks
    MinLive,             \* bound: so many launchers stay alive
    MaxLapses            \* bound on timeouts, refusals and busy pipes

ASSUME GuestIpcConstants ==
    /\ Server # {}
    /\ Stranger \notin Server
    /\ NoThread \notin Thread
    /\ IPC_FAIL_THRESHOLD \in Nat \ {0}

VARIABLES
    config,     \* what the guest knows its broker by
    named,      \* PIPE_NAME: "set", "untried" or, after one attempt, "missing"
    section,    \* [broker, members, open]: what it says; open: a write is going on
    running,    \* launchers that run
    squatted,   \* names of dead launchers' pipes that a stranger serves
    link,       \* link[t]: the connection of t
    th,         \* th[t]: the call t is in
    hello_sent, \* hello_sent[t]
    messages,   \* INSTALL_ERRORS: how many messages
    flusher,    \* the thread that holds its mutex
    armed,      \* inject_guard::arm was called
    failures,   \* IPC_CONSECUTIVE_FAILURES
    ended,      \* the guest has terminated itself
    handled,    \* requests a server has handled
    delivered,  \* requests reported as delivered
    lapses,
    asked       \* how many requests the hooks have made

ipcVars == <<config, named, section, running, squatted, link, th, hello_sent, messages, flusher,
             armed, failures, ended, handled, delivered, lapses, asked>>

guestVars == <<link, th, hello_sent, messages, flusher, armed, failures, ended, delivered, asked>>
worldVars == <<config, section, running, squatted>>

(* resolve_effective_config and apply_effective_config when the hooks are  *)
(* installed: the folder section is mapped; it could not be, and the name  *)
(* and identity of the launcher that started the guest are all there is;   *)
(* or the session's configuration was not found and nothing is trusted.    *)
Config == {"section", "pinned", "fail closed"}
mapped == config = "section"

(* That launcher: PIPE_NAME, TRUSTED_LAUNCHER_PID.                         *)
PinnedServer == CHOOSE s \in Server : TRUE

NoLink == [srv |-> Stranger, up |-> FALSE, requests |-> <<>>, answers |-> <<>>]
NoRequest == [kind |-> "none", n |-> 0]
Idle == [pc |-> "idle", req |-> NoRequest, name |-> Stranger, first |-> FALSE,
         res |-> "none", got |-> NoRequest, outer |-> NoRequest, outerRes |-> "none"]

IpcInit ==
    /\ config \in Config
    /\ named = IF config = "fail closed" THEN "untried" ELSE "set"
    /\ section = [broker |-> PinnedServer, members |-> Server, open |-> FALSE]
    /\ running = Server
    /\ squatted = {}
    /\ link = [t \in Thread |-> NoLink]
    /\ th = [t \in Thread |-> Idle]
    /\ hello_sent = [t \in Thread |-> FALSE]
    /\ messages \in 0..1
    /\ flusher = NoThread
    /\ armed = FALSE
    /\ failures = 0
    /\ ended = FALSE
    /\ handled = {}
    /\ delivered = {}
    /\ lapses = 0
    /\ asked = 0

Lapse == lapses < MaxLapses /\ lapses' = lapses + 1
Step(t, pc) == th' = [th EXCEPT ![t].pc = pc]
Runs(t, pc) == ~ended /\ th[t].pc = pc
HelloRequest == [kind |-> "hello", n |-> 0]

-----------------------------------------------------------------------------
(* A hook makes a request: ipc_decide, ipc_record_overlay and the like.    *)
(* A connection is used as long as it is there.                            *)
ensure_ipc_and(t, kind) ==
    /\ Runs(t, "idle")
    /\ asked < MaxRequests
    /\ asked' = asked + 1
    /\ th' = [th EXCEPT ![t] =
          [@ EXCEPT !.pc = IF link[t] = NoLink THEN "resolve" ELSE "send",
                    !.req = [kind |-> kind, n |-> asked],
                    !.first = FALSE, !.res = "none"]]
    /\ UNCHANGED <<worldVars, named, link, hello_sent, messages, flusher, armed, failures,
                   ended, handled, delivered, lapses>>

(* The call without a result: nothing is connected.                        *)
Unavailable(t) ==
    th' = [th EXCEPT ![t] = [@ EXCEPT !.pc = "leave", !.res = "none", !.name = Stranger,
                                      !.got = NoRequest]]

(* Without a configuration the session section is tried once more, for the *)
(* name alone.                                                             *)
ensure_pipe_name_loaded ==
    named' \in IF named = "untried" THEN {"set", "missing"} ELSE {named}

(* A snapshot of the section, tried again only while a write is open.  The *)
(* guest without a section has the name it started with.                   *)
resolve_connect_pipe_name(t) ==
    /\ Runs(t, "resolve")
    /\ ensure_pipe_name_loaded
    /\ IF (mapped /\ section.open) \/ (~mapped /\ named' = "missing")
       THEN Unavailable(t)
       ELSE th' = [th EXCEPT ![t] = [@ EXCEPT !.pc = "connect",
                                !.name = IF mapped THEN section.broker ELSE PinnedServer]]
    /\ UNCHANGED <<worldVars, link, hello_sent, messages, flusher, armed, failures,
                   ended, handled, delivered, lapses, asked>>

(* Who answers on the pipe of launcher s.                                  *)
ServedBy(s) == IF s \in running THEN {s} ELSE IF s \in squatted THEN {Stranger} ELSE {}

connect(t) ==
    /\ Runs(t, "connect")
    /\ \E s \in ServedBy(th[t].name) :
          link' = [link EXCEPT ![t] = [NoLink EXCEPT !.srv = s, !.up = TRUE]]
    /\ Step(t, "verify")
    /\ UNCHANGED <<worldVars, named, hello_sent, messages, flusher, armed, failures,
                   ended, handled, delivered, lapses, asked>>

(* All attempts failed: nobody serves the name, or every instance is busy. *)
ConnectFails(t) ==
    /\ Runs(t, "connect")
    /\ IF ServedBy(th[t].name) = {} THEN UNCHANGED lapses ELSE Lapse
    /\ Unavailable(t)
    /\ UNCHANGED <<worldVars, named, link, hello_sent, messages, flusher, armed, failures,
                   ended, handled, delivered, asked>>

(* folder_section_trust_check on a fresh snapshot, which is not tried      *)
(* again; without a section the server must be the pinned launcher.  The   *)
(* creation time of a process that has ended cannot be asked.              *)
Trusted(srv) ==
    /\ srv \in running \cup {Stranger}
    /\ IF mapped
       THEN ~section.open /\ srv \in section.members \cup {section.broker}
       ELSE config = "pinned" /\ srv = PinnedServer

(* The accepted server is sent Hello.                                      *)
Accept(t) ==
    /\ link' = [link EXCEPT ![t].requests = <<HelloRequest>>]
    /\ th' = [th EXCEPT ![t] = [@ EXCEPT !.pc = "hello answer", !.name = Stranger]]

Reject(t) ==
    /\ link' = [link EXCEPT ![t] = NoLink]
    /\ Unavailable(t)

(* A variant that checks the server only if there is no section.           *)
verify_pipe_server_identity_PinnedOnly(t) ==
    /\ Runs(t, "verify")
    /\ IF link[t].up /\ (mapped \/ Trusted(link[t].srv)) THEN Accept(t) ELSE Reject(t)
    /\ UNCHANGED <<worldVars, named, hello_sent, messages, flusher, armed, failures,
                   ended, handled, delivered, lapses, asked>>
verify_pipe_server_identity(t) ==
    /\ Runs(t, "verify")
    /\ IF Trusted(link[t].srv) THEN Accept(t) ELSE Reject(t)
    /\ UNCHANGED <<worldVars, named, hello_sent, messages, flusher, armed, failures,
                   ended, handled, delivered, lapses, asked>>

-----------------------------------------------------------------------------
(* send_timed: the frame is written in one piece.                          *)
SendRequest(t) ==
    /\ Runs(t, "send")
    /\ link[t].up
    /\ link' = [link EXCEPT ![t].requests = Append(@, th[t].req)]
    /\ Step(t, "answer")
    /\ UNCHANGED <<worldVars, named, hello_sent, messages, flusher, armed, failures,
                   ended, handled, delivered, lapses, asked>>

(* One frame is read, whatever it answers.                                 *)
ReadAnswer(t) ==
    /\ link[t].answers # <<>>
    /\ link' = [link EXCEPT ![t].answers = Tail(@)]

(* Any answer to Hello will do.                                            *)
HelloAnswered(t) ==
    /\ Runs(t, "hello answer")
    /\ ReadAnswer(t)
    /\ th' = [th EXCEPT ![t] = [@ EXCEPT !.pc = "send", !.first = ~hello_sent[t],
                                         !.got = Head(link[t].answers).req]]
    /\ UNCHANGED <<worldVars, named, hello_sent, messages, flusher, armed, failures,
                   ended, handled, delivered, lapses, asked>>

Answered(t) ==
    /\ Runs(t, "answer")
    /\ ReadAnswer(t)
    /\ th' = [th EXCEPT ![t] = [@ EXCEPT !.pc = "leave", !.res = Head(link[t].answers).res,
                                         !.got = Head(link[t].answers).req]]
    /\ UNCHANGED <<worldVars, named, hello_sent, messages, flusher, armed, failures,
                   ended, handled, delivered, lapses, asked>>

(* A variant of try_send that keeps the connection after a timeout.        *)
Dropped_Kept(t) == link' = link
(* Any error loses the connection, and with it a late answer.              *)
Dropped(t) == link' = [link EXCEPT ![t] = NoLink]

(* The deadline of the exchange passes, its frame is too long or cannot be *)
(* decoded.  A request that was written may be handled all the same.       *)
TimedOut(t) ==
    /\ \E pc \in {"hello answer", "answer"} : Runs(t, pc)
    /\ Lapse
    /\ Dropped(t)
    /\ Unavailable(t)
    /\ UNCHANGED <<worldVars, named, hello_sent, messages, flusher, armed, failures,
                   ended, handled, delivered, asked>>

(* The other side is gone.                                                 *)
Broken(t) ==
    /\ \E pc \in {"hello answer", "send", "answer"} : Runs(t, pc)
    /\ ~link[t].up
    /\ link' = [link EXCEPT ![t] = NoLink]
    /\ Unavailable(t)
    /\ UNCHANGED <<worldVars, named, hello_sent, messages, flusher, armed, failures,
                   ended, handled, delivered, lapses, asked>>

-----------------------------------------------------------------------------
(* The call itself is over.                                                *)
Returns(t, kind) == Runs(t, "leave") /\ ~th[t].first /\ th[t].req.kind = kind

MarkHello(t) == hello_sent' = [hello_sent EXCEPT ![t] = TRUE]

(* The first Hello of the thread: hello_sent is set before the messages are  *)
(* flushed, which is another request of this thread.                       *)
LeaveFirst(t) ==
    /\ Runs(t, "leave")
    /\ th[t].first
    /\ MarkHello(t)
    /\ th' = [th EXCEPT ![t].pc = "flush"]
    /\ UNCHANGED <<worldVars, named, link, messages, flusher, armed, failures,
                   ended, handled, delivered, lapses, asked>>

(* flush_install_errors: the messages are taken out under the mutex and    *)
(* sent as Log requests while it is held.                                  *)
flush_install_errors(t) ==
    /\ Runs(t, "flush")
    /\ flusher = NoThread
    /\ IF messages > 0
       THEN /\ flusher' = t
            /\ messages' = messages - 1
            /\ th' = [th EXCEPT ![t] =
                  [@ EXCEPT !.outer = th[t].req, !.outerRes = th[t].res, !.first = FALSE,
                            !.got = NoRequest, !.req = [kind |-> "log", n |-> messages],
                            !.pc = IF link[t] = NoLink THEN "resolve" ELSE "send"]]
            /\ UNCHANGED armed
       ELSE /\ armed' = TRUE
            /\ th' = [th EXCEPT ![t] = [@ EXCEPT !.pc = "leave", !.first = FALSE]]
            /\ UNCHANGED <<flusher, messages>>
    /\ UNCHANGED <<worldVars, named, link, hello_sent, failures, ended, handled, delivered, lapses,
                   asked>>

(* A Log request of the flush is over, delivered or not.                   *)
LogLeaves(t) ==
    /\ Returns(t, "log")
    /\ IF messages > 0
       THEN /\ messages' = messages - 1
            /\ th' = [th EXCEPT ![t] =
                  [@ EXCEPT !.req = [kind |-> "log", n |-> messages], !.got = NoRequest,
                            !.pc = IF link[t] = NoLink THEN "resolve" ELSE "send"]]
            /\ UNCHANGED <<armed, flusher>>
       ELSE /\ flusher' = NoThread
            /\ armed' = TRUE
            /\ th' = [th EXCEPT ![t] =
                  [@ EXCEPT !.req = th[t].outer, !.res = th[t].outerRes, !.outer = NoRequest,
                            !.outerRes = "none", !.got = NoRequest]]
            /\ UNCHANGED messages
    /\ UNCHANGED <<worldVars, named, link, hello_sent, failures, ended, handled, delivered, lapses,
                   asked>>

-----------------------------------------------------------------------------
(* ipc_decide: an answer of the right kind starts the count again; else    *)
(* the answer is Deny, and at the threshold the process ends.              *)
DecideAnswered(t) ==
    /\ Returns(t, "decide")
    /\ th[t].res = "ok"
    /\ failures' = 0
    /\ th' = [th EXCEPT ![t] = Idle]
    /\ UNCHANGED <<worldVars, named, link, hello_sent, messages, flusher, armed,
                   ended, handled, delivered, lapses, asked>>

DecideFails(t) ==
    /\ Returns(t, "decide")
    /\ th[t].res # "ok"
    /\ failures' = failures + 1
    /\ ended' = (failures + 1 >= IPC_FAIL_THRESHOLD)
    /\ link' = IF ended' THEN [u \in Thread |-> NoLink] ELSE link
    /\ th' = IF ended' THEN [u \in Thread |-> Idle] ELSE [th EXCEPT ![t] = Idle]
    /\ UNCHANGED <<worldVars, named, hello_sent, messages, flusher, armed,
                   handled, delivered, lapses, asked>>

(* Any answer counts as delivered, also a refusal.                         *)
overlay_delivery(res) == res # "none"

RecordReturns(t) ==
    /\ Returns(t, "record")
    /\ delivered' = IF overlay_delivery(th[t].res)
                    THEN delivered \cup {th[t].req} ELSE delivered
    /\ th' = [th EXCEPT ![t] = Idle]
    /\ UNCHANGED <<worldVars, named, link, hello_sent, messages, flusher, armed, failures,
                   ended, handled, lapses, asked>>

-----------------------------------------------------------------------------
(* The handler of a connection: one request, one answer, in order.         *)
ServerAnswers(t, res) ==
    /\ link[t].up
    /\ link[t].requests # <<>>
    /\ LET req == Head(link[t].requests)
       IN  /\ link' = [link EXCEPT ![t] =
                 [@ EXCEPT !.requests = Tail(link[t].requests),
                           !.answers = Append(link[t].answers, [req |-> req, res |-> res])]]
           /\ handled' = IF req.kind = "record"
                         THEN handled \cup {req} ELSE handled
    /\ IF res = "ok" THEN UNCHANGED lapses ELSE Lapse
    /\ UNCHANGED <<worldVars, named, th, hello_sent, messages, flusher, armed, failures,
                   ended, delivered, asked>>

(* A launcher dies; if it is writing the section the write stays open.     *)
LauncherDies(s) ==
    /\ s \in running
    /\ Cardinality(running) > MinLive
    /\ running' = running \ {s}
    /\ section' \in IF s = section.broker
                    THEN {section, [section EXCEPT !.open = TRUE]} ELSE {section}
    /\ link' = [t \in Thread |-> IF link[t].srv = s THEN [link[t] EXCEPT !.up = FALSE] ELSE link[t]]
    /\ UNCHANGED <<config, named, squatted, th, hello_sent, messages, flusher, armed, failures,
                   ended, handled, delivered, lapses, asked>>

(* Another launcher takes over: FolderSectionView::rebuild, two steps.     *)
RebuildBegins ==
    /\ section.broker \notin running
    /\ running # {}
    /\ ~section.open
    /\ section' = [section EXCEPT !.open = TRUE]
    /\ UNCHANGED <<config, named, running, squatted, guestVars, handled, lapses>>

RebuildEnds(s) ==
    /\ section.broker \notin running
    /\ section.open
    /\ s \in running
    /\ section' = [broker |-> s, members |-> {s}, open |-> FALSE]
    /\ UNCHANGED <<config, named, running, squatted, guestVars, handled, lapses>>

NameReused(s) ==
    /\ s \notin running
    /\ s \notin squatted
    /\ squatted' = squatted \cup {s}
    /\ UNCHANGED <<config, named, section, running, guestVars, handled, lapses>>

IpcNext ==
    \/ \E t \in Thread :
          \/ \E kind \in {"decide", "record"} : ensure_ipc_and(t, kind)
          \/ resolve_connect_pipe_name(t)
          \/ connect(t)
          \/ ConnectFails(t)
          \/ verify_pipe_server_identity(t)
          \/ SendRequest(t)
          \/ HelloAnswered(t)
          \/ Answered(t)
          \/ TimedOut(t)
          \/ Broken(t)
          \/ LeaveFirst(t)
          \/ flush_install_errors(t)
          \/ LogLeaves(t)
          \/ DecideAnswered(t)
          \/ DecideFails(t)
          \/ RecordReturns(t)
          \/ \E res \in {"ok", "refused"} : ServerAnswers(t, res)
    \/ \E s \in Server :
          \/ LauncherDies(s)
          \/ RebuildEnds(s)
          \/ NameReused(s)
    \/ RebuildBegins

IpcSpec == IpcInit /\ [][IpcNext]_ipcVars

-----------------------------------------------------------------------------
(* Type: a thread inside the flush holds its mutex and does not wait for   *)
(* it (the flush may reconnect, and must not count as a first Hello again),*)
(* and the count stays below the threshold while the process runs.         *)
IpcTypeOK ==
    /\ flusher \in Thread \cup {NoThread}
    /\ failures \in 0..IPC_FAIL_THRESHOLD
    /\ ~ended => failures < IPC_FAIL_THRESHOLD
    /\ ~ended => \A t \in Thread : th[t].outer # NoRequest <=> flusher = t
    /\ \A t \in Thread : th[t].pc = "flush" => flusher # t

(* An answer a thread takes is the answer to the request it is waiting     *)
(* for, across timeouts, late answers, refusals, reconnections and the     *)
(* requests of the flush between a request and its return: frames carry no *)
(* number, only the loss of the connection on every error keeps them apart *)
(* (try_send, send_timed).  And an overlay file counts as published only   *)
(* if a broker has handled the request (overlay_delivery: "the caller must *)
(* not treat the publish as done").                                        *)
AnswerIsMine ==
    /\ \A t \in Thread :
         /\ th[t].pc = "send" => th[t].got \in {NoRequest, HelloRequest}
         /\ th[t].pc = "leave" => th[t].got \in {NoRequest, th[t].req}
    /\ delivered \subseteq handled

(* Nothing is asked of a process that is not a launcher of the folder,     *)
(* also when the name of a dead broker's pipe is served by another process *)
(* between the two snapshots of the section (verify_pipe_server_identity). *)
ServerIsTrusted ==
    \A t \in Thread :
        th[t].pc \in {"hello answer", "send", "answer"} => link[t].srv \in Server
=============================================================================
