----------------------------- MODULE PipeServer -----------------------------
(***************************************************************************)
(* Who is served on the broker's pipe, and in whose name                   *)
(* (winrsbox-launcher/src/pipe_server/, sandbox/proc_table.rs).            *)
(*                                                                         *)
(* A worker of the accept pool asks the kernel for the client's PID and    *)
(* whether that process is in the folder job.  A member gets a handler,    *)
(* once one of MAX_CONCURRENT_HANDLERS permits is free; anybody else gets  *)
(* one authenticated exchange (Attach, Ping, BrokerStatus, PolicyMutate).  *)
(* A handler serves Hello, which binds the connection to the client's      *)
(* entry of the process table, SpawnedChild, which adds the child's entry, *)
(* and Decide, whose context (depth and image) is the client's entry.      *)
(*                                                                         *)
(* The kernel identifies a process by its PID and its creation time; a PID *)
(* is given out again once its process has ended and nobody holds a handle *)
(* to it.  Requests that leave the table alone (overlay, registry, net and *)
(* log requests) are other modules'; violation counters are left out.      *)
(***************************************************************************)
EXTENDS Naturals, FiniteSets

CONSTANTS
    Pid,          \* process identifiers
    Conn,         \* server-side pipe instances
    NoPid,
    Image,        \* executables of guests
    NoImage,      \* any other
    MaxProcesses, \* bound: processes created in a behaviour
    MaxHandlers,  \* MAX_CONCURRENT_HANDLERS
    MaxDepth,     \* u8::MAX
    WalkMax,      \* MAX_DEPTH of the ancestor walk
    ProbeFails    \* requests at which the kernel's image query may fail for a live process

ASSUME ServerConstants ==
    /\ NoPid \notin Pid
    /\ NoImage \notin Image
    /\ "failed" \notin Image \cup {NoImage}
    /\ MaxProcesses \in Nat
    /\ MaxHandlers \in Nat \ {0}
    /\ MaxDepth \in Nat \ {0}
    /\ WalkMax \in Nat \ {0}
    /\ ProbeFails \subseteq {"hello", "spawned"}

VARIABLES
    proc,    \* proc[p]: the kernel's process with PID p
    clock,   \* creation time of the newest process
    broker,  \* the session whose launcher is the broker
    roots,   \* roots[s]: the entry session s's launcher made for its own target
    table,   \* global_proc_info of the broker
    conn     \* conn[c]: what became of pipe instance c

serverVars == <<proc, clock, broker, roots, table, conn>>

Session == {1, 2}
Time == 0..MaxProcesses

(* role: a guest is in the folder job; a launcher runs the broker's own     *)
(* image under the broker's user; a stranger is neither.                    *)
Kernel == [st : {"free", "alive", "exited"}, ct : Time, parent : Pid \cup {NoPid},
           role : {"guest", "launcher", "stranger"}, session : Session,
           image : Image \cup {NoImage}, root : BOOLEAN]

(* ProcInfo (an absent entry is NoEntry); madeFor is the creation time of the process the depth was      *)
(* worked out for (a history field, the code does not keep it).             *)
ProcInfo == [depth : 0..MaxDepth, exe_lower : Image \cup {NoImage}, create_time : Time, madeFor : Time]
NoEntry == [depth |-> MaxDepth + 1, exe_lower |-> NoImage,
            create_time |-> 0, madeFor |-> 0]

(* owner is the creation time of the process that opened the connection,    *)
(* handle that of the process handle_connection opened (0: none), conn_pid  *)
(* says that Hello succeeded.                                               *)
Connection == [st : {"none", "open", "admitted", "preadmission", "serving", "attached"},
               pid : Pid \cup {NoPid}, owner : Time, handle : Time,
               conn_pid : BOOLEAN]
NoConnection == [st |-> "none", pid |-> NoPid, owner |-> 0, handle |-> 0,
                 conn_pid |-> FALSE]

Free == [st |-> "free", ct |-> 0, parent |-> NoPid, role |-> "stranger", session |-> 1,
         image |-> NoImage, root |-> FALSE]

-----------------------------------------------------------------------------
(* OpenProcess succeeds for a PID whose process object still exists.        *)
Openable(p) == proc[p].st # "free"
InJob(p) == Openable(p) /\ proc[p].role = "guest"
OwnerLives(c) == /\ conn[c].pid \in Pid
                 /\ proc[conn[c].pid].st = "alive"
                 /\ proc[conn[c].pid].ct = conn[c].owner

(* A process object, and its PID, last while somebody holds a handle.       *)
Reap(ps, cs) == [p \in Pid |->
    IF ps[p].st = "exited" /\ ~ \E c \in Conn : cs[c].pid = p /\ cs[c].handle = ps[p].ct
      THEN Free ELSE ps[p]]

(* query_process_create_time and query_process_image_path.                  *)
CreateTime(p) == IF Openable(p) THEN proc[p].ct ELSE 0
ImageProbes(p, request) ==
    (IF Openable(p) THEN {proc[p].image} ELSE {})
      \cup (IF ~Openable(p) \/ request \in ProbeFails THEN {"failed"} ELSE {})

(* get_parent_pid: the PID recorded at creation, whoever has it now.        *)
get_parent_pid(p) == IF Openable(p) THEN proc[p].parent ELSE NoPid

(* A variant that wraps to the depth of a root.                             *)
child_depth_Wrapping(d) == (d + 1) % (MaxDepth + 1)

child_depth(d) == IF d < MaxDepth THEN d + 1 ELSE MaxDepth

(* The parents of a process, one above the other, as far as the walk goes.  *)
Ancestors(pid) ==
    LET anc[n \in 0..WalkMax] ==
            IF n = 0 THEN pid
            ELSE IF anc[n - 1] = NoPid THEN NoPid ELSE get_parent_pid(anc[n - 1])
    IN  anc

(* The depth below the first tracked ancestor; MaxDepth if the walk meets   *)
(* none before it ends, repeats itself or exceeds its bound.                *)
resolve_new_entry_depth(pid) ==
    LET anc == Ancestors(pid)
        Hit(n) == /\ anc[n] \in Pid
                  /\ table[anc[n]] # NoEntry
                  /\ \A i, j \in 0..(n - 1) : i # j => anc[i] # anc[j]
        first == {n \in 1..WalkMax : Hit(n) /\ \A m \in 1..(n - 1) : ~Hit(m)}
    IN  IF first = {} THEN MaxDepth
        ELSE child_depth(table[anc[CHOOSE n \in first : TRUE]].depth)

-----------------------------------------------------------------------------
(* The kernel and the processes.                                            *)

ServerInit ==
    /\ proc = [p \in Pid |-> Free]
    /\ clock = 0
    /\ broker = 1
    /\ roots = [s \in Session |-> [pid |-> NoPid, info |-> NoEntry]]
    /\ table = [p \in Pid |-> NoEntry]
    /\ conn = [c \in Conn |-> NoConnection]

Started(p, parent, role, s, image, root) ==
    /\ proc[p].st = "free"
    /\ clock < MaxProcesses
    /\ clock' = clock + 1
    /\ proc' = [proc EXCEPT ![p] =
                  [st |-> "alive", ct |-> clock + 1, parent |-> parent, role |-> role,
                   session |-> s, image |-> image, root |-> root]]

(* run_target_session records its target at depth 0, under the name it was  *)
(* asked to run, before it resumes it: in its own launcher's table.         *)
LaunchRoot(p, s, image, arg0) ==
    /\ roots[s].pid = NoPid
    /\ Started(p, NoPid, "guest", s, image, TRUE)
    /\ LET entry == [depth |-> 0, exe_lower |-> arg0, create_time |-> clock + 1, madeFor |-> clock + 1]
       IN /\ roots' = [roots EXCEPT ![s] = [pid |-> p, info |-> entry]]
          /\ table' = IF s = broker THEN [table EXCEPT ![p] = entry] ELSE table
    /\ UNCHANGED <<broker, conn>>

SpawnChild(p, q, image) ==
    /\ proc[p].st = "alive" /\ proc[p].role = "guest"
    /\ Started(q, p, "guest", proc[p].session, image, FALSE)
    /\ UNCHANGED <<broker, roots, table, conn>>

StartOutsider(p, role) ==
    /\ Started(p, NoPid, role, 1, NoImage, FALSE)
    /\ UNCHANGED <<broker, roots, table, conn>>

Exit(p) ==
    /\ proc[p].st = "alive"
    /\ proc' = Reap([proc EXCEPT ![p].st = "exited"], conn)
    /\ UNCHANGED <<clock, broker, roots, table, conn>>

(* The broker ends: its session dies with it, its connections break, and    *)
(* the other session's launcher serves from its own table.                  *)
TakeOver ==
    LET s == 3 - broker
        none == [c \in Conn |-> NoConnection]
    IN  /\ broker = 1
        /\ roots[s].pid # NoPid
        /\ broker' = s
        /\ conn' = none
        /\ proc' = Reap([p \in Pid |-> IF proc[p].st = "alive" /\ proc[p].role = "guest"
                                            /\ proc[p].session = broker
                                         THEN [proc[p] EXCEPT !.st = "exited"] ELSE proc[p]], none)
        /\ table' = [p \in Pid |-> IF p = roots[s].pid THEN roots[s].info ELSE NoEntry]
        /\ UNCHANGED <<clock, roots>>

-----------------------------------------------------------------------------
(* Accepting a connection.                                                  *)

Connect(c, p) ==
    /\ conn[c].st = "none"
    /\ proc[p].st = "alive"
    /\ conn' = [conn EXCEPT ![c] = [NoConnection EXCEPT !.st = "open", !.pid = p,
                                                        !.owner = proc[p].ct]]
    /\ UNCHANGED <<proc, clock, broker, roots, table>>

(* is_owned_client_pid with the folder job: membership alone decides.       *)
is_owned_client_pid(p) == InJob(p)

(* accept_worker, up to the choice between a handler and the single         *)
(* exchange of a connection that is not a guest's.                          *)
accept_worker(c) ==
    /\ conn[c].st = "open"
    /\ conn' = [conn EXCEPT ![c].st =
                  IF is_owned_client_pid(conn[c].pid) THEN "admitted" ELSE "preadmission"]
    /\ UNCHANGED <<proc, clock, broker, roots, table>>

Serving == {c \in Conn : conn[c].st = "serving"}

(* The permit, and the handle the handler keeps to its client: it finds the *)
(* client's exit and holds the PID.                                         *)
StartHandler(c) ==
    /\ conn[c].st = "admitted"
    /\ Cardinality(Serving) < MaxHandlers
    /\ conn' = [conn EXCEPT ![c].st = "serving", ![c].handle = CreateTime(conn[c].pid)]
    /\ UNCHANGED <<proc, clock, broker, roots, table>>

(* authenticate_attach_client, on one handle opened by PID.                 *)
authenticate_attach_client(p) == Openable(p) /\ proc[p].role = "launcher"

(* handle_preadmission_connection: nothing is read from a client that is    *)
(* not a launcher; Attach keeps the connection, the other requests and a    *)
(* refusal end it.                                                          *)
handle_preadmission_connection(c) ==
    /\ conn[c].st = "preadmission"
    /\ \/ /\ authenticate_attach_client(conn[c].pid)
          /\ conn' = [conn EXCEPT ![c].st = "attached",
                                  ![c].handle = CreateTime(conn[c].pid)]
       \/ conn' = [conn EXCEPT ![c] = NoConnection]
    /\ proc' = Reap(proc, conn')
    /\ UNCHANGED <<clock, broker, roots, table>>

-----------------------------------------------------------------------------
(* Serving a guest.                                                         *)

(* GetExitCodeProcess on the handler's handle.                              *)
ClientExited(c) == /\ conn[c].handle # 0
                   /\ proc[conn[c].pid].ct = conn[c].handle
                   /\ proc[conn[c].pid].st = "exited"

(* A request was read: what the client sent before it died may be one.      *)
Read(c) == conn[c].st = "serving" /\ ~ClientExited(c)

(* The answer is written; writing to a client that is gone ends the handler. *)
Answer(c, hello) ==
    /\ conn' = [conn EXCEPT ![c] = IF ~OwnerLives(c) THEN NoConnection
                  ELSE IF hello THEN [@ EXCEPT !.conn_pid = TRUE] ELSE @]
    /\ proc' = Reap(proc, conn')
    /\ UNCHANGED <<clock, broker, roots>>

(* A variant that keeps the image of an entry it finds.                     *)
HelloEntry_KeepsExe(p, image) ==
    IF table[p] # NoEntry
      THEN [table[p] EXCEPT !.create_time = IF CreateTime(p) # 0 THEN CreateTime(p) ELSE @]
      ELSE [depth |-> resolve_new_entry_depth(p), exe_lower |-> image,
            create_time |-> CreateTime(p), madeFor |-> CreateTime(p)]

(* An entry that is there keeps its depth and gets the kernel's image.      *)
HelloEntry(p, image) ==
    IF table[p] # NoEntry
      THEN [table[p] EXCEPT !.exe_lower = image,
                            !.create_time = IF CreateTime(p) # 0 THEN CreateTime(p) ELSE @]
      ELSE [depth |-> resolve_new_entry_depth(p), exe_lower |-> image,
            create_time |-> CreateTime(p), madeFor |-> CreateTime(p)]

(* Without the kernel's image path the connection stays without context.    *)
Hello(c) ==
    /\ Read(c)
    /\ \E image \in ImageProbes(conn[c].pid, "hello") :
         IF image = "failed"
           THEN Answer(c, FALSE) /\ UNCHANGED table
           ELSE /\ Answer(c, TRUE)
                /\ table' = [table EXCEPT ![conn[c].pid] = HelloEntry(conn[c].pid, image)]

spawned_child_kinship(child, client) == get_parent_pid(child) = client

(* The context of a decision: the entry of a client that said Hello.        *)
decide_context(c) == IF conn[c].conn_pid THEN table[conn[c].pid] ELSE NoEntry

(* The child's depth comes from the client's own entry, its image from the  *)
(* kernel, or from the report when the kernel does not answer.              *)
SpawnedChild(c, child, child_exe) ==
    /\ Read(c)
    /\ Answer(c, FALSE)
    /\ IF conn[c].conn_pid /\ spawned_child_kinship(child, conn[c].pid)
         THEN \E image \in ImageProbes(child, "spawned") :
                table' = [table EXCEPT ![child] =
                  [depth |-> child_depth(IF table[conn[c].pid] # NoEntry
                                           THEN table[conn[c].pid].depth ELSE 0),
                   exe_lower |-> IF image = "failed" THEN child_exe ELSE image,
                   create_time |-> CreateTime(child), madeFor |-> CreateTime(child)]]
         ELSE UNCHANGED table

(* Every other request is answered from elsewhere.                          *)
Decide(c) == Read(c) /\ Answer(c, FALSE) /\ UNCHANGED table

(* The handler ends: the client has exited, its end of the pipe is closed,  *)
(* or a request cannot be read or exceeds the byte budget.                  *)
EndHandler(c) ==
    /\ conn[c].st \in {"serving", "attached"}
    /\ conn' = [conn EXCEPT ![c] = NoConnection]
    /\ proc' = Reap(proc, conn')
    /\ UNCHANGED <<clock, broker, roots, table>>

-----------------------------------------------------------------------------
ServerNext ==
    \/ \E p \in Pid, s \in Session, image, arg0 \in Image : LaunchRoot(p, s, image, arg0)
    \/ \E p, q \in Pid, image \in Image : SpawnChild(p, q, image)
    \/ \E p \in Pid, role \in {"launcher", "stranger"} : StartOutsider(p, role)
    \/ \E p \in Pid : Exit(p)
    \/ TakeOver
    \/ \E c \in Conn, p \in Pid : Connect(c, p)
    \/ \E c \in Conn : accept_worker(c)
    \/ \E c \in Conn : StartHandler(c)
    \/ \E c \in Conn : handle_preadmission_connection(c)
    \/ \E c \in Conn : Hello(c)
    \/ \E c \in Conn, q \in Pid, exe \in Image : SpawnedChild(c, q, exe)
    \/ \E c \in Conn : Decide(c)
    \/ \E c \in Conn : EndHandler(c)

ServerSpec == ServerInit /\ [][ServerNext]_serverVars

-----------------------------------------------------------------------------
ServerTypeOK ==
    /\ proc \in [Pid -> Kernel]
    /\ clock \in Time
    /\ broker \in Session
    /\ roots \in [Session -> [pid : Pid \cup {NoPid}, info : ProcInfo \cup {NoEntry}]]
    /\ table \in [Pid -> ProcInfo \cup {NoEntry}]
    /\ conn \in [Conn -> Connection]

(* The context of a decision is the client's own: while the process that    *)
(* said Hello lives, the entry its connection reads holds that process's    *)
(* image and creation time (handle_connection, decide_context), whatever    *)
(* its parent reports, whoever had its PID before and whichever launcher    *)
(* took over.                                                               *)
ContextIsOwn == \A c \in Serving :
    conn[c].conn_pid /\ OwnerLives(c) =>
      /\ decide_context(c) # NoEntry
      /\ decide_context(c).exe_lower = proc[conn[c].pid].image
      /\ decide_context(c).create_time = conn[c].owner

(* Depth 0 is the broker's own target's: an entry made for a live process   *)
(* has depth 0 only if a launcher started that process as its target; no    *)
(* child, no guest of another session and no end of the depth's range gets  *)
(* it (resolve_new_entry_depth, child_depth, session.rs).                   *)
DepthZeroIsRoot == \A p \in Pid :
    /\ table[p] # NoEntry /\ table[p].depth = 0
    /\ proc[p].st = "alive" /\ table[p].madeFor = proc[p].ct
    => proc[p].root
=============================================================================
