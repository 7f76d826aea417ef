---------------------------- MODULE OverlayProofs ----------------------------
(***************************************************************************)
(* The containment of the sandbox, for any number of processes, threads,   *)
(* paths, calls and faults and for any rules: whatever is cached, lost or  *)
(* racing, the steps of the guests change real files and overlay files     *)
(* only where the rules let them.                                          *)
(*                                                                         *)
(* The decisions a call acts on may be stale, so the invariant does not    *)
(* say that they are what compute would answer now.  It says that every    *)
(* decision, cached by the broker, cached by a process or held by a call,  *)
(* is one the rules allow, and that a handle was opened by such a decision. *)
(*                                                                         *)
(* And the private view: where reads pass through, all processes find at a *)
(* path that no call is on what the calls have left there, and the merged  *)
(* listing shows it exactly if it is there.  That invariant says of a path *)
(* how its files, the broker's tables and all the caches fit together when *)
(* no call is on it (Steady), and for every point of a call how far they   *)
(* are from that (Mid).                                                    *)
(***************************************************************************)
EXTENDS Overlay, TLAPS

MayReal(p) == p \in Project \/ rule[p].write = "Passthrough"

MayOvl(p) == p \in External /\ rule[p].write = "Cow"

(* A decision that acting on does no harm, however old it is. *)
Sound(p, w, d) ==
    /\ d = "Passthrough" /\ w => MayReal(p)
    /\ d \in Cow => p \in External /\ (w => MayOvl(p))
    /\ d = "CowFrom" => w

ThreadState ==
    [pc : PC, op : {"read", "write", "open", "query", "delete", "unlink", "rename"},
     path : Path \cup {None}, disp : Disposition \cup {"keep", "replace"},
     dst : Path \cup {None}, at : Path \cup {None}, retry : SUBSET {"fresh", "revive"},
     dec : Decision, on : {"real", "ovl", None}]

(* The call is one a guest can make, and the lookup is at one of its paths. *)
IsCall(c) ==
    /\ c.path \in Path
    /\ c.op \in {"open", "query", "delete", "unlink"} => c.disp = "OPEN"
    /\ c.op = "rename" => c.dst \in Path
    /\ c.at = c.path \/ (c.op = "rename" /\ c.at = c.dst)

(* A call c has a sound decision, or a handle opened by one. *)
SoundCall(c) ==
    /\ c.pc \in {"insert", "reply", "decided", "copy", "prepared", "publish"} =>
          Sound(c.at, is_write_access(c), c.dec)
    /\ c.pc \in {"copy", "prepared"} => c.dec = "CowFrom"
    /\ c.pc = "publish" => c.dec \in Cow /\ c.at = c.path
    /\ c.on = "real" => MayReal(c.path)
    /\ c.on = "ovl" => MayOvl(c.path)
    /\ c.pc = "clear" => c.op # "rename"
    /\ c.pc \in {"index", "move"} => c.op = "rename"
    /\ c.pc \in {"mark", "index", "move"} /\ c.op = "rename" => MayOvl(c.dst)

GoodCall(c) ==
    /\ c \in ThreadState
    /\ c.pc # "idle" => IsCall(c)
    /\ SoundCall(c)

Threads == th \in [Thread -> ThreadState] /\ \A t \in Thread : GoodCall(th[t])

Files ==
    /\ real \in [Path -> Token] /\ ovl \in [Path -> Token] /\ view \in [Path -> Token]
    /\ excuse \in [Path -> SUBSET {"overlap", "fault", "recreated", "moved", "unlisted",
                                    "vanished"}]

Caches ==
    /\ srv \in Decisions
    /\ hook \in [Process -> Decisions]
    /\ \A p \in Path, w \in BOOLEAN :
          /\ Sound(p, w, srv[p][w])
          /\ \A q \in Process : Sound(p, w, hook[q][p][w])

Tables ==
    /\ owner \in [Thread -> Process]
    /\ rule \in [External -> Rules]
    /\ idx \subseteq Path /\ wh \subseteq Path
    /\ published \in [Process -> SUBSET Path]

IInv == Threads /\ Files /\ Caches /\ Tables

-----------------------------------------------------------------------------
(* Nothing is decided or under way at first. *)
LEMMA InitInv == Init => IInv
  <1> SUFFICES ASSUME Init PROVE IInv
    OBVIOUS
  <1>1. GoodCall(Idle)
    BY OverlayAssumption
    DEF Idle, GoodCall, ThreadState, SoundCall, PC, Disposition, Decision
  <1>2. Threads
    BY <1>1 DEF Init, Threads, GoodCall
  <1>3. Files
    BY DEF Init, Files, Token
  <1>4. NoDecisions \in Decisions /\ \A p \in Path, w \in BOOLEAN : NoDecisions[p][w] = None
    BY DEF NoDecisions, Decisions, Decision
  <1>5. \A p \in Path, w \in BOOLEAN : Sound(p, w, None)
    BY OverlayAssumption DEF Sound, Cow
  <1>6. Caches
    BY <1>4, <1>5 DEF Init, Caches
  <1>7. Tables
    BY DEF Init, Tables
  <1> QED BY <1>2, <1>3, <1>6, <1>7 DEF IInv

(* What compute answers is sound. *)
LEMMA ComputeSound ==
    ASSUME Tables, NEW p \in Path, NEW w \in BOOLEAN
    PROVE  compute(p, w) \in Decision /\ Sound(p, w, compute(p, w))
  <1>1. CASE p \in Project
    BY <1>1 DEF compute, External, Decision, Sound, MayReal, Cow
  <1>2. CASE p \notin Project
    <2>1. p \in External
      BY <1>2 DEF External
    <2>2. /\ rule[p].read \in {"Passthrough", "Cow", "Deny"}
          /\ rule[p].write \in {"Passthrough", "Cow", "Deny"}
      BY <2>1, OverlayAssumption DEF Tables
    <2>3. CASE Whiteouted(p)
      BY <1>2, <2>1, <2>3 DEF compute, Decision, Sound, Cow
    <2>4. CASE ~Whiteouted(p)
      BY <1>2, <2>1, <2>2, <2>4 DEF compute, Decision, Sound, Cow, MayReal, MayOvl
    <2> QED BY <2>3, <2>4
  <1> QED BY <1>1, <1>2

(* A step of one thread that leaves its call good keeps all calls good. *)
LEMMA ThreadStep ==
    ASSUME Threads, NEW t \in Thread, NEW c, GoodCall(c), th' = [th EXCEPT ![t] = c],
           UNCHANGED rule
    PROVE  Threads'
  BY DEF Threads, GoodCall, IsCall, SoundCall, Sound, MayReal, MayOvl, is_write_access

(* A call may always end. *)
LEMMA IdleIsGood == GoodCall(Idle)
  BY OverlayAssumption DEF Idle, GoodCall, ThreadState, SoundCall, PC, Disposition, Decision

(* Forgetting decisions keeps the others sound. *)
LEMMA ForgetStep ==
    ASSUME Caches, UNCHANGED rule, srv' \in {srv, NoDecisions},
           NEW q \in Process, NEW p \in Path, hook' \in {hook, Invalidate(q, p)}
    PROVE  Caches'
  <1>1. \A p1 \in Path, w \in BOOLEAN : Sound(p1, w, None)'
    BY OverlayAssumption DEF Sound, Cow
  <1>2. \A d : \A p1 \in Path, w \in BOOLEAN : Sound(p1, w, d) => Sound(p1, w, d)'
    BY DEF Sound, MayReal, MayOvl
  <1>3. NoDecisions \in Decisions /\ \A p1 \in Path, w \in BOOLEAN : NoDecisions[p1][w] = None
    BY DEF NoDecisions, Decisions, Decision
  <1> DEFINE none == [w \in BOOLEAN |-> None]
             mine == [hook[q] EXCEPT ![p] = none]
  <1>4. none \in [BOOLEAN -> Decision] /\ \A w \in BOOLEAN : none[w] = None
    BY DEF Decision
  <1>5. hook \in [Process -> Decisions] /\ hook[q] \in [Path -> [BOOLEAN -> Decision]]
    BY DEF Caches, Decisions
  <1>6. Invalidate(q, p) = [hook EXCEPT ![q] = mine]
    BY DEF Invalidate
  <1> HIDE DEF none
  <1>7. mine \in Decisions /\ mine[p] = none /\ \A p1 \in Path : p1 # p => mine[p1] = hook[q][p1]
    BY <1>4, <1>5 DEF Decisions
  <1> HIDE DEF mine
  <1>8. hook' \in [Process -> Decisions]
    BY <1>5, <1>6, <1>7
  <1>9. \A q1 \in Process, p1 \in Path, w \in BOOLEAN :
           hook'[q1][p1][w] = hook[q1][p1][w] \/ hook'[q1][p1][w] = None
    <2> SUFFICES ASSUME NEW q1 \in Process, NEW p1 \in Path, NEW w \in BOOLEAN
                 PROVE  hook'[q1][p1][w] = hook[q1][p1][w] \/ hook'[q1][p1][w] = None
      OBVIOUS
    <2>1. hook'[q1] = hook[q1] \/ (q1 = q /\ hook'[q1] = mine)
      BY <1>5, <1>6
    <2> QED BY <2>1, <1>4, <1>7
  <1>10. srv' \in Decisions
    BY <1>3 DEF Caches
  <1>11. \A p1 \in Path, w \in BOOLEAN : srv'[p1][w] = srv[p1][w] \/ srv'[p1][w] = None
    BY <1>3
  <1> QED BY <1>1, <1>2, <1>8, <1>9, <1>10, <1>11 DEF Caches

(* The caches do not depend on anything else. *)
LEMMA SameCaches ==
    ASSUME Caches, UNCHANGED <<rule, srv, hook>>
    PROVE  Caches'
  BY DEF Caches, Sound, MayReal, MayOvl

(* Excuses are drawn from a fixed set. *)
LEMMA ExcuseType ==
    ASSUME Files, NEW S,
           NEW why \in {"overlap", "fault", "recreated", "moved", "unlisted", "vanished"}
    PROVE  Excuse(S, why) \in [Path -> SUBSET {"overlap", "fault", "recreated", "moved",
                                               "unlisted", "vanished"}]
  BY DEF Files, Excuse

(* A request is applied or lost. *)
LEMMA SendStep ==
    ASSUME Files, idx \subseteq Path, wh \subseteq Path,
           NEW t \in Thread, NEW newIdx \in SUBSET Path, NEW newWh \in SUBSET Path,
           Send(t, newIdx, newWh), UNCHANGED <<real, ovl, view>>
    PROVE  /\ idx' \subseteq Path /\ wh' \subseteq Path
           /\ srv' \in {srv, NoDecisions}
           /\ Files'
  BY ExcuseType DEF Send, Fault, index, Files

-----------------------------------------------------------------------------
(* The steps of a call. *)

(* A guest enters one of the hooks. *)
LEMMA CallInv ==
    ASSUME IInv, NEW t \in Thread, NEW r \in Calls, Call(t, r)
    PROVE  IInv'
  <1> USE DEF IInv, index, caches
  <1> DEFINE c == [pc |-> "decide", op |-> r.op, path |-> r.path, disp |-> r.disp,
                   dst |-> r.dst, at |-> r.path, retry |-> Retries(r), dec |-> None,
                   on |-> None]
  <1>1. /\ r.op \in {"read", "write", "open", "query", "delete", "unlink", "rename"}
        /\ r.path \in Path /\ r.disp \in Disposition \cup {"keep", "replace"}
        /\ r.dst \in Path \cup {None}
        /\ r.op \in {"open", "query", "delete", "unlink"} => r.disp = "OPEN"
        /\ r.op = "rename" => r.dst \in Path
    BY CallsAssumption DEF Request, Disposition
  <1>2. GoodCall(c)
    BY <1>1, OverlayAssumption
    DEF GoodCall, ThreadState, PC, Decision, Retries, IsCall, SoundCall
  <1>3. Threads'
    BY <1>2, ThreadStep DEF Call
  <1>4. Files'
    BY ExcuseType DEF Call, Files
  <1>5. Caches'
    BY SameCaches DEF Call
  <1>6. Tables'
    BY DEF Call, Tables
  <1> QED BY <1>3, <1>4, <1>5, <1>6

(* A call that takes a sound decision stays good. *)
LEMMA NewDecision ==
    ASSUME NEW c \in ThreadState, IsCall(c), SoundCall(c), NEW d \in Decision,
           Sound(c.at, is_write_access(c), d), NEW next \in {"decided", "reply", "insert"}
    PROVE  GoodCall([c EXCEPT !.pc = next, !.dec = d])
  <1> DEFINE e == [c EXCEPT !.pc = next, !.dec = d]
  <1>1. e \in ThreadState
    BY DEF ThreadState, PC
  <1>2. /\ e.pc = next /\ e.dec = d /\ e.op = c.op /\ e.path = c.path /\ e.disp = c.disp
        /\ e.dst = c.dst /\ e.at = c.at /\ e.on = c.on
    BY DEF ThreadState
  <1> HIDE DEF e
  <1>3. IsCall(e)
    BY <1>2 DEF IsCall
  <1>4. is_write_access(e) <=> is_write_access(c)
    BY <1>2 DEF is_write_access
  <1>5. Sound(e.at, is_write_access(e), e.dec)
    BY <1>2, <1>4 DEF Sound
  <1>6. SoundCall(e)
    BY <1>2, <1>5 DEF SoundCall
  <1>7. GoodCall(e)
    BY <1>1, <1>3, <1>6 DEF GoodCall
  <1> QED BY <1>7 DEF e

(* A thread takes a decision, from a cache or computed. *)
LEMMA DecideInv ==
    ASSUME IInv, NEW t \in Thread, Decide(t)
    PROVE  IInv'
  <1> USE DEF IInv, index, caches, history
  <1> DEFINE c == th[t]
             p == c.at
             w == Write(t)
  <1>1. c \in ThreadState /\ IsCall(c) /\ SoundCall(c) /\ c.pc = "decide" /\ owner[t] \in Process
    BY DEF Decide, Threads, GoodCall, Tables
  <1>2. p \in Path /\ w \in BOOLEAN
    BY <1>1 DEF IsCall, Write, is_write_access
  <1>3. Threads'
    <2>1. CASE hook[owner[t]][p][w] # None
      <3> DEFINE d == hook[owner[t]][p][w]
      <3>1. d \in Decision /\ Sound(p, w, d)
        BY <1>1, <1>2 DEF Caches, Decisions
      <3>2. GoodCall([c EXCEPT !.pc = "decided", !.dec = d])
        BY <1>1, <3>1, NewDecision DEF Write
      <3>3. th' = [th EXCEPT ![t] = [c EXCEPT !.pc = "decided", !.dec = d]]
        BY <2>1 DEF Decide
      <3> QED BY <3>2, <3>3, ThreadStep DEF Decide
    <2>2. CASE hook[owner[t]][p][w] = None
      <3> DEFINE d == Served(p, w)
                 next == IF srv[p][w] # None THEN "reply" ELSE "insert"
      <3>1. d \in Decision /\ Sound(p, w, d)
        BY <1>2, ComputeSound DEF Served, Caches, Decisions
      <3>2. GoodCall([c EXCEPT !.pc = next, !.dec = d])
        BY <1>1, <3>1, NewDecision DEF Write
      <3>3. th' = [th EXCEPT ![t] = [c EXCEPT !.pc = next, !.dec = d]]
        BY <2>2 DEF Decide
      <3> QED BY <3>2, <3>3, ThreadStep DEF Decide
    <2> QED BY <2>1, <2>2
  <1>4. Caches'
    BY SameCaches DEF Decide
  <1> QED BY <1>3, <1>4 DEF Decide, Files, Tables

(* The broker caches a sound decision. *)
LEMMA InsertInv ==
    ASSUME IInv, NEW t \in Thread, Insert(t)
    PROVE  IInv'
  <1> USE DEF IInv, index, caches, history
  <1> DEFINE c == th[t]
             p == c.at
             w == Write(t)
  <1>1. c \in ThreadState /\ IsCall(c) /\ SoundCall(c) /\ c.pc = "insert"
    BY DEF Insert, Threads, GoodCall
  <1>2. p \in Path /\ w \in BOOLEAN /\ c.dec \in Decision /\ Sound(p, w, c.dec)
    BY <1>1 DEF IsCall, SoundCall, Write, is_write_access, ThreadState
  <1>3. GoodCall([c EXCEPT !.pc = "reply"])
    BY <1>1 DEF GoodCall, ThreadState, PC, IsCall, SoundCall, is_write_access
  <1>4. Threads'
    BY <1>3, ThreadStep DEF Insert, Goto
  <1>5. srv' \in Decisions
    BY <1>2 DEF Insert, Caches, Decisions
  <1>6. \A p1 \in Path, w1 \in BOOLEAN :
           srv'[p1][w1] = IF p1 = p /\ w1 = w THEN c.dec ELSE srv[p1][w1]
    BY <1>2 DEF Insert, Caches, Decisions
  <1>7. \A d : \A p1 \in Path, w1 \in BOOLEAN : Sound(p1, w1, d) => Sound(p1, w1, d)'
    BY DEF Insert, Sound, MayReal, MayOvl
  <1>8. Caches'
    BY <1>2, <1>5, <1>6, <1>7 DEF Insert, Caches
  <1> QED BY <1>4, <1>8 DEF Insert, Files, Tables

(* A process caches a sound decision. *)
LEMMA HookInsertStep ==
    ASSUME Caches, Tables, NEW t \in Thread, th[t].at \in Path, Write(t) \in BOOLEAN,
           NEW d \in Decision, Sound(th[t].at, Write(t), d),
           HookInsert(t, d), UNCHANGED <<srv, rule>>
    PROVE  Caches'
  <1> DEFINE p == th[t].at
             w == Write(t)
             q == owner[t]
  <1>1. q \in Process
    BY DEF Tables
  <1>2. hook' \in [Process -> Decisions]
    BY <1>1 DEF HookInsert, Caches, Decisions
  <1>3. \A q1 \in Process, p1 \in Path, w1 \in BOOLEAN :
           hook'[q1][p1][w1] = hook[q1][p1][w1]
              \/ (p1 = p /\ w1 = w /\ hook'[q1][p1][w1] = d)
    BY <1>1 DEF HookInsert, Caches, Decisions
  <1>4. \A d1 : \A p1 \in Path, w1 \in BOOLEAN : Sound(p1, w1, d1) => Sound(p1, w1, d1)'
    BY DEF Sound, MayReal, MayOvl
  <1> QED BY <1>2, <1>3, <1>4 DEF Caches

(* The broker's answer reaches the process, which may cache it. *)
LEMMA ReplyInv ==
    ASSUME IInv, NEW t \in Thread, Reply(t)
    PROVE  IInv'
  <1> USE DEF IInv, index, history
  <1> DEFINE c == th[t]
  <1>1. c \in ThreadState /\ IsCall(c) /\ SoundCall(c) /\ c.pc = "reply"
    BY DEF Reply, Threads, GoodCall
  <1>2. c.at \in Path /\ Write(t) \in BOOLEAN /\ c.dec \in Decision /\ Sound(c.at, Write(t), c.dec)
    BY <1>1 DEF IsCall, SoundCall, Write, is_write_access, ThreadState
  <1>3. GoodCall([c EXCEPT !.pc = "decided"])
    BY <1>1 DEF GoodCall, ThreadState, PC, IsCall, SoundCall, is_write_access
  <1>4. Threads'
    BY <1>3, ThreadStep DEF Reply, Goto
  <1>5. Caches'
    BY <1>2, HookInsertStep DEF Reply
  <1> QED BY <1>4, <1>5 DEF Reply, Files, Tables

(* A failed request answers Deny, which is always sound. *)
LEMMA DecideFailsInv ==
    ASSUME IInv, NEW t \in Thread, DecideFails(t)
    PROVE  IInv'
  <1> USE DEF IInv, index
  <1> DEFINE c == th[t]
  <1>1. c \in ThreadState /\ IsCall(c) /\ SoundCall(c)
    BY DEF DecideFails, Threads, GoodCall
  <1>2. c.at \in Path /\ Write(t) \in BOOLEAN
    BY <1>1 DEF IsCall, Write, is_write_access
  <1>3. \A w \in BOOLEAN : "Deny" \in Decision /\ Sound(c.at, w, "Deny")
    BY DEF Sound, Cow, Decision
  <1>4. GoodCall([c EXCEPT !.pc = "decided", !.dec = "Deny"])
    BY <1>1, <1>2, <1>3, NewDecision DEF Write
  <1>5. Threads'
    BY <1>4, ThreadStep DEF DecideFails
  <1>6. Caches'
    BY <1>2, <1>3, HookInsertStep DEF DecideFails
  <1>7. Files'
    BY ExcuseType DEF DecideFails, Fault, Files
  <1> QED BY <1>5, <1>6, <1>7 DEF DecideFails, Tables

-----------------------------------------------------------------------------
(* Looking up again. *)

(* What is known of a thread inside a call. *)
LEMMA Inside ==
    ASSUME IInv, NEW t \in Thread, th[t].pc # "idle"
    PROVE  /\ th[t] \in ThreadState /\ IsCall(th[t]) /\ SoundCall(th[t])
           /\ th[t].at \in Path /\ th[t].path \in Path /\ owner[t] \in Process
  BY DEF IInv, Threads, GoodCall, IsCall, Tables

(* A call goes back to its decision with fewer retries left. *)
LEMMA Again ==
    ASSUME IInv, NEW t \in Thread, th[t].pc = "decided", NEW R \in SUBSET {"fresh", "revive"},
           th' = [th EXCEPT ![t].pc = "decide", ![t].retry = R], UNCHANGED rule
    PROVE  Threads'
  <1> DEFINE c == th[t]
  <1>1. c \in ThreadState /\ IsCall(c) /\ SoundCall(c)
    BY Inside
  <1>2. GoodCall([c EXCEPT !.pc = "decide", !.retry = R])
    <2> DEFINE e == [c EXCEPT !.pc = "decide", !.retry = R]
    <2>1. e \in ThreadState
      BY <1>1 DEF ThreadState, PC
    <2>2. /\ e.pc = "decide" /\ e.op = c.op /\ e.path = c.path /\ e.disp = c.disp
          /\ e.dst = c.dst /\ e.at = c.at /\ e.on = c.on
      BY <1>1 DEF ThreadState
    <2> HIDE DEF e
    <2>3. IsCall(e) /\ SoundCall(e)
      BY <1>1, <2>2 DEF IsCall, SoundCall
    <2>4. GoodCall(e)
      BY <2>1, <2>3 DEF GoodCall
    <2> QED BY <2>4 DEF e
  <1> QED BY <1>2, ThreadStep DEF IInv

(* decide_fresh_if_overlay_missing forgets what it asks again. *)
LEMMA FreshInv ==
    ASSUME IInv, NEW t \in Thread, decide_fresh_if_overlay_missing(t)
    PROVE  IInv'
  <1> USE DEF IInv, index, history
  <1>1. th[t].at \in Path /\ owner[t] \in Process /\ th[t] \in ThreadState
    BY Inside DEF decide_fresh_if_overlay_missing
  <1>2. Threads'
    <2>1. th[t].retry \ {"fresh"} \in SUBSET {"fresh", "revive"}
      BY <1>1 DEF ThreadState
    <2> QED BY <2>1, Again DEF decide_fresh_if_overlay_missing
  <1>3. Caches'
    BY <1>1, ForgetStep DEF decide_fresh_if_overlay_missing
  <1>4. Tables'
    BY <1>1 DEF decide_fresh_if_overlay_missing, overlay_publish_forget, Tables
  <1> QED BY <1>2, <1>3, <1>4 DEF decide_fresh_if_overlay_missing, Files

(* A create or a rename clears the whiteout of its target. *)
LEMMA ReviveInv ==
    ASSUME IInv, NEW t \in Thread, Revive(t)
    PROVE  IInv'
  <1> USE DEF IInv
  <1>1. th[t].at \in Path /\ owner[t] \in Process
    BY Inside DEF Revive
  <1>2. Threads'
    <2>1. /\ th[t].pc = "decided" /\ UNCHANGED rule
          /\ th' = [th EXCEPT ![t].pc = "decide", ![t].retry = {}]
      BY DEF Revive
    <2>2. {} \in SUBSET {"fresh", "revive"}
      OBVIOUS
    <2> QED BY <2>1, <2>2, Again
  <1>3. idx' \subseteq Path /\ wh' \subseteq Path /\ srv' \in {srv, NoDecisions} /\ Files'
    <2>1. idx \in SUBSET Path /\ wh \ {th[t].at} \in SUBSET Path
      BY DEF Tables
    <2> QED BY <2>1, SendStep DEF Revive, Tables
  <1>4. Caches'
    BY <1>1, <1>3, ForgetStep DEF Revive
  <1>5. Tables'
    BY <1>1, <1>3 DEF Revive, overlay_publish_forget, Tables
  <1> QED BY <1>2, <1>3, <1>4, <1>5

(* A call returns and nothing else happens. *)
LEMMA ReturnStep ==
    ASSUME Threads, NEW t \in Thread, Return(t), UNCHANGED rule
    PROVE  Threads'
  BY IdleIsGood, ThreadStep DEF Return

(* The hook answers not-found or access-denied. *)
LEMMA RefuseInv ==
    ASSUME IInv, NEW t \in Thread, Refuse(t)
    PROVE  IInv'
  <1> USE DEF IInv, index, caches, history
  <1>1. Threads'
    BY ReturnStep DEF Refuse
  <1>2. Caches'
    BY SameCaches DEF Refuse
  <1> QED BY <1>1, <1>2 DEF Refuse, Files, Tables

-----------------------------------------------------------------------------
(* Opening. *)

(* What a file holds after an open. *)
LEMMA ContentType ==
    ASSUME NEW t \in Thread, NEW c \in Token, NEW disp
    PROVE  Content(t, c, disp) \in Token
  BY DEF Content, Opened, Token

(* A call that changes the file at its path was decided as a write. *)
LEMMA MutatesIsWrite ==
    ASSUME NEW c, Mutates(c)
    PROVE  is_write_access(c)
  BY DEF Mutates, is_write_access

(* A handle opened by a sound decision. *)
LEMMA UseHandleStep ==
    ASSUME Threads, NEW t \in Thread, th[t].pc # "idle", th[t].op \in {"delete", "rename"},
           NEW layer \in {"real", "ovl"}, UseHandle(t, layer),
           layer = "real" => MayReal(th[t].path),
           layer = "ovl" => MayOvl(th[t].path),
           UNCHANGED rule
    PROVE  Threads'
  <1> DEFINE c == th[t]
  <1>1. c \in ThreadState /\ IsCall(c) /\ SoundCall(c)
    BY DEF Threads, GoodCall
  <1>2. CASE c.op = "delete"
    <2>1. GoodCall([c EXCEPT !.pc = "use", !.on = layer])
      BY <1>1, <1>2, OverlayAssumption DEF GoodCall, ThreadState, PC, IsCall, SoundCall
    <2> QED BY <1>2, <2>1, ThreadStep DEF UseHandle
  <1>3. CASE c.op = "rename"
    <2> DEFINE e == [c EXCEPT !.pc = "decide", !.on = layer, !.at = c.dst, !.retry = {"revive"}]
    <2>1. GoodCall(e)
      BY <1>1, <1>3, OverlayAssumption DEF GoodCall, ThreadState, PC, IsCall, SoundCall
    <2>2. th' = [th EXCEPT ![t] = e]
      BY <1>3 DEF UseHandle
    <2> QED BY <2>1, <2>2, ThreadStep
  <1> QED BY <1>2, <1>3

(* Deletes and renames open their file as writers do. *)
LEMMA HandleIsWrite ==
    ASSUME NEW c, c.op \in {"delete", "rename", "unlink"}
    PROVE  is_write_access(c)
  BY DEF is_write_access

(* The real file is changed, or a handle of it used, only when the decision *)
(* is Passthrough.                                                          *)
LEMMA OpenRealSound ==
    ASSUME IInv, NEW t \in Thread, OpenReal(t), is_write_access(th[t])
    PROVE  MayReal(th[t].path)
  <1>1. th[t].dec = "Passthrough" /\ th[t].pc = "decided" /\ th[t].at = th[t].path
    BY DEF OpenReal, ReadsLower, Write, Decided, FirstPath
  <1>2. SoundCall(th[t])
    BY <1>1, Inside
  <1> QED BY <1>1, <1>2 DEF SoundCall, Sound

(* The view holds contents after an open. *)
LEMMA ViewOpensType ==
    ASSUME Files, NEW t \in Thread, NEW p \in Path, ViewOpens(t, p)
    PROVE  view' \in [Path -> Token]
  <1>1. Content(t, view[p], th[t].disp) \in Token
    BY ContentType DEF Files
  <1>2. "wrong" \in Token
    BY DEF Token
  <1> QED BY <1>1, <1>2 DEF ViewOpens, Files

(* Resurrect adds an excuse. *)
LEMMA ResurrectType ==
    ASSUME Files, NEW p \in Path
    PROVE  Resurrect(p) \in [Path -> SUBSET {"overlap", "fault", "recreated", "moved",
                                             "unlisted", "vanished"}]
  BY DEF Files, Resurrect

(* Forgive takes excuses away. *)
LEMMA ForgiveType ==
    ASSUME Files, NEW p \in Path, NEW disp
    PROVE  Forgive(p, disp) \in [Path -> SUBSET {"overlap", "fault", "recreated", "moved",
                                                 "unlisted", "vanished"}]
  BY DEF Files, Forgive

(* The hook lets the kernel open the real file. *)
LEMMA OpenRealInv ==
    ASSUME IInv, NEW t \in Thread, OpenReal(t)
    PROVE  IInv'
  <1> USE DEF IInv, index, caches, history
  <1> DEFINE c == th[t]
             p == c.at
  <1>1. c.pc = "decided" /\ p \in Path
    BY Inside DEF OpenReal, Decided
  <1>2. Caches' /\ Tables'
    BY SameCaches DEF OpenReal, Tables
  <1>3. CASE c.op \in {"delete", "rename"} /\ real[p] # None
    <2>1. UseHandle(t, "real") /\ UNCHANGED <<real, ovl, history, rule>>
      BY <1>3 DEF OpenReal
    <2>2. MayReal(c.path)
      BY <1>3, OpenRealSound, HandleIsWrite
    <2>3. Threads'
      BY <1>1, <1>3, <2>1, <2>2, UseHandleStep
    <2> QED BY <1>2, <2>1, <2>3 DEF Files
  <1>4. CASE c.op \in {"delete", "rename"} /\ real[p] = None
    <2>1. Return(t) /\ UNCHANGED <<real, ovl, history, rule>>
      BY <1>4 DEF OpenReal
    <2> QED BY <1>2, <2>1, ReturnStep DEF Files
  <1>5. CASE c.op \notin {"delete", "rename"}
    <2>1. Return(t) /\ UNCHANGED <<ovl, rule>>
      BY <1>5 DEF OpenReal
    <2>2. real' \in [Path -> Token] /\ view' \in [Path -> Token]
      <3>1. CASE Mutates(c) /\ Opens(real[p], c.disp)
        <4>1. real' = [real EXCEPT ![p] = Content(t, real[p], c.disp)] /\ ViewOpens(t, p)
          BY <1>5, <3>1 DEF OpenReal
        <4>2. Content(t, real[p], c.disp) \in Token
          BY <1>1, ContentType DEF Files
        <4> QED BY <1>1, <4>1, <4>2, ViewOpensType DEF Files
      <3>2. CASE ~(Mutates(c) /\ Opens(real[p], c.disp))
        BY <1>5, <3>2 DEF OpenReal, Files
      <3> QED BY <3>1, <3>2
    <2>3. excuse' \in {Resurrect(p), excuse}
      BY <1>5 DEF OpenReal
    <2>4. Files'
      BY <1>1, <2>1, <2>2, <2>3, ResurrectType DEF Files
    <2> QED BY <1>2, <2>1, <2>4, ReturnStep
  <1> QED BY <1>3, <1>4, <1>5

(* The call moves on with its decision, its paths and its handle. *)
LEMMA NewPC ==
    ASSUME Threads, NEW t \in Thread, th[t].pc # "idle", NEW next \in PC, Goto(t, next),
           UNCHANGED rule,
           SoundCall([th[t] EXCEPT !.pc = next])
    PROVE  Threads'
  <1> DEFINE c == th[t]
             e == [c EXCEPT !.pc = next]
  <1>1. c \in ThreadState /\ IsCall(c)
    BY DEF Threads, GoodCall
  <1>2. e \in ThreadState /\ IsCall(e)
    BY <1>1 DEF ThreadState, IsCall
  <1>3. th' = [th EXCEPT ![t] = e]
    BY DEF Goto
  <1> QED BY <1>2, <1>3, ThreadStep DEF GoodCall

(* The overlay file is created for a copy-up. *)
LEMMA PrepareOverlayInv ==
    ASSUME IInv, NEW t \in Thread, prepare_overlay(t)
    PROVE  IInv'
  <1> USE DEF IInv, index, caches
  <1> DEFINE c == th[t]
  <1>1. /\ c.pc = "decided" /\ c.dec = "CowFrom" /\ c.at \in Path /\ c \in ThreadState
        /\ IsCall(c) /\ SoundCall(c)
    BY Inside DEF prepare_overlay, Decided, Copies
  <1>2. SoundCall([c EXCEPT !.pc = "copy"])
    BY <1>1 DEF SoundCall, ThreadState, is_write_access
  <1>3. Threads'
    BY <1>1, <1>2, NewPC DEF prepare_overlay, PC
  <1>4. Files'
    BY <1>1, ResurrectType DEF prepare_overlay, Files, Token
  <1> QED BY <1>3, <1>4, SameCaches DEF prepare_overlay, Tables

(* The copy-up ends. *)
LEMMA CowCopyInv ==
    ASSUME IInv, NEW t \in Thread, cow_copy_verified(t)
    PROVE  IInv'
  <1> USE DEF IInv, index, caches
  <1> DEFINE c == th[t]
  <1>1. /\ c.pc = "copy" /\ c.at \in Path /\ c \in ThreadState
        /\ IsCall(c) /\ SoundCall(c)
    BY Inside DEF cow_copy_verified
  <1>2. SoundCall([c EXCEPT !.pc = "prepared"])
    BY <1>1 DEF SoundCall, ThreadState, is_write_access
  <1>3. Threads'
    BY <1>1, <1>2, NewPC DEF cow_copy_verified, PC
  <1>4. ovl' \in [Path -> Token]
    BY <1>1 DEF cow_copy_verified, Files, Token
  <1>5. Files'
    BY <1>4, ExcuseType DEF cow_copy_verified, Fault, Files
  <1> QED BY <1>3, <1>5, SameCaches DEF cow_copy_verified, Tables

(* The decision of a prepared call is Cow, and lets it write if it wants to. *)
LEMMA PreparedSound ==
    ASSUME IInv, NEW t \in Thread, Prepared(t)
    PROVE  /\ th[t].pc \in {"decided", "prepared"}
           /\ th[t].dec \in Cow
           /\ Sound(th[t].at, is_write_access(th[t]), th[t].dec)
           /\ is_write_access(th[t]) => MayOvl(th[t].at)
  <1>1. th[t].pc \in {"decided", "prepared"}
    BY DEF Prepared, Decided
  <1>2. SoundCall(th[t])
    BY <1>1, Inside
  <1>3. th[t].dec \in Cow
    BY <1>2 DEF Prepared, Decided, SoundCall, Cow
  <1>4. Sound(th[t].at, is_write_access(th[t]), th[t].dec)
    BY <1>1, <1>2 DEF SoundCall
  <1> QED BY <1>1, <1>3, <1>4 DEF Sound

(* The kernel opens the overlay file in place of the real one. *)
LEMMA OpenOverlayInv ==
    ASSUME IInv, NEW t \in Thread, OpenOverlay(t)
    PROVE  IInv'
  <1> USE DEF IInv, index, caches, history
  <1> DEFINE c == th[t]
             p == c.at
             disp == HandleDisp(t)
  <1>1. /\ c.pc \in {"decided", "prepared"} /\ c.dec \in Cow
        /\ Sound(p, is_write_access(c), c.dec)
    BY PreparedSound DEF OpenOverlay
  <1>2. /\ c \in ThreadState /\ IsCall(c) /\ SoundCall(c)
        /\ p \in Path /\ p = c.path /\ owner[t] \in Process
    BY <1>1, Inside DEF OpenOverlay, FirstPath
  <1>3. CASE Opens(ovl[p], disp)
    <2> DEFINE e == [c EXCEPT !.pc = "publish"]
    <2>1. /\ ovl' = [ovl EXCEPT ![p] = Content(t, ovl[p], disp)]
          /\ UNCHANGED <<real, owner, rule, index, caches>>
          /\ \/ ViewOpens(t, p) /\ excuse' = Forgive(p, disp)
             \/ UNCHANGED history
          /\ th' = [th EXCEPT ![t] = IF c.op = "query" THEN Idle ELSE e]
      BY <1>3 DEF OpenOverlay
    <2>2. e \in ThreadState /\ IsCall(e)
      BY <1>2 DEF ThreadState, PC, IsCall
    <2>3. SoundCall(e)
      BY <1>1, <1>2 DEF SoundCall, ThreadState, is_write_access
    <2>4. Threads'
      BY <2>1, <2>2, <2>3, IdleIsGood, ThreadStep DEF GoodCall
    <2>5. ovl' \in [Path -> Token]
      <3>1. Content(t, ovl[p], disp) \in Token
        BY <1>2, ContentType DEF Files
      <3> QED BY <1>2, <2>1, <3>1 DEF Files
    <2>6. Files'
      BY <1>2, <2>1, <2>5, ViewOpensType, ForgiveType DEF Files
    <2> QED BY <2>1, <2>4, <2>6, SameCaches DEF Tables
  <1>4. CASE ~Opens(ovl[p], disp)
    <2>1. /\ published' = overlay_publish_forget(owner[t], p)
          /\ hook' = Invalidate(owner[t], p)
          /\ Return(t)
          /\ UNCHANGED <<real, ovl, history, owner, rule, index>>
      BY <1>4 DEF OpenOverlay
    <2>2. Caches'
      BY <1>2, <2>1, ForgetStep
    <2>3. Tables'
      BY <1>2, <2>1 DEF overlay_publish_forget, Tables
    <2> QED BY <2>1, <2>2, <2>3, ReturnStep DEF Files
  <1> QED BY <1>3, <1>4

(* publish_overlay_decision tells the broker of the overlay file. *)
LEMMA PublishInv ==
    ASSUME IInv, NEW t \in Thread, publish_overlay_decision(t)
    PROVE  IInv'
  <1> USE DEF IInv, index, caches
  <1> DEFINE c == th[t]
             p == c.at
             q == owner[t]
  <1>1. /\ c.pc = "publish" /\ c \in ThreadState /\ IsCall(c) /\ SoundCall(c)
        /\ p \in Path /\ q \in Process
    BY Inside DEF publish_overlay_decision
  <1>2. Threads'
    <2>1. CASE c.op \in {"delete", "rename"}
      <3>1. MayOvl(c.path)
        BY <1>1, <2>1, HandleIsWrite DEF SoundCall, Sound
      <3> QED BY <1>1, <2>1, <3>1, UseHandleStep DEF publish_overlay_decision
    <2>2. CASE c.op \notin {"delete", "rename"}
      BY <2>2, ReturnStep DEF publish_overlay_decision
    <2> QED BY <2>1, <2>2
  <1>3. CASE p \in published[q]
    BY <1>2, <1>3, SameCaches DEF publish_overlay_decision, Files, Tables
  <1>4. CASE p \notin published[q]
    <2>1. idx' \subseteq Path /\ wh' \subseteq Path /\ srv' \in {srv, NoDecisions} /\ Files'
      <3>1. idx \cup {p} \in SUBSET Path /\ wh \in SUBSET Path
        BY <1>1 DEF Tables
      <3> QED BY <1>4, <3>1, SendStep DEF publish_overlay_decision, Tables
    <2>2. Caches'
      BY <1>1, <1>4, <2>1, ForgetStep DEF publish_overlay_decision
    <2>3. Tables'
      BY <1>1, <1>4, <2>1 DEF publish_overlay_decision, Tables
    <2> QED BY <1>2, <2>1, <2>2, <2>3
  <1> QED BY <1>3, <1>4

-----------------------------------------------------------------------------
(* Deleting. *)

(* The kernel deletes a real file. *)
LEMMA DeleteRealInv ==
    ASSUME IInv, NEW t \in Thread, DeleteReal(t)
    PROVE  IInv'
  <1> USE DEF IInv, index, caches
  <1>1. th[t].path \in Path
    BY Inside DEF DeleteReal, Decided
  <1>2. Threads'
    BY ReturnStep DEF DeleteReal
  <1>3. Files'
    BY <1>1 DEF DeleteReal, Files, Token
  <1> QED BY <1>2, <1>3, SameCaches DEF DeleteReal, Tables

(* The kernel deletes an overlay file, or refuses to. *)
LEMMA DeleteOverlayInv ==
    ASSUME IInv, NEW t \in Thread, DeleteOverlay(t)
    PROVE  IInv'
  <1> USE DEF IInv, index, caches
  <1> DEFINE c == th[t]
  <1>1. c.pc \in {"use", "decided"} /\ c.op \in {"delete", "unlink"}
    BY DEF DeleteOverlay, Decided
  <1>2. c \in ThreadState /\ IsCall(c) /\ SoundCall(c) /\ c.path \in Path
    BY <1>1, Inside
  <1>3. \A next \in {"clear", "mark"} : SoundCall([c EXCEPT !.pc = next])
    BY <1>1, <1>2 DEF SoundCall, ThreadState
  <1>4. Threads'
    <2>1. Return(t) \/ Goto(t, "clear") \/ Goto(t, "mark")
      BY DEF DeleteOverlay
    <2> QED BY <1>1, <1>3, <2>1, NewPC, ReturnStep DEF DeleteOverlay, PC
  <1>5. Files'
    BY <1>2 DEF DeleteOverlay, Files, Token
  <1> QED BY <1>4, <1>5, SameCaches DEF DeleteOverlay, Tables

(* A real file outside the project is hidden instead of deleted. *)
LEMMA DeleteExternalInv ==
    ASSUME IInv, NEW t \in Thread, DeleteExternal(t)
    PROVE  IInv'
  <1> USE DEF IInv, index, caches
  <1> DEFINE c == th[t]
  <1>1. c.pc = "use" /\ c.op = "delete"
    BY DEF DeleteExternal
  <1>2. c \in ThreadState /\ IsCall(c) /\ SoundCall(c) /\ c.path \in Path
    BY <1>1, Inside
  <1>3. SoundCall([c EXCEPT !.pc = "mark"])
    BY <1>1, <1>2 DEF SoundCall, ThreadState
  <1>4. Threads'
    BY <1>1, <1>3, NewPC DEF DeleteExternal, PC
  <1>5. Files'
    BY <1>2 DEF DeleteExternal, Files, Token
  <1> QED BY <1>4, <1>5, SameCaches DEF DeleteExternal, Tables

(* The broker forgets an overlaid path. *)
LEMMA ClearOverlayInv ==
    ASSUME IInv, NEW t \in Thread, clear_overlay(t)
    PROVE  IInv'
  <1> USE DEF IInv, index, caches
  <1> DEFINE c == th[t]
  <1>1. c.pc \in {"clear", "decided", "prepared"}
    BY DEF clear_overlay, ClearsSource, Prepared, Decided
  <1>2. c \in ThreadState /\ IsCall(c) /\ SoundCall(c)
    BY <1>1, Inside
  <1>3. c.op = "rename" => MayOvl(c.dst)
    <2>1. CASE c.pc = "clear"
      BY <1>2, <2>1 DEF SoundCall
    <2>2. CASE c.pc # "clear"
      <3>1. Prepared(t) /\ c.at # c.path
        BY <2>2 DEF clear_overlay, ClearsSource, FirstPath
      <3> QED BY <1>2, <3>1, PreparedSound, HandleIsWrite DEF IsCall
    <2> QED BY <2>1, <2>2
  <1>4. SoundCall([c EXCEPT !.pc = "mark"])
    BY <1>2, <1>3 DEF SoundCall, ThreadState
  <1>5. Threads'
    BY <1>1, <1>4, NewPC DEF clear_overlay, PC
  <1>6. idx' \subseteq Path /\ wh' \subseteq Path /\ srv' \in {srv, NoDecisions} /\ Files'
    <2>1. idx \ {c.path} \in SUBSET Path /\ wh \in SUBSET Path
      BY DEF Tables
    <2> QED BY <2>1, SendStep DEF clear_overlay, Tables
  <1>7. Caches'
    <2>1. PICK q \in Process, p \in Path : TRUE
      BY <1>1, Inside
    <2> QED BY <1>6, <2>1, ForgetStep DEF clear_overlay
  <1> QED BY <1>5, <1>6, <1>7 DEF clear_overlay, Tables

(* The broker marks a path deleted. *)
LEMMA RecordWhiteoutInv ==
    ASSUME IInv, NEW t \in Thread, record_whiteout(t)
    PROVE  IInv'
  <1> USE DEF IInv
  <1> DEFINE c == th[t]
  <1>1. /\ c.pc = "mark" /\ c \in ThreadState /\ IsCall(c) /\ SoundCall(c)
        /\ c.path \in Path /\ owner[t] \in Process
    BY Inside DEF record_whiteout
  <1>2. Threads'
    <2>1. CASE c.op = "rename"
      <3>1. SoundCall([c EXCEPT !.pc = "index"])
        BY <1>1, <2>1 DEF SoundCall, ThreadState
      <3> QED BY <1>1, <2>1, <3>1, NewPC DEF record_whiteout, PC
    <2>2. CASE c.op # "rename"
      BY <2>2, ReturnStep DEF record_whiteout
    <2> QED BY <2>1, <2>2
  <1>3. idx' \subseteq Path /\ wh' \subseteq Path /\ srv' \in {srv, NoDecisions} /\ Files'
    <2>1. idx \in SUBSET Path /\ wh \cup {c.path} \in SUBSET Path
      BY <1>1 DEF Tables
    <2> QED BY <2>1, SendStep DEF record_whiteout, Tables
  <1>4. Caches'
    BY <1>1, <1>3, ForgetStep DEF record_whiteout
  <1> QED BY <1>2, <1>3, <1>4 DEF record_whiteout, Tables

-----------------------------------------------------------------------------
(* Renaming. *)

(* The broker learns the destination of a rename. *)
LEMMA RecordDestinationInv ==
    ASSUME IInv, NEW t \in Thread, RecordDestination(t)
    PROVE  IInv'
  <1> USE DEF IInv
  <1> DEFINE c == th[t]
  <1>1. /\ c.pc = "index" /\ c \in ThreadState /\ IsCall(c) /\ SoundCall(c)
        /\ owner[t] \in Process
    BY Inside DEF RecordDestination
  <1>2. c.dst \in Path
    BY <1>1 DEF SoundCall, IsCall
  <1>3. SoundCall([c EXCEPT !.pc = "move"])
    BY <1>1 DEF SoundCall, ThreadState
  <1>4. Threads'
    BY <1>1, <1>3, NewPC DEF RecordDestination, PC
  <1>5. idx' \subseteq Path /\ wh' \subseteq Path /\ srv' \in {srv, NoDecisions} /\ Files'
    <2>1. idx \cup {c.dst} \in SUBSET Path /\ wh \in SUBSET Path
      BY <1>2 DEF Tables
    <2> QED BY <2>1, SendStep DEF RecordDestination, Tables
  <1>6. Caches'
    BY <1>1, <1>2, <1>5, ForgetStep DEF RecordDestination
  <1> QED BY <1>4, <1>5, <1>6 DEF RecordDestination, Tables

(* Where a rename takes its file from and puts it. *)
LEMMA MoveSound ==
    ASSUME IInv, NEW t \in Thread, Move(t)
    PROVE  /\ th[t].path \in Path /\ th[t].dst \in Path
           /\ th[t].on = "real" => MayReal(th[t].path)
           /\ th[t].on = "ovl" => MayOvl(th[t].path)
           /\ th[t].pc = "decided" => MayReal(th[t].dst)
           /\ th[t].pc # "decided" => MayOvl(th[t].dst)
  <1> DEFINE c == th[t]
  <1>1. c.op = "rename" /\ c.pc \in {"move", "decided"}
    BY DEF Move, Decided
  <1>2. c \in ThreadState /\ IsCall(c) /\ SoundCall(c)
    BY <1>1, Inside
  <1>3. ASSUME c.pc = "decided" PROVE MayReal(c.dst)
    <2>1. c.dec = "Passthrough" /\ c.at # c.path
      BY <1>3 DEF Move, FirstPath
    <2>2. c.at = c.dst
      BY <1>2, <2>1 DEF IsCall
    <2> QED BY <1>1, <1>2, <1>3, <2>1, <2>2, HandleIsWrite DEF SoundCall, Sound
  <1> QED BY <1>1, <1>2, <1>3 DEF IsCall, SoundCall

(* The kernel moves the file of a rename, or refuses to. *)
LEMMA MoveInv ==
    ASSUME IInv, NEW t \in Thread, Move(t)
    PROVE  IInv'
  <1> USE DEF IInv, index, caches
  <1> DEFINE s == th[t].path
             d == th[t].dst
             toReal == th[t].pc = "decided"
             file == IF th[t].on = "ovl" THEN ovl[s] ELSE real[s]
             Why == SUBSET {"overlap", "fault", "recreated", "moved", "unlisted", "vanished"}
  <1>1. s \in Path /\ d \in Path
    BY MoveSound
  <1>2. file \in Token
    BY <1>1 DEF Files
  <1>3. real' \in [Path -> Token] /\ ovl' \in [Path -> Token]
    <2>1. \A f \in [Path -> Token] : [f EXCEPT ![s] = None] \in [Path -> Token]
      BY <1>1 DEF Token
    <2>2. \A f \in [Path -> Token] : [f EXCEPT ![d] = file] \in [Path -> Token]
      BY <1>1, <1>2
    <2> QED BY <2>1, <2>2 DEF Move, Files
  <1>4. view' \in [Path -> Token]
    <2>1. CASE UNCHANGED view
      BY <2>1 DEF Files
    <2>2. CASE ViewMoves(t)
      BY <1>1, <2>2 DEF ViewMoves, Files, Token
    <2> QED BY <2>1, <2>2 DEF Move
  <1>5. excuse' \in [Path -> Why]
    <2>1. /\ Forgive(d, th[t].disp) \in [Path -> Why] /\ Resurrect(d) \in [Path -> Why]
          /\ excuse \in [Path -> Why]
      BY <1>1, ForgiveType, ResurrectType DEF Files
    <2> HIDE DEF s, d
    <2>2. ASSUME NEW f \in [Path -> Why], NEW W \in Why
          PROVE  [f EXCEPT ![s] = @ \cup W] \in [Path -> Why]
      BY <1>1, <2>2
    <2>3. ASSUME NEW f \in [Path -> Why], NEW W \in Why
          PROVE  [f EXCEPT ![d] = @ \cup W] \in [Path -> Why]
      BY <1>1, <2>3
    <2>4. \/ \E W \in Why :
                excuse' = [Forgive(d, th[t].disp) EXCEPT ![d] = @ \cup excuse[s], ![s] = @ \cup W]
          \/ excuse' = Resurrect(d)
          \/ \E W \in Why : excuse' = [excuse EXCEPT ![s] = @ \cup W]
      BY DEF Move, s, d
    <2>5. excuse[s] \in Why
      BY <1>1, <2>1
    <2> QED BY <2>1, <2>2, <2>3, <2>4, <2>5
  <1>6. Files'
    BY <1>3, <1>4, <1>5 DEF Files
  <1>7. Threads'
    BY ReturnStep DEF Move
  <1> QED BY <1>6, <1>7, SameCaches DEF Move, Tables

-----------------------------------------------------------------------------
(* The calls and caches of a killed process disappear. *)
LEMMA ProcessDiesInv ==
    ASSUME IInv, NEW q \in Process, ProcessDies(q)
    PROVE  IInv'
  <1> USE DEF IInv, index
  <1>1. GoodCall(Idle)'
    BY IdleIsGood, OverlayAssumption
    DEF Idle, GoodCall, ThreadState, SoundCall, PC, Disposition, Decision
  <1>2. \A t \in Thread : GoodCall(th[t])'
    <2> SUFFICES ASSUME NEW t \in Thread PROVE GoodCall(th[t])'
      OBVIOUS
    <2>1. th'[t] = Idle \/ th'[t] = th[t]
      BY DEF ProcessDies
    <2>2. GoodCall(th[t]) /\ UNCHANGED rule
      BY DEF Threads, ProcessDies
    <2>3. CASE th'[t] = Idle
      BY <2>3, OverlayAssumption
      DEF Idle, GoodCall, ThreadState, SoundCall, PC, Disposition, Decision
    <2>4. CASE th'[t] = th[t]
      BY <2>2, <2>4 DEF GoodCall, IsCall, SoundCall, Sound, MayReal, MayOvl, is_write_access
    <2> QED BY <2>1, <2>3, <2>4
  <1>3. Threads'
    BY <1>2, IdleIsGood DEF ProcessDies, Threads, GoodCall
  <1>4. Caches'
    <2>1. NoDecisions \in Decisions /\ \A p \in Path, w \in BOOLEAN : NoDecisions[p][w] = None
      BY DEF NoDecisions, Decisions, Decision
    <2>2. \A p \in Path, w \in BOOLEAN : Sound(p, w, None)'
      BY OverlayAssumption DEF Sound, Cow
    <2>3. \A d : \A p \in Path, w \in BOOLEAN : Sound(p, w, d) => Sound(p, w, d)'
      BY DEF ProcessDies, Sound, MayReal, MayOvl
    <2> QED BY <2>1, <2>2, <2>3 DEF ProcessDies, Caches
  <1>5. Files'
    BY ExcuseType DEF ProcessDies, Files
  <1>6. Tables'
    BY DEF ProcessDies, Tables
  <1> QED BY <1>3, <1>4, <1>5, <1>6

(* Every step preserves the invariant. *)
LEMMA NextInv == IInv /\ [Next]_vars => IInv'
  <1> SUFFICES ASSUME IInv, [Next]_vars PROVE IInv'
    OBVIOUS
  <1>1. CASE UNCHANGED vars
    <2>1. Threads'
      BY <1>1 DEF IInv, vars, Threads, GoodCall, IsCall, SoundCall, Sound, MayReal, MayOvl,
                  is_write_access
    <2> QED BY <1>1, <2>1, SameCaches DEF IInv, vars, Files, Tables
  <1>2. ASSUME NEW t \in Thread, Step(t)
        PROVE  IInv'
    BY <1>2, CallInv, DecideInv, InsertInv, ReplyInv, DecideFailsInv, FreshInv, ReviveInv,
       RefuseInv, OpenRealInv, PrepareOverlayInv, CowCopyInv, OpenOverlayInv, PublishInv,
       DeleteRealInv, DeleteOverlayInv, DeleteExternalInv, ClearOverlayInv, RecordWhiteoutInv,
       RecordDestinationInv, MoveInv
    DEF Step
  <1> QED BY <1>1, <1>2, ProcessDiesInv DEF Next

(* The inductive invariant holds in every reachable state. *)
LEMMA Invariance == Spec => []IInv
  BY InitInv, NextInv, PTL DEF Spec

(* Every variable keeps its type: the tables of the broker and the caches of *)
(* the processes hold paths and decisions, and a call never looks up a path  *)
(* that is not its own (hook_nt_create_file, hook_nt_set_information_file).  *)
THEOREM TypeCorrect == Spec => []TypeOK
  <1>1. IInv => TypeOK
    <2> SUFFICES ASSUME IInv PROVE TypeOK
      OBVIOUS
    <2>1. ASSUME NEW t \in Thread
          PROVE  /\ th[t].pc \in PC /\ th[t].dec \in Decision /\ th[t].on \in {"real", "ovl", None}
                 /\ Busy(t) => th[t].at \in Paths(th[t])
      BY OverlayAssumption DEF IInv, Threads, GoodCall, ThreadState, IsCall, Busy, Paths
    <2> QED BY <2>1 DEF IInv, Files, Caches, Tables, TypeOK
  <1> QED BY <1>1, Invariance, PTL

-----------------------------------------------------------------------------
(* Containment, action by action. *)

Contained == \A p \in Path :
    /\ real'[p] # real[p] => p \in Project \/ rule[p].write = "Passthrough"
    /\ ovl'[p] # ovl[p] => p \in External /\ rule[p].write = "Cow"

(* An open of the real file changes it only as a write decided Passthrough. *)
LEMMA OpenRealContained ==
    ASSUME IInv, NEW t \in Thread, OpenReal(t)
    PROVE  Contained
  <1> DEFINE p == th[t].at
  <1>1. p = th[t].path /\ UNCHANGED ovl
    BY DEF OpenReal, FirstPath
  <1>2. CASE UNCHANGED real
    BY <1>1, <1>2 DEF Contained
  <1>3. CASE Mutates(th[t]) /\ real' = [real EXCEPT ![p] = Content(t, real[p], th[t].disp)]
    <2>1. MayReal(p)
      BY <1>1, <1>3, MutatesIsWrite, OpenRealSound
    <2>2. \A x \in Path : x # p => real'[x] = real[x]
      BY <1>3 DEF IInv, Files
    <2> QED BY <1>1, <2>1, <2>2 DEF Contained, MayReal
  <1> QED BY <1>2, <1>3 DEF OpenReal

(* A copy-up goes to a path whose writes are copy-on-write. *)
LEMMA CopyContained ==
    ASSUME IInv, NEW t \in Thread, prepare_overlay(t) \/ cow_copy_verified(t)
    PROVE  Contained
  <1> DEFINE c == th[t]
             p == c.at
  <1>1. c.pc \in {"decided", "copy"} /\ UNCHANGED real
    BY DEF prepare_overlay, cow_copy_verified, Decided
  <1>2. SoundCall(c)
    BY <1>1, Inside
  <1>3. c.dec = "CowFrom"
    BY <1>2 DEF prepare_overlay, cow_copy_verified, Copies, SoundCall
  <1>4. MayOvl(p)
    BY <1>1, <1>2, <1>3 DEF SoundCall, Sound, Cow
  <1>5. \A x \in Path : x # p => ovl'[x] = ovl[x]
    BY DEF prepare_overlay, cow_copy_verified, IInv, Files
  <1> QED BY <1>1, <1>4, <1>5 DEF Contained, MayOvl

(* A redirected open changes the overlay file only as a write decided Cow. *)
LEMMA OpenOverlayContained ==
    ASSUME IInv, NEW t \in Thread, OpenOverlay(t)
    PROVE  Contained
  <1> DEFINE c == th[t]
             p == c.at
  <1>1. UNCHANGED real
    BY DEF OpenOverlay
  <1>2. c.pc # "idle"
    BY PreparedSound DEF OpenOverlay
  <1>3. c \in ThreadState /\ IsCall(c)
    BY <1>2, Inside
  <1>4. CASE is_write_access(c)
    <2>1. MayOvl(p)
      BY <1>4, PreparedSound DEF OpenOverlay
    <2>2. \A x \in Path : x # p => ovl'[x] = ovl[x]
      BY DEF OpenOverlay, IInv, Files
    <2> QED BY <1>1, <2>1, <2>2 DEF Contained, MayOvl
  <1>5. CASE ~is_write_access(c)
    <2>1. c.disp = "OPEN" /\ c.op # "write" /\ HandleDisp(t) = "OPEN"
      BY <1>3, <1>5 DEF is_write_access, IsCall, ThreadState, HandleDisp
    <2>2. Content(t, ovl[p], HandleDisp(t)) = ovl[p]
      BY <2>1 DEF Content, Opened
    <2>3. ovl' = ovl
      BY <2>2 DEF OpenOverlay, IInv, Files
    <2> QED BY <1>1, <2>3 DEF Contained
  <1> QED BY <1>4, <1>5

(* A delete removes a file of the layer its decision or handle is for. *)
LEMMA DeleteContained ==
    ASSUME IInv, NEW t \in Thread, DeleteReal(t) \/ DeleteOverlay(t)
    PROVE  Contained
  <1> DEFINE c == th[t]
             p == c.path
  <1>1. c.pc \in {"use", "decided"}
    BY DEF DeleteReal, DeleteOverlay, Decided
  <1>2. c \in ThreadState /\ IsCall(c) /\ SoundCall(c)
    BY <1>1, Inside
  <1>3. CASE DeleteReal(t)
    <2>1. MayReal(p)
      BY <1>2, <1>3, HandleIsWrite DEF DeleteReal, Decided, SoundCall, Sound, IsCall
    <2>2. UNCHANGED ovl /\ \A x \in Path : x # p => real'[x] = real[x]
      BY <1>3 DEF DeleteReal, IInv, Files
    <2> QED BY <2>1, <2>2 DEF Contained, MayReal
  <1>4. CASE DeleteOverlay(t)
    <2>1. MayOvl(p)
      BY <1>2, <1>4, HandleIsWrite DEF DeleteOverlay, Decided, SoundCall, Sound, IsCall
    <2>2. UNCHANGED real /\ \A x \in Path : x # p => ovl'[x] = ovl[x]
      BY <1>4 DEF DeleteOverlay, IInv, Files
    <2> QED BY <2>1, <2>2 DEF Contained, MayOvl
  <1> QED BY <1>3, <1>4

(* A rename takes from and puts into layers that its handle and decision allow. *)
LEMMA MoveContained ==
    ASSUME IInv, NEW t \in Thread, Move(t)
    PROVE  Contained
  <1> DEFINE c == th[t]
             s == c.path
             d == c.dst
  <1> SUFFICES ASSUME NEW p \in Path
               PROVE  /\ real'[p] # real[p] => MayReal(p)
                      /\ ovl'[p] # ovl[p] => MayOvl(p)
    BY DEF Contained, MayReal, MayOvl
  <1>1. real'[p] # real[p] => (p = s /\ c.on = "real") \/ (p = d /\ c.pc = "decided")
    BY DEF Move, IInv, Files
  <1>2. ovl'[p] # ovl[p] => (p = s /\ c.on = "ovl") \/ (p = d /\ c.pc # "decided")
    BY DEF Move, IInv, Files
  <1> QED BY <1>1, <1>2, MoveSound

(* The promise of the sandbox: real files change only inside the project or  *)
(* under a Passthrough rule, and the overlay only at paths whose writes are  *)
(* copy-on-write (is_write_access, decide, compute, the hooks of opens,      *)
(* deletes and renames).                                                     *)
THEOREM Contains == Spec => Containment
  <1>1. ASSUME IInv, [Next]_vars PROVE Contained
    <2>1. ASSUME NEW t \in Thread, Step(t) PROVE Contained
      <3>1. ASSUME UNCHANGED <<real, ovl>> PROVE Contained
        BY <3>1 DEF Contained
      <3>2. CASE \/ \E r \in Calls : Call(t, r)
                 \/ Decide(t) \/ Insert(t) \/ Reply(t) \/ DecideFails(t)
                 \/ decide_fresh_if_overlay_missing(t) \/ Revive(t) \/ Refuse(t)
        BY <3>1, <3>2
        DEF Call, Decide, Insert, Reply, DecideFails, decide_fresh_if_overlay_missing, Revive,
            Refuse
      <3>3. CASE \/ publish_overlay_decision(t) \/ DeleteExternal(t) \/ clear_overlay(t)
                 \/ record_whiteout(t) \/ RecordDestination(t)
        BY <3>1, <3>3
        DEF publish_overlay_decision, DeleteExternal, clear_overlay, record_whiteout,
            RecordDestination
      <3> QED BY <1>1, <2>1, <3>2, <3>3, OpenRealContained, CopyContained, OpenOverlayContained,
                 DeleteContained, MoveContained
              DEF Step
    <2>2. ASSUME NEW q \in Process, ProcessDies(q) PROVE Contained
      BY <2>2 DEF ProcessDies, Contained
    <2>3. CASE UNCHANGED vars
      BY <2>3 DEF vars, Contained
    <2> QED BY <1>1, <2>1, <2>2, <2>3 DEF Next
  <1>2. IInv /\ [Next]_vars =>
           [\A p \in Path :
              /\ real'[p] # real[p] => p \in Project \/ rule[p].write = "Passthrough"
              /\ ovl'[p] # ovl[p] => p \in External /\ rule[p].write = "Cow"]_vars
    BY <1>1 DEF Contained
  <1> QED BY <1>2, Invariance, PTL DEF Spec, Containment

-----------------------------------------------------------------------------
(* The private view.  PrivateView says what a process would see if it asked  *)
(* now, of paths no call is on.  To be inductive it has to say, for each     *)
(* path, how files, tables and caches fit together then (Steady), and for    *)
(* each point a call on the path may be at, how far they are from that (Mid).*)

(* The rules by which reads pass through; a rule that denies reads or makes  *)
(* them copy-on-write shows a path to some kinds of open and not to others.  *)
ReadsPassThrough == \A r \in Rules : r.read = "Passthrough"

(* p is what the view says, or a deleted file that came back. *)
Calm(p) == excuse[p] \subseteq {"unlisted", "recreated"}

Shows(p, file) == view[p] = file \/ "recreated" \in excuse[p]

Unpublished(p) == \A q \in Process : p \notin published[q]

(* A path that is written in place: hidden, or the real file. *)
Lower(p) ==
    \/ p \notin Project /\ p \in wh /\ view[p] = None
    \/ (p \in Project \/ p \notin wh) /\ Shows(p, real[p])

(* Nobody has written p. *)
Virgin(p) == p \notin idx /\ p \notin wh /\ view[p] = real[p] /\ Unpublished(p)

(* A path whose writes are copied: its overlay file, hidden, or untouched. *)
Upper(p) ==
    \/ ovl[p] # None /\ Shows(p, ovl[p])
    \/ ovl[p] = None /\ p \notin idx /\ p \in wh /\ view[p] = None
    \/ ovl[p] = None /\ Virgin(p)

Shape(p) == IF MayOvl(p) THEN Upper(p) ELSE Lower(p)

(* What the broker has cached is what it would compute, but for the read of  *)
(* a path that was copied up and not published.                              *)
ServesWell(p) ==
    \A w \in BOOLEAN :
       \/ srv[p][w] = None
       \/ srv[p][w] = compute(p, w)
       \/ ~w /\ srv[p][w] = "Passthrough" /\ MayOvl(p) /\ Virgin(p)

ServesNothing(p) == \A w \in BOOLEAN : srv[p][w] = None

(* A process that has cached Cow does not miss a file to copy up. *)
HookCow(p) ==
    \A q \in Process :
       hook[q][p][TRUE] = "Cow" /\ ovl[p] = None /\ p \notin wh => real[p] = None

(* An overlay file without a lower one is in the index. *)
Indexed(p) == ovl[p] # None /\ real[p] = None /\ p \notin idx => "unlisted" \in excuse[p]

Steady(p) == Shape(p) /\ ServesWell(p) /\ HookCow(p) /\ Indexed(p)

(* What processes have cached, whatever call is on p. *)
HookKnows(p) ==
    \A q \in Process, w \in BOOLEAN :
       /\ hook[q][p][w] \notin {"Passthrough", "Hidden"}
       /\ hook[q][p][w] = "Deny" => w /\ p \in External /\ rule[p].write = "Deny"
       /\ hook[q][p][w] = "CowFrom" => real[p] # None

(* p was hidden and a create has just removed its marker. *)
Revived(p) ==
    /\ p \in External /\ rule[p].write # "Deny"
    /\ p \notin idx /\ p \notin wh /\ ovl[p] = None /\ view[p] = None
    /\ srv[p][FALSE] = None /\ ServesWell(p)

(* The real file at p is the one in the view. *)
OnReal(p) == MayReal(p) /\ (p \in Project \/ p \notin wh)

-----------------------------------------------------------------------------
(* Where a call may be. *)

Lookup == {"decide", "insert", "reply", "decided"}

(* What is known of a call whatever the others do. *)
Shaped(t) ==
    LET c == th[t]
    IN  IF c.pc = "idle" THEN c.path = None /\ c.dst = None
        ELSE
          /\ c.op = "rename" <=> c.dst # None
          /\ c.dst # c.path
          /\ c.op \in {"read", "write"} => c.disp \in Disposition
          /\ c.op = "rename" => c.disp \in {"keep", "replace"}
          /\ c.retry \subseteq (IF c.at = c.path THEN Retries(c) ELSE {"revive"})
          /\ c.op = "rename" => (c.on # None <=> c.at # c.path)
          /\ c.on # None => c.op \in {"delete", "rename"}
          /\ c.pc \in {"copy", "prepared"} => c.op # "unlink"
          /\ c.pc = "publish" => c.op # "unlink" /\ MayOvl(c.path)
          /\ c.pc = "use" => c.op = "delete" /\ c.on # None
          /\ c.pc \in {"clear", "mark"} /\ c.op # "rename" =>
                /\ c.op \in {"delete", "unlink"}
                /\ c.op = "delete" => c.on # None
                /\ c.op = "unlink" => MayOvl(c.path)
          /\ c.pc \in {"clear", "mark", "index", "move"} /\ c.op = "rename" => c.at # c.path

(* Nobody is on a path of the call, unless all of them read. *)
Alone(t) ==
    \A u \in Thread \ {t} :
       Paths(th[t]) \cap Paths(th[u]) # {} => ~Mutates(th[t]) /\ ~Mutates(th[u])

(* A rename has its file. *)
Holds(t) ==
    LET c == th[t]
    IN  c.op = "rename" =>
          /\ c.pc = "publish" \/ c.on = "ovl" => ovl[c.path] # None
          /\ c.on = "real" => real[c.path] # None

(* A call that changes p and is looking it up. *)
LooksUp(t, p) ==
    LET c == th[t]
        h == hook[owner[t]][p][TRUE]
    IN  /\ \/ Steady(p)
           \/ Revived(p) /\ c.retry = {} /\ (p = c.path => is_create_disposition(c.disp))
        /\ c.pc \in {"insert", "reply"} => c.dec = compute(p, TRUE)
        /\ c.pc = "decide" /\ c.retry = {} /\ c.op # "unlink" => h = None
        /\ c.pc = "decided" =>
              /\ c.dec \notin Cow => c.dec = compute(p, TRUE)
              /\ c.dec = "CowFrom" => real[p] # None
              /\ p # c.path /\ c.dec = "Cow" /\ ovl[p] = None => view[p] = None
        /\ p = c.path /\ c.op # "unlink" /\ "fresh" \notin c.retry =>
              /\ p \notin published[owner[t]]
              /\ c.pc = "decide" => h = None
              /\ c.pc = "decided" => c.dec = compute(p, TRUE)

(* It copies the lower file. *)
CopiesUp(t, p) ==
    LET c == th[t]
    IN  /\ MayOvl(p) /\ ovl[p] # None /\ real[p] # None /\ Shows(p, real[p])
        /\ c.pc = "prepared" => ovl[p] = real[p]
        /\ p = c.path => p \notin published[owner[t]] /\ ServesWell(p)

(* It has opened the overlay file. *)
Publishes(t, p) ==
    /\ ovl[p] # None /\ Shows(p, ovl[p])
    /\ p \in published[owner[t]] => ServesWell(p) /\ Indexed(p)

(* It is busy with its other path. *)
Waits(t, p) == Steady(p) /\ (p = th[t].path /\ th[t].on = "real" => OnReal(p))

(* It has a handle to delete by. *)
Uses(t, p) ==
    /\ Steady(p)
    /\ th[t].on = "real" => OnReal(p)
    /\ th[t].on = "ovl" => ovl[p] # None

(* It has deleted the overlay file. *)
Clears(t, p) == MayOvl(p) /\ ovl[p] = None /\ view[p] = None

(* It is about to hide p. *)
Marks(t, p) ==
    /\ p \in External
    /\ IF MayOvl(p)
       THEN \/ ovl[p] # None /\ Shows(p, ovl[p]) /\ Indexed(p)
            \/ ovl[p] = None /\ p \notin idx /\ view[p] = None
       ELSE MayReal(p) /\ view[p] = None

(* It is about to move p away. *)
Leaves(t, p) ==
    LET c == th[t]
    IN  /\ ServesNothing(p) /\ p \notin idx
        /\ c.pc # "mark" => p \in wh
        /\ IF c.on = "ovl" THEN MayOvl(p) /\ ovl[p] # None /\ Shows(p, ovl[p])
           ELSE MayReal(p) /\ Shows(p, real[p])

(* It is about to move a file to p. *)
Arrives(t, p) ==
    /\ ServesNothing(p) /\ MayOvl(p)
    /\ th[t].pc = "move" => p \in idx
    /\ \/ ovl[p] # None /\ Shows(p, ovl[p])
       \/ ovl[p] = None /\ view[p] = None

(* What holds of a path p of a call that changes it, at each point. *)
Mid(t, p) ==
    LET c == th[t]
        first == Lookup \cup {"copy", "prepared", "publish"}
        last == {"mark", "index", "move"}
    IN  /\ c.pc \in Lookup /\ p = c.at => LooksUp(t, p)
        /\ c.pc \in {"copy", "prepared"} /\ p = c.at => CopiesUp(t, p)
        /\ c.pc = "publish" /\ p = c.at => Publishes(t, p)
        /\ c.pc \in first /\ p # c.at => Waits(t, p)
        /\ c.pc = "use" => Uses(t, p)
        /\ c.pc = "clear" => Clears(t, p)
        /\ c.pc = "mark" /\ c.op # "rename" => Marks(t, p)
        /\ c.pc \in last /\ c.op = "rename" /\ p = c.path => Leaves(t, p)
        /\ c.pc \in last /\ c.op = "rename" /\ p = c.dst => Arrives(t, p)

(* What holds of a call that reads p. *)
Reads(t, p) ==
    LET c == th[t]
    IN  /\ c.pc \in Lookup \cup {"publish"}
        /\ c.pc = "insert" => c.dec = compute(p, FALSE)
        /\ c.pc \in {"insert", "reply"} => c.dec # "Deny"
        /\ c.pc = "publish" => ovl[p] # None

(* What holds of a path of t, while t is on it and after. *)
Own(t, p) ==
    CASE th[t].pc = "idle" -> Steady(p)
      [] th[t].pc # "idle" /\ Mutates(th[t]) -> Mid(t, p)
      [] th[t].pc # "idle" /\ ~Mutates(th[t]) -> Steady(p) /\ Reads(t, p)

(* Only copied paths have overlay files, and only what a call may delete is  *)
(* hidden.                                                                   *)
OnlyCow ==
    \A p \in Path :
       /\ ovl[p] # None \/ p \in idx => MayOvl(p)
       /\ p \in wh => MayOvl(p) \/ MayReal(p)

Untouched(p) == \A t \in Thread : p \in Paths(th[t]) => ~Mutates(th[t])

PathInv(p) ==
    Calm(p) => /\ HookKnows(p)
               /\ Untouched(p) => Steady(p)
               /\ \A t \in Thread : p \in Paths(th[t]) => Own(t, p)

ThreadInv(t) == Shaped(t) /\ ((\E p \in Paths(th[t]) : Calm(p)) => Alone(t) /\ Holds(t))

VInv == OnlyCow /\ (\A t \in Thread : ThreadInv(t)) /\ (\A p \in Path : PathInv(p))

-----------------------------------------------------------------------------
(* What does not change. *)

(* The files, the tables and the view at p. *)
SameFile(p) ==
    /\ real'[p] = real[p] /\ ovl'[p] = ovl[p] /\ view'[p] = view[p]
    /\ (p \in idx') <=> (p \in idx)
    /\ (p \in wh') <=> (p \in wh)

(* ... where something cached or published may be forgotten. *)
Forgets(p) ==
    /\ SameFile(p)
    /\ \A w \in BOOLEAN :
          /\ srv'[p][w] \in {srv[p][w], None}
          /\ \A q \in Process : hook'[q][p][w] \in {hook[q][p][w], None}
    /\ \A q \in Process : p \in published'[q] => p \in published[q]
    /\ excuse'[p] = excuse[p]

(* The rules, the owners and the other threads. *)
Others(t) == UNCHANGED <<owner, rule>> /\ \A u \in Thread : u # t => th'[u] = th[u]

SameCall(t) ==
    /\ th'[t].pc # "idle"
    /\ th'[t].op = th[t].op /\ th'[t].path = th[t].path
    /\ th'[t].disp = th[t].disp /\ th'[t].dst = th[t].dst

(* What compute answers depends on the files and the tables at the path. *)
LEMMA ComputeSame ==
    ASSUME NEW p, NEW w, UNCHANGED rule, SameFile(p)
    PROVE  compute(p, w)' = compute(p, w)
  <1>1. Whiteouted(p)' <=> Whiteouted(p)
    BY DEF Whiteouted, Overlaid, SameFile
  <1>2. Overlaid(p)' <=> Overlaid(p)
    BY DEF Overlaid, SameFile
  <1> QED BY <1>1, <1>2 DEF compute, SameFile

(* What compute answers, when reads pass through. *)
LEMMA Computes ==
    ASSUME Tables, ReadsPassThrough, NEW p \in Path
    PROVE  /\ p \in Project => \A w \in BOOLEAN : compute(p, w) = "Passthrough"
           /\ p \notin Project /\ Whiteouted(p) => \A w \in BOOLEAN : compute(p, w) = "Hidden"
           /\ p \notin Project /\ ~Whiteouted(p) =>
                 /\ compute(p, FALSE) = IF Overlaid(p) THEN "Cow" ELSE "Passthrough"
                 /\ rule[p].write = "Deny" => compute(p, TRUE) = "Deny"
                 /\ rule[p].write = "Passthrough" => compute(p, TRUE) = "Passthrough"
                 /\ rule[p].write = "Cow" =>
                       compute(p, TRUE) = IF p \notin idx /\ real[p] # None THEN "CowFrom" ELSE "Cow"
           /\ p \notin Project => p \in External /\ rule[p].write \in {"Passthrough", "Cow", "Deny"}
  <1>1. p \notin Project => p \in External
    BY DEF External
  <1>2. p \in External => /\ rule[p].read = "Passthrough"
                          /\ rule[p].write \in {"Passthrough", "Cow", "Deny"}
    BY OverlayAssumption DEF Tables, ReadsPassThrough
  <1>3. ASSUME p \in Project PROVE \A w \in BOOLEAN : compute(p, w) = "Passthrough"
    <2>1. p \notin External
      BY <1>3 DEF External
    <2> QED BY <1>3, <2>1 DEF compute
  <1>4. ASSUME p \notin Project, Whiteouted(p)
        PROVE  \A w \in BOOLEAN : compute(p, w) = "Hidden"
    BY <1>1, <1>4 DEF compute
  <1>5. ASSUME p \notin Project, ~Whiteouted(p)
        PROVE  compute(p, FALSE) = IF Overlaid(p) THEN "Cow" ELSE "Passthrough"
    BY <1>1, <1>2, <1>5 DEF compute
  <1>6. ASSUME p \notin Project, ~Whiteouted(p), rule[p].write = "Deny"
        PROVE  compute(p, TRUE) = "Deny"
    BY <1>1, <1>6 DEF compute
  <1>7. ASSUME p \notin Project, ~Whiteouted(p), rule[p].write = "Passthrough"
        PROVE  compute(p, TRUE) = "Passthrough"
    BY <1>1, <1>7 DEF compute
  <1>8. ASSUME p \notin Project, ~Whiteouted(p), rule[p].write = "Cow"
        PROVE  compute(p, TRUE) = IF p \notin idx /\ real[p] # None THEN "CowFrom" ELSE "Cow"
    BY <1>1, <1>8 DEF compute
  <1> QED BY <1>1, <1>2, <1>3, <1>4, <1>5, <1>6, <1>7, <1>8

(* A path at rest stays at rest when things are forgotten. *)
LEMMA SteadyStays ==
    ASSUME Caches, NEW p \in Path, UNCHANGED rule, Forgets(p), Steady(p)
    PROVE  Steady(p)'
  <1>1. (MayOvl(p)' <=> MayOvl(p)) /\ (Shows(p, real[p])' <=> Shows(p, real[p]))
        /\ (Shows(p, ovl[p])' <=> Shows(p, ovl[p]))
    BY DEF MayOvl, Shows, Forgets, SameFile
  <1>2. Virgin(p) => Virgin(p)'
    BY DEF Virgin, Unpublished, Forgets, SameFile
  <1>3. Shape(p)'
    BY <1>1, <1>2 DEF Shape, Steady, Upper, Lower, Forgets, SameFile
  <1>4. \A w \in BOOLEAN : compute(p, w)' = compute(p, w)
    BY ComputeSame DEF Forgets
  <1>5. ServesWell(p)'
    BY <1>1, <1>2, <1>4 DEF ServesWell, Steady, Forgets
  <1>6. HookCow(p)'
    BY OverlayAssumption DEF HookCow, Steady, Forgets, SameFile
  <1>7. Indexed(p)'
    BY DEF Indexed, Steady, Forgets, SameFile
  <1> QED BY <1>3, <1>5, <1>6, <1>7 DEF Steady

(* The parts of Mid likewise. *)
LEMMA ServesStays ==
    ASSUME NEW p \in Path, UNCHANGED rule, Forgets(p), ServesWell(p)
    PROVE  ServesWell(p)'
  <1>1. MayOvl(p)' <=> MayOvl(p)
    BY DEF MayOvl
  <1>2. Virgin(p) => Virgin(p)'
    BY DEF Virgin, Unpublished, Forgets, SameFile
  <1>4. \A w \in BOOLEAN : compute(p, w)' = compute(p, w)
    BY ComputeSame DEF Forgets
  <1> QED BY <1>1, <1>2, <1>4 DEF ServesWell, Forgets

(* What processes have cached of a path stays true when they forget it. *)
LEMMA KnowsStays ==
    ASSUME NEW p \in Path, UNCHANGED rule, Forgets(p), HookKnows(p)
    PROVE  HookKnows(p)'
  BY OverlayAssumption DEF HookKnows, Forgets, SameFile

(* A revived path stays one. *)
LEMMA RevivedStays ==
    ASSUME NEW p \in Path, UNCHANGED rule, Forgets(p), Revived(p)
    PROVE  Revived(p)'
  <1>1. ServesWell(p)'
    BY ServesStays DEF Revived
  <1> QED BY <1>1 DEF Revived, Forgets, SameFile

(* A call that does nothing at p keeps what holds of it. *)
LEMMA LookupStays ==
    ASSUME IInv, NEW u \in Thread, NEW p \in Path, UNCHANGED <<owner, rule>>, th'[u] = th[u],
           Forgets(p), LooksUp(u, p)
    PROVE  LooksUp(u, p)'
  <1>1. Steady(p) => Steady(p)'
    BY SteadyStays DEF IInv
  <1>2. Revived(p) => Revived(p)'
    BY RevivedStays
  <1>3. compute(p, TRUE)' = compute(p, TRUE)
    BY ComputeSame DEF Forgets
  <1>4. owner[u] \in Process
    BY DEF IInv, Tables
  <1>5. hook'[owner[u]][p][TRUE] \in {hook[owner[u]][p][TRUE], None}
    BY <1>4 DEF Forgets
  <1>6. p \in published'[owner[u]] => p \in published[owner[u]]
    BY <1>4 DEF Forgets
  <1> QED BY <1>1, <1>2, <1>3, <1>5, <1>6 DEF LooksUp, Forgets, SameFile

(* The same for the rest of a changing call. *)
LEMMA MidStays ==
    ASSUME IInv, NEW u \in Thread, NEW p \in Path, UNCHANGED <<owner, rule>>, th'[u] = th[u],
           Forgets(p), Mid(u, p)
    PROVE  Mid(u, p)'
  <1>1. Steady(p) => Steady(p)'
    BY SteadyStays DEF IInv
  <1>2. ServesWell(p) => ServesWell(p)'
    BY ServesStays
  <1>3. owner[u] \in Process
    BY DEF IInv, Tables
  <1>4. p \in published'[owner[u]] => p \in published[owner[u]]
    BY <1>3 DEF Forgets
  <1>5. LooksUp(u, p) => LooksUp(u, p)'
    BY LookupStays
  <1>6. CopiesUp(u, p) => CopiesUp(u, p)'
    BY <1>2, <1>4 DEF CopiesUp, MayOvl, Shows, Forgets, SameFile
  <1>7. Publishes(u, p) => Publishes(u, p)'
    BY <1>2, <1>4 DEF Publishes, Indexed, Shows, Forgets, SameFile
  <1>8. Waits(u, p) => Waits(u, p)'
    BY <1>1 DEF Waits, OnReal, MayReal, Forgets, SameFile
  <1>9. Uses(u, p) => Uses(u, p)'
    BY <1>1 DEF Uses, OnReal, MayReal, Forgets, SameFile
  <1>10. Clears(u, p) => Clears(u, p)'
    BY DEF Clears, MayOvl, Forgets, SameFile
  <1>11. Marks(u, p) => Marks(u, p)'
    BY DEF Marks, Indexed, Shows, MayOvl, MayReal, Forgets, SameFile
  <1>12. ServesNothing(p) => ServesNothing(p)'
    BY DEF ServesNothing, Forgets
  <1>13. Leaves(u, p) => Leaves(u, p)'
    BY <1>12 DEF Leaves, Shows, MayOvl, MayReal, Forgets, SameFile
  <1>14. Arrives(u, p) => Arrives(u, p)'
    BY <1>12 DEF Arrives, Shows, MayOvl, Forgets, SameFile
  <1> QED BY <1>5, <1>6, <1>7, <1>8, <1>9, <1>10, <1>11, <1>13, <1>14 DEF Mid

(* A reader keeps what it knows while the overlay file and the decision      *)
(* stay.                                                                     *)
LEMMA ReadsStay ==
    ASSUME NEW u \in Thread, NEW p \in Path, th'[u] = th[u], ovl'[p] = ovl[p],
           compute(p, FALSE)' = compute(p, FALSE), Reads(u, p)
    PROVE  Reads(u, p)'
  BY DEF Reads

(* Any call keeps what it knows of a path where things are forgotten. *)
LEMMA OwnStays ==
    ASSUME IInv, NEW u \in Thread, NEW p \in Path, UNCHANGED <<owner, rule>>, th'[u] = th[u],
           Forgets(p), Own(u, p)
    PROVE  Own(u, p)'
  <1>1. Steady(p) => Steady(p)'
    BY SteadyStays DEF IInv
  <1>2. Mid(u, p) => Mid(u, p)'
    BY MidStays
  <1>3. compute(p, FALSE)' = compute(p, FALSE) /\ ovl'[p] = ovl[p]
    BY ComputeSame DEF Forgets, SameFile
  <1>4. Reads(u, p) => Reads(u, p)'
    BY <1>3, ReadsStay
  <1>5. Mutates(th[u])' <=> Mutates(th[u])
    BY DEF Mutates
  <1> QED BY <1>1, <1>2, <1>4, <1>5 DEF Own

-----------------------------------------------------------------------------
(* One thread moves. *)

(* What a step of one thread has to show: elsewhere things are at most       *)
(* forgotten, its own paths are left as they should be, and a reader does    *)
(* not disturb other readers.                                                *)
Moves1(t) ==
    /\ Others(t)
    /\ th'[t] = Idle \/ SameCall(t)
    /\ \A p \in Path : p \notin Paths(th[t]) => Forgets(p)
    /\ \A p \in Paths(th[t]) :
          /\ excuse[p] \subseteq excuse'[p] \cup {"recreated"}
          /\ ~Mutates(th[t]) /\ Calm(p)' =>
                ovl'[p] = ovl[p] /\ compute(p, FALSE)' = compute(p, FALSE)

Leaves1(t) ==
    \A p \in Paths(th[t]) : Calm(p)' => Holds(t)' /\ HookKnows(p)' /\ Own(t, p)'

(* The paths of a call are paths. *)
LEMMA PathsArePaths ==
    ASSUME IInv, NEW t \in Thread
    PROVE  /\ Paths(th[t]) \subseteq Path
           /\ th[t].pc # "idle" => th[t].path \in Paths(th[t])
           /\ th[t].op = "rename" /\ th[t].pc # "idle" => th[t].dst \in Paths(th[t])
  BY OverlayAssumption DEF IInv, Threads, GoodCall, IsCall, ThreadState, Paths

(* A thread that is in no call is on no path. *)
LEMMA IdlePaths == Paths(Idle) = {}
  BY DEF Paths, Idle

(* A thread that is on a path is in a call. *)
LEMMA IdleNoPaths ==
    ASSUME VInv, NEW t \in Thread, NEW p \in Paths(th[t])
    PROVE  th[t].pc # "idle"
  BY DEF VInv, ThreadInv, Shaped, Paths

(* A calm path of a call tells what the call may rely on. *)
LEMMA Relies ==
    ASSUME IInv, VInv, NEW t \in Thread, th[t].pc # "idle", NEW p \in Paths(th[t]), Calm(p)
    PROVE  /\ p \in Path /\ Alone(t) /\ Holds(t) /\ HookKnows(p)
           /\ Mutates(th[t]) => Mid(t, p)
           /\ ~Mutates(th[t]) => Steady(p) /\ Reads(t, p)
  BY PathsArePaths DEF VInv, ThreadInv, PathInv, Own

(* A thread that goes on or returns leaves the others as alone as they were. *)
LEMMA AloneStays ==
    ASSUME NEW t \in Thread, Others(t), th'[t] = Idle \/ SameCall(t),
           NEW u \in Thread, Alone(u), th'[u] = th[u] \/ SameCall(u)
    PROVE  Alone(u)'
  <1>1. \A v \in Thread : Paths(th[v])' = Paths(th[v]) \/ Paths(th[v])' = {}
    BY IdlePaths DEF Others, SameCall, Paths
  <1>2. \A v \in Thread : Paths(th[v])' # {} => (Mutates(th[v])' <=> Mutates(th[v]))
    BY IdlePaths DEF Others, SameCall, Mutates, Paths
  <1> SUFFICES ASSUME NEW v \in Thread, v # u, Paths(th'[u]) \cap Paths(th'[v]) # {}
               PROVE  ~Mutates(th'[u]) /\ ~Mutates(th'[v])
    BY DEF Alone
  <1>3. Paths(th[u]) \cap Paths(th[v]) # {}
    BY <1>1
  <1> QED BY <1>2, <1>3 DEF Alone

(* The file of a rename is not taken away by another thread. *)
LEMMA HoldsStays ==
    ASSUME IInv, VInv, NEW t \in Thread, Moves1(t), NEW u \in Thread, u # t, Alone(u), Holds(u),
           th[u].pc # "idle"
    PROVE  Holds(u)'
  <1>1. th'[u] = th[u]
    BY DEF Moves1, Others
  <1> SUFFICES ASSUME th[u].op = "rename"
               PROVE  ovl'[th[u].path] = ovl[th[u].path] /\ real'[th[u].path] = real[th[u].path]
    BY <1>1 DEF Holds
  <1>2. Mutates(th[u])
    BY DEF Mutates
  <1>3. th[u].path \in Path /\ th[u].path \notin Paths(th[t])
    BY <1>2, PathsArePaths DEF Alone
  <1> QED BY <1>3 DEF Moves1, Forgets, SameFile

(* A step of one thread keeps the invariant if it leaves its own paths well. *)
LEMMA OneThread ==
    ASSUME IInv, VInv, NEW t \in Thread, th[t].pc # "idle", Moves1(t), Leaves1(t), OnlyCow',
           Shaped(t)'
    PROVE  VInv'
  <1>1. \A u \in Thread : Paths(th[u]) \subseteq Path
    BY PathsArePaths
  <1>2. \A p \in Path : Calm(p)' => Calm(p)
    BY DEF Calm, Moves1, Forgets
  <1>3. \A u \in Thread : u # t => th'[u] = th[u]
    BY DEF Moves1, Others
  <1>4. Paths(th'[t]) \in {{}, Paths(th[t])}
    BY IdlePaths DEF Moves1, SameCall, Paths
  <1>5. ASSUME NEW u \in Thread PROVE ThreadInv(u)'
    <2>1. Shaped(u)'
      <3>1. CASE u = t
        BY <3>1
      <3>2. CASE u # t
        <4>1. Shaped(u) /\ th'[u] = th[u] /\ UNCHANGED rule
          BY <3>2, <1>3 DEF VInv, ThreadInv, Moves1, Others
        <4> QED BY <4>1 DEF Shaped, MayOvl, Retries
      <3> QED BY <3>1, <3>2
    <2>2. ASSUME NEW p \in Paths(th'[u]), Calm(p)' PROVE Alone(u)' /\ Holds(u)'
      <3>1. p \in Paths(th[u]) /\ p \in Path
        BY <2>2, <1>1, <1>3, <1>4
      <3>2. Calm(p) /\ th[u].pc # "idle"
        <4>1. Calm(p)
          BY <3>1, <2>2, <1>2
        <4>2. CASE u = t
          BY <4>1, <4>2
        <4>3. CASE u # t
          BY <4>1, <4>3, <3>1, IdleNoPaths
        <4> QED BY <4>2, <4>3
      <3>3. Alone(u) /\ Holds(u)
        BY <3>1, <3>2 DEF VInv, ThreadInv
      <3>4. Alone(u)'
        <4>1. th'[u] = th[u] \/ SameCall(u)
          <5>1. CASE u # t
            BY <5>1, <1>3
          <5>2. CASE u = t
            BY <2>2, <5>2, IdlePaths DEF Moves1
          <5> QED BY <5>1, <5>2
        <4> QED BY <3>3, <4>1, AloneStays DEF Moves1
      <3>5. Holds(u)'
        <4>1. CASE u # t
          BY <3>2, <3>3, <4>1, HoldsStays
        <4>2. CASE u = t
          BY <2>2, <3>1, <4>2 DEF Leaves1
        <4> QED BY <4>1, <4>2
      <3> QED BY <3>4, <3>5
    <2> QED BY <2>1, <2>2 DEF ThreadInv
  <1>6. ASSUME NEW p \in Path, Calm(p)', p \notin Paths(th[t]) PROVE PathInv(p)'
    <2>1. Forgets(p) /\ UNCHANGED <<owner, rule>>
      BY <1>6 DEF Moves1, Others
    <2>2. HookKnows(p)'
      BY <1>2, <1>6, <2>1, KnowsStays DEF VInv, PathInv
    <2>3. ASSUME Untouched(p)' PROVE Steady(p)'
      <3>1. Untouched(p)
        BY <2>3, <1>3, <1>6 DEF Untouched, Mutates
      <3>2. Steady(p)
        BY <3>1, <1>2, <1>6 DEF VInv, PathInv
      <3> QED BY <2>1, <3>2, SteadyStays DEF IInv
    <2>4. ASSUME NEW u \in Thread, p \in Paths(th'[u]) PROVE Own(u, p)'
      <3>1. u # t
        BY <2>4, <1>4, <1>6
      <3>2. th'[u] = th[u]
        BY <3>1, <1>3
      <3>3. Own(u, p)
        BY <2>4, <3>2, <1>2, <1>6 DEF VInv, PathInv
      <3> QED BY <2>1, <3>2, <3>3, OwnStays
    <2> QED BY <2>2, <2>3, <2>4 DEF PathInv
  <1>7. ASSUME NEW p \in Path, Calm(p)', p \in Paths(th[t]) PROVE PathInv(p)'
    <2>1. Holds(t)' /\ HookKnows(p)' /\ Own(t, p)'
      BY <1>7 DEF Leaves1
    <2>2. Calm(p) /\ Alone(t)
      BY <1>2, <1>7, Relies
    <2>3. \A u \in Thread : u # t /\ p \in Paths(th[u]) => ~Mutates(th[u]) /\ ~Mutates(th[t])
      BY <2>2, <1>7 DEF Alone
    <2>4. th'[t] = Idle => th'[t].pc = "idle"
      BY DEF Idle
    <2>5. SameCall(t) => (Mutates(th'[t]) <=> Mutates(th[t])) /\ th'[t].pc # "idle"
      BY DEF SameCall, Mutates
    <2>6. ASSUME Untouched(p)' PROVE Steady(p)'
      <3>1. CASE th'[t] = Idle
        BY <3>1, <2>1, <2>4 DEF Own
      <3>2. CASE SameCall(t)
        <4>1. p \in Paths(th'[t])
          BY <3>2, <1>7 DEF SameCall, Paths
        <4>2. ~Mutates(th'[t])
          BY <4>1, <2>6 DEF Untouched
        <4> QED BY <2>1, <2>5, <3>2, <4>2 DEF Own
      <3> QED BY <3>1, <3>2 DEF Moves1
    <2>7. ASSUME NEW u \in Thread, p \in Paths(th'[u]) PROVE Own(u, p)'
      <3>1. CASE u = t
        BY <2>1, <3>1
      <3>2. CASE u # t
        <4>1. th'[u] = th[u] /\ p \in Paths(th[u])
          BY <2>7, <3>2, <1>3
        <4>2. ~Mutates(th[u]) /\ ~Mutates(th[t])
          BY <2>3, <3>2, <4>1
        <4>3. Own(u, p) /\ th[u].pc # "idle"
          BY <1>7, <2>2, <4>1, IdleNoPaths DEF VInv, PathInv
        <4>4. Reads(u, p)
          BY <4>2, <4>3 DEF Own
        <4>5. Reads(u, p)'
          BY <1>7, <4>1, <4>2, <4>4, ReadsStay DEF Moves1
        <4>6. Steady(p)'
          <5>1. CASE th'[t] = Idle
            BY <5>1, <2>1, <2>4 DEF Own
          <5>2. CASE SameCall(t)
            BY <5>2, <2>1, <2>5, <4>2 DEF Own
          <5> QED BY <5>1, <5>2 DEF Moves1
        <4>7. ~Mutates(th'[u]) /\ th'[u].pc # "idle"
          BY <4>1, <4>2, <4>3 DEF Mutates
        <4> QED BY <4>5, <4>6, <4>7 DEF Own
      <3> QED BY <3>1, <3>2
    <2> QED BY <2>1, <2>6, <2>7 DEF PathInv
  <1>8. \A p \in Path : PathInv(p)'
    <2>1. \A p \in Path : ~Calm(p)' => PathInv(p)'
      BY DEF PathInv
    <2> QED BY <2>1, <1>6, <1>7
  <1> QED BY <1>5, <1>8 DEF VInv

-----------------------------------------------------------------------------
(* What the invariant says of a path at rest. *)

(* A path that no call is on is at rest. *)
LEMMA QuietIsSteady ==
    ASSUME VInv, NEW p \in Path, Quiet(p), Calm(p)
    PROVE  Steady(p) /\ HookKnows(p)
  BY DEF VInv, PathInv, Quiet, Untouched

(* Every process finds there what the view says. *)
LEMMA SteadyAgrees ==
    ASSUME IInv, OnlyCow, ReadsPassThrough, NEW p \in Path, Steady(p), HookKnows(p),
           ~Doubtful(p)
    PROVE  Agrees(p)
  <1>1. "recreated" \notin excuse[p] /\ (Shows(p, real[p]) <=> view[p] = real[p])
        /\ (Shows(p, ovl[p]) <=> view[p] = ovl[p])
    BY DEF Doubtful, Shows
  <1>2. MayOvl(p) \/ (ovl[p] = None /\ p \notin idx)
    BY DEF OnlyCow
  <1>3. MayOvl(p) => p \notin Project /\ rule[p].write = "Cow"
    BY DEF MayOvl, External
  <1>4. ~MayOvl(p) /\ p \notin Project => rule[p].write \in {"Passthrough", "Deny"}
    BY Computes DEF IInv, MayOvl
  <1>5. p \in wh /\ p \notin Project => rule[p].write \in {"Cow", "Passthrough"}
    BY DEF OnlyCow, MayOvl, MayReal
  <1> SUFFICES ASSUME NEW q \in Process, NEW api \in {"read", "open", "write"}
               PROVE  Seen(q, p, api) = view[p]
    BY DEF Agrees
  <1> DEFINE w == api = "write"
             h == hook[q][p][w]
             first == IF h # None THEN h ELSE Served(p, w)
             d == IF first \in Cow /\ ovl[p] = None THEN Served(p, w) ELSE first
  <1>6. w \in BOOLEAN
    OBVIOUS
  <1>7. /\ h \notin {"Passthrough", "Hidden"}
        /\ h = "Deny" => w /\ p \in External /\ rule[p].write = "Deny"
        /\ h = "CowFrom" => real[p] # None
        /\ Sound(p, w, h) /\ h \in Decision
    <2>1. hook \in [Process -> Decisions] /\ Sound(p, w, h)
      BY <1>6 DEF IInv, Caches
    <2>2. \A v \in BOOLEAN : hook[q][p][v] \in Decision
      BY <2>1 DEF Decisions
    <2>3. h \in Decision
      BY <1>6, <2>2, Zenon
    <2> QED BY <1>6, <2>1, <2>3 DEF HookKnows
  <1>8. \/ Served(p, w) = compute(p, w)
        \/ ~w /\ Served(p, w) = "Passthrough" /\ MayOvl(p) /\ Virgin(p)
    BY <1>6 DEF Served, ServesWell, Steady
  <1> DEFINE see == Seen(q, p, api)
  <1>9. /\ d = "Hidden" => see = None
        /\ d = "Passthrough" => see = real[p]
        /\ d = "Deny" /\ compute(p, w) = "Deny" => see = view[p]
        /\ d \in Cow /\ ovl[p] # None => see = ovl[p]
        /\ d \in Cow /\ ovl[p] = None /\ w => see = IF d = "CowFrom" THEN real[p] ELSE None
    <2>1. d = "Hidden" => see = None
      BY DEF Seen, Cow
    <2>2. d = "Passthrough" => see = real[p]
      BY DEF Seen, Cow
    <2>3. d = "Deny" /\ compute(p, w) = "Deny" => see = view[p]
      BY DEF Seen, Cow
    <2>4. d \in Cow /\ ovl[p] # None => see = ovl[p]
      BY DEF Seen, Cow
    <2>5. d \in Cow /\ ovl[p] = None /\ w => see = IF d = "CowFrom" THEN real[p] ELSE None
      BY DEF Seen, Cow
    <2> QED BY <2>1, <2>2, <2>3, <2>4, <2>5
  <1>10. h = None \/ h \in Cow \/ (h = "Deny" /\ w /\ p \in External /\ rule[p].write = "Deny")
    BY <1>7 DEF Decision
  <1>11. (d = Served(p, w) /\ (h # None => ovl[p] = None \/ h \notin Cow))
           \/ (d = h /\ h # None /\ (h \in Cow => ovl[p] # None))
    OBVIOUS
  <1> HIDE DEF h, first, d, see
  <1>12. CASE p \in Project
    <2>1. ~MayOvl(p) /\ h = None
      BY <1>3, <1>7, <1>10, <1>12, OverlayAssumption DEF Sound, External
    <2>2. d = "Passthrough"
      BY <1>6, <1>8, <1>11, <1>12, <2>1, Computes DEF IInv
    <2>3. view[p] = real[p]
      BY <1>1, <1>12, <2>1 DEF Steady, Shape, Lower
    <2> QED BY <1>9, <2>2, <2>3 DEF see
  <1>13. CASE p \notin Project /\ ~MayOvl(p)
    <2>1. Lower(p) /\ ovl[p] = None /\ p \notin idx /\ (Whiteouted(p) <=> p \in wh)
          /\ ~Overlaid(p)
      BY <1>2, <1>13 DEF Steady, Shape, Whiteouted, Overlaid
    <2>2. Served(p, w) = compute(p, w)
      BY <1>8, <1>13
    <2>3. CASE p \in wh
      <3>1. view[p] = None /\ compute(p, w) = "Hidden"
        BY <1>6, <1>13, <2>1, <2>3, Computes DEF IInv, Lower
      <3>2. d = "Hidden"
        BY <1>4, <1>5, <1>10, <1>11, <1>13, <2>1, <2>2, <2>3, <3>1
      <3> QED BY <1>9, <3>1, <3>2 DEF see
    <2>4. CASE p \notin wh
      <3>1. view[p] = real[p]
        BY <1>1, <2>1, <2>4 DEF Lower
      <3>2. CASE w /\ rule[p].write = "Deny"
        <4>1. compute(p, w) = "Deny"
          BY <1>13, <2>1, <2>4, <3>2, Computes DEF IInv
        <4>2. d = "Deny"
          BY <1>10, <1>11, <2>1, <2>2, <4>1
        <4> QED BY <1>9, <4>1, <4>2 DEF see
      <3>3. CASE ~(w /\ rule[p].write = "Deny")
        <4>1. compute(p, w) = "Passthrough"
          BY <1>4, <1>6, <1>13, <2>1, <2>4, <3>3, Computes DEF IInv
        <4>2. d = "Passthrough"
          BY <1>10, <1>11, <2>1, <2>2, <3>3, <4>1
        <4> QED BY <1>9, <3>1, <4>2 DEF see
      <3> QED BY <3>2, <3>3
    <2> QED BY <2>3, <2>4
  <1>14. CASE MayOvl(p)
    <2>1. Upper(p) /\ p \notin Project /\ rule[p].write = "Cow"
      BY <1>3, <1>14 DEF Steady, Shape
    <2>2. CASE ovl[p] # None
      <3>1. view[p] = ovl[p] /\ Overlaid(p) /\ ~Whiteouted(p)
        BY <1>1, <2>1, <2>2 DEF Upper, Overlaid, Whiteouted
      <3>2. compute(p, w) \in Cow
        BY <1>6, <2>1, <3>1, Computes DEF IInv, Cow
      <3>3. d \in Cow \/ (d = "Passthrough" /\ view[p] = real[p])
        BY <1>8, <1>10, <1>11, <2>1, <3>2 DEF Virgin
      <3> QED BY <1>9, <2>2, <3>1, <3>3 DEF see
    <2>3. CASE ovl[p] = None /\ p \in wh
      <3>1. view[p] = None /\ Whiteouted(p)
        BY <2>1, <2>3 DEF Upper, Virgin, Overlaid, Whiteouted
      <3>2. compute(p, w) = "Hidden"
        BY <1>6, <2>1, <3>1, Computes DEF IInv
      <3>3. d = "Hidden"
        BY <1>8, <1>10, <1>11, <2>1, <2>3, <3>2 DEF Virgin
      <3> QED BY <1>9, <3>1, <3>3 DEF see
    <2>4. CASE ovl[p] = None /\ p \notin wh
      <3>1. view[p] = real[p] /\ p \notin idx /\ ~Whiteouted(p) /\ ~Overlaid(p)
        BY <2>1, <2>4 DEF Upper, Virgin, Overlaid, Whiteouted
      <3>2. CASE w
        <4>1. compute(p, w) = IF real[p] # None THEN "CowFrom" ELSE "Cow"
          BY <2>1, <3>1, <3>2, Computes DEF IInv
        <4>2. d = compute(p, w)
          BY <1>8, <1>10, <1>11, <2>1, <2>4, <3>2
        <4>3. d \in Cow
          BY <4>1, <4>2 DEF Cow
        <4> QED BY <1>9, <2>4, <3>1, <3>2, <4>1, <4>2, <4>3 DEF see
      <3>3. CASE ~w
        <4>1. compute(p, w) = "Passthrough"
          BY <1>6, <2>1, <3>1, <3>3, Computes DEF IInv
        <4>2. d = "Passthrough"
          BY <1>8, <1>10, <1>11, <2>1, <2>4, <3>3, <4>1
        <4> QED BY <1>9, <3>1, <4>2 DEF see
      <3> QED BY <3>2, <3>3
    <2> QED BY <2>2, <2>3, <2>4
  <1> QED BY <1>12, <1>13, <1>14

(* The merged listing shows p exactly if it is in the view. *)
LEMMA SteadyListed ==
    ASSUME OnlyCow, NEW p \in External, Steady(p), excuse[p] = {}
    PROVE  Listed(p) <=> view[p] # None
  <1>1. (Shows(p, real[p]) <=> view[p] = real[p]) /\ (Shows(p, ovl[p]) <=> view[p] = ovl[p])
    BY DEF Shows
  <1>2. p \in Path /\ p \notin Project
    BY DEF External
  <1>3. CASE MayOvl(p)
    <2>1. Upper(p)
      BY <1>3 DEF Steady, Shape
    <2>2. ovl[p] # None /\ real[p] = None => p \in idx
      BY DEF Steady, Indexed
    <2> QED BY <1>1, <2>1, <2>2 DEF Upper, Virgin, Listed, Whiteouted, Overlaid
  <1>4. CASE ~MayOvl(p)
    <2>1. Lower(p) /\ ovl[p] = None /\ p \notin idx
      BY <1>2, <1>4 DEF Steady, Shape, OnlyCow
    <2> QED BY <1>1, <1>2, <2>1 DEF Lower, Listed, Whiteouted, Overlaid
  <1> QED BY <1>3, <1>4

-----------------------------------------------------------------------------
(* The invariant holds at first. *)
LEMMA ViewInit == ReadsPassThrough /\ Init => VInv
  <1> SUFFICES ASSUME Init PROVE VInv
    OBVIOUS
  <1>1. \A t \in Thread : th[t] = Idle /\ Paths(th[t]) = {}
    BY IdlePaths DEF Init
  <1>2. \A t \in Thread : ThreadInv(t)
    BY <1>1 DEF ThreadInv, Shaped, Idle
  <1>3. OnlyCow
    BY DEF Init, OnlyCow
  <1>4. \A p \in Path, w \in BOOLEAN : srv[p][w] = None /\ \A q \in Process : hook[q][p][w] = None
    BY DEF Init, NoDecisions
  <1>5. ASSUME NEW p \in Path PROVE Steady(p)
    <2>1. Upper(p) /\ Lower(p)
      BY DEF Init, Upper, Lower, Virgin, Shows, Unpublished
    <2>2. ServesWell(p) /\ HookCow(p) /\ Indexed(p)
      BY <1>4, OverlayAssumption DEF ServesWell, HookCow, Indexed, Init
    <2> QED BY <2>1, <2>2 DEF Steady, Shape
  <1>6. ASSUME NEW p \in Path PROVE HookKnows(p)
    BY <1>4, OverlayAssumption DEF HookKnows
  <1> QED BY <1>1, <1>2, <1>3, <1>5, <1>6 DEF VInv, PathInv

-----------------------------------------------------------------------------
(* Calls that begin, processes that die, steps of nobody. *)

(* A call that does not move keeps its shape. *)
LEMMA OthersKeep ==
    ASSUME IInv, NEW u \in Thread, ThreadInv(u), Shaped(u), th'[u] = th[u], UNCHANGED rule
    PROVE  Shaped(u)'
  BY DEF Shaped, MayOvl, Retries

(* A call that begins overlaps with no other on the paths that stay calm. *)
LEMMA CallView ==
    ASSUME IInv, VInv, NEW t \in Thread, NEW r \in Calls, Call(t, r)
    PROVE  VInv'
  <1> DEFINE c == [pc |-> "decide", op |-> r.op, path |-> r.path, disp |-> r.disp,
                   dst |-> r.dst, at |-> r.path, retry |-> Retries(r), dec |-> None,
                   on |-> None]
             S == UNION {Paths(r) \cup Paths(th[u]) : u \in Rivals(r)}
  <1>1. /\ r.op \in {"read", "write", "open", "query", "delete", "unlink", "rename"}
        /\ r.path \in Path /\ r.dst \in Path \cup {None} /\ r.dst # r.path
        /\ r.op = "rename" <=> r.dst # None
        /\ r.op \in {"read", "write"} => r.disp \in Disposition
        /\ r.op = "rename" => r.disp \in {"keep", "replace"}
    BY CallsAssumption, OverlayAssumption DEF Request, Disposition
  <1>2. /\ th' = [th EXCEPT ![t] = c] /\ th[t].pc = "idle" /\ excuse' = Excuse(S, "overlap")
        /\ UNCHANGED <<owner, rule, real, ovl, idx, wh, srv, hook, published, view>>
    BY DEF Call, Busy, index, caches
  <1>3. th'[t] = c /\ \A u \in Thread : u # t => th'[u] = th[u]
    BY <1>2 DEF IInv, Threads
  <1>4. \A p \in Path : Calm(p)' => p \notin S /\ excuse'[p] = excuse[p]
    BY <1>2 DEF Calm, Excuse
  <1>5. \A p \in Path : Calm(p)' => Calm(p) /\ Forgets(p)
    BY <1>2, <1>4 DEF Calm, Forgets, SameFile
  <1>6. \A u \in Thread : Paths(th[u]) \subseteq Path /\ owner[u] \in Process
    BY PathsArePaths DEF IInv, Tables
  <1>7. Paths(th'[t]) = Paths(r) /\ (Mutates(th'[t]) <=> Mutates(r)) /\ Paths(r) \subseteq Path
    BY <1>1, <1>3 DEF Paths, Mutates
  <1>8. Paths(th[t]) = {}
    BY <1>2 DEF VInv, ThreadInv, Shaped, Paths
  <1>9. ASSUME NEW p \in Paths(r), Calm(p)', NEW u \in Thread, Paths(th[u]) \cap Paths(r) # {}
        PROVE  ~Mutates(r) /\ ~Mutates(th[u])
    BY <1>4, <1>7, <1>9 DEF Rivals
  <1>10. ASSUME NEW u \in Thread, NEW p \in Paths(th[u]), Calm(p)', Paths(th[u]) \cap Paths(r) # {}
         PROVE  ~Mutates(r) /\ ~Mutates(th[u])
    BY <1>4, <1>6, <1>10 DEF Rivals
  <1>11. ASSUME NEW u \in Thread PROVE ThreadInv(u)'
    <2>1. CASE u = t
      <3>1. Shaped(t)'
        BY <1>1, <1>3, OverlayAssumption DEF Shaped, Retries
      <3>2. Holds(t)'
        BY <1>3, OverlayAssumption DEF Holds
      <3>3. ASSUME NEW p \in Paths(th'[t]), Calm(p)' PROVE Alone(t)'
        BY <1>3, <1>7, <1>9, <3>3 DEF Alone
      <3> QED BY <2>1, <3>1, <3>2, <3>3 DEF ThreadInv
    <2>2. CASE u # t
      <3>1. th'[u] = th[u] /\ ThreadInv(u)
        BY <1>3, <2>2 DEF VInv
      <3>2. Shaped(u)'
        BY <1>2, <3>1, OthersKeep DEF ThreadInv
      <3>3. ASSUME NEW p \in Paths(th'[u]), Calm(p)' PROVE Alone(u)' /\ Holds(u)'
        <4>1. Alone(u) /\ Holds(u)
          BY <1>5, <1>6, <3>1, <3>3 DEF ThreadInv
        <4>2. Holds(u)'
          BY <1>2, <3>1, <4>1 DEF Holds
        <4>3. ASSUME NEW v \in Thread, v # u, Paths(th'[u]) \cap Paths(th'[v]) # {}
              PROVE  ~Mutates(th'[u]) /\ ~Mutates(th'[v])
          <5>1. CASE v = t
            BY <1>7, <1>10, <3>1, <3>3, <4>3, <5>1
          <5>2. CASE v # t
            BY <1>3, <3>1, <4>1, <4>3, <5>2 DEF Alone
          <5> QED BY <5>1, <5>2
        <4> QED BY <4>2, <4>3 DEF Alone
      <3> QED BY <3>2, <3>3 DEF ThreadInv
    <2> QED BY <2>1, <2>2
  <1>12. OnlyCow'
    BY <1>2 DEF VInv, OnlyCow, MayOvl, MayReal
  <1>13. ASSUME NEW p \in Path, Calm(p)' PROVE PathInv(p)'
    <2>1. PathInv(p) /\ Calm(p) /\ Forgets(p)
      BY <1>5, <1>13 DEF VInv
    <2>2. HookKnows(p)'
      BY <1>2, <2>1, KnowsStays DEF PathInv
    <2>3. Steady(p) => Steady(p)'
      BY <1>2, <2>1, SteadyStays DEF IInv
    <2>4. Untouched(p)' => Untouched(p)
      BY <1>3, <1>8 DEF Untouched, Mutates
    <2>5. ASSUME NEW u \in Thread, p \in Paths(th'[u]) PROVE Own(u, p)'
      <3>1. CASE u # t
        BY <1>2, <1>3, <2>1, <2>5, <3>1, OwnStays DEF PathInv
      <3>2. CASE u = t
        <4>1. p \in Paths(r)
          BY <1>7, <2>5, <3>2
        <4>2. Untouched(p)
          BY <1>9, <1>13, <4>1 DEF Untouched
        <4>3. Steady(p)'
          BY <2>1, <2>3, <4>2 DEF PathInv
        <4>4. CASE Mutates(r)
          <5>0. /\ th'[t].pc = "decide" /\ th'[t].retry = Retries(r) /\ th'[t].op = r.op
                /\ r.op # "unlink" => "fresh" \in Retries(r)
            BY <1>3 DEF Retries
          <5>1. LooksUp(t, p)'
            BY <4>3, <5>0 DEF LooksUp
          <5>2. Waits(t, p)'
            BY <1>3, <4>3, OverlayAssumption DEF Waits
          <5>3. Mid(t, p)'
            BY <1>3, <5>1, <5>2 DEF Mid, Lookup
          <5>4. th'[t].pc # "idle" /\ Mutates(th'[t])
            BY <1>3, <1>7, <4>4
          <5>5. Own(t, p)'
            BY <5>3, <5>4 DEF Own
          <5> QED BY <3>2, <5>5
        <4>5. CASE ~Mutates(r)
          <5>1. Reads(t, p)'
            BY <1>3 DEF Reads, Lookup
          <5> QED BY <1>3, <1>7, <3>2, <4>3, <4>5, <5>1 DEF Own
        <4> QED BY <4>4, <4>5
      <3> QED BY <3>1, <3>2
    <2> QED BY <2>1, <2>2, <2>3, <2>4, <2>5 DEF PathInv
  <1> QED BY <1>11, <1>12, <1>13 DEF VInv, PathInv

(* The paths a killed process was at are excused. *)
LEMMA DiesView ==
    ASSUME IInv, VInv, NEW q \in Process, ProcessDies(q)
    PROVE  VInv'
  <1> DEFINE mine == {t \in Thread : owner[t] = q}
             S == UNION {Paths(th[t]) : t \in mine}
  <1>1. /\ \A t \in Thread : th'[t] = IF t \in mine THEN Idle ELSE th[t]
        /\ excuse' = Excuse(S, "fault")
        /\ UNCHANGED <<owner, rule, real, ovl, idx, wh, srv, view>>
    BY DEF ProcessDies, index
  <1>2. \A p \in Path : Calm(p)' => p \notin S /\ excuse'[p] = excuse[p]
    BY <1>1 DEF Calm, Excuse
  <1>3. \A q1 \in Process, p \in Path, w \in BOOLEAN : hook'[q1][p][w] \in {hook[q1][p][w], None}
    BY DEF ProcessDies, IInv, Caches, NoDecisions
  <1>4. \A q1 \in Process, p \in Path : p \in published'[q1] => p \in published[q1]
    BY DEF ProcessDies, IInv, Tables
  <1>5. \A p \in Path : Calm(p)' => Calm(p) /\ Forgets(p)
    BY <1>1, <1>2, <1>3, <1>4 DEF Calm, Forgets, SameFile
  <1>6. \A u \in Thread : Paths(th[u]) \subseteq Path /\ owner[u] \in Process
    BY PathsArePaths DEF IInv, Tables
  <1>7. \A u \in Thread : Paths(th'[u]) # {} => th'[u] = th[u]
    BY <1>1, IdlePaths
  <1>8. ASSUME NEW u \in Thread PROVE ThreadInv(u)'
    <2>1. CASE u \in mine
      <3>1. th'[u] = Idle
        BY <1>1, <2>1
      <3>2. Shaped(u)'
        BY <3>1 DEF Shaped, Idle
      <3> QED BY <3>1, <3>2, IdlePaths DEF ThreadInv
    <2>2. CASE u \notin mine
      <3>1. th'[u] = th[u] /\ ThreadInv(u)
        BY <1>1, <2>2 DEF VInv
      <3>2. Shaped(u)'
        BY <1>1, <3>1, OthersKeep DEF ThreadInv
      <3>3. ASSUME NEW p \in Paths(th'[u]), Calm(p)' PROVE Alone(u)' /\ Holds(u)'
        <4>1. Alone(u) /\ Holds(u)
          BY <1>5, <1>6, <3>1, <3>3 DEF ThreadInv
        <4>2. Holds(u)'
          BY <1>1, <3>1, <4>1 DEF Holds
        <4>3. Alone(u)'
          BY <1>7, <3>1, <4>1 DEF Alone
        <4> QED BY <4>2, <4>3
      <3> QED BY <3>2, <3>3 DEF ThreadInv
    <2> QED BY <2>1, <2>2
  <1>9. OnlyCow'
    BY <1>1 DEF VInv, OnlyCow, MayOvl, MayReal
  <1>10. ASSUME NEW p \in Path, Calm(p)' PROVE PathInv(p)'
    <2>1. PathInv(p) /\ Calm(p) /\ Forgets(p)
      BY <1>5, <1>10 DEF VInv
    <2>2. HookKnows(p)'
      BY <1>1, <2>1, KnowsStays DEF PathInv
    <2>3. Steady(p) => Steady(p)'
      BY <1>1, <2>1, SteadyStays DEF IInv
    <2>4. Untouched(p)' => Untouched(p)
      BY <1>1, <1>2, <1>10 DEF Untouched, Mutates
    <2>5. ASSUME NEW u \in Thread, p \in Paths(th'[u]) PROVE Own(u, p)'
      <3>1. th'[u] = th[u]
        BY <1>7, <2>5
      <3> QED BY <1>1, <2>1, <2>5, <3>1, OwnStays DEF PathInv
    <2> QED BY <2>1, <2>2, <2>3, <2>4, <2>5 DEF PathInv
  <1> QED BY <1>8, <1>9, <1>10 DEF VInv, PathInv

(* Nothing changes. *)
LEMMA StutterView ==
    ASSUME IInv, VInv, UNCHANGED vars
    PROVE  VInv'
  <1>1. /\ \A t \in Thread : th'[t] = th[t]
        /\ UNCHANGED <<owner, rule, real, ovl, idx, wh, srv, hook, published, view, excuse, th>>
    BY DEF vars
  <1>2. \A p \in Path : Forgets(p) /\ (Calm(p)' <=> Calm(p))
    BY <1>1 DEF Forgets, SameFile, Calm
  <1>3. \A u \in Thread : Alone(u)' <=> Alone(u)
    BY <1>1 DEF Alone, Mutates
  <1>4. \A u \in Thread : Holds(u)' <=> Holds(u)
    BY <1>1 DEF Holds
  <1>5. \A u \in Thread : ThreadInv(u)'
    <2>1. \A u \in Thread : Shaped(u)'
      BY <1>1, OthersKeep DEF VInv, ThreadInv
    <2> QED BY <1>1, <1>2, <1>3, <1>4, <2>1, PathsArePaths DEF VInv, ThreadInv
  <1>6. OnlyCow'
    BY <1>1 DEF VInv, OnlyCow, MayOvl, MayReal
  <1>7. ASSUME NEW p \in Path PROVE PathInv(p)'
    <2>1. HookKnows(p) => HookKnows(p)'
      BY <1>1, <1>2, KnowsStays
    <2>2. Steady(p) => Steady(p)'
      BY <1>1, <1>2, SteadyStays DEF IInv
    <2>3. Untouched(p)' => Untouched(p)
      BY <1>1 DEF Untouched, Mutates
    <2>4. \A u \in Thread : Own(u, p) => Own(u, p)'
      BY <1>1, <1>2, OwnStays
    <2> QED BY <1>1, <1>2, <2>1, <2>2, <2>3, <2>4 DEF VInv, PathInv
  <1> QED BY <1>5, <1>6, <1>7 DEF VInv

-----------------------------------------------------------------------------
(* What the parts of a step do, path by path. *)

(* The call goes on, at the same path. *)
Goes(t, pc) ==
    /\ SameCall(t)
    /\ th'[t].pc = pc /\ th'[t].at = th[t].at /\ th'[t].on = th[t].on

(* Goto goes on with the call, as it was. *)
LEMMA GotoGoes ==
    ASSUME IInv, NEW t \in Thread, th[t].pc # "idle", NEW pc \in PC, pc # "idle", Goto(t, pc),
           UNCHANGED <<owner, rule>>
    PROVE  /\ Others(t) /\ Goes(t, pc)
           /\ th'[t].retry = th[t].retry /\ th'[t].dec = th[t].dec
  <1>1. th \in [Thread -> ThreadState] /\ th[t] \in ThreadState
    BY DEF IInv, Threads
  <1>2. th' = [th EXCEPT ![t] = [th[t] EXCEPT !.pc = pc]]
    BY DEF Goto
  <1> QED BY <1>1, <1>2 DEF Others, Goes, SameCall, ThreadState

(* So does a step that takes a decision. *)
LEMMA DecisionGoes ==
    ASSUME IInv, NEW t \in Thread, th[t].pc # "idle", NEW pc \in PC, pc # "idle", NEW d,
           th' = [th EXCEPT ![t].pc = pc, ![t].dec = d], UNCHANGED <<owner, rule>>
    PROVE  /\ Others(t) /\ Goes(t, pc)
           /\ th'[t].retry = th[t].retry /\ th'[t].dec = d
  <1>1. th \in [Thread -> ThreadState] /\ th[t] \in ThreadState
    BY DEF IInv, Threads
  <1>2. th' = [th EXCEPT ![t] = [th[t] EXCEPT !.pc = pc, !.dec = d]]
    OBVIOUS
  <1> QED BY <1>1, <1>2 DEF Others, Goes, SameCall, ThreadState

(* So does a step that uses up a retry. *)
LEMMA RetryGoes ==
    ASSUME IInv, NEW t \in Thread, th[t].pc # "idle", NEW pc \in PC, pc # "idle", NEW R,
           th' = [th EXCEPT ![t].pc = pc, ![t].retry = R], UNCHANGED <<owner, rule>>
    PROVE  /\ Others(t) /\ Goes(t, pc)
           /\ th'[t].retry = R /\ th'[t].dec = th[t].dec
  <1>1. th \in [Thread -> ThreadState] /\ th[t] \in ThreadState
    BY DEF IInv, Threads
  <1>2. th' = [th EXCEPT ![t] = [th[t] EXCEPT !.pc = pc, !.retry = R]]
    OBVIOUS
  <1> QED BY <1>1, <1>2 DEF Others, Goes, SameCall, ThreadState

(* Return ends the call. *)
LEMMA ReturnEnds ==
    ASSUME IInv, NEW t \in Thread, Return(t), UNCHANGED <<owner, rule>>
    PROVE  Others(t) /\ th'[t] = Idle /\ th'[t].pc = "idle" /\ Shaped(t)' /\ Holds(t)'
  <1>1. Others(t) /\ th'[t] = Idle
    BY DEF IInv, Threads, Return, Others
  <1> QED BY <1>1 DEF Idle, Shaped, Holds

(* A call that goes back to a lookup is shaped as before. *)
LEMMA ShapedGoes ==
    ASSUME IInv, VInv, NEW t \in Thread, th[t].pc # "idle", NEW pc \in Lookup, Goes(t, pc),
           th'[t].retry \subseteq th[t].retry
    PROVE  Shaped(t)'
  BY DEF VInv, ThreadInv, Shaped, Goes, SameCall, Retries, Lookup

(* It still has its file. *)
LEMMA HoldsGoes ==
    ASSUME NEW t \in Thread, NEW pc, Goes(t, pc), pc # "publish", Holds(t),
           ovl'[th[t].path] = ovl[th[t].path], real'[th[t].path] = real[th[t].path]
    PROVE  Holds(t)'
  BY DEF Holds, Goes, SameCall

(* HookCache::invalidate forgets the decisions of one path in one process. *)
LEMMA InvalidateLocal ==
    ASSUME IInv, NEW q \in Process, NEW p \in Path, hook' = Invalidate(q, p)
    PROVE  \A q1 \in Process, p1 \in Path, w \in BOOLEAN :
              hook'[q1][p1][w] = IF q1 = q /\ p1 = p THEN None ELSE hook[q1][p1][w]
  <1> DEFINE none == [w \in BOOLEAN |-> None]
             mine == [hook[q] EXCEPT ![p] = none]
  <1>1. \A w \in BOOLEAN : none[w] = None
    OBVIOUS
  <1>2. hook \in [Process -> Decisions] /\ hook[q] \in [Path -> [BOOLEAN -> Decision]]
    BY DEF IInv, Caches, Decisions
  <1>3. hook' = [hook EXCEPT ![q] = mine]
    BY DEF Invalidate
  <1> HIDE DEF none
  <1>4. mine[p] = none /\ \A p1 \in Path : p1 # p => mine[p1] = hook[q][p1]
    BY <1>2
  <1> HIDE DEF mine
  <1>5. \A q1 \in Process : hook'[q1] = IF q1 = q THEN mine ELSE hook[q1]
    BY <1>2, <1>3
  <1> QED BY <1>1, <1>4, <1>5

(* overlay_publish_forget forgets one path in one process. *)
LEMMA ForgetLocal ==
    ASSUME IInv, NEW q \in Process, NEW p, published' = overlay_publish_forget(q, p)
    PROVE  \A q1 \in Process, p1 \in Path :
              p1 \in published'[q1] <=> p1 \in published[q1] /\ ~(q1 = q /\ p1 = p)
  BY DEF IInv, Tables, overlay_publish_forget

(* HookCache's insert changes one decision, if it is one to be cached. *)
LEMMA HookInsertLocal ==
    ASSUME IInv, NEW t \in Thread, th[t].at \in Path, NEW d, HookInsert(t, d)
    PROVE  \A q \in Process, p \in Path, w \in BOOLEAN :
              hook'[q][p][w] = IF Cacheable(d) /\ q = owner[t] /\ p = th[t].at
                                    /\ w = Write(t) THEN d ELSE hook[q][p][w]
  <1>1. hook \in [Process -> Decisions] /\ owner[t] \in Process
        /\ hook[owner[t]] \in [Path -> [BOOLEAN -> Decision]]
    BY DEF IInv, Caches, Tables, Decisions
  <1>2. Write(t) \in BOOLEAN
    BY DEF Write, is_write_access
  <1> QED BY <1>1, <1>2 DEF HookInsert, Decisions

(* The broker's insert changes one decision. *)
LEMMA SrvInsertLocal ==
    ASSUME IInv, NEW t \in Thread, th[t].at \in Path, NEW d,
           srv' = [srv EXCEPT ![th[t].at][Write(t)] = d]
    PROVE  \A p \in Path, w \in BOOLEAN :
              srv'[p][w] = IF p = th[t].at /\ w = Write(t) THEN d ELSE srv[p][w]
  <1>1. Write(t) \in BOOLEAN
    BY DEF Write, is_write_access
  <1> QED BY <1>1 DEF IInv, Caches, Decisions

(* A request is applied, or lost at the expense of the call's paths. *)
LEMMA FaultLocal ==
    ASSUME IInv, NEW t \in Thread, Fault(t)
    PROVE  /\ \A p \in Paths(th[t]) : ~Calm(p)'
           /\ \A p \in Path : p \notin Paths(th[t]) => excuse'[p] = excuse[p]
           /\ \A p \in Path : excuse[p] \subseteq excuse'[p]
  <1>1. Paths(th[t]) \subseteq Path
    BY PathsArePaths
  <1> QED BY <1>1 DEF Fault, Excuse, Calm

(* A request is applied and clears the broker's cache, or is lost. *)
LEMMA SendLocal ==
    ASSUME IInv, NEW t \in Thread, NEW newIdx, NEW newWh, Send(t, newIdx, newWh)
    PROVE  \/ /\ idx' = newIdx /\ wh' = newWh /\ excuse' = excuse
              /\ \A p \in Path : ServesNothing(p)'
              /\ \A p \in Path, w \in BOOLEAN : srv'[p][w] = None
           \/ /\ UNCHANGED <<idx, wh, srv>>
              /\ \A p \in Paths(th[t]) : ~Calm(p)'
              /\ \A p \in Path : p \notin Paths(th[t]) => excuse'[p] = excuse[p]
              /\ \A p \in Path : excuse[p] \subseteq excuse'[p]
  <1>1. \A p \in Path, w \in BOOLEAN : NoDecisions[p][w] = None
    BY DEF NoDecisions
  <1> QED BY <1>1, FaultLocal DEF Send, ServesNothing, index

(* What Resurrect excuses. *)
LEMMA ResurrectLocal ==
    ASSUME IInv, NEW p \in Path, excuse' = Resurrect(p)
    PROVE  /\ \A p1 \in Path : p1 # p => excuse'[p1] = excuse[p1]
           /\ excuse[p] \subseteq excuse'[p] /\ excuse'[p] \subseteq excuse[p] \cup {"recreated"}
           /\ p \in External /\ view[p] = None /\ real[p] # None => "recreated" \in excuse'[p]
  BY DEF IInv, Files, Resurrect

(* What Forgive takes back. *)
LEMMA ForgiveLocal ==
    ASSUME IInv, NEW p \in Path, NEW disp, excuse' = Forgive(p, disp)
    PROVE  /\ \A p1 \in Path : p1 # p => excuse'[p1] = excuse[p1]
           /\ excuse'[p] \subseteq excuse[p] /\ excuse[p] \subseteq excuse'[p] \cup {"recreated"}
           /\ disp \notin {"OVERWRITE", "OVERWRITE_IF", "replace"} => excuse'[p] = excuse[p]
  BY DEF IInv, Files, Forgive

(* Decisions are taken for writing exactly when the call changes something. *)
LEMMA WriteMutates ==
    ASSUME NEW t \in Thread
    PROVE  Write(t) <=> Mutates(th[t])
  BY DEF Write, is_write_access, Mutates

(* What a changing call knows while it looks up, kept through a step there. *)
LEMMA MidLookup ==
    ASSUME IInv, VInv, NEW t \in Thread, NEW pc \in Lookup \cup {"copy", "prepared"}, Others(t),
           Goes(t, pc), th[t].pc \in Lookup \cup {"copy", "prepared"}, NEW p \in Paths(th[t]),
           Mid(t, p), p # th[t].at => Forgets(p),
           p = th[t].at => /\ pc \in Lookup => LooksUp(t, p)'
                           /\ pc \in {"copy", "prepared"} => CopiesUp(t, p)'
    PROVE  Mid(t, p)'
  <1>1. p \in Path /\ UNCHANGED rule
    BY PathsArePaths DEF Others
  <1>2. p # th[t].at => Waits(t, p)'
    <2>1. SUFFICES ASSUME p # th[t].at PROVE Waits(t, p)'
      OBVIOUS
    <2>2. Waits(t, p)
      BY <2>1 DEF Mid
    <2>3. Steady(p)'
      BY <1>1, <2>1, <2>2, SteadyStays DEF IInv, Waits
    <2> QED BY <1>1, <2>1, <2>2, <2>3
            DEF Waits, Goes, SameCall, OnReal, MayReal, Forgets, SameFile
  <1> QED BY <1>2 DEF Mid, Goes, SameCall, Lookup

-----------------------------------------------------------------------------
(* Looking up. *)

(* Without an overlay file, a computed Cow means that there is no file. *)
LEMMA CowIsMissing ==
    ASSUME IInv, ReadsPassThrough, NEW p \in Path, Steady(p) \/ Revived(p),
           compute(p, TRUE) = "Cow", ovl[p] = None
    PROVE  view[p] = None /\ (Steady(p) => real[p] = None)
  <1>1. p \notin Project /\ ~Whiteouted(p) /\ p \in External
    BY Computes DEF IInv
  <1>2. rule[p].write = "Cow" /\ (p \in idx \/ real[p] = None)
    BY <1>1, Computes DEF IInv
  <1>3. MayOvl(p)
    BY <1>1, <1>2 DEF MayOvl
  <1>4. CASE Steady(p)
    <2>1. Upper(p)
      BY <1>3, <1>4 DEF Steady, Shape
    <2>2. p \in idx \/ p \notin wh
      BY <1>1 DEF Whiteouted, Overlaid
    <2>3. CASE p \in idx
      BY <2>1, <2>3 DEF Upper, Virgin
    <2>4. CASE p \notin idx
      BY <1>2, <2>1, <2>2, <2>4 DEF Upper, Virgin
    <2> QED BY <2>3, <2>4
  <1> QED BY <1>4 DEF Revived

(* What the decision for a write says of the path. *)
LEMMA WriteDecides ==
    ASSUME IInv, OnlyCow, ReadsPassThrough, NEW p \in Path
    PROVE  /\ compute(p, TRUE) = "Passthrough" => OnReal(p) /\ ovl[p] = None /\ p \notin idx
           /\ compute(p, TRUE) = "Hidden" => /\ p \in External /\ p \in wh
                                             /\ ovl[p] = None /\ p \notin idx
           /\ compute(p, TRUE) = "Deny" => p \in External /\ rule[p].write = "Deny"
           /\ compute(p, TRUE) \in Cow => MayOvl(p) /\ ~Whiteouted(p)
           /\ compute(p, TRUE) = "CowFrom" => p \notin idx /\ real[p] # None
           /\ p \in External /\ rule[p].write = "Deny" => compute(p, TRUE) = "Deny"
           /\ compute(p, TRUE) \in {"Passthrough", "Hidden", "Deny", "Cow", "CowFrom"}
  <1>1. CASE p \in Project
    BY <1>1, Computes DEF IInv, OnlyCow, MayOvl, OnReal, MayReal, External, Cow
  <1>2. CASE p \notin Project /\ Whiteouted(p)
    BY <1>2, Computes DEF IInv, OnlyCow, MayOvl, MayReal, Whiteouted, Overlaid, Cow
  <1>3. CASE p \notin Project /\ ~Whiteouted(p)
    BY <1>3, Computes DEF IInv, OnlyCow, MayOvl, OnReal, MayReal, Whiteouted, Overlaid, Cow
  <1> QED BY <1>1, <1>2, <1>3

(* A changing call takes its decision. *)
LEMMA DecideLooks ==
    ASSUME IInv, OnlyCow, ReadsPassThrough, NEW t \in Thread, NEW p \in Path, p = th[t].at,
           th[t].pc = "decide", HookKnows(p), LooksUp(t, p), Forgets(p), UNCHANGED <<owner, rule>>,
           UNCHANGED <<hook, published>>,
           NEW pc \in {"decided", "reply", "insert"}, NEW d, Goes(t, pc),
           th'[t].retry = th[t].retry, th'[t].dec = d,
           \/ pc = "decided" /\ d = hook[owner[t]][p][TRUE] /\ d # None
           \/ pc # "decided" /\ d = Served(p, TRUE) /\ hook[owner[t]][p][TRUE] = None,
           th[t].op = "unlink" => p = th[t].path /\ th[t].disp = "OPEN"
    PROVE  LooksUp(t, p)'
  <1> DEFINE h == hook[owner[t]][p][TRUE]
  <1>1. owner[t] \in Process
    BY DEF IInv, Tables
  <1>2. (Steady(p) => Steady(p)') /\ (Revived(p) => Revived(p)')
    BY SteadyStays, RevivedStays DEF IInv
  <1>3. Steady(p) \/ (Revived(p) /\ th[t].retry = {} /\ (p = th[t].path => is_create_disposition(th[t].disp)))
    BY DEF LooksUp
  <1>4. compute(p, TRUE)' = compute(p, TRUE)
    BY ComputeSame DEF Forgets
  <1>5. /\ h \notin {"Passthrough", "Hidden"}
        /\ h = "Deny" => p \in External /\ rule[p].write = "Deny"
        /\ h = "CowFrom" => real[p] # None
        /\ Sound(p, TRUE, h) /\ h \in Decision
    <2>1. hook \in [Process -> Decisions] /\ Sound(p, TRUE, h)
      <3>1. TRUE \in BOOLEAN
        OBVIOUS
      <3> QED BY <1>1, <3>1 DEF IInv, Caches
    <2>2. h \in Decision
      <3>1. \A w \in BOOLEAN : hook[owner[t]][p][w] \in Decision
        BY <1>1, <2>1 DEF Decisions
      <3>2. TRUE \in BOOLEAN
        OBVIOUS
      <3> QED BY <3>1, <3>2, Zenon
    <2>3. /\ h \notin {"Passthrough", "Hidden"}
          /\ h = "Deny" => p \in External /\ rule[p].write = "Deny"
          /\ h = "CowFrom" => real[p] # None
      BY <1>1 DEF HookKnows
    <2> QED BY <2>1, <2>2, <2>3
  <1>6. CASE pc = "decided"
    <2>1. th[t].retry # {} \/ th[t].op = "unlink"
      BY <1>6 DEF LooksUp
    <2>2. Steady(p)
      BY <1>3, <2>1 DEF is_create_disposition
    <2>3. d = h /\ h # None
      BY <1>6
    <2>4. d \notin Cow => d = compute(p, TRUE)
      BY <1>5, <2>3, WriteDecides DEF Cow, Decision
    <2>5. d = "Cow" /\ ovl[p] = None => view[p] = None
      <3>1. SUFFICES ASSUME d = "Cow", ovl[p] = None PROVE view[p] = None
        OBVIOUS
      <3>2. Upper(p)
        BY <1>5, <2>2, <2>3, <3>1 DEF Steady, Shape, Sound, Cow
      <3>3. p \notin wh => real[p] = None
        BY <1>1, <2>2, <2>3, <3>1 DEF Steady, HookCow
      <3> QED BY <3>1, <3>2, <3>3 DEF Upper, Virgin
    <2>6. p = th[t].path /\ th[t].op # "unlink" => "fresh" \in th[t].retry
      BY <1>6, <2>3 DEF LooksUp
    <2> QED BY <1>2, <1>4, <1>5, <1>6, <2>2, <2>3, <2>4, <2>5, <2>6
            DEF LooksUp, Goes, SameCall, Forgets, SameFile
  <1>7. CASE pc # "decided"
    <2>1. ServesWell(p)
      BY <1>3 DEF Steady, Revived
    <2>2. d = compute(p, TRUE)
      BY <1>7, <2>1 DEF ServesWell, Served
    <2> QED BY <1>1, <1>2, <1>3, <1>4, <1>7, <2>2 DEF LooksUp, Goes, SameCall, Forgets
  <1> QED BY <1>6, <1>7

-----------------------------------------------------------------------------
(* Steps that end a call, and steps that go on at the same path. *)

(* A call without a destination is at its path. *)
LEMMA ReadersPath ==
    ASSUME IInv, VInv, NEW t \in Thread, th[t].pc # "idle"
    PROVE  /\ th[t].at \in Paths(th[t]) /\ th[t].path \in Paths(th[t])
           /\ th[t].op # "rename" => Paths(th[t]) = {th[t].at} /\ th[t].at = th[t].path
           /\ th[t].op = "rename" => Paths(th[t]) = {th[t].path, th[t].dst}
           /\ th[t].op = "rename" => Mutates(th[t])
           /\ Paths(th[t]) \subseteq Path
  <1>1. IsCall(th[t]) /\ th[t].path \in Path
    BY Inside
  <1>2. th[t].op = "rename" <=> th[t].dst # None
    BY DEF VInv, ThreadInv, Shaped
  <1> QED BY <1>1, <1>2, OverlayAssumption DEF IsCall, Paths, Mutates

(* A step that ends a call keeps the invariant if the call's paths are at    *)
(* rest.                                                                     *)
LEMMA Ending ==
    ASSUME IInv, VInv, NEW t \in Thread, th[t].pc # "idle", Return(t), UNCHANGED <<owner, rule>>,
           \A p \in Path : p \notin Paths(th[t]) => Forgets(p),
           \A p \in Paths(th[t]) :
              /\ excuse[p] \subseteq excuse'[p] \cup {"recreated"}
              /\ ~Mutates(th[t]) /\ Calm(p)' =>
                    ovl'[p] = ovl[p] /\ compute(p, FALSE)' = compute(p, FALSE)
              /\ Calm(p)' => HookKnows(p)' /\ Steady(p)',
           OnlyCow'
    PROVE  VInv'
  <1>1. Others(t) /\ th'[t] = Idle /\ th'[t].pc = "idle" /\ Shaped(t)' /\ Holds(t)'
    BY ReturnEnds
  <1>2. Moves1(t)
    BY <1>1 DEF Moves1
  <1>3. Leaves1(t)
    BY <1>1 DEF Leaves1, Own
  <1> QED BY <1>1, <1>2, <1>3, OneThread

(* A step of a lookup or a copy keeps the invariant if the path it is at     *)
(* fits.                                                                     *)
LEMMA GoingOn ==
    ASSUME IInv, VInv, NEW t \in Thread, NEW pc \in Lookup \cup {"copy", "prepared"},
           th[t].pc \in Lookup \cup {"copy", "prepared"}, Others(t), Goes(t, pc), Shaped(t)',
           \A p \in Path : p \notin Paths(th[t]) => Forgets(p),
           \A p \in Paths(th[t]) :
              /\ excuse[p] \subseteq excuse'[p] \cup {"recreated"}
              /\ ~Mutates(th[t]) => ovl'[p] = ovl[p] /\ compute(p, FALSE)' = compute(p, FALSE)
              /\ Calm(p)' /\ p # th[t].at => Forgets(p)
              /\ Calm(p)' /\ p = th[t].at =>
                    /\ HookKnows(p)'
                    /\ Mutates(th[t]) /\ pc \in Lookup => LooksUp(t, p)'
                    /\ Mutates(th[t]) /\ pc \in {"copy", "prepared"} => CopiesUp(t, p)'
                    /\ ~Mutates(th[t]) => Steady(p)' /\ Reads(t, p)',
           \A p \in Path : p # th[t].at => SameFile(p),
           OnlyCow'
    PROVE  VInv'
  <1>0. th[t].pc # "idle" /\ th'[t].pc = pc /\ pc # "idle" /\ (Mutates(th'[t]) <=> Mutates(th[t]))
    BY DEF Lookup, Goes, SameCall, Mutates
  <1>1. Moves1(t)
    BY <1>0 DEF Moves1, Goes
  <1>2. ASSUME NEW p \in Paths(th[t]), Calm(p)' PROVE Holds(t)' /\ HookKnows(p)' /\ Own(t, p)'
    <2>1. p \in Path /\ Calm(p)
      BY <1>2, ReadersPath, <1>0 DEF Calm
    <2>2. Holds(t) /\ HookKnows(p) /\ (Mutates(th[t]) => Mid(t, p)) /\ (~Mutates(th[t]) => Steady(p))
      BY <1>0, <2>1, <1>2, Relies
    <2>3. Holds(t)'
      <3>1. CASE th[t].op # "rename"
        BY <3>1 DEF Holds, Goes, SameCall
      <3>2. CASE th[t].op = "rename" /\ th[t].at = th[t].path
        <4>1. th[t].on = None
          BY <1>0, <3>2 DEF VInv, ThreadInv, Shaped
        <4> QED BY <4>1, OverlayAssumption DEF Holds, Goes, SameCall, Lookup
      <3>3. CASE th[t].at # th[t].path
        <4>1. SameFile(th[t].path)
          BY <1>0, <3>3, ReadersPath
        <4> QED BY <2>2, <4>1, HoldsGoes DEF SameFile, Lookup
      <3> QED BY <3>1, <3>2, <3>3
    <2>4. HookKnows(p)'
      <3>1. CASE p = th[t].at
        BY <3>1, <1>2
      <3>2. CASE p # th[t].at
        BY <3>2, <1>2, <2>1, <2>2, KnowsStays DEF Others
      <3> QED BY <3>1, <3>2
    <2>5. CASE Mutates(th[t])
      <3>1. Mid(t, p)'
        BY <1>2, <2>2, <2>5, MidLookup
      <3> QED BY <1>0, <2>3, <2>4, <2>5, <3>1 DEF Own
    <2>6. CASE ~Mutates(th[t])
      <3>1. p = th[t].at
        BY <1>0, <1>2, <2>6, ReadersPath
      <3> QED BY <1>0, <1>2, <2>3, <2>4, <2>6, <3>1 DEF Own
    <2> QED BY <2>5, <2>6
  <1>3. Leaves1(t)
    BY <1>2 DEF Leaves1
  <1> QED BY <1>0, <1>1, <1>3, OneThread

-----------------------------------------------------------------------------
(* The steps of a lookup. *)

(* A step that changes only threads changes nothing at any path. *)
LEMMA AllForget ==
    ASSUME UNCHANGED <<real, ovl, idx, wh, srv, hook, published, view, excuse>>
    PROVE  \A p \in Path : Forgets(p)
  BY DEF Forgets, SameFile

(* Overlay files and markers stay where they may be. *)
LEMMA OnlyCowStays ==
    ASSUME OnlyCow, UNCHANGED <<rule, ovl>>, idx' \subseteq idx, wh' \subseteq wh
    PROVE  OnlyCow'
  BY DEF OnlyCow, MayOvl, MayReal

(* A reader's decision. *)
LEMMA ReadServes ==
    ASSUME IInv, ReadsPassThrough, NEW p \in Path, Steady(p)
    PROVE  /\ compute(p, FALSE) \in {"Passthrough", "Hidden", "Cow"}
           /\ Served(p, FALSE) \in {"Passthrough", "Hidden", "Cow"}
           /\ srv[p][FALSE] = None => Served(p, FALSE) = compute(p, FALSE)
  <1>1. compute(p, FALSE) \in {"Passthrough", "Hidden", "Cow"}
    <2>1. CASE p \in Project
      BY <2>1, Computes DEF IInv
    <2>2. CASE p \notin Project
      BY <2>2, Computes DEF IInv
    <2> QED BY <2>1, <2>2
  <1>2. Served(p, FALSE) = compute(p, FALSE) \/ Served(p, FALSE) = "Passthrough"
    BY DEF Steady, ServesWell, Served
  <1> QED BY <1>1, <1>2 DEF Served

(* The decision a call asks for. *)
LEMMA WriteIs ==
    ASSUME NEW t \in Thread
    PROVE  (Mutates(th[t]) => Write(t) = TRUE) /\ (~Mutates(th[t]) => Write(t) = FALSE)
  BY WriteMutates DEF Write, is_write_access

(* A decision is taken from a cache, or computed. *)
LEMMA DecideView ==
    ASSUME IInv, VInv, ReadsPassThrough, NEW t \in Thread, Decide(t)
    PROVE  VInv'
  <1>0. th[t].pc = "decide" /\ UNCHANGED <<owner, rule, real, ovl, idx, wh, srv, hook, published, view, excuse>>
    BY DEF Decide, index, caches, history
  <1>1. PICK p \in Path : p = th[t].at
    BY <1>0, Inside
  <1> DEFINE h == hook[owner[t]][p][Write(t)]
  <1> DEFINE Takes(pc, d) ==
                /\ pc \in {"decided", "reply", "insert"}
                /\ th' = [th EXCEPT ![t].pc = pc, ![t].dec = d]
                /\ pc = "decided" => d = h /\ h # None
                /\ pc # "decided" => d = Served(p, Write(t)) /\ h = None
                /\ pc = "insert" => srv[p][Write(t)] = None
  <1>2. PICK pc, d : Takes(pc, d)
    <2>1. CASE h # None
      <3>1. th' = [th EXCEPT ![t].pc = "decided", ![t].dec = h]
        BY <1>1, <2>1 DEF Decide
      <3>2. Takes("decided", h)
        BY <2>1, <3>1
      <3> HIDE DEF Takes, h
      <3> QED BY <3>2
    <2>2. CASE h = None /\ srv[p][Write(t)] # None
      BY <1>1, <2>2 DEF Decide
    <2>3. CASE h = None /\ srv[p][Write(t)] = None
      BY <1>1, <2>3 DEF Decide
    <2> QED BY <2>1, <2>2, <2>3
  <1>3. Others(t) /\ Goes(t, pc) /\ th'[t].retry = th[t].retry /\ th'[t].dec = d
    <2>1. pc \in PC /\ pc # "idle" /\ th[t].pc # "idle"
      BY <1>0, <1>2 DEF PC
    <2>2. th' = [th EXCEPT ![t].pc = pc, ![t].dec = d] /\ UNCHANGED <<owner, rule>>
      BY <1>0, <1>2
    <2> QED BY <2>1, <2>2, DecisionGoes
  <1>4. \A x \in Path : Forgets(x)
    BY <1>0, AllForget
  <1>5. Shaped(t)'
    BY <1>0, <1>2, <1>3, ShapedGoes DEF Lookup
  <1>6. Paths(th[t]) \subseteq Path
    BY <1>0, ReadersPath
  <1>7. ASSUME p \in Paths(th[t]), Calm(p)
        PROVE  /\ HookKnows(p)'
               /\ Mutates(th[t]) => LooksUp(t, p)'
               /\ ~Mutates(th[t]) => Steady(p)' /\ Reads(t, p)'
    <2>1. /\ HookKnows(p) /\ (Mutates(th[t]) => Mid(t, p))
          /\ ~Mutates(th[t]) => Steady(p) /\ Reads(t, p)
      BY <1>0, <1>7, Relies
    <2>2. HookKnows(p)'
      BY <1>3, <1>4, <2>1, KnowsStays DEF Others
    <2>3. ASSUME Mutates(th[t]) PROVE LooksUp(t, p)'
      <3>1. LooksUp(t, p)
        BY <1>0, <1>1, <2>1, <2>3 DEF Mid, Lookup
      <3>2. th[t].op = "unlink" => p = th[t].path /\ th[t].disp = "OPEN"
        BY <1>0, <1>1, Inside DEF IsCall
      <3>3. \/ pc = "decided" /\ d = hook[owner[t]][p][TRUE] /\ d # None
            \/ pc # "decided" /\ d = Served(p, TRUE) /\ hook[owner[t]][p][TRUE] = None
        BY <1>2, <2>3, WriteIs
      <3> QED BY <1>0, <1>1, <1>2, <1>3, <1>4, <2>1, <3>1, <3>2, <3>3, DecideLooks DEF VInv
    <2>4. ASSUME ~Mutates(th[t]) PROVE Steady(p)' /\ Reads(t, p)'
      <3>1. Steady(p)'
        BY <1>3, <1>4, <2>1, <2>4, SteadyStays DEF IInv, Others
      <3>2. Write(t) = FALSE
        BY <2>4, WriteIs
      <3>3. compute(p, FALSE)' = compute(p, FALSE)
        BY <1>3, <1>4, ComputeSame DEF Forgets, Others
      <3>4. pc \in {"reply", "insert"} => d = Served(p, FALSE)
        BY <1>2, <3>2
      <3>5. pc = "insert" => srv[p][FALSE] = None
        BY <1>2, <3>2
      <3>6. Reads(t, p)'
        BY <1>2, <1>3, <2>1, <2>4, <3>3, <3>4, <3>5, ReadServes DEF Reads, Goes, Lookup
      <3> QED BY <3>1, <3>6
    <2> QED BY <2>2, <2>3, <2>4
  <1>8. OnlyCow'
    BY <1>0, OnlyCowStays DEF VInv
  <1>9. \A x \in Paths(th[t]) : ovl'[x] = ovl[x] /\ compute(x, FALSE)' = compute(x, FALSE)
    BY <1>3, <1>4, <1>6, ComputeSame DEF Forgets, SameFile, Others
  <1>10. \A x \in Path : SameFile(x) /\ excuse'[x] = excuse[x] /\ (Calm(x)' => Calm(x))
    BY <1>4 DEF Forgets, Calm
  <1>11. pc \in Lookup /\ th[t].pc \in Lookup /\ pc \notin {"copy", "prepared"}
    BY <1>0, <1>2 DEF Lookup
  <1> QED BY <1>1, <1>3, <1>4, <1>5, <1>6, <1>7, <1>8, <1>9, <1>10, <1>11, GoingOn

(* Caching a decision that is right leaves a path as it is. *)
LEMMA FillsWell ==
    ASSUME NEW p \in Path, NEW w \in BOOLEAN, UNCHANGED <<rule, hook, published, excuse>>,
           SameFile(p), srv'[p][w] = compute(p, w),
           \A v \in BOOLEAN : v # w => srv'[p][v] = srv[p][v]
    PROVE  /\ Steady(p) => Steady(p)'
           /\ Revived(p) /\ w = TRUE => Revived(p)'
           /\ HookKnows(p) => HookKnows(p)'
  <1>1. (MayOvl(p)' <=> MayOvl(p)) /\ (Virgin(p)' <=> Virgin(p))
    BY DEF MayOvl, Virgin, Unpublished, SameFile
  <1>2. \A v \in BOOLEAN : compute(p, v)' = compute(p, v)
    BY ComputeSame
  <1>3. ServesWell(p) => ServesWell(p)'
    BY <1>1, <1>2 DEF ServesWell
  <1>4. Shape(p) => Shape(p)'
    BY <1>1 DEF Shape, Upper, Lower, Shows, SameFile
  <1>5. (HookCow(p) => HookCow(p)') /\ (Indexed(p) => Indexed(p)')
    BY DEF HookCow, Indexed, SameFile
  <1>6. HookKnows(p) => HookKnows(p)'
    BY DEF HookKnows, SameFile
  <1>7. Revived(p) /\ w = TRUE => Revived(p)'
    BY <1>3 DEF Revived, SameFile
  <1> QED BY <1>3, <1>4, <1>5, <1>6, <1>7 DEF Steady

(* The broker caches what it computed. *)
LEMMA InsertView ==
    ASSUME IInv, VInv, ReadsPassThrough, NEW t \in Thread, Insert(t)
    PROVE  VInv'
  <1>0. /\ th[t].pc = "insert" /\ Goto(t, "reply")
        /\ UNCHANGED <<owner, rule, real, ovl, idx, wh, hook, published, view, excuse>>
    BY DEF Insert, caches, history
  <1>1. PICK p \in Path : p = th[t].at
    BY <1>0, Inside
  <1>2. Write(t) \in BOOLEAN
    BY DEF Write, is_write_access
  <1>3. Others(t) /\ Goes(t, "reply") /\ th'[t].retry = th[t].retry /\ th'[t].dec = th[t].dec
    BY <1>0, GotoGoes DEF PC
  <1>4. \A x \in Path, w \in BOOLEAN :
           srv'[x][w] = IF x = p /\ w = Write(t) THEN th[t].dec ELSE srv[x][w]
    <2>1. th[t].at \in Path /\ srv' = [srv EXCEPT ![th[t].at][Write(t)] = th[t].dec]
      BY <1>1 DEF Insert
    <2>2. \A x \in Path, w \in BOOLEAN :
             srv'[x][w] = IF x = th[t].at /\ w = Write(t) THEN th[t].dec ELSE srv[x][w]
      BY <2>1, SrvInsertLocal
    <2> QED BY <1>1, <2>2
  <1>5. Shaped(t)'
    BY <1>0, <1>3, ShapedGoes DEF Lookup
  <1>6. Paths(th[t]) \subseteq Path
    BY <1>0, ReadersPath
  <1>7. ASSUME p \in Paths(th[t]), Calm(p)
        PROVE  /\ HookKnows(p)'
               /\ Mutates(th[t]) => LooksUp(t, p)'
               /\ ~Mutates(th[t]) => Steady(p)' /\ Reads(t, p)'
    <2>1. /\ HookKnows(p) /\ (Mutates(th[t]) => Mid(t, p))
          /\ ~Mutates(th[t]) => Steady(p) /\ Reads(t, p)
      BY <1>0, <1>7, Relies
    <2>2. /\ Mutates(th[t]) => LooksUp(t, p)
          /\ th[t].dec = compute(p, Write(t))
      BY <1>0, <1>1, <2>1, WriteIs DEF Mid, Lookup, LooksUp, Reads
    <2>3. SameFile(p)
      BY <1>0 DEF SameFile
    <2>4. /\ Steady(p) => Steady(p)'
          /\ Revived(p) /\ Write(t) = TRUE => Revived(p)'
          /\ HookKnows(p) => HookKnows(p)'
      BY <1>0, <1>2, <1>4, <2>2, <2>3, FillsWell
    <2>5. \A v \in BOOLEAN : compute(p, v)' = compute(p, v)
      BY <1>0, <2>3, ComputeSame
    <2>6. ASSUME Mutates(th[t]) PROVE LooksUp(t, p)'
      BY <1>0, <1>3, <2>2, <2>4, <2>5, <2>6, WriteIs DEF LooksUp, Goes, SameCall
    <2>7. ASSUME ~Mutates(th[t]) PROVE Steady(p)' /\ Reads(t, p)'
      BY <1>0, <1>3, <2>1, <2>4, <2>7 DEF Reads, Goes, Lookup
    <2> QED BY <2>1, <2>4, <2>6, <2>7
  <1>8. OnlyCow'
    BY <1>0, OnlyCowStays DEF VInv
  <1>9. \A x \in Path : SameFile(x) /\ excuse'[x] = excuse[x] /\ (Calm(x)' => Calm(x))
    BY <1>0 DEF SameFile, Calm
  <1>10. \A x \in Path : x # p => Forgets(x)
    BY <1>0, <1>4, <1>9 DEF Forgets
  <1>11. \A x \in Paths(th[t]) : ovl'[x] = ovl[x] /\ compute(x, FALSE)' = compute(x, FALSE)
    BY <1>0, <1>6, <1>9, ComputeSame DEF SameFile
  <1>12. "reply" \in Lookup /\ th[t].pc \in Lookup
    BY <1>0 DEF Lookup
  <1>13. p \in Paths(th[t])
    BY <1>0, <1>1, ReadersPath
  <1> QED BY <1>1, <1>3, <1>5, <1>6, <1>7, <1>8, <1>9, <1>10, <1>11, <1>12, <1>13, GoingOn

(* A process caches what the broker computed. *)
LEMMA ReplyView ==
    ASSUME IInv, VInv, ReadsPassThrough, NEW t \in Thread, Reply(t)
    PROVE  VInv'
  <1>0. /\ th[t].pc = "reply" /\ Goto(t, "decided") /\ HookInsert(t, th[t].dec)
        /\ UNCHANGED <<owner, rule, real, ovl, idx, wh, srv, published, view, excuse>>
    BY DEF Reply, index, history
  <1>1. PICK p \in Path : p = th[t].at
    BY <1>0, Inside
  <1> DEFINE d == th[t].dec
  <1>2. Write(t) \in BOOLEAN /\ owner[t] \in Process /\ Sound(p, Write(t), d) /\ d \in Decision
    BY <1>0, <1>1, Inside DEF Write, is_write_access, SoundCall, ThreadState
  <1>3. Others(t) /\ Goes(t, "decided") /\ th'[t].retry = th[t].retry /\ th'[t].dec = d
    BY <1>0, GotoGoes DEF PC
  <1>4. \A q \in Process, x \in Path, w \in BOOLEAN :
           hook'[q][x][w] = IF Cacheable(d) /\ q = owner[t] /\ x = p /\ w = Write(t)
                            THEN d ELSE hook[q][x][w]
    BY <1>0, <1>1, HookInsertLocal
  <1>5. Shaped(t)'
    BY <1>0, <1>3, ShapedGoes DEF Lookup
  <1>6. Paths(th[t]) \subseteq Path /\ p \in Paths(th[t])
    BY <1>0, <1>1, ReadersPath
  <1>7. ASSUME Calm(p)
        PROVE  /\ HookKnows(p)'
               /\ Mutates(th[t]) => LooksUp(t, p)'
               /\ ~Mutates(th[t]) => Steady(p)' /\ Reads(t, p)'
    <2>1. /\ HookKnows(p) /\ (Mutates(th[t]) => Mid(t, p))
          /\ ~Mutates(th[t]) => Steady(p) /\ Reads(t, p)
      BY <1>0, <1>6, <1>7, Relies
    <2>2. /\ Mutates(th[t]) => LooksUp(t, p) /\ d = compute(p, TRUE)
          /\ ~Mutates(th[t]) => d # "Deny"
      BY <1>0, <1>1, <2>1 DEF Mid, Lookup, LooksUp, Reads
    <2>3. SameFile(p)
      BY <1>0 DEF SameFile
    <2>4. /\ d = "Deny" /\ Mutates(th[t]) => p \in External /\ rule[p].write = "Deny"
          /\ d = "CowFrom" => Mutates(th[t]) /\ real[p] # None
          /\ d = "Cow" /\ Mutates(th[t]) /\ ovl[p] = None =>
                view[p] = None /\ (Steady(p) => real[p] = None)
      <3>1. d = "CowFrom" => Mutates(th[t])
        BY <1>2, WriteIs DEF Sound
      <3>2. d = "CowFrom" => real[p] # None
        BY <2>2, <3>1, WriteDecides DEF VInv
      <3>3. d = "Deny" /\ Mutates(th[t]) => p \in External /\ rule[p].write = "Deny"
        BY <2>2, WriteDecides DEF VInv
      <3>4. ASSUME d = "Cow", Mutates(th[t]), ovl[p] = None
            PROVE  view[p] = None /\ (Steady(p) => real[p] = None)
        BY <2>2, <3>4, CowIsMissing DEF LooksUp
      <3> QED BY <3>1, <3>2, <3>3, <3>4
    <2>5. HookKnows(p)'
      <3> SUFFICES ASSUME NEW q \in Process, NEW w \in BOOLEAN
                   PROVE  /\ hook'[q][p][w] \notin {"Passthrough", "Hidden"}
                          /\ hook'[q][p][w] = "Deny" =>
                                w /\ p \in External /\ rule'[p].write = "Deny"
                          /\ hook'[q][p][w] = "CowFrom" => real'[p] # None
        BY DEF HookKnows
      <3>1. CASE hook'[q][p][w] = hook[q][p][w]
        BY <1>0, <2>1, <3>1 DEF HookKnows
      <3>2. CASE hook'[q][p][w] = d /\ Cacheable(d) /\ w = Write(t)
        <4>1. d \notin {"Passthrough", "Hidden"}
          BY <3>2 DEF Cacheable
        <4>2. d = "Deny" => Mutates(th[t])
          BY <2>2
        <4>3. d = "Deny" => w
          BY <3>2, <4>2, WriteIs
        <4> QED BY <1>0, <2>4, <3>2, <4>1, <4>2, <4>3
      <3> QED BY <1>4, <3>1, <3>2
    <2>6. ServesWell(p) => ServesWell(p)'
      <3>1. (MayOvl(p)' <=> MayOvl(p)) /\ (Virgin(p)' <=> Virgin(p))
        BY <1>0, <2>3 DEF MayOvl, Virgin, Unpublished, SameFile
      <3>2. \A v \in BOOLEAN : compute(p, v)' = compute(p, v)
        BY <1>0, <2>3, ComputeSame
      <3> QED BY <1>0, <3>1, <3>2 DEF ServesWell
    <2>7. Steady(p) => Steady(p)'
      <3> SUFFICES ASSUME Steady(p) PROVE Steady(p)'
        OBVIOUS
      <3>1. Shape(p)'
        BY <1>0 DEF Steady, Shape, Upper, Lower, Shows, MayOvl, Virgin, Unpublished
      <3>2. Indexed(p)'
        BY <1>0 DEF Steady, Indexed
      <3>3. HookCow(p)'
        <4> SUFFICES ASSUME NEW q \in Process, hook'[q][p][TRUE] = "Cow", ovl[p] = None, p \notin wh
                     PROVE  real[p] = None
          BY <1>0 DEF HookCow
        <4>0. TRUE \in BOOLEAN
          OBVIOUS
        <4>1. CASE hook[q][p][TRUE] = "Cow"
          BY <4>1 DEF Steady, HookCow
        <4>2. CASE hook[q][p][TRUE] # "Cow"
          <5>1. d = "Cow" /\ Write(t) = TRUE
            BY <1>4, <4>0, <4>2
          <5>2. Mutates(th[t])
            BY <5>1, WriteIs
          <5> QED BY <2>4, <5>1, <5>2
        <4> QED BY <4>1, <4>2
      <3> QED BY <2>6, <3>1, <3>2, <3>3 DEF Steady
    <2>8. Revived(p) => Revived(p)'
      BY <1>0, <2>6 DEF Revived
    <2>9. compute(p, TRUE)' = compute(p, TRUE)
      BY <1>0, <2>3, ComputeSame
    <2>10. ASSUME Mutates(th[t]) PROVE LooksUp(t, p)'
      BY <1>0, <1>3, <2>2, <2>4, <2>7, <2>8, <2>9, <2>10 DEF LooksUp, Goes, SameCall
    <2>11. ASSUME ~Mutates(th[t]) PROVE Steady(p)' /\ Reads(t, p)'
      BY <1>0, <1>3, <2>1, <2>7, <2>11 DEF Reads, Goes, Lookup
    <2> QED BY <2>5, <2>10, <2>11
  <1>8. OnlyCow'
    BY <1>0, OnlyCowStays DEF VInv
  <1>9. \A x \in Path : SameFile(x) /\ excuse'[x] = excuse[x] /\ (Calm(x)' => Calm(x))
    BY <1>0 DEF SameFile, Calm
  <1>10. \A x \in Path : x # p => Forgets(x)
    BY <1>0, <1>4, <1>9 DEF Forgets
  <1>11. \A x \in Paths(th[t]) : ovl'[x] = ovl[x] /\ compute(x, FALSE)' = compute(x, FALSE)
    BY <1>0, <1>6, <1>9, ComputeSame DEF SameFile
  <1>12. "decided" \in Lookup /\ th[t].pc \in Lookup /\ "decided" \notin {"copy", "prepared"}
    BY <1>0 DEF Lookup
  <1> QED BY <1>1, <1>3, <1>5, <1>6, <1>7, <1>8, <1>9, <1>10, <1>11, <1>12, GoingOn

(* A lost question leaves the call's paths in doubt. *)
LEMMA DecideFailsView ==
    ASSUME IInv, VInv, ReadsPassThrough, NEW t \in Thread, DecideFails(t)
    PROVE  VInv'
  <1>0. /\ th[t].pc \in {"decide", "reply"} /\ HookInsert(t, "Deny") /\ Fault(t)
        /\ th' = [th EXCEPT ![t].pc = "decided", ![t].dec = "Deny"]
        /\ UNCHANGED <<owner, rule, real, ovl, idx, wh, srv, published, view>>
    BY DEF DecideFails, index
  <1>1. PICK p \in Path : p = th[t].at
    BY <1>0, Inside
  <1>2. /\ Others(t) /\ Goes(t, "decided") /\ th'[t].retry = th[t].retry /\ th'[t].dec = "Deny"
    <2>1. "decided" \in PC /\ th[t].pc # "idle" /\ UNCHANGED <<owner, rule>>
      BY <1>0 DEF PC
    <2> QED BY <1>0, <2>1, DecisionGoes
  <1>3. \A q \in Process, x \in Path, w \in BOOLEAN : x # p => hook'[q][x][w] = hook[q][x][w]
    BY <1>0, <1>1, HookInsertLocal
  <1>4. Shaped(t)'
    BY <1>0, <1>2, ShapedGoes DEF Lookup
  <1>5. Paths(th[t]) \subseteq Path /\ p \in Paths(th[t])
    BY <1>0, <1>1, ReadersPath
  <1>6. OnlyCow'
    BY <1>0, OnlyCowStays DEF VInv
  <1>7. \A x \in Path : SameFile(x) /\ excuse[x] \subseteq excuse'[x]
    BY <1>0, FaultLocal DEF SameFile
  <1>8. \A x \in Path : x \notin Paths(th[t]) => Forgets(x)
    BY <1>0, <1>3, <1>5, <1>7, FaultLocal DEF Forgets
  <1>9. \A x \in Paths(th[t]) : /\ ~Calm(x)'
                                /\ ovl'[x] = ovl[x] /\ compute(x, FALSE)' = compute(x, FALSE)
    BY <1>0, <1>5, <1>7, FaultLocal, ComputeSame DEF SameFile
  <1>10. "decided" \in Lookup /\ th[t].pc \in Lookup
    BY <1>0 DEF Lookup
  <1>11. "decided" \notin {"copy", "prepared"}
    OBVIOUS
  <1> QED BY <1>2, <1>4, <1>5, <1>6, <1>7, <1>8, <1>9, <1>10, <1>11, GoingOn

(* The decision is asked for again, with nothing cached or published. *)
LEMMA FreshView ==
    ASSUME IInv, VInv, ReadsPassThrough, NEW t \in Thread, decide_fresh_if_overlay_missing(t)
    PROVE  VInv'
  <1>0. /\ th[t].pc = "decided" /\ "fresh" \in th[t].retry
        /\ published' = overlay_publish_forget(owner[t], th[t].at)
        /\ hook' = Invalidate(owner[t], th[t].at)
        /\ th' = [th EXCEPT ![t].pc = "decide", ![t].retry = th[t].retry \ {"fresh"}]
        /\ UNCHANGED <<owner, rule, real, ovl, idx, wh, srv, view, excuse>>
    BY DEF decide_fresh_if_overlay_missing, index, history, Stale
  <1>1. PICK p \in Path : p = th[t].at
    BY <1>0, Inside
  <1>2. PICK q \in Process : q = owner[t]
    BY <1>0, Inside
  <1>3. /\ Others(t) /\ Goes(t, "decide") /\ th'[t].retry = th[t].retry \ {"fresh"}
    <2>1. "decide" \in PC /\ th[t].pc # "idle" /\ UNCHANGED <<owner, rule>>
      BY <1>0 DEF PC
    <2> QED BY <1>0, <2>1, RetryGoes
  <1>4. \A q1 \in Process, x \in Path, w \in BOOLEAN :
           hook'[q1][x][w] = IF q1 = q /\ x = p THEN None ELSE hook[q1][x][w]
    BY <1>0, <1>1, <1>2, InvalidateLocal
  <1>5. \A q1 \in Process, x \in Path :
           x \in published'[q1] <=> x \in published[q1] /\ ~(q1 = q /\ x = p)
    BY <1>0, <1>1, <1>2, ForgetLocal
  <1>6. \A x \in Path : Forgets(x)
    BY <1>0, <1>4, <1>5 DEF Forgets, SameFile
  <1>7. Shaped(t)'
    BY <1>0, <1>3, ShapedGoes DEF Lookup
  <1>8. Paths(th[t]) \subseteq Path /\ p \in Paths(th[t])
    BY <1>0, <1>1, ReadersPath
  <1>9. ASSUME Calm(p)
        PROVE  /\ HookKnows(p)'
               /\ Mutates(th[t]) => LooksUp(t, p)'
               /\ ~Mutates(th[t]) => Steady(p)' /\ Reads(t, p)'
    <2>1. /\ HookKnows(p) /\ (Mutates(th[t]) => Mid(t, p))
          /\ ~Mutates(th[t]) => Steady(p) /\ Reads(t, p)
      BY <1>0, <1>8, <1>9, Relies
    <2>2. Steady(p)
      BY <1>0, <1>1, <2>1 DEF Mid, Lookup, LooksUp
    <2>3. Steady(p)' /\ HookKnows(p)'
      BY <1>0, <1>6, <2>1, <2>2, SteadyStays, KnowsStays DEF IInv
    <2>4. hook'[owner'[t]][p][TRUE] = None /\ p \notin published'[owner'[t]]
      BY <1>0, <1>2, <1>4, <1>5
    <2>5. LooksUp(t, p)'
      BY <1>3, <2>3, <2>4 DEF LooksUp, Goes
    <2>6. Reads(t, p)'
      BY <1>3 DEF Reads, Goes, Lookup
    <2> QED BY <2>3, <2>5, <2>6
  <1>10. OnlyCow'
    BY <1>0, OnlyCowStays DEF VInv
  <1>11. \A x \in Path : SameFile(x) /\ excuse'[x] = excuse[x] /\ (Calm(x)' => Calm(x))
    BY <1>6 DEF Forgets, Calm
  <1>12. \A x \in Paths(th[t]) : ovl'[x] = ovl[x] /\ compute(x, FALSE)' = compute(x, FALSE)
    BY <1>0, <1>8, <1>11, ComputeSame DEF SameFile
  <1>13. "decide" \in Lookup /\ th[t].pc \in Lookup /\ "decide" \notin {"copy", "prepared"}
    BY <1>0 DEF Lookup
  <1> QED BY <1>1, <1>3, <1>6, <1>7, <1>8, <1>9, <1>10, <1>11, <1>12, <1>13, GoingOn

(* The marker of a hidden path is removed. *)
LEMMA ReviveView ==
    ASSUME IInv, VInv, ReadsPassThrough, NEW t \in Thread, Revive(t)
    PROVE  VInv'
  <1>0. /\ th[t].pc = "decided" /\ "revive" \in th[t].retry /\ th[t].dec = "Hidden"
        /\ Send(t, idx, wh \ {th[t].at})
        /\ published' = IF th[t].op = "rename" THEN published
                        ELSE overlay_publish_forget(owner[t], th[t].at)
        /\ hook' = Invalidate(owner[t], th[t].at)
        /\ th' = [th EXCEPT ![t].pc = "decide", ![t].retry = {}]
        /\ UNCHANGED <<owner, rule, real, ovl, view>>
    BY DEF Revive, Revivable
  <1>1. PICK p \in Path : p = th[t].at
    BY <1>0, Inside
  <1>2. PICK q \in Process : q = owner[t]
    BY <1>0, Inside
  <1>3. /\ Others(t) /\ Goes(t, "decide") /\ th'[t].retry = {}
    <2>1. "decide" \in PC /\ th[t].pc # "idle" /\ UNCHANGED <<owner, rule>>
      BY <1>0 DEF PC
    <2> QED BY <1>0, <2>1, RetryGoes
  <1>4. \A q1 \in Process, x \in Path, w \in BOOLEAN :
           hook'[q1][x][w] = IF q1 = q /\ x = p THEN None ELSE hook[q1][x][w]
    BY <1>0, <1>1, <1>2, InvalidateLocal
  <1>5. \A q1 \in Process, x \in Path :
           /\ x \in published'[q1] => x \in published[q1]
           /\ th[t].op # "rename" => ~(q1 = q /\ x = p /\ x \in published'[q1])
    BY <1>0, <1>1, <1>2, ForgetLocal
  <1>6. Shaped(t)'
    BY <1>0, <1>3, ShapedGoes DEF Lookup
  <1>7. Paths(th[t]) \subseteq Path /\ p \in Paths(th[t])
    BY <1>0, <1>1, ReadersPath
  <1>8. p = th[t].path => is_create_disposition(th[t].disp) /\ th[t].op # "rename"
    <2>1. SUFFICES ASSUME p = th[t].path
                   PROVE  is_create_disposition(th[t].disp) /\ th[t].op # "rename"
      OBVIOUS
    <2>2. is_create_disposition(th[t].disp) /\ th[t].op # "unlink"
      BY <1>0, <1>1, <2>1 DEF VInv, ThreadInv, Shaped, Retries
    <2>3. th[t].op = "rename" => th[t].disp \in {"keep", "replace"}
      BY <1>0 DEF VInv, ThreadInv, Shaped
    <2> QED BY <2>2, <2>3 DEF is_create_disposition
  <1>9. Mutates(th[t])
    <2>1. CASE p = th[t].path
      BY <1>0, <1>8, <2>1, Inside DEF IsCall, is_create_disposition, Mutates
    <2>2. CASE p # th[t].path
      BY <1>0, <1>1, <2>2, Inside DEF IsCall, Mutates
    <2> QED BY <2>1, <2>2
  <1>10. CASE Fault(t) /\ UNCHANGED <<idx, wh, srv>>
    <2>1. \A x \in Path : SameFile(x) /\ excuse[x] \subseteq excuse'[x]
      BY <1>0, <1>10, FaultLocal DEF SameFile
    <2>2. \A x \in Path : x \notin Paths(th[t]) => Forgets(x)
      BY <1>0, <1>4, <1>5, <1>10, <2>1, FaultLocal DEF Forgets
    <2>3. \A x \in Paths(th[t]) : ~Calm(x)'
      BY <1>10, FaultLocal
    <2>4. OnlyCow'
      BY <1>0, <1>10, OnlyCowStays DEF VInv
    <2>5. "decide" \in Lookup /\ th[t].pc \in Lookup
      BY <1>0 DEF Lookup
    <2> QED BY <1>3, <1>6, <1>7, <1>9, <2>1, <2>2, <2>3, <2>4, <2>5, GoingOn
  <1>11. CASE /\ idx' = idx /\ wh' = wh \ {th[t].at} /\ excuse' = excuse
              /\ \A x \in Path, w \in BOOLEAN : srv'[x][w] = None
    <2>1. \A x \in Path : x # p => SameFile(x)
      BY <1>0, <1>1, <1>11 DEF SameFile
    <2>2. \A x \in Path : x # p => Forgets(x)
      BY <1>0, <1>4, <1>5, <1>11, <2>1 DEF Forgets
    <2>3. OnlyCow'
      BY <1>0, <1>11, OnlyCowStays DEF VInv
    <2>4. ASSUME Calm(p) PROVE HookKnows(p)' /\ LooksUp(t, p)'
      <3>1. HookKnows(p) /\ Mid(t, p)
        BY <1>0, <1>7, <1>9, <2>4, Relies
      <3>2. Steady(p) /\ th[t].dec = compute(p, TRUE)
        BY <1>0, <1>1, <3>1 DEF Mid, Lookup, LooksUp, Cow
      <3>3. p \in External /\ p \in wh /\ ovl[p] = None /\ p \notin idx
        BY <1>0, <3>2, WriteDecides DEF VInv
      <3>4. rule[p].write # "Deny"
        BY <3>3 DEF VInv, OnlyCow, MayOvl, MayReal, External
      <3>5. view[p] = None
        <4>1. p \notin Project
          BY <3>3 DEF External
        <4> QED BY <3>2, <3>3, <4>1 DEF Steady, Shape, Upper, Lower, Virgin
      <3>6. HookKnows(p)'
        BY <1>0, <1>4, <3>1, OverlayAssumption DEF HookKnows
      <3>7. Revived(p)'
        <4>1. \A w \in BOOLEAN : srv'[p][w] = None
          BY <1>11
        <4>2. ServesWell(p)' /\ srv'[p][FALSE] = None
          BY <4>1 DEF ServesWell
        <4> QED BY <1>0, <1>1, <1>11, <3>3, <3>4, <3>5, <4>2 DEF Revived
      <3>8. hook'[owner'[t]][p][TRUE] = None
        BY <1>0, <1>2, <1>4
      <3>9. p = th[t].path => p \notin published'[owner'[t]]
        BY <1>0, <1>2, <1>5, <1>8
      <3>10. LooksUp(t, p)'
        BY <1>3, <1>8, <3>7, <3>8, <3>9 DEF LooksUp, Goes, SameCall
      <3> QED BY <3>6, <3>10
    <2>5. \A x \in Path : excuse'[x] = excuse[x] /\ (Calm(x)' => Calm(x))
      BY <1>11 DEF Calm
    <2>6. "decide" \in Lookup /\ th[t].pc \in Lookup /\ "decide" \notin {"copy", "prepared"}
      BY <1>0 DEF Lookup
    <2> QED BY <1>1, <1>3, <1>6, <1>7, <1>9, <2>1, <2>2, <2>3, <2>4, <2>5, <2>6, GoingOn
  <1>12. Send(t, idx, wh \ {th[t].at}) =>
            \/ Fault(t) /\ UNCHANGED <<idx, wh, srv>>
            \/ /\ idx' = idx /\ wh' = wh \ {th[t].at} /\ excuse' = excuse
               /\ \A x \in Path, w \in BOOLEAN : srv'[x][w] = None
    BY DEF Send, index, NoDecisions
  <1> QED BY <1>0, <1>10, <1>11, <1>12

-----------------------------------------------------------------------------
(* The end of a lookup. *)

(* A revived path is not hidden, and its rule lets it be written. *)
LEMMA RevivedComputes ==
    ASSUME IInv, ReadsPassThrough, NEW p \in Path, Revived(p)
    PROVE  compute(p, TRUE) \notin {"Hidden", "Deny"}
  <1>1. p \notin Project /\ ~Whiteouted(p) /\ rule[p].write # "Deny"
    BY DEF Revived, External, Whiteouted
  <1>2. rule[p].write \in {"Passthrough", "Cow", "Deny"}
    BY <1>1, Computes DEF IInv
  <1> QED BY <1>1, <1>2, Computes DEF IInv

(* A path that is written in place is at rest once its file is what it       *)
(* should be.                                                                *)
LEMMA RealSteady ==
    ASSUME IInv, IInv', ReadsPassThrough, NEW p \in Path, MayReal(p), OnlyCow, UNCHANGED rule,
           ovl'[p] = ovl[p], p \in idx' <=> p \in idx, p \in wh' <=> p \in wh,
           \A w \in BOOLEAN : srv'[p][w] \in {srv[p][w], None},
           \A q \in Process, w \in BOOLEAN : hook'[q][p][w] \in {hook[q][p][w], None},
           ServesWell(p), HookKnows(p), Lower(p)'
    PROVE  Steady(p)' /\ HookKnows(p)'
  <1>1. ~MayOvl(p) /\ ~MayOvl(p)' /\ ovl[p] = None /\ p \notin idx
    BY DEF MayReal, MayOvl, External, OnlyCow
  <1>2. \A q \in Process : hook[q][p][TRUE] \notin Cow
        /\ \A w \in BOOLEAN : hook[q][p][w] # "CowFrom"
    <2>1. \A q \in Process, w \in BOOLEAN : Sound(p, w, hook[q][p][w])
      BY DEF IInv, Caches
    <2>2. TRUE \in BOOLEAN
      OBVIOUS
    <2> QED BY <1>1, <2>1, <2>2 DEF Sound, Cow
  <1>3. \A w \in BOOLEAN : compute(p, w)' = compute(p, w)
    <2>1. Tables /\ Tables' /\ (Whiteouted(p)' <=> Whiteouted(p)) /\ (Overlaid(p)' <=> Overlaid(p))
      BY DEF IInv, Whiteouted, Overlaid
    <2>2. CASE p \in Project
      BY <2>2 DEF compute, External
    <2>3. CASE p \notin Project
      <3>1. p \in External /\ rule[p].write = "Passthrough" /\ rule[p].read = "Passthrough"
        BY <2>1, <2>3, OverlayAssumption DEF MayReal, External, Tables, ReadsPassThrough
      <3> QED BY <2>1, <3>1 DEF compute
    <2> QED BY <2>2, <2>3
  <1>4. ServesWell(p)'
    BY <1>1, <1>3 DEF ServesWell
  <1>5. HookCow(p)' /\ HookKnows(p)'
    <2>1. \A q \in Process, w \in BOOLEAN : hook'[q][p][w] # "CowFrom"
      BY <1>2, OverlayAssumption
    <2>2. \A q \in Process : hook'[q][p][TRUE] # "Cow"
      BY <1>2, OverlayAssumption DEF Cow
    <2>3. HookKnows(p)'
      BY <2>1, OverlayAssumption DEF HookKnows
    <2> QED BY <2>2, <2>3 DEF HookCow
  <1>6. Shape(p)' /\ Indexed(p)'
    BY <1>1 DEF Shape, Indexed
  <1> QED BY <1>4, <1>5, <1>6 DEF Steady

(* A call that has decided knows this of its path. *)
LEMMA AtDecided ==
    ASSUME IInv, VInv, ReadsPassThrough, NEW t \in Thread, th[t].pc = "decided",
           NEW p \in Path, p \in Paths(th[t]), Calm(p)
    PROVE  /\ HookKnows(p)
           /\ Mutates(th[t]) /\ p = th[t].at => LooksUp(t, p)
           /\ Mutates(th[t]) /\ p = th[t].at /\ th[t].dec \notin Cow => th[t].dec = compute(p, TRUE)
           /\ Mutates(th[t]) /\ p = th[t].at /\ th[t].dec \in {"Hidden", "Deny"} => Steady(p)
           /\ p # th[t].at => Waits(t, p)
           /\ ~Mutates(th[t]) => Steady(p)
  <1>1. /\ HookKnows(p) /\ (Mutates(th[t]) => Mid(t, p))
        /\ ~Mutates(th[t]) => Steady(p) /\ Reads(t, p)
    BY Relies
  <1>2. p # th[t].at => Mutates(th[t])
    BY ReadersPath
  <1>3. Mutates(th[t]) /\ p = th[t].at => LooksUp(t, p)
    BY <1>1 DEF Mid, Lookup
  <1>4. Mutates(th[t]) /\ p = th[t].at /\ th[t].dec \notin Cow => th[t].dec = compute(p, TRUE)
    BY <1>3 DEF LooksUp
  <1>5. th[t].dec \in {"Hidden", "Deny"} => th[t].dec \notin Cow
    BY DEF Cow
  <1>6. Mutates(th[t]) /\ p = th[t].at /\ th[t].dec \in {"Hidden", "Deny"} => Steady(p)
    BY <1>3, <1>4, <1>5, RevivedComputes DEF LooksUp
  <1> QED BY <1>1, <1>2, <1>3, <1>4, <1>6 DEF Mid, Lookup

(* A call is refused. *)
LEMMA RefuseView ==
    ASSUME IInv, VInv, ReadsPassThrough, NEW t \in Thread, Refuse(t)
    PROVE  VInv'
  <1>0. /\ th[t].pc = "decided" /\ th[t].dec \in {"Hidden", "Deny"} /\ Return(t)
        /\ UNCHANGED <<owner, rule, real, ovl, idx, wh, srv, hook, published, view, excuse>>
    BY DEF Refuse, Decided, index, caches, history
  <1>1. Paths(th[t]) \subseteq Path
    BY <1>0, ReadersPath
  <1>2. \A x \in Path : Forgets(x)
    BY <1>0, AllForget
  <1>3. ASSUME NEW x \in Paths(th[t]), Calm(x)' PROVE HookKnows(x)' /\ Steady(x)'
    <2>1. Calm(x) /\ x \in Path
      BY <1>0, <1>1, <1>3 DEF Calm
    <2>2. HookKnows(x) /\ Steady(x)
      BY <1>0, <2>1, AtDecided DEF Waits
    <2> QED BY <1>0, <1>2, <2>1, <2>2, KnowsStays, SteadyStays DEF IInv
  <1>4. OnlyCow'
    BY <1>0, OnlyCowStays DEF VInv
  <1>5. \A x \in Paths(th[t]) : ovl'[x] = ovl[x] /\ compute(x, FALSE)' = compute(x, FALSE)
    BY <1>0, <1>1, <1>2, ComputeSame DEF Forgets, SameFile
  <1> QED BY <1>0, <1>1, <1>2, <1>3, <1>4, <1>5, Ending

(* A handle is passed on, to delete or to rename. *)
LEMMA Handles ==
    ASSUME IInv, VInv, NEW t \in Thread, th[t].pc # "idle", th[t].at = th[t].path,
           th[t].op \in {"delete", "rename"}, NEW layer \in {"real", "ovl"}, UseHandle(t, layer),
           UNCHANGED <<owner, rule>>, OnlyCow',
           \A p \in Path : p \notin Paths(th[t]) => Forgets(p),
           \A p \in Paths(th[t]) :
              /\ excuse[p] \subseteq excuse'[p] \cup {"recreated"}
              /\ Calm(p)' =>
                    /\ HookKnows(p)' /\ Steady(p)'
                    /\ p = th[t].path /\ layer = "real" => OnReal(p)'
                    /\ layer = "real" => real'[th[t].path] # None
                    /\ layer = "ovl" => ovl'[th[t].path] # None
    PROVE  VInv'
  <1>1. th \in [Thread -> ThreadState] /\ th[t] \in ThreadState /\ IsCall(th[t])
    BY Inside DEF IInv, Threads
  <1>2. Shaped(t) /\ Mutates(th[t])
    BY DEF VInv, ThreadInv, Mutates
  <1>3. /\ Others(t) /\ SameCall(t) /\ th'[t].on = layer /\ layer # None
        /\ th[t].op = "delete" => /\ th'[t].pc = "use" /\ th'[t].at = th[t].path
                                  /\ th'[t].retry = th[t].retry
        /\ th[t].op = "rename" => /\ th'[t].pc = "decide" /\ th'[t].at = th[t].dst
                                  /\ th'[t].retry = {"revive"}
    <2>1. CASE th[t].op = "delete"
      <3>1. th' = [th EXCEPT ![t] = [th[t] EXCEPT !.pc = "use", !.on = layer]]
        BY <2>1 DEF UseHandle
      <3> QED BY <1>1, <2>1, <3>1, OverlayAssumption DEF Others, SameCall, ThreadState
    <2>2. CASE th[t].op = "rename"
      <3>1. th' = [th EXCEPT ![t] = [th[t] EXCEPT !.pc = "decide", !.on = layer, !.at = th[t].dst,
                                                  !.retry = {"revive"}]]
        BY <2>2 DEF UseHandle
      <3> QED BY <1>1, <2>2, <3>1, OverlayAssumption DEF Others, SameCall, ThreadState
    <2> QED BY <2>1, <2>2
  <1>4. Shaped(t)'
    BY <1>2, <1>3 DEF Shaped, SameCall, Retries
  <1>5. Moves1(t)
    BY <1>2, <1>3 DEF Moves1
  <1>6. ASSUME NEW p \in Paths(th[t]), Calm(p)' PROVE Holds(t)' /\ HookKnows(p)' /\ Own(t, p)'
    <2>1. Holds(t)'
      BY <1>3, <1>6 DEF Holds, SameCall
    <2>2. CASE th[t].op = "delete"
      <3>1. p = th[t].path
        BY <1>6, <2>2, ReadersPath
      <3>2. Uses(t, p)'
        BY <1>3, <1>6, <3>1 DEF Uses
      <3>3. Mid(t, p)'
        BY <1>3, <2>2, <3>2 DEF Mid, Lookup, SameCall
      <3> QED BY <1>2, <1>3, <1>6, <2>1, <2>2, <3>3 DEF Own, Mutates, SameCall
    <2>3. CASE th[t].op = "rename"
      <3>1. th[t].dst # th[t].path /\ p \in {th[t].path, th[t].dst}
        BY <1>2, <1>6, <2>3, ReadersPath DEF Shaped
      <3>2. p = th[t].path => Waits(t, p)'
        BY <1>3, <1>6 DEF Waits, SameCall
      <3>3. p = th[t].dst => LooksUp(t, p)'
        BY <1>3, <1>6, <2>3, <3>1 DEF LooksUp, SameCall
      <3>4. Mid(t, p)'
        BY <1>3, <2>3, <3>1, <3>2, <3>3 DEF Mid, Lookup, SameCall
      <3> QED BY <1>2, <1>3, <1>6, <2>1, <2>3, <3>4 DEF Own, Mutates, SameCall
    <2> QED BY <2>2, <2>3
  <1>7. Leaves1(t)
    BY <1>6 DEF Leaves1
  <1> QED BY <1>4, <1>5, <1>7, OneThread

-----------------------------------------------------------------------------
(* Opening. *)

(* An open of a file that is what the view says leaves it so. *)
LEMMA OpenShows ==
    ASSUME NEW t \in Thread, NEW p \in Path, NEW old, NEW new, view[p] = old,
           Opens(old, th[t].disp), new = Content(t, old, th[t].disp), ViewOpens(t, p),
           view \in [Path -> Token]
    PROVE  view'[p] = new
  BY DEF ViewOpens

(* The real file is opened. *)
LEMMA OpenRealView ==
    ASSUME IInv, IInv', VInv, ReadsPassThrough, NEW t \in Thread, OpenReal(t)
    PROVE  VInv'
  <1>0. /\ th[t].pc = "decided" /\ th[t].at = th[t].path /\ th[t].op # "unlink"
        /\ th[t].dec = "Passthrough" \/ ReadsLower(t)
        /\ UNCHANGED <<owner, rule, ovl, idx, wh, srv, hook, published>>
    BY DEF OpenReal, Decided, FirstPath, index, caches
  <1>1. PICK p \in Path : p = th[t].at
    BY <1>0, Inside
  <1>2. /\ Paths(th[t]) \subseteq Path /\ p \in Paths(th[t])
        /\ th[t].op # "rename" => Paths(th[t]) = {p}
    BY <1>0, <1>1, ReadersPath
  <1>3. OnlyCow /\ OnlyCow'
    BY <1>0, OnlyCowStays DEF VInv
  <1>4. Mutates(th[t]) => th[t].dec = "Passthrough"
    BY <1>0, WriteIs DEF ReadsLower
  <1>5. ASSUME Mutates(th[t]), Calm(p)
        PROVE  /\ HookKnows(p) /\ LooksUp(t, p) /\ OnReal(p) /\ ServesWell(p)
               /\ th[t].op \in {"delete", "rename"} => Steady(p)
    <2>1. HookKnows(p) /\ LooksUp(t, p) /\ compute(p, TRUE) = "Passthrough"
      BY <1>0, <1>1, <1>2, <1>4, <1>5, AtDecided DEF Cow
    <2>2. OnReal(p)
      BY <1>3, <2>1, WriteDecides
    <2>3. ServesWell(p)
      BY <2>1 DEF LooksUp, Steady, Revived
    <2>4. th[t].op \in {"delete", "rename"} => ~is_create_disposition(th[t].disp)
      <3>1. th[t].op = "delete" => th[t].disp = "OPEN"
        BY <1>0, Inside DEF IsCall
      <3>2. th[t].op = "rename" => th[t].disp \in {"keep", "replace"}
        BY <1>0 DEF VInv, ThreadInv, Shaped
      <3> QED BY <3>1, <3>2 DEF is_create_disposition
    <2>5. th[t].op \in {"delete", "rename"} => Steady(p)
      BY <1>0, <1>1, <2>1, <2>4 DEF LooksUp
    <2> QED BY <2>1, <2>2, <2>3, <2>5
  <1>6. ASSUME UNCHANGED <<real, view, excuse>>,
               NEW x \in Paths(th[t]), Calm(x)', Mutates(th[t]) => th[t].op \in {"delete", "rename"}
        PROVE  HookKnows(x)' /\ Steady(x)'
    <2>1. Calm(x) /\ x \in Path /\ Forgets(x)
      BY <1>0, <1>2, <1>6, AllForget DEF Calm
    <2>2. HookKnows(x) /\ Steady(x)
      <3>1. CASE x = p
        BY <1>0, <1>1, <1>5, <1>6, <2>1, <3>1, AtDecided
      <3>2. CASE x # p
        BY <1>0, <1>1, <1>6, <2>1, <3>2, AtDecided DEF Waits
      <3> QED BY <3>1, <3>2
    <2> QED BY <1>0, <2>1, <2>2, KnowsStays, SteadyStays DEF IInv
  <1>7. ASSUME UNCHANGED <<real, view, excuse>>
        PROVE  /\ \A x \in Path : Forgets(x) /\ (Calm(x)' <=> Calm(x))
               /\ \A x \in Paths(th[t]) : ovl'[x] = ovl[x] /\ compute(x, FALSE)' = compute(x, FALSE)
    <2>1. \A x \in Path : Forgets(x) /\ (Calm(x)' <=> Calm(x))
      BY <1>0, <1>7, AllForget DEF Calm
    <2>2. \A x \in Paths(th[t]) : ovl'[x] = ovl[x] /\ compute(x, FALSE)' = compute(x, FALSE)
      BY <1>0, <1>2, <2>1, ComputeSame DEF Forgets, SameFile
    <2> QED BY <2>1, <2>2
  <1>8. CASE th[t].op \in {"delete", "rename"} /\ real[p] # None
    <2>1. UNCHANGED <<real, view, excuse>> /\ UseHandle(t, "real")
      BY <1>1, <1>8 DEF OpenReal, history
    <2>2. Mutates(th[t])
      BY <1>8 DEF Mutates
    <2>3. \A x \in Paths(th[t]) : Calm(x)' => HookKnows(x)' /\ Steady(x)'
      BY <1>6, <1>8, <2>1
    <2>4. Calm(p)' => OnReal(p)'
      BY <1>0, <1>5, <1>7, <2>1, <2>2 DEF OnReal, MayReal
    <2>5. real'[th[t].path] # None /\ "real" \in {"real", "ovl"} /\ "real" # "ovl"
      BY <1>0, <1>1, <1>8, <2>1
    <2>6. p = th[t].path
      BY <1>0, <1>1
    <2> QED BY <1>0, <1>1, <1>2, <1>3, <1>7, <1>8, <2>1, <2>3, <2>4, <2>5, <2>6, Handles
  <1>9. CASE th[t].op \in {"delete", "rename"} /\ real[p] = None
    <2>1. UNCHANGED <<real, view, excuse>> /\ Return(t)
      BY <1>1, <1>9 DEF OpenReal, history
    <2> QED BY <1>0, <1>2, <1>3, <1>6, <1>7, <1>9, <2>1, Ending
  <1>10. CASE th[t].op \notin {"delete", "rename"} /\ ~Mutates(th[t])
    <2>1. UNCHANGED <<real, view, excuse>> /\ Return(t)
      BY <1>1, <1>10 DEF OpenReal, history
    <2> QED BY <1>0, <1>2, <1>3, <1>6, <1>7, <1>10, <2>1, Ending
  <1>11. CASE th[t].op \notin {"delete", "rename"} /\ Mutates(th[t])
    <2>1. /\ Return(t) /\ excuse' = Resurrect(p)
          /\ \/ /\ Opens(real[p], th[t].disp) /\ ViewOpens(t, p)
                /\ real' = [real EXCEPT ![p] = Content(t, real[p], th[t].disp)]
             \/ UNCHANGED <<real, view>>
      BY <1>1, <1>11 DEF OpenReal, history
    <2>2. Paths(th[t]) = {p}
      BY <1>2, <1>11
    <2>3. \A x \in Path : x # p => Forgets(x)
      <3>1. \A x \in Path : x # p => real'[x] = real[x] /\ view'[x] = view[x] /\ excuse'[x] = excuse[x]
        BY <2>1, ResurrectLocal DEF IInv, Files, ViewOpens
      <3> QED BY <1>0, <3>1 DEF Forgets, SameFile
    <2>4. excuse[p] \subseteq excuse'[p] /\ excuse'[p] \subseteq excuse[p] \cup {"recreated"}
      BY <2>1, ResurrectLocal
    <2>5. ASSUME Calm(p)' PROVE HookKnows(p)' /\ Steady(p)'
      <3>1. Calm(p)
        BY <2>4, <2>5 DEF Calm
      <3>2. HookKnows(p) /\ LooksUp(t, p) /\ OnReal(p) /\ ServesWell(p)
        BY <1>5, <1>11, <3>1
      <3>3. "recreated" \in excuse'[p] \/ view[p] = real[p]
        <4>1. CASE Steady(p)
          <5>1. ~MayOvl(p)
            BY <3>2 DEF OnReal, MayReal, MayOvl, External
          <5>2. Shows(p, real[p])
            BY <3>2, <4>1, <5>1 DEF Steady, Shape, Lower, OnReal
          <5> QED BY <2>4, <5>2 DEF Shows
        <4>2. CASE Revived(p)
          BY <2>1, <4>2, ResurrectLocal DEF Revived
        <4> QED BY <3>2, <4>1, <4>2 DEF LooksUp
      <3>4. "recreated" \in excuse'[p] \/ view'[p] = real'[p]
        <4>1. CASE view[p] = real[p] /\ Opens(real[p], th[t].disp) /\ ViewOpens(t, p)
                   /\ real' = [real EXCEPT ![p] = Content(t, real[p], th[t].disp)]
          <5>1. real'[p] = Content(t, real[p], th[t].disp) /\ view \in [Path -> Token]
            BY <4>1 DEF IInv, Files
          <5> QED BY <4>1, <5>1, OpenShows
        <4>2. CASE UNCHANGED <<real, view>>
          BY <3>3, <4>2
        <4> QED BY <2>1, <3>3, <4>1, <4>2
      <3>5. Lower(p)'
        BY <1>0, <3>2, <3>4 DEF Lower, Shows, OnReal
      <3> QED BY <1>0, <1>3, <3>2, <3>5, RealSteady DEF OnReal
    <2>6. OnlyCow' /\ \A x \in Path : x \notin Paths(th[t]) => Forgets(x)
      BY <1>3, <2>2, <2>3
    <2> QED BY <1>0, <1>11, <2>1, <2>2, <2>4, <2>5, <2>6, Ending
  <1> QED BY <1>8, <1>9, <1>10, <1>11

-----------------------------------------------------------------------------
(* Copying up. *)

(* The index entry, the marker and whether there is an overlay file decide.  *)
LEMMA ServesCopied ==
    ASSUME IInv, IInv', ReadsPassThrough, NEW p \in Path, MayOvl(p), p \notin idx, p \notin wh,
           UNCHANGED <<rule, real, idx, wh, srv, published, view>>, ovl'[p] # None,
           ServesWell(p), ovl[p] # None \/ srv[p][FALSE] = None \/ Virgin(p)
    PROVE  ServesWell(p)'
  <1>1. p \notin Project /\ rule[p].write = "Cow" /\ MayOvl(p)'
    BY DEF MayOvl, External
  <1>2. /\ ~Whiteouted(p) /\ ~Whiteouted(p)' /\ Overlaid(p)'
        /\ Overlaid(p) <=> ovl[p] # None
    BY DEF Whiteouted, Overlaid
  <1>3. compute(p, TRUE)' = compute(p, TRUE)
    <2>1. \A w \in BOOLEAN : w = TRUE => compute(p, w)' = compute(p, w)
      <3>1. p \in External
        BY DEF MayOvl
      <3> QED BY <1>1, <1>2, <3>1 DEF compute
    <2> QED BY <2>1
  <1>4. compute(p, FALSE)' = "Cow"
    <2>1. Tables' /\ (rule[p].read = "Passthrough")
      BY <1>1, OverlayAssumption DEF IInv, Tables, ReadsPassThrough, External
    <2>2. \A w \in BOOLEAN : w = FALSE => compute(p, w)' = "Cow"
      <3>1. p \in External
        BY DEF MayOvl
      <3> QED BY <1>1, <1>2, <2>1, <3>1 DEF compute
    <2> QED BY <2>2
  <1>5. compute(p, FALSE) = IF ovl[p] # None THEN "Cow" ELSE "Passthrough"
    BY <1>1, <1>2, Computes DEF IInv
  <1>6. Virgin(p)' <=> Virgin(p)
    BY DEF Virgin, Unpublished
  <1>7. \A w \in BOOLEAN : w = TRUE \/ w = FALSE
    OBVIOUS
  <1>8. srv'[p][TRUE] = None \/ srv'[p][TRUE] = compute(p, TRUE)'
    BY <1>3 DEF ServesWell
  <1>9. \/ srv'[p][FALSE] = None \/ srv'[p][FALSE] = compute(p, FALSE)'
        \/ srv'[p][FALSE] = "Passthrough" /\ MayOvl(p)' /\ Virgin(p)'
    BY <1>1, <1>4, <1>5, <1>6 DEF ServesWell
  <1> QED BY <1>7, <1>8, <1>9 DEF ServesWell

(* A call that starts or ends a copy is shaped as before. *)
LEMMA ShapedCopies ==
    ASSUME IInv, VInv, NEW t \in Thread, th[t].pc # "idle", NEW pc \in {"copy", "prepared"},
           Goes(t, pc), th'[t].retry = th[t].retry, th[t].op # "unlink"
    PROVE  Shaped(t)'
  BY DEF VInv, ThreadInv, Shaped, Goes, SameCall, Retries

(* A copy begins. *)
LEMMA PrepareView ==
    ASSUME IInv, IInv', VInv, ReadsPassThrough, NEW t \in Thread, prepare_overlay(t)
    PROVE  VInv'
  <1>0. /\ th[t].pc = "decided" /\ ~Stale(t) /\ th[t].op # "unlink" /\ th[t].dec = "CowFrom"
        /\ ovl[th[t].at] = None /\ real[th[t].at] # None
        /\ Goto(t, "copy") /\ ovl' = [ovl EXCEPT ![th[t].at] = "torn"] /\ excuse' = Resurrect(th[t].at)
        /\ UNCHANGED <<owner, rule, real, idx, wh, srv, hook, published, view>>
    BY DEF prepare_overlay, Decided, Copies, index, caches
  <1>1. PICK p \in Path : p = th[t].at
    BY <1>0, Inside
  <1>2. Paths(th[t]) \subseteq Path /\ p \in Paths(th[t])
    BY <1>0, <1>1, ReadersPath
  <1>3. Others(t) /\ Goes(t, "copy") /\ th'[t].retry = th[t].retry /\ th'[t].dec = th[t].dec
    BY <1>0, GotoGoes DEF PC
  <1>4. Shaped(t)'
    BY <1>0, <1>3, ShapedCopies
  <1>5. Mutates(th[t]) /\ MayOvl(p) /\ p \in External
    <2>1. Sound(p, Write(t), "CowFrom")
      BY <1>0, <1>1, Inside DEF SoundCall, Write
    <2> QED BY <2>1, WriteMutates DEF Sound, Cow
  <1>6. ovl'[p] = "torn" /\ ovl'[p] # None /\ \A x \in Path : x # p => ovl'[x] = ovl[x]
    BY <1>0, <1>1, OverlayAssumption DEF IInv, Files
  <1>7. OnlyCow'
    BY <1>0, <1>5, <1>6 DEF VInv, OnlyCow, MayOvl, MayReal
  <1>8. /\ \A x \in Path : x # p => excuse'[x] = excuse[x]
        /\ excuse[p] \subseteq excuse'[p] /\ excuse'[p] \subseteq excuse[p] \cup {"recreated"}
        /\ view[p] = None => "recreated" \in excuse'[p]
    BY <1>0, <1>1, <1>5, ResurrectLocal
  <1>9. \A x \in Path : x # p => Forgets(x)
    BY <1>0, <1>6, <1>8 DEF Forgets, SameFile
  <1>10. ASSUME Calm(p)' PROVE HookKnows(p)' /\ CopiesUp(t, p)'
    <2>1. Calm(p)
      BY <1>8, <1>10 DEF Calm
    <2>2. HookKnows(p) /\ LooksUp(t, p)
      BY <1>0, <1>1, <1>2, <1>5, <2>1, AtDecided
    <2>3. HookKnows(p)'
      BY <1>0, <2>2 DEF HookKnows
    <2>4. Steady(p) => Upper(p)
      BY <1>5 DEF Steady, Shape
    <2>5. Shows(p, real[p])'
      BY <1>0, <1>1, <1>8, <2>2, <2>4 DEF LooksUp, Upper, Virgin, Revived, Shows
    <2>6. p = th[t].path => p \notin published[owner[t]] /\ ServesWell(p)'
      <3>1. SUFFICES ASSUME p = th[t].path PROVE p \notin published[owner[t]] /\ ServesWell(p)'
        OBVIOUS
      <3>2. "fresh" \notin th[t].retry
        BY <1>0 DEF Stale, Cow
      <3>3. p \notin published[owner[t]] /\ compute(p, TRUE) = "CowFrom"
        BY <1>0, <2>2, <3>1, <3>2 DEF LooksUp
      <3>4. p \notin idx /\ p \notin wh
        BY <1>0, <1>1, <3>3, WriteDecides DEF VInv, Cow, Whiteouted, Overlaid
      <3>5. ServesWell(p) /\ (srv[p][FALSE] = None \/ Virgin(p))
        BY <1>0, <1>1, <2>2, <2>4, <3>4 DEF LooksUp, Steady, Revived, Upper
      <3> QED BY <1>0, <1>5, <1>6, <3>3, <3>4, <3>5, ServesCopied
    <2>7. MayOvl(p)'
      BY <1>0, <1>5 DEF MayOvl
    <2> QED BY <1>0, <1>1, <1>3, <1>6, <2>3, <2>5, <2>6, <2>7 DEF CopiesUp, Goes, SameCall
  <1>11. "copy" \in {"copy", "prepared"} /\ "copy" \notin Lookup /\ th[t].pc \in Lookup
    BY <1>0 DEF Lookup
  <1>12. \A x \in Path : x # p => SameFile(x)
    BY <1>9 DEF Forgets
  <1>13. \A x \in Paths(th[t]) : excuse[x] \subseteq excuse'[x] \cup {"recreated"}
    BY <1>2, <1>8
  <1>14. \A x \in Path : x \notin Paths(th[t]) => Forgets(x)
    BY <1>2, <1>9
  <1> QED BY <1>1, <1>2, <1>3, <1>4, <1>5, <1>7, <1>9, <1>10, <1>11, <1>12, <1>13, <1>14, GoingOn

(* A copy ends, or fails and is discarded. *)
LEMMA CopyView ==
    ASSUME IInv, IInv', VInv, ReadsPassThrough, NEW t \in Thread, cow_copy_verified(t)
    PROVE  VInv'
  <1>0. /\ th[t].pc = "copy" /\ th[t].dec = "CowFrom" /\ Goto(t, "prepared")
        /\ \/ ovl' = [ovl EXCEPT ![th[t].at] = real[th[t].at]] /\ excuse' = excuse
           \/ ovl' = [ovl EXCEPT ![th[t].at] = None] /\ Fault(t)
        /\ UNCHANGED <<owner, rule, real, idx, wh, srv, hook, published, view>>
    BY Inside DEF cow_copy_verified, index, caches, SoundCall
  <1>1. PICK p \in Path : p = th[t].at
    BY <1>0, Inside
  <1>2. Paths(th[t]) \subseteq Path /\ p \in Paths(th[t])
    BY <1>0, <1>1, ReadersPath
  <1>3. Others(t) /\ Goes(t, "prepared") /\ th'[t].retry = th[t].retry /\ th'[t].dec = th[t].dec
    BY <1>0, GotoGoes DEF PC
  <1>4. Shaped(t)'
    <2>1. th[t].op # "unlink"
      BY <1>0 DEF VInv, ThreadInv, Shaped
    <2> QED BY <1>0, <1>3, <2>1, ShapedCopies
  <1>5. Mutates(th[t]) /\ MayOvl(p)
    <2>1. Sound(p, Write(t), "CowFrom")
      BY <1>0, <1>1, Inside DEF SoundCall, Write
    <2> QED BY <2>1, WriteMutates DEF Sound, Cow
  <1>6. \A x \in Path : x # p => ovl'[x] = ovl[x]
    BY <1>0, <1>1 DEF IInv, Files
  <1>7. OnlyCow'
    BY <1>0, <1>5, <1>6 DEF VInv, OnlyCow, MayOvl, MayReal
  <1>8. \A x \in Path : x # p => SameFile(x)
    BY <1>0, <1>6 DEF SameFile
  <1>9. \A x \in Path : excuse[x] \subseteq excuse'[x] /\ (x \notin Paths(th[t]) => excuse'[x] = excuse[x])
    BY <1>0, FaultLocal
  <1>10. \A x \in Path : x # p /\ excuse'[x] = excuse[x] => Forgets(x)
    BY <1>0, <1>8 DEF Forgets
  <1>11. \A x \in Paths(th[t]) : Calm(x)' => excuse' = excuse /\ ovl' = [ovl EXCEPT ![p] = real[p]]
    BY <1>0, <1>1, FaultLocal
  <1>12. ASSUME Calm(p)' PROVE HookKnows(p)' /\ CopiesUp(t, p)'
    <2>1. Calm(p) /\ ovl'[p] = real[p] /\ excuse' = excuse
      BY <1>2, <1>11, <1>12 DEF Calm, IInv, Files
    <2>2. HookKnows(p) /\ CopiesUp(t, p)
      BY <1>0, <1>1, <1>2, <1>5, <2>1, Relies DEF Mid
    <2>3. HookKnows(p)'
      BY <1>0, <2>2 DEF HookKnows
    <2>4. Whiteouted(p)' <=> Whiteouted(p)
      BY <1>0, <2>1, <2>2 DEF Whiteouted, Overlaid, CopiesUp
    <2>5. Overlaid(p)' <=> Overlaid(p)
      BY <1>0, <2>1, <2>2 DEF Overlaid, CopiesUp
    <2>6. \A w \in BOOLEAN : compute(p, w)' = compute(p, w)
      BY <1>0, <2>4, <2>5 DEF compute
    <2>7. (MayOvl(p)' <=> MayOvl(p)) /\ (Virgin(p)' <=> Virgin(p))
      BY <1>0 DEF MayOvl, Virgin, Unpublished
    <2>8. ServesWell(p) => ServesWell(p)'
      BY <1>0, <2>6, <2>7 DEF ServesWell
    <2> QED BY <1>0, <1>3, <2>1, <2>2, <2>3, <2>7, <2>8 DEF CopiesUp, Goes, SameCall, Shows
  <1>13. "prepared" \in {"copy", "prepared"} /\ "prepared" \notin Lookup /\ th[t].pc \in {"copy", "prepared"}
    BY <1>0 DEF Lookup
  <1>14. \A x \in Paths(th[t]) : Calm(x)' /\ x # p => Forgets(x)
    BY <1>2, <1>10, <1>11
  <1>15. \A x \in Path : x \notin Paths(th[t]) => Forgets(x)
    BY <1>2, <1>9, <1>10
  <1> QED BY <1>1, <1>2, <1>3, <1>4, <1>5, <1>7, <1>8, <1>9, <1>12, <1>13, <1>14, <1>15, GoingOn

-----------------------------------------------------------------------------
(* The redirected open. *)

(* What a changing call that is about to open the overlay file knows. *)
LEMMA OverlayReady ==
    ASSUME IInv, VInv, ReadsPassThrough, NEW t \in Thread, Prepared(t), FirstPath(t),
           Mutates(th[t]), NEW p \in Path, p = th[t].path, Calm(p)
    PROVE  /\ HookKnows(p) /\ MayOvl(p) /\ Shows(p, ovl[p])
           /\ p \in published[owner[t]] => Steady(p) /\ ovl[p] # None
           /\ ~Steady(p) => ovl[p] = None /\ is_create_disposition(th[t].disp)
                            /\ th[t].op \notin {"delete", "rename"}
  <1>1. th[t].pc # "idle" /\ th[t].at = p /\ th[t].op # "unlink" /\ p \in Paths(th[t])
    BY ReadersPath DEF Prepared, Decided, FirstPath
  <1>2. MayOvl(p)
    BY <1>1, MutatesIsWrite, PreparedSound
  <1>3. CASE th[t].pc = "prepared"
    <2>1. HookKnows(p) /\ CopiesUp(t, p)
      BY <1>1, <1>3, Relies DEF Mid
    <2>2. ovl[p] = real[p] /\ ovl[p] # None /\ Shows(p, ovl[p]) /\ ServesWell(p)
          /\ p \notin published[owner[t]]
      BY <1>3, <2>1 DEF CopiesUp
    <2>3. Steady(p)
      BY <1>2, <2>2 DEF Steady, Shape, Upper, HookCow, Indexed
    <2> QED BY <1>2, <2>1, <2>2, <2>3
  <1>4. CASE Decided(t) /\ th[t].dec \in Cow /\ ~Copies(t)
    <2>1. th[t].pc = "decided" /\ ~Stale(t)
      BY <1>4 DEF Decided
    <2>2. HookKnows(p) /\ LooksUp(t, p)
      BY <1>1, <2>1, AtDecided
    <2>3. Steady(p) => Upper(p)
      BY <1>2 DEF Steady, Shape
    <2>4. ASSUME ovl[p] = None
          PROVE  view[p] = None /\ p \notin published[owner[t]]
      <3>1. "fresh" \notin th[t].retry
        BY <1>1, <1>4, <2>1, <2>4 DEF Stale
      <3>2. th[t].dec = compute(p, TRUE) /\ p \notin published[owner[t]]
        BY <1>1, <2>1, <2>2, <3>1 DEF LooksUp
      <3>3. th[t].dec = "Cow"
        BY <1>1, <1>4, <2>4, <3>2, WriteDecides DEF VInv, Copies, Cow
      <3>4. view[p] = None
        BY <2>2, <2>4, <3>2, <3>3, CowIsMissing DEF LooksUp
      <3> QED BY <3>2, <3>4
    <2>5. Shows(p, ovl[p])
      BY <2>2, <2>3, <2>4 DEF LooksUp, Revived, Upper, Shows
    <2>6. ~Steady(p) => /\ ovl[p] = None /\ is_create_disposition(th[t].disp)
                        /\ p \notin published[owner[t]]
      BY <2>2, <2>4 DEF LooksUp, Revived
    <2>7. ~Steady(p) => th[t].op \notin {"delete", "rename"}
      <3>1. th[t].op = "delete" => th[t].disp = "OPEN"
        BY <1>1, Inside DEF IsCall
      <3>2. th[t].op = "rename" => th[t].disp \in {"keep", "replace"}
        BY <1>1 DEF VInv, ThreadInv, Shaped
      <3> QED BY <2>6, <3>1, <3>2 DEF is_create_disposition
    <2> QED BY <1>2, <2>2, <2>4, <2>5, <2>6, <2>7
  <1> QED BY <1>3, <1>4 DEF Prepared

(* The overlay file and the view after the open of a changing call. *)
LEMMA OpenedOverlay ==
    ASSUME IInv, NEW t \in Thread, NEW p \in Path, p = th[t].path, th[t].pc # "idle",
           th[t].op \in {"read", "write"}, th[t].disp \in Disposition, Shows(p, ovl[p]),
           Opens(ovl[p], th[t].disp), ovl'[p] = Content(t, ovl[p], th[t].disp),
           ViewOpens(t, p), excuse' = Forgive(p, th[t].disp)
    PROVE  ovl'[p] # None /\ Shows(p, ovl[p])'
  <1>1. ovl'[p] # None
    BY OverlayAssumption DEF Content, Opened, Opens, Disposition
  <1>2. view \in [Path -> Token]
    BY DEF IInv, Files
  <1>3. CASE view[p] = ovl[p]
    BY <1>1, <1>2, <1>3, OpenShows DEF Shows
  <1>4. CASE "recreated" \in excuse[p] /\ th[t].disp \in {"OVERWRITE", "OVERWRITE_IF"}
    <2>1. Doubtful(p)
      BY <1>4 DEF Doubtful
    <2>2. view'[p] = Content(t, view[p], th[t].disp)
      BY <1>2, <2>1 DEF ViewOpens
    <2>3. Content(t, view[p], th[t].disp) = Content(t, ovl[p], th[t].disp)
      BY <1>4 DEF Content, Opened
    <2> QED BY <1>1, <2>2, <2>3 DEF Shows
  <1>5. CASE "recreated" \in excuse[p] /\ th[t].disp \notin {"OVERWRITE", "OVERWRITE_IF"}
    <2>1. th[t].disp # "replace"
      BY DEF Disposition
    <2>2. excuse'[p] = excuse[p]
      BY <1>5, <2>1, ForgiveLocal
    <2> QED BY <1>1, <1>5, <2>2 DEF Shows
  <1> QED BY <1>1, <1>3, <1>4, <1>5 DEF Shows

(* The overlay file is opened in place of the real one. *)
LEMMA OpenOverlayView ==
    ASSUME IInv, IInv', VInv, ReadsPassThrough, NEW t \in Thread, OpenOverlay(t)
    PROVE  VInv'
  <1>0. /\ Prepared(t) /\ FirstPath(t) /\ th[t].at = th[t].path /\ th[t].op # "unlink"
        /\ th[t].pc \in {"decided", "prepared"}
        /\ UNCHANGED <<owner, rule, real, idx, wh, srv>>
    BY PreparedSound DEF OpenOverlay, FirstPath, Prepared, index
  <1>1. PICK p \in Path : p = th[t].at
    BY <1>0, Inside
  <1>2. PICK q \in Process : q = owner[t]
    BY <1>0, Inside
  <1>3. /\ Paths(th[t]) \subseteq Path /\ p \in Paths(th[t]) /\ p = th[t].path
        /\ th[t].op # "rename" => Paths(th[t]) = {p}
        /\ th[t].op = "rename" => Mutates(th[t]) /\ Paths(th[t]) = {th[t].path, th[t].dst}
    BY <1>0, <1>1, ReadersPath
  <1>4. Mutates(th[t]) => MayOvl(p)
    BY <1>0, <1>1, MutatesIsWrite, PreparedSound
  <1>5. th[t].op \in {"delete", "open", "query"} => th[t].disp = "OPEN"
    BY <1>0, Inside DEF IsCall
  <1>6. /\ th[t].op \in {"read", "write"} => th[t].disp \in Disposition
        /\ th[t].op \in {"read", "write", "open", "query", "delete", "rename"}
    BY <1>0, Inside DEF VInv, ThreadInv, Shaped, ThreadState
  <1>7. ~Mutates(th[t]) => th[t].disp = "OPEN" /\ th[t].op \in {"read", "open", "query"}
    BY <1>5, <1>6 DEF Mutates
  (* What the other path of a rename, and the path of a reader, rest on. *)
  <1>8. ASSUME NEW x \in Paths(th[t]), Calm(x)
        PROVE  /\ HookKnows(x)
               /\ x # p => Waits(t, x)
               /\ ~Mutates(th[t]) => Steady(x)
    <2>1. /\ HookKnows(x) /\ (Mutates(th[t]) => Mid(t, x)) /\ (~Mutates(th[t]) => Steady(x))
      BY <1>0, <1>8, Relies
    <2>2. x # p => Mutates(th[t])
      BY <1>3
    <2>3. x # p /\ Mutates(th[t]) => Waits(t, x)
      BY <1>0, <1>1, <2>1 DEF Mid, Lookup
    <2> QED BY <2>1, <2>2, <2>3
  <1>9. CASE ~Opens(ovl[p], HandleDisp(t))
    <2>1. /\ published' = overlay_publish_forget(q, p) /\ hook' = Invalidate(q, p) /\ Return(t)
          /\ UNCHANGED <<ovl, view, excuse>>
      BY <1>1, <1>2, <1>9 DEF OpenOverlay, history
    <2>2. \A x \in Path : Forgets(x)
      <3>1. \A q1 \in Process, x \in Path, w \in BOOLEAN :
               hook'[q1][x][w] = IF q1 = q /\ x = p THEN None ELSE hook[q1][x][w]
        BY <2>1, InvalidateLocal
      <3>2. \A q1 \in Process, x \in Path :
               x \in published'[q1] <=> x \in published[q1] /\ ~(q1 = q /\ x = p)
        BY <2>1, ForgetLocal
      <3> QED BY <1>0, <2>1, <3>1, <3>2 DEF Forgets, SameFile
    <2>3. \A x \in Path : Calm(x)' <=> Calm(x)
      BY <2>1 DEF Calm
    <2>4. ASSUME NEW x \in Paths(th[t]), Calm(x)' PROVE HookKnows(x)' /\ Steady(x)'
      <3>1. Calm(x) /\ x \in Path
        BY <1>3, <2>3, <2>4
      <3>2. HookKnows(x)
        BY <1>8, <3>1
      <3>3. Steady(x)
        <4>1. CASE ~Mutates(th[t])
          BY <1>8, <3>1, <4>1
        <4>2. CASE x # p
          BY <1>8, <3>1, <4>2 DEF Waits
        <4>3. CASE x = p /\ Mutates(th[t])
          <5>1. ~Steady(p) => ovl[p] = None /\ is_create_disposition(th[t].disp)
                              /\ th[t].op \notin {"delete", "rename"}
            BY <1>0, <1>3, <3>1, <4>3, OverlayReady
          <5>2. ~Steady(p) => Opens(ovl[p], HandleDisp(t))
            BY <5>1 DEF Opens, HandleDisp, is_create_disposition
          <5> QED BY <1>9, <4>3, <5>2
        <4> QED BY <4>1, <4>2, <4>3
      <3> QED BY <1>0, <2>2, <3>1, <3>2, <3>3, KnowsStays, SteadyStays DEF IInv
    <2>5. OnlyCow'
      BY <1>0, <2>1, OnlyCowStays DEF VInv
    <2>6. \A x \in Paths(th[t]) : ovl'[x] = ovl[x] /\ compute(x, FALSE)' = compute(x, FALSE)
      BY <1>0, <1>3, <2>2, ComputeSame DEF Forgets, SameFile
    <2> QED BY <1>0, <1>3, <2>1, <2>2, <2>4, <2>5, <2>6, Ending
  <1>10. CASE Opens(ovl[p], HandleDisp(t))
    <2>1. /\ ovl' = [ovl EXCEPT ![p] = Content(t, ovl[p], HandleDisp(t))]
          /\ IF Mutates(th[t]) /\ th[t].op \notin {"delete", "rename"}
             THEN ViewOpens(t, p) /\ excuse' = Forgive(p, HandleDisp(t))
             ELSE UNCHANGED <<view, excuse>>
          /\ UNCHANGED <<hook, published>>
          /\ IF th[t].op = "query" THEN Return(t) ELSE Goto(t, "publish")
      BY <1>1, <1>10 DEF OpenOverlay, history, caches, Return, Goto
    <2>2. ovl'[p] = Content(t, ovl[p], HandleDisp(t)) /\ \A x \in Path : x # p => ovl'[x] = ovl[x]
      BY <2>1 DEF IInv, Files
    <2>3. ~Mutates(th[t]) \/ th[t].op \in {"delete", "rename"} => ovl'[p] = ovl[p] /\ ovl[p] # None
      BY <1>5, <1>7, <1>10, <2>2 DEF HandleDisp, Content, Opened, Opens
    <2>4. OnlyCow'
      <3>1. ~Mutates(th[t]) => ovl'[p] = ovl[p]
        BY <2>3
      <3> QED BY <1>0, <1>4, <2>2, <3>1 DEF VInv, OnlyCow, MayOvl, MayReal
    <2>5. /\ \A x \in Path : x # p => excuse'[x] = excuse[x]
          /\ excuse'[p] \subseteq excuse[p] /\ excuse[p] \subseteq excuse'[p] \cup {"recreated"}
      BY <2>1, ForgiveLocal
    <2>6. \A x \in Path : x # p => view'[x] = view[x]
      BY <2>1 DEF ViewOpens, IInv, Files
    <2>7. \A x \in Path : x # p => Forgets(x)
      BY <1>0, <2>1, <2>2, <2>5, <2>6 DEF Forgets, SameFile
    <2>8. ~Mutates(th[t]) => Forgets(p)
      BY <1>0, <2>1, <2>3 DEF Forgets, SameFile
    <2>9. \A x \in Path : Calm(x)' => Calm(x)
      BY <2>5 DEF Calm
    <2>10. \A x \in Paths(th[t]) : ~Mutates(th[t]) => ovl'[x] = ovl[x] /\ compute(x, FALSE)' = compute(x, FALSE)
      <3> SUFFICES ASSUME NEW x \in Paths(th[t]), ~Mutates(th[t])
                   PROVE  ovl'[x] = ovl[x] /\ compute(x, FALSE)' = compute(x, FALSE)
        OBVIOUS
      <3>1. x \in Path /\ Forgets(x)
        BY <1>3, <2>7, <2>8
      <3> QED BY <1>0, <3>1, ComputeSame DEF Forgets, SameFile
    <2>11. \A x \in Paths(th[t]) : excuse[x] \subseteq excuse'[x] \cup {"recreated"}
      BY <1>3, <2>5
    <2>12. \A x \in Path : x \notin Paths(th[t]) => Forgets(x)
      BY <1>3, <2>7
    <2>13. \A x \in Paths(th[t]) : Calm(x)' /\ Forgets(x) => HookKnows(x)'
      BY <1>0, <1>3, <1>8, <2>9, KnowsStays
    <2>14. \A x \in Paths(th[t]) : Calm(x)' /\ Forgets(x) /\ ~Mutates(th[t]) => Steady(x)'
      BY <1>0, <1>3, <1>8, <2>9, SteadyStays DEF IInv
    <2>15. CASE th[t].op = "query"
      <3>1. ~Mutates(th[t]) /\ Return(t)
        BY <2>1, <2>15 DEF Mutates
      <3> QED BY <1>0, <1>3, <2>4, <2>8, <2>10, <2>11, <2>12, <2>13, <2>14, <2>15, <3>1, Ending
    <2>16. CASE th[t].op # "query"
      <3>1. /\ Others(t) /\ Goes(t, "publish") /\ th'[t].retry = th[t].retry
            /\ th[t].pc # "idle" /\ (Mutates(th'[t]) <=> Mutates(th[t]))
        <4>1. "publish" \in PC /\ th[t].pc # "idle" /\ Goto(t, "publish")
          BY <1>0, <2>1, <2>16 DEF PC
        <4>2. Others(t) /\ Goes(t, "publish") /\ th'[t].retry = th[t].retry
          BY <1>0, <4>1, GotoGoes
        <4> QED BY <4>1, <4>2 DEF Goes, SameCall, Mutates
      <3>2. ~Mutates(th[t]) => MayOvl(p)
        BY <2>3 DEF VInv, OnlyCow
      <3>3. Shaped(t)'
        <4>2. MayOvl(th[t].path)'
          BY <1>0, <1>3, <1>4, <3>1, <3>2 DEF MayOvl, Goes, SameCall
        <4>3. Shaped(t)
          BY DEF VInv, ThreadInv
        <4> QED BY <1>0, <3>1, <4>2, <4>3 DEF VInv, ThreadInv, Shaped, Goes, SameCall, Retries
      <3>4. Moves1(t)
        BY <2>10, <2>11, <2>12, <3>1 DEF Moves1, Goes
      <3>5. ASSUME Mutates(th[t]), Calm(p)' PROVE HookKnows(p)' /\ Publishes(t, p)'
        <4>1. /\ HookKnows(p) /\ MayOvl(p) /\ Shows(p, ovl[p])
              /\ p \in published[owner[t]] => Steady(p) /\ ovl[p] # None
          BY <1>0, <1>3, <2>9, <3>5, OverlayReady
        <4>2. HookKnows(p)'
          BY <1>0, <2>1, <4>1 DEF HookKnows
        <4>3. ovl'[p] # None /\ Shows(p, ovl[p])'
          <5>1. CASE th[t].op \in {"delete", "rename"}
            BY <2>1, <2>3, <4>1, <5>1 DEF Shows
          <5>2. CASE th[t].op \in {"read", "write"}
            <6>1. HandleDisp(t) = th[t].disp
              BY <5>2 DEF HandleDisp
            <6> QED BY <1>3, <1>6, <1>10, <2>1, <2>2, <3>1, <3>5, <4>1, <5>2, <6>1, OpenedOverlay
          <5>3. th[t].op \in {"delete", "rename", "read", "write"}
            BY <1>6, <3>5 DEF Mutates
          <5> QED BY <5>1, <5>2, <5>3
        <4>4. ASSUME p \in published[owner[t]] PROVE ServesWell(p)' /\ Indexed(p)'
          <5>1. Steady(p) /\ ovl[p] # None
            BY <4>1, <4>4
          <5>2. \A w \in BOOLEAN : compute(p, w)' = compute(p, w)
            <6>1. (Overlaid(p)' <=> Overlaid(p)) /\ (Whiteouted(p)' <=> Whiteouted(p))
              BY <1>0, <4>3, <5>1 DEF Overlaid, Whiteouted
            <6> QED BY <1>0, <6>1 DEF compute
          <5>3. ~Virgin(p)
            BY <1>2, <4>4 DEF Virgin, Unpublished
          <5>4. ServesWell(p)'
            BY <1>0, <5>1, <5>2, <5>3 DEF Steady, ServesWell
          <5>5. Indexed(p)'
            BY <1>0, <2>5, <5>1 DEF Steady, Indexed
          <5> QED BY <5>4, <5>5
        <4> QED BY <1>0, <2>1, <4>2, <4>3, <4>4 DEF Publishes
      <3>6. ASSUME NEW x \in Paths(th[t]), Calm(x)' PROVE Holds(t)' /\ HookKnows(x)' /\ Own(t, x)'
        <4>1. th[t].op = "rename" => ovl'[th[t].path] # None /\ th[t].on = None
          BY <1>0, <1>3, <2>3 DEF VInv, ThreadInv, Shaped
        <4>2. Holds(t)'
          BY <3>1, <4>1, OverlayAssumption DEF Holds, Goes, SameCall
        <4>3. CASE ~Mutates(th[t])
          <5>1. x = p
            BY <1>3, <4>3
          <5>2. HookKnows(x)' /\ Steady(x)'
            BY <2>8, <2>13, <2>14, <3>6, <4>3, <5>1
          <5>3. Reads(t, x)'
            BY <2>3, <3>1, <4>3, <5>1 DEF Reads, Goes
          <5> QED BY <3>1, <4>2, <4>3, <5>2, <5>3 DEF Own, Goes, SameCall
        <4>4. CASE Mutates(th[t]) /\ x = p
          <5>1. HookKnows(x)' /\ Publishes(t, x)'
            BY <3>5, <3>6, <4>4
          <5>2. Mid(t, x)'
            BY <1>1, <3>1, <4>4, <5>1 DEF Mid, Goes, SameCall, Lookup
          <5> QED BY <3>1, <4>2, <4>4, <5>1, <5>2 DEF Own, Goes, SameCall
        <4>5. CASE Mutates(th[t]) /\ x # p
          <5>1. Calm(x) /\ Forgets(x) /\ x \in Path
            BY <1>3, <2>7, <2>9, <3>6, <4>5
          <5>2. HookKnows(x)' /\ Waits(t, x)
            BY <1>8, <2>13, <3>6, <4>5, <5>1
          <5>3. Steady(x)'
            BY <1>0, <5>1, <5>2, SteadyStays DEF IInv, Waits
          <5>4. Waits(t, x)'
            BY <1>3, <3>1, <4>5, <5>3 DEF Waits, Goes, SameCall
          <5>5. Mid(t, x)'
            BY <1>1, <3>1, <4>5, <5>4 DEF Mid, Goes, SameCall, Lookup
          <5> QED BY <3>1, <4>2, <4>5, <5>2, <5>5 DEF Own, Goes, SameCall
        <4> QED BY <4>3, <4>4, <4>5
      <3>7. Leaves1(t)
        BY <3>6 DEF Leaves1
      <3> QED BY <2>4, <3>1, <3>3, <3>4, <3>7, OneThread
    <2> QED BY <2>15, <2>16
  <1> QED BY <1>9, <1>10

(* An overlay file of the view that is in the index makes a path at rest. *)
LEMMA OverlaidSteady ==
    ASSUME NEW p \in Path, MayOvl(p)', ovl'[p] # None, Shows(p, ovl[p])',
           ServesWell(p)', Indexed(p)'
    PROVE  Steady(p)'
  BY DEF Steady, Shape, Upper, HookCow

(* The broker is told of the overlay file. *)
LEMMA PublishView ==
    ASSUME IInv, IInv', VInv, ReadsPassThrough, NEW t \in Thread, publish_overlay_decision(t)
    PROVE  VInv'
  <1>0. /\ th[t].pc = "publish" /\ th[t].at = th[t].path
        /\ IF th[t].op \in {"delete", "rename"} THEN UseHandle(t, "ovl") ELSE Return(t)
        /\ UNCHANGED <<owner, rule, real, ovl, view>>
    BY Inside DEF publish_overlay_decision, SoundCall
  <1>1. PICK p \in Path : p = th[t].at
    BY <1>0, Inside
  <1>2. PICK q \in Process : q = owner[t]
    BY <1>0, Inside
  <1>3. /\ Paths(th[t]) \subseteq Path /\ p \in Paths(th[t]) /\ p = th[t].path
        /\ th[t].op # "rename" => Paths(th[t]) = {p}
        /\ th[t].op = "rename" => Mutates(th[t])
    BY <1>0, <1>1, ReadersPath
  <1>4. MayOvl(p) /\ MayOvl(p)'
    BY <1>0, <1>3 DEF VInv, ThreadInv, Shaped, MayOvl
  <1>5. \/ UNCHANGED <<idx, wh, srv, hook, published, excuse>> /\ p \in published[q]
        \/ /\ Send(t, idx \cup {p}, wh) /\ hook' = Invalidate(q, p)
           /\ published' \in {published, [published EXCEPT ![q] = published[q] \cup {p}]}
    BY <1>1, <1>2 DEF publish_overlay_decision, index, caches
  <1>6. /\ (\A q1 \in Process, x \in Path, w \in BOOLEAN : hook'[q1][x][w] \in {hook[q1][x][w], None})
        /\ (\A q1 \in Process, x \in Path : x # p /\ x \in published'[q1] => x \in published[q1])
    <2>1. CASE UNCHANGED <<hook, published>>
      BY <2>1
    <2>2. CASE hook' = Invalidate(q, p)
               /\ published' \in {published, [published EXCEPT ![q] = published[q] \cup {p}]}
      <3>1. \A q1 \in Process, x \in Path, w \in BOOLEAN : hook'[q1][x][w] \in {hook[q1][x][w], None}
        BY <2>2, InvalidateLocal
      <3>2. \A q1 \in Process, x \in Path : x # p /\ x \in published'[q1] => x \in published[q1]
        BY <2>2 DEF IInv, Tables
      <3> QED BY <3>1, <3>2
    <2> QED BY <1>5, <2>1, <2>2
  (* Either everything is as it was, or the request was applied, or lost. *)
  <1>7. \/ UNCHANGED <<idx, wh, srv, hook, published, excuse>> /\ p \in published[q]
        \/ /\ idx' = idx \cup {p} /\ wh' = wh /\ excuse' = excuse
           /\ \A x \in Path, w \in BOOLEAN : srv'[x][w] = None
        \/ /\ UNCHANGED <<idx, wh, srv>> /\ Fault(t)
    <2>1. Send(t, idx \cup {p}, wh) =>
            \/ /\ idx' = idx \cup {p} /\ wh' = wh /\ excuse' = excuse
               /\ \A x \in Path, w \in BOOLEAN : srv'[x][w] = None
            \/ /\ UNCHANGED <<idx, wh, srv>> /\ Fault(t)
      BY DEF Send, index, NoDecisions
    <2> QED BY <1>5, <2>1
  <1>8. \A x \in Path : /\ excuse[x] \subseteq excuse'[x]
                        /\ x \notin Paths(th[t]) => excuse'[x] = excuse[x]
                        /\ x \in Paths(th[t]) /\ Calm(x)' => excuse' = excuse /\ ~Fault(t)
    BY <1>7, FaultLocal
  <1>9. /\ \A x \in Path, w \in BOOLEAN : srv'[x][w] \in {srv[x][w], None}
        /\ \A x \in Path : x # p => SameFile(x)
        /\ wh' = wh /\ idx' \in {idx, idx \cup {p}}
    BY <1>0, <1>7 DEF SameFile
  <1>10. \A x \in Path : x # p /\ excuse'[x] = excuse[x] => Forgets(x)
    BY <1>6, <1>9 DEF Forgets
  <1>11. OnlyCow'
    BY <1>0, <1>4, <1>9 DEF VInv, OnlyCow, MayOvl, MayReal
  <1>12. ASSUME NEW x \in Paths(th[t]), Calm(x)'
         PROVE  /\ x \in Path /\ Calm(x) /\ HookKnows(x)
                /\ Mutates(th[t]) => Mid(t, x)
                /\ ~Mutates(th[t]) => Steady(x) /\ Reads(t, x)
                /\ th[t].op = "rename" => ovl[th[t].path] # None
    <2>1. x \in Path /\ Calm(x)
      BY <1>3, <1>8, <1>12 DEF Calm
    <2> QED BY <1>0, <1>12, <2>1, Relies DEF Holds
  <1>13. ASSUME Calm(p)'
         PROVE  /\ HookKnows(p)' /\ Steady(p)' /\ ovl[p] # None
    <2>1. ovl[p] # None /\ Shows(p, ovl[p]) /\ (p \in published[q] => ServesWell(p) /\ Indexed(p))
      <3>1. CASE Mutates(th[t])
        BY <1>0, <1>1, <1>2, <1>3, <1>12, <1>13, <3>1 DEF Mid, Publishes
      <3>2. CASE ~Mutates(th[t])
        <4>1. Steady(p) /\ ovl[p] # None
          BY <1>0, <1>3, <1>12, <1>13, <3>2 DEF Reads
        <4> QED BY <1>4, <4>1 DEF Steady, Shape, Upper
      <3> QED BY <3>1, <3>2
    <2>2. HookKnows(p)'
      BY <1>0, <1>3, <1>6, <1>12, <1>13, OverlayAssumption DEF HookKnows
    <2>3. ovl'[p] # None /\ Shows(p, ovl[p])'
      BY <1>0, <1>3, <1>8, <1>13, <2>1 DEF Shows
    <2>4. CASE UNCHANGED <<idx, wh, srv, hook, published, excuse>> /\ p \in published[q]
      <3>1. Forgets(p)
        BY <1>0, <2>4 DEF Forgets, SameFile
      <3>2. ServesWell(p)'
        BY <1>0, <2>1, <2>4, <3>1, ServesStays
      <3>3. Indexed(p)'
        BY <1>0, <2>1, <2>4 DEF Indexed
      <3> QED BY <1>4, <2>1, <2>2, <2>3, <3>2, <3>3, OverlaidSteady
    <2>5. CASE /\ idx' = idx \cup {p} /\ wh' = wh /\ excuse' = excuse
               /\ \A x \in Path, w \in BOOLEAN : srv'[x][w] = None
      <3>1. ServesWell(p)' /\ Indexed(p)'
        BY <2>5 DEF ServesWell, Indexed
      <3> QED BY <1>4, <2>1, <2>2, <2>3, <3>1, OverlaidSteady
    <2> QED BY <1>3, <1>7, <1>8, <1>13, <2>4, <2>5
  <1>14. ASSUME NEW x \in Paths(th[t]), Calm(x)' PROVE HookKnows(x)' /\ Steady(x)'
    <2>1. CASE x = p
      BY <1>13, <1>14, <2>1
    <2>2. CASE x # p
      <3>1. x \in Path /\ HookKnows(x) /\ Mid(t, x) /\ Forgets(x)
        BY <1>3, <1>8, <1>10, <1>12, <1>14, <2>2
      <3>2. Steady(x)
        BY <1>0, <1>1, <2>2, <3>1 DEF Mid, Waits, Lookup
      <3> QED BY <1>0, <3>1, <3>2, KnowsStays, SteadyStays DEF IInv
    <2> QED BY <2>1, <2>2
  <1>15. ASSUME NEW x \in Paths(th[t]), ~Mutates(th[t]), Calm(x)'
         PROVE  ovl'[x] = ovl[x] /\ compute(x, FALSE)' = compute(x, FALSE)
    <2>1. x = p /\ ovl[p] # None
      BY <1>3, <1>13, <1>15
    <2>2. (Overlaid(p)' <=> Overlaid(p)) /\ (Whiteouted(p)' <=> Whiteouted(p))
      BY <1>0, <2>1 DEF Overlaid, Whiteouted
    <2>3. \A w \in BOOLEAN : w = FALSE => compute(p, w)' = compute(p, w)
      <3>1. p \in External /\ rule[p].read = "Passthrough"
        BY <1>4, OverlayAssumption DEF MayOvl, IInv, Tables, ReadsPassThrough
      <3> QED BY <1>0, <2>2, <3>1 DEF compute, External
    <2> QED BY <1>0, <2>1, <2>3
  <1>16. /\ \A x \in Path : x \notin Paths(th[t]) => Forgets(x)
         /\ \A x \in Paths(th[t]) : excuse[x] \subseteq excuse'[x] \cup {"recreated"}
    BY <1>3, <1>8, <1>10
  <1>17. CASE th[t].op \in {"delete", "rename"}
    <2>1. UseHandle(t, "ovl") /\ "ovl" \in {"real", "ovl"} /\ "ovl" # "real" /\ th[t].pc # "idle"
      BY <1>0, <1>17
    <2>2. ASSUME NEW x \in Paths(th[t]), Calm(x)' PROVE ovl'[th[t].path] # None
      <3>1. CASE th[t].op = "rename"
        BY <1>0, <1>12, <2>2, <3>1
      <3>2. CASE th[t].op # "rename"
        BY <1>0, <1>3, <1>13, <2>2, <3>2
      <3> QED BY <3>1, <3>2
    <2> QED BY <1>0, <1>11, <1>14, <1>16, <1>17, <2>1, <2>2, Handles
  <1>18. CASE th[t].op \notin {"delete", "rename"}
    <2>1. Return(t) /\ th[t].pc # "idle"
      BY <1>0, <1>18
    <2> QED BY <1>0, <1>11, <1>14, <1>15, <1>16, <2>1, Ending
  <1> QED BY <1>17, <1>18

-----------------------------------------------------------------------------
(* Deleting. *)

(* A changing call goes on after its lookups. *)
LEMMA Later ==
    ASSUME IInv, VInv, NEW t \in Thread, NEW pc \in {"clear", "mark", "index", "move"},
           th[t].pc # "idle", Mutates(th[t]), Goto(t, pc), UNCHANGED <<owner, rule>>, OnlyCow',
           pc = "clear" => th[t].op # "rename",
           th[t].op # "rename" => /\ th[t].op \in {"delete", "unlink"}
                                  /\ th[t].op = "delete" => th[t].on # None
                                  /\ th[t].op = "unlink" => MayOvl(th[t].path),
           th[t].op = "rename" => th[t].at # th[t].path,
           \A x \in Path : x \notin Paths(th[t]) => Forgets(x),
           \A x \in Paths(th[t]) :
              /\ excuse[x] \subseteq excuse'[x] \cup {"recreated"}
              /\ Calm(x)' =>
                    /\ HookKnows(x)'
                    /\ th[t].op = "rename" => ovl'[th[t].path] = ovl[th[t].path]
                                              /\ real'[th[t].path] = real[th[t].path]
                    /\ Goes(t, pc) => Mid(t, x)'
    PROVE  VInv'
  <1>1. Others(t) /\ Goes(t, pc) /\ th'[t].retry = th[t].retry
    <2>1. pc \in PC /\ pc # "idle"
      BY DEF PC
    <2> QED BY <2>1, GotoGoes
  <1>2. Mutates(th'[t]) /\ th'[t].pc # "idle"
    BY <1>1 DEF Goes, SameCall, Mutates
  <1>3. Shaped(t)'
    <2>1. Shaped(t)
      BY DEF VInv, ThreadInv
    <2>2. MayOvl(th[t].path)' <=> MayOvl(th[t].path)
      BY <1>1 DEF MayOvl, Goes, SameCall
    <2> QED BY <1>1, <2>1, <2>2 DEF Shaped, Goes, SameCall, Retries
  <1>4. Moves1(t)
    BY <1>1 DEF Moves1, Goes
  <1>5. ASSUME NEW x \in Paths(th[t]), Calm(x)' PROVE Holds(t)' /\ HookKnows(x)' /\ Own(t, x)'
    <2>1. Holds(t)'
      <3>1. CASE th[t].op # "rename"
        BY <1>1, <3>1 DEF Holds, Goes, SameCall
      <3>2. CASE th[t].op = "rename"
        <4>1. Calm(x) /\ x \in Path
          BY <1>5, ReadersPath DEF Calm
        <4>2. Holds(t)
          BY <1>5, <4>1, Relies
        <4> QED BY <1>1, <1>5, <3>2, <4>2 DEF Holds, Goes, SameCall
      <3> QED BY <3>1, <3>2
    <2> QED BY <1>1, <1>2, <1>5, <2>1 DEF Own
  <1>6. Leaves1(t)
    BY <1>5 DEF Leaves1
  <1> QED BY <1>3, <1>4, <1>6, OneThread

(* A call that deletes by handle or by path knows this of its path. *)
LEMMA AtDelete ==
    ASSUME IInv, VInv, ReadsPassThrough, NEW t \in Thread, NEW p \in Path, p = th[t].path,
           \/ th[t].pc = "use" /\ th[t].op = "delete"
           \/ Decided(t) /\ th[t].op = "unlink"
    PROVE  /\ Paths(th[t]) = {p} /\ Mutates(th[t]) /\ th[t].op # "rename"
           /\ th[t].pc \in {"use", "decided"} /\ p = th[t].at
           /\ Calm(p) => HookKnows(p) /\ Steady(p)
           /\ Calm(p) /\ th[t].pc = "use" => Uses(t, p)
           /\ Calm(p) /\ th[t].pc = "decided" /\ th[t].dec \notin Cow => th[t].dec = compute(p, TRUE)
  <1>1. th[t].pc \in {"use", "decided"} /\ th[t].pc # "idle" /\ th[t].op # "rename" /\ Mutates(th[t])
    BY DEF Decided, Mutates
  <1>2. Paths(th[t]) = {p} /\ p = th[t].at
    BY <1>1, ReadersPath
  <1>3. CASE th[t].pc = "use"
    BY <1>1, <1>2, <1>3, Relies DEF Mid, Uses
  <1>4. CASE th[t].pc = "decided" /\ th[t].op = "unlink"
    <2>1. ~is_create_disposition(th[t].disp)
      BY <1>1, <1>4, Inside DEF IsCall, is_create_disposition
    <2>2. Calm(p) => HookKnows(p) /\ LooksUp(t, p)
      BY <1>1, <1>2, <1>4, AtDecided
    <2> QED BY <1>1, <1>2, <1>4, <2>1, <2>2 DEF LooksUp
  <1> QED BY <1>1, <1>3, <1>4 DEF Decided

(* The real file is deleted. *)
LEMMA DeleteRealView ==
    ASSUME IInv, IInv', VInv, ReadsPassThrough, NEW t \in Thread, DeleteReal(t)
    PROVE  VInv'
  <1>0. /\ \/ th[t].pc = "use" /\ th[t].op = "delete" /\ th[t].on = "real"
           \/ Decided(t) /\ th[t].op = "unlink" /\ th[t].dec = "Passthrough"
        /\ Return(t)
        /\ real' = [real EXCEPT ![th[t].path] = None]
        /\ view' = [view EXCEPT ![th[t].path] = IF real[th[t].path] = None THEN view[th[t].path]
                                                                           ELSE None]
        /\ UNCHANGED <<owner, rule, ovl, idx, wh, srv, hook, published, excuse>>
    BY DEF DeleteReal, index, caches
  <1>1. PICK p \in Path : p = th[t].path
    BY <1>0, Inside DEF Decided
  <1>2. /\ Paths(th[t]) = {p} /\ Mutates(th[t]) /\ th[t].op # "rename" /\ p = th[t].at
        /\ th[t].pc \in {"use", "decided"}
        /\ Calm(p) => HookKnows(p) /\ Steady(p)
        /\ Calm(p) /\ th[t].pc = "use" => Uses(t, p)
        /\ Calm(p) /\ th[t].pc = "decided" /\ th[t].dec \notin Cow => th[t].dec = compute(p, TRUE)
    BY <1>0, <1>1, AtDelete
  <1>3. OnlyCow /\ OnlyCow'
    BY <1>0, OnlyCowStays DEF VInv
  <1>4. /\ real'[p] = None /\ view'[p] = IF real[p] = None THEN view[p] ELSE None
        /\ \A x \in Path : x # p => real'[x] = real[x] /\ view'[x] = view[x]
    BY <1>0, <1>1 DEF IInv, Files
  <1>5. \A x \in Path : x # p => Forgets(x)
    BY <1>0, <1>4 DEF Forgets, SameFile
  <1>6. ASSUME Calm(p)' PROVE HookKnows(p)' /\ Steady(p)'
    <2>1. Calm(p)
      BY <1>0, <1>6 DEF Calm
    <2>2. OnReal(p)
      <3>1. CASE th[t].pc = "use"
        BY <1>0, <1>2, <2>1, <3>1 DEF Uses, Decided
      <3>2. CASE th[t].pc = "decided"
        <4>1. compute(p, TRUE) = "Passthrough"
          BY <1>0, <1>2, <2>1, <3>2 DEF Cow
        <4> QED BY <1>3, <4>1, WriteDecides
      <3> QED BY <1>2, <3>1, <3>2
    <2>3. Shows(p, real[p])
      <3>1. ~MayOvl(p)
        BY <2>2 DEF OnReal, MayReal, MayOvl, External
      <3> QED BY <1>2, <2>1, <2>2, <3>1 DEF Steady, Shape, Lower, OnReal
    <2>4. Lower(p)'
      BY <1>0, <1>4, <2>2, <2>3 DEF Lower, Shows, OnReal
    <2> QED BY <1>0, <1>2, <1>3, <2>1, <2>2, <2>4, RealSteady DEF OnReal, Steady
  <1>7. th[t].pc # "idle" /\ excuse' = excuse /\ Return(t) /\ UNCHANGED <<owner, rule>>
    BY <1>0, <1>2
  <1> QED BY <1>2, <1>3, <1>5, <1>6, <1>7, Ending

(* The overlay file is deleted, or is held open, or is not there. *)
LEMMA DeleteOverlayView ==
    ASSUME IInv, IInv', VInv, ReadsPassThrough, NEW t \in Thread, DeleteOverlay(t)
    PROVE  VInv'
  <1>0. /\ \/ th[t].pc = "use" /\ th[t].op = "delete" /\ th[t].on = "ovl"
           \/ Decided(t) /\ th[t].op = "unlink" /\ th[t].dec \in Cow
        /\ UNCHANGED <<owner, rule, real, idx, wh, srv, hook, published, excuse>>
    BY DEF DeleteOverlay, index, caches
  <1>1. PICK p \in Path : p = th[t].path
    BY <1>0, Inside DEF Decided
  <1>2. /\ Paths(th[t]) = {p} /\ Mutates(th[t]) /\ th[t].op # "rename" /\ p = th[t].at
        /\ th[t].pc \in {"use", "decided"} /\ th[t].pc # "idle"
        /\ Calm(p) => HookKnows(p) /\ Steady(p)
        /\ Calm(p) /\ th[t].pc = "use" => Uses(t, p)
    <2>1. th[t].pc \in {"use", "decided"} /\ Paths(th[t]) = {p}
      BY <1>0, <1>1, AtDelete
    <2> QED BY <1>0, <1>1, <2>1, AtDelete
  <1>3. MayOvl(p) /\ p \in External
    <2>1. CASE th[t].on = "ovl"
      BY <1>1, <1>2, <2>1, Inside DEF SoundCall, MayOvl
    <2>2. CASE Decided(t) /\ th[t].op = "unlink" /\ th[t].dec \in Cow
      <3>1. is_write_access(th[t]) = TRUE
        BY <2>2 DEF is_write_access
      <3> QED BY <1>2, <2>2, <3>1, Inside DEF SoundCall, Sound, MayOvl, Decided
    <2> QED BY <1>0, <2>1, <2>2
  <1>4. \A x \in Path : Calm(x)' <=> Calm(x)
    BY <1>0 DEF Calm
  <1>5. Calm(p)' => HookKnows(p)' /\ Steady(p) /\ Upper(p)
    BY <1>0, <1>2, <1>3, <1>4 DEF HookKnows, Steady, Shape
  <1>6. /\ th[t].op \in {"delete", "unlink"}
        /\ th[t].op = "delete" => th[t].on # None
        /\ th[t].op = "unlink" => MayOvl(th[t].path)
    BY <1>0, <1>1, <1>2, <1>3 DEF VInv, ThreadInv, Shaped
  <1>7. CASE /\ ovl[p] # None /\ ovl' = [ovl EXCEPT ![p] = None]
             /\ view' = [view EXCEPT ![p] = None] /\ Goto(t, "clear")
    <2>1. /\ ovl'[p] = None /\ view'[p] = None
          /\ \A x \in Path : x # p => ovl'[x] = ovl[x] /\ view'[x] = view[x]
      BY <1>7 DEF IInv, Files
    <2>2. \A x \in Path : x # p => Forgets(x)
      BY <1>0, <2>1 DEF Forgets, SameFile
    <2>3. OnlyCow'
      BY <1>0, <2>1 DEF VInv, OnlyCow, MayOvl, MayReal
    <2>4. Clears(t, p)'
      BY <1>0, <1>3, <2>1 DEF Clears, MayOvl
    <2>5. Goes(t, "clear") => Mid(t, p)'
      BY <1>2, <2>4 DEF Mid, Goes, SameCall, Lookup
    <2>6. "clear" \in {"clear", "mark", "index", "move"} /\ excuse' = excuse
      BY <1>0
    <2> QED BY <1>0, <1>2, <1>5, <1>6, <1>7, <2>2, <2>3, <2>5, <2>6, Later
  <1>8. CASE \/ ovl[p] # None /\ Goto(t, "mark") /\ UNCHANGED <<ovl, view>>
             \/ ovl[p] = None /\ Goto(t, "mark") /\ ovl' = ovl /\ view' = [view EXCEPT ![p] = None]
    <2>1. /\ ovl' = ovl /\ (ovl[p] = None => view'[p] = None) /\ (ovl[p] # None => view'[p] = view[p])
          /\ \A x \in Path : x # p => view'[x] = view[x]
      BY <1>8 DEF IInv, Files
    <2>2. \A x \in Path : x # p => Forgets(x)
      BY <1>0, <2>1 DEF Forgets, SameFile
    <2>3. OnlyCow'
      BY <1>0, <2>1, OnlyCowStays DEF VInv
    <2>4. Calm(p)' => Marks(t, p)'
      <3>1. MayOvl(p)'
        BY <1>0, <1>3 DEF MayOvl
      <3>2. Calm(p)' /\ ovl[p] # None => Shows(p, ovl[p])' /\ Indexed(p)'
        BY <1>0, <1>5, <2>1 DEF Upper, Steady, Indexed, Shows
      <3>3. Calm(p)' /\ ovl[p] = None => p \notin idx'
        BY <1>0, <1>5 DEF Upper, Virgin
      <3> QED BY <1>3, <2>1, <3>1, <3>2, <3>3 DEF Marks
    <2>5. Calm(p)' /\ Goes(t, "mark") => Mid(t, p)'
      BY <1>2, <2>4 DEF Mid, Goes, SameCall, Lookup
    <2>6. "mark" \in {"clear", "mark", "index", "move"} /\ excuse' = excuse /\ Goto(t, "mark")
      BY <1>0, <1>8
    <2> QED BY <1>0, <1>2, <1>5, <1>6, <2>2, <2>3, <2>5, <2>6, Later
  <1>9. CASE ovl[p] = None /\ th[t].op # "unlink" /\ Return(t) /\ UNCHANGED <<ovl, view>>
    <2>1. ~Calm(p)'
      BY <1>0, <1>2, <1>4, <1>9 DEF Uses, Decided
    <2>2. \A x \in Path : x # p => Forgets(x)
      BY <1>0, <1>9 DEF Forgets, SameFile
    <2>3. OnlyCow' /\ excuse' = excuse
      BY <1>0, <1>9, OnlyCowStays DEF VInv
    <2> QED BY <1>0, <1>2, <1>9, <2>1, <2>2, <2>3, Ending
  <1> QED BY <1>1, <1>7, <1>8, <1>9 DEF DeleteOverlay

(* A real file outside the project is to be hidden. *)
LEMMA DeleteExternalView ==
    ASSUME IInv, IInv', VInv, ReadsPassThrough, NEW t \in Thread, DeleteExternal(t)
    PROVE  VInv'
  <1>0. /\ th[t].pc = "use" /\ th[t].op = "delete" /\ th[t].on = "real" /\ th[t].path \in External
        /\ Goto(t, "mark") /\ view' = [view EXCEPT ![th[t].path] = None]
        /\ UNCHANGED <<owner, rule, real, ovl, idx, wh, srv, hook, published, excuse>>
    BY DEF DeleteExternal, index, caches
  <1>1. PICK p \in Path : p = th[t].path
    BY <1>0, Inside
  <1>2. /\ Paths(th[t]) = {p} /\ Mutates(th[t]) /\ th[t].op # "rename" /\ p = th[t].at
        /\ th[t].pc # "idle" /\ (Calm(p) => HookKnows(p))
    BY <1>0, <1>1, AtDelete
  <1>3. MayReal(p) /\ ~MayOvl(p) /\ p \in External
    BY <1>0, <1>1, <1>2, Inside DEF SoundCall, MayReal, MayOvl, External
  <1>4. view'[p] = None /\ \A x \in Path : x # p => view'[x] = view[x]
    BY <1>0, <1>1 DEF IInv, Files
  <1>5. \A x \in Path : x # p => Forgets(x)
    BY <1>0, <1>4 DEF Forgets, SameFile
  <1>6. OnlyCow' /\ excuse' = excuse
    BY <1>0, OnlyCowStays DEF VInv
  <1>7. Marks(t, p)'
    BY <1>0, <1>3, <1>4 DEF Marks, MayOvl, MayReal
  <1>8. Goes(t, "mark") => Mid(t, p)'
    BY <1>2, <1>7 DEF Mid, Goes, SameCall, Lookup
  <1>9. Calm(p)' => HookKnows(p)'
    BY <1>0, <1>2 DEF Calm, HookKnows
  <1>10. th[t].on # None /\ "mark" \in {"clear", "mark", "index", "move"}
    BY <1>0, OverlayAssumption
  <1> QED BY <1>0, <1>2, <1>5, <1>6, <1>8, <1>9, <1>10, Later

-----------------------------------------------------------------------------
(* Telling the broker. *)

(* A changed table forgets what the broker has cached, and is all that the   *)
(* paths the call is not on get to notice.                                   *)
LEMMA SendForgets ==
    ASSUME IInv, NEW t \in Thread, NEW newIdx, NEW newWh, Send(t, newIdx, newWh),
           UNCHANGED <<real, ovl, view>>,
           \A p \in Path : p \notin Paths(th[t]) =>
              /\ p \in newIdx <=> p \in idx
              /\ p \in newWh <=> p \in wh,
           \A q \in Process, p \in Path, w \in BOOLEAN : hook'[q][p][w] \in {hook[q][p][w], None},
           \A q \in Process, p \in Path : p \in published'[q] => p \in published[q]
    PROVE  /\ \A p \in Path : p \notin Paths(th[t]) => Forgets(p)
           /\ \A p \in Path : excuse[p] \subseteq excuse'[p]
           /\ \A p \in Paths(th[t]) : Calm(p)' =>
                 /\ idx' = newIdx /\ wh' = newWh /\ excuse' = excuse
                 /\ \A x \in Path : ServesNothing(x)'
           /\ \/ idx' = newIdx /\ wh' = newWh
              \/ UNCHANGED <<idx, wh>>
  <1>1. CASE /\ idx' = newIdx /\ wh' = newWh /\ excuse' = excuse
             /\ \A p \in Path : ServesNothing(p)'
             /\ \A p \in Path, w \in BOOLEAN : srv'[p][w] = None
    BY <1>1 DEF Forgets, SameFile
  <1>2. CASE /\ UNCHANGED <<idx, wh, srv>>
             /\ \A p \in Paths(th[t]) : ~Calm(p)'
             /\ \A p \in Path : p \notin Paths(th[t]) => excuse'[p] = excuse[p]
             /\ \A p \in Path : excuse[p] \subseteq excuse'[p]
    BY <1>2 DEF Forgets, SameFile
  <1> QED BY <1>1, <1>2, SendLocal

(* A call that has looked up where a copied file is to be moved to: there is *)
(* an overlay file, or no file.                                              *)
LEMMA DestinationReady ==
    ASSUME IInv, VInv, ReadsPassThrough, NEW t \in Thread, Prepared(t), ~FirstPath(t),
           NEW d \in Path, d = th[t].dst, d \in Paths(th[t]), Calm(d)
    PROVE  /\ HookKnows(d) /\ MayOvl(d)
           /\ \/ ovl[d] # None /\ Shows(d, ovl[d])
              \/ ovl[d] = None /\ view[d] = None
  <1>1. /\ th[t].pc \in {"decided", "prepared"} /\ th[t].pc # "idle" /\ th[t].op = "rename"
        /\ th[t].at = d /\ d # th[t].path /\ Mutates(th[t])
    <2>1. th[t].pc \in {"decided", "prepared"} /\ th[t].at # th[t].path
      BY PreparedSound DEF FirstPath
    <2> QED BY <2>1, Inside DEF IsCall, Mutates
  <1>2. MayOvl(d)
    BY <1>1, MutatesIsWrite, PreparedSound
  <1>3. CASE th[t].pc = "prepared"
    <2>1. HookKnows(d) /\ CopiesUp(t, d)
      BY <1>1, <1>3, Relies DEF Mid
    <2> QED BY <1>2, <1>3, <2>1 DEF CopiesUp
  <1>4. CASE Decided(t) /\ th[t].dec \in Cow /\ ~Copies(t)
    <2>1. th[t].pc = "decided"
      BY <1>4 DEF Decided
    <2>2. HookKnows(d) /\ LooksUp(t, d)
      BY <1>1, <2>1, AtDecided
    <2>3. CASE ovl[d] # None
      <3>1. Steady(d)
        BY <2>2, <2>3 DEF LooksUp, Revived
      <3>2. Upper(d)
        BY <1>2, <3>1 DEF Steady, Shape
      <3> QED BY <1>2, <2>2, <2>3, <3>2 DEF Upper
    <2>4. CASE ovl[d] = None
      <3>1. th[t].dec # "CowFrom"
        BY <1>1, <1>4, <2>1, <2>2, <2>4 DEF LooksUp, Copies
      <3>2. view[d] = None
        BY <1>1, <1>4, <2>1, <2>2, <2>4, <3>1 DEF LooksUp, Cow
      <3> QED BY <1>2, <2>2, <2>4, <3>2
    <2> QED BY <2>3, <2>4
  <1> QED BY <1>3, <1>4 DEF Prepared

(* A path leaves the index. *)
LEMMA ClearOverlayView ==
    ASSUME IInv, IInv', VInv, ReadsPassThrough, NEW t \in Thread, clear_overlay(t)
    PROVE  VInv'
  <1>0. /\ ClearsSource(t) /\ Send(t, idx \ {th[t].path}, wh) /\ Goto(t, "mark")
        /\ UNCHANGED <<owner, rule, real, ovl, hook, published, view>>
        /\ th[t].pc \in {"clear", "decided", "prepared"} /\ th[t].pc # "idle"
    BY PreparedSound DEF clear_overlay, ClearsSource, caches
  <1>1. PICK s \in Path : s = th[t].path
    BY <1>0, Inside
  <1>2. Paths(th[t]) \subseteq Path /\ s \in Paths(th[t])
    BY <1>0, <1>1, ReadersPath
  <1>3. /\ \A p \in Path : p \notin Paths(th[t]) => Forgets(p)
        /\ \A p \in Path : excuse[p] \subseteq excuse'[p]
        /\ \A p \in Paths(th[t]) : Calm(p)' =>
              /\ idx' = idx \ {s} /\ wh' = wh /\ excuse' = excuse
              /\ \A x \in Path : ServesNothing(x)'
        /\ idx' \subseteq idx /\ wh' = wh
    <2>1. \A p \in Path : p \notin Paths(th[t]) => (p \in idx \ {s} <=> p \in idx)
      BY <1>2
    <2>2. Send(t, idx \ {s}, wh)
      BY <1>0, <1>1
    <2> QED BY <1>0, <2>1, <2>2, SendForgets
  <1>4. OnlyCow'
    BY <1>0, <1>3, OnlyCowStays DEF VInv
  <1>5. \A p \in Paths(th[t]) : Calm(p)' => Calm(p)
    BY <1>2, <1>3 DEF Calm
  <1>6. \A p \in Paths(th[t]) : excuse[p] \subseteq excuse'[p] \cup {"recreated"}
    BY <1>2, <1>3
  <1>7. "mark" \in {"clear", "mark", "index", "move"}
    OBVIOUS
  <1>8. CASE th[t].pc = "clear"
    <2>1. /\ th[t].op \in {"delete", "unlink"} /\ th[t].op # "rename" /\ Mutates(th[t])
          /\ th[t].op = "delete" => th[t].on # None
          /\ th[t].op = "unlink" => MayOvl(th[t].path)
      <3>1. th[t].op # "rename"
        BY <1>8, Inside DEF SoundCall
      <3> QED BY <1>8, <3>1 DEF VInv, ThreadInv, Shaped, Mutates
    <2>2. Paths(th[t]) = {s}
      BY <1>0, <1>1, <2>1, ReadersPath
    <2>3. ASSUME Calm(s)' PROVE HookKnows(s)' /\ (Goes(t, "mark") => Mid(t, s)')
      <3>1. HookKnows(s) /\ Clears(t, s)
        BY <1>0, <1>2, <1>5, <1>8, <2>1, <2>3, Relies DEF Mid
      <3>2. HookKnows(s)'
        BY <1>0, <3>1 DEF HookKnows
      <3>3. Marks(t, s)'
        BY <1>0, <1>2, <1>3, <2>3, <3>1 DEF Clears, Marks, MayOvl
      <3>4. Goes(t, "mark") => Mid(t, s)'
        BY <2>1, <3>3 DEF Mid, Goes, SameCall, Lookup
      <3> QED BY <3>2, <3>4
    <2> QED BY <1>0, <1>3, <1>4, <1>6, <1>7, <2>1, <2>2, <2>3, Later
  <1>9. CASE Prepared(t) /\ ~FirstPath(t)
    <2>1. /\ th[t].op = "rename" /\ th[t].at # th[t].path /\ Mutates(th[t])
          /\ th[t].on # None /\ th[t].dst # th[t].path
      <3>1. th[t].at # th[t].path
        BY <1>9 DEF FirstPath
      <3>2. th[t].op = "rename"
        BY <1>0, <3>1, ReadersPath
      <3> QED BY <1>0, <3>1, <3>2 DEF VInv, ThreadInv, Shaped, Mutates
    <2>2. PICK d \in Path : d = th[t].dst
      BY <1>0, <2>1, Inside DEF IsCall
    <2>3. Paths(th[t]) = {s, d} /\ s # d
      BY <1>0, <1>1, <2>1, <2>2, ReadersPath
    <2>4. th[t].pc \in {"decided", "prepared"}
      BY <1>9, PreparedSound
    <2>5. ASSUME NEW x \in {s, d}, Calm(x)' PROVE HookKnows(x)' /\ (Goes(t, "mark") => Mid(t, x)')
      <3>1. x \in Paths(th[t]) /\ Calm(x) /\ x \in Path
        BY <1>5, <2>3, <2>5
      <3>2. HookKnows(x) /\ Mid(t, x) /\ Holds(t)
        BY <1>0, <2>1, <3>1, Relies
      <3>3. HookKnows(x)'
        BY <1>0, <3>2 DEF HookKnows
      <3>4. idx' = idx \ {s} /\ wh' = wh /\ excuse' = excuse /\ \A y \in Path : ServesNothing(y)'
        BY <1>3, <2>5, <3>1
      <3>5. CASE x = s
        <4>1. Waits(t, s)
          <5>1. s # th[t].at /\ th[t].pc \in Lookup \cup {"copy", "prepared", "publish"}
            BY <1>1, <2>1, <2>4 DEF Lookup
          <5> QED BY <3>2, <3>5, <5>1 DEF Mid
        <4>2. IF th[t].on = "ovl" THEN MayOvl(s) /\ ovl[s] # None /\ Shows(s, ovl[s])
              ELSE MayReal(s) /\ Shows(s, real[s])
          <5>1. CASE th[t].on = "ovl"
            <6>1. MayOvl(s) /\ ovl[s] # None
              BY <1>0, <1>1, <2>1, <3>2, <5>1, Inside DEF SoundCall, Holds
            <6> QED BY <4>1, <5>1, <6>1 DEF Waits, Steady, Shape, Upper
          <5>2. CASE th[t].on = "real"
            <6>1. OnReal(s)
              BY <1>1, <4>1, <5>2 DEF Waits
            <6>2. ~MayOvl(s)
              BY <6>1 DEF OnReal, MayReal, MayOvl, External
            <6> QED BY <4>1, <5>2, <6>1, <6>2 DEF Waits, Steady, Shape, Lower, OnReal
          <5>3. th[t].on \in {"real", "ovl"}
            BY <1>0, <2>1, Inside DEF ThreadState
          <5> QED BY <5>1, <5>2, <5>3
        <4>3. Goes(t, "mark") => Leaves(t, s)'
          BY <1>0, <3>4, <4>2 DEF Leaves, Goes, SameCall, MayOvl, MayReal, Shows
        <4>4. Goes(t, "mark") => Mid(t, s)'
          BY <1>1, <2>1, <2>2, <2>3, <4>3 DEF Mid, Goes, SameCall, Lookup
        <4> QED BY <3>3, <3>5, <4>4
      <3>6. CASE x = d
        <4>1. /\ MayOvl(d)
              /\ \/ ovl[d] # None /\ Shows(d, ovl[d])
                 \/ ovl[d] = None /\ view[d] = None
          BY <1>9, <2>2, <3>1, <3>6, DestinationReady
        <4>2. Goes(t, "mark") => Arrives(t, d)'
          BY <1>0, <3>4, <4>1 DEF Arrives, Goes, SameCall, MayOvl, Shows
        <4>3. Goes(t, "mark") => Mid(t, d)'
          BY <1>1, <2>1, <2>2, <2>3, <4>2 DEF Mid, Goes, SameCall, Lookup
        <4> QED BY <3>3, <3>6, <4>3
      <3> QED BY <2>5, <3>5, <3>6
    <2>6. \A x \in Paths(th[t]) : Calm(x)' =>
             /\ HookKnows(x)'
             /\ th[t].op = "rename" => ovl'[th[t].path] = ovl[th[t].path]
                                       /\ real'[th[t].path] = real[th[t].path]
             /\ Goes(t, "mark") => Mid(t, x)'
      BY <1>0, <2>3, <2>5
    <2> QED BY <1>0, <1>3, <1>4, <1>6, <1>7, <2>1, <2>6, Later
  <1> QED BY <1>0, <1>8, <1>9 DEF ClearsSource

(* A delete ends: its path is hidden. *)
LEMMA MarkedSteady ==
    ASSUME IInv, NEW t \in Thread, NEW p \in Path, Marks(t, p), HookKnows(p), OnlyCow,
           UNCHANGED <<rule, real, ovl, view, idx>>, excuse' = excuse, ServesNothing(p)',
           \A q \in Process, w \in BOOLEAN : hook'[q][p][w] \in {hook[q][p][w], None},
           p \in wh'
    PROVE  HookKnows(p)' /\ Steady(p)'
  <1>1. HookKnows(p)'
    BY OverlayAssumption DEF HookKnows
  <1>2. ServesWell(p)'
    BY DEF ServesWell, ServesNothing
  <1>3. HookCow(p)'
    BY DEF HookCow
  <1>4. CASE MayOvl(p)
    <2>1. MayOvl(p)' /\ Upper(p)' /\ Indexed(p)'
      BY <1>4 DEF Marks, MayOvl, Upper, Shows, Indexed
    <2> QED BY <1>1, <1>2, <1>3, <2>1 DEF Steady, Shape
  <1>5. CASE ~MayOvl(p)
    <2>1. ~MayOvl(p)' /\ Lower(p)' /\ Indexed(p)'
      BY <1>5 DEF Marks, MayOvl, MayReal, External, Lower, OnlyCow, Indexed
    <2> QED BY <1>1, <1>2, <1>3, <2>1 DEF Steady, Shape
  <1> QED BY <1>4, <1>5

(* A path is hidden. *)
LEMMA RecordWhiteoutView ==
    ASSUME IInv, IInv', VInv, ReadsPassThrough, NEW t \in Thread, record_whiteout(t)
    PROVE  VInv'
  <1>0. /\ th[t].pc = "mark" /\ th[t].pc # "idle"
        /\ Send(t, idx, wh \cup {th[t].path}) /\ hook' = Invalidate(owner[t], th[t].path)
        /\ IF th[t].op = "rename" THEN Goto(t, "index") ELSE Return(t)
        /\ UNCHANGED <<owner, rule, real, ovl, published, view>>
    BY DEF record_whiteout
  <1>1. PICK s \in Path : s = th[t].path
    BY <1>0, Inside
  <1>2. PICK q \in Process : q = owner[t]
    BY <1>0, Inside
  <1>3. /\ Paths(th[t]) \subseteq Path /\ s \in Paths(th[t])
        /\ th[t].op # "rename" => Paths(th[t]) = {s}
    BY <1>0, <1>1, ReadersPath
  <1>4. \A q1 \in Process, p \in Path, w \in BOOLEAN : hook'[q1][p][w] \in {hook[q1][p][w], None}
    <2>1. hook' = Invalidate(q, s)
      BY <1>0, <1>1, <1>2
    <2> QED BY <2>1, InvalidateLocal
  <1>5. /\ \A p \in Path : p \notin Paths(th[t]) => Forgets(p)
        /\ \A p \in Path : excuse[p] \subseteq excuse'[p]
        /\ \A p \in Paths(th[t]) : Calm(p)' =>
              /\ idx' = idx /\ wh' = wh \cup {s} /\ excuse' = excuse
              /\ \A x \in Path : ServesNothing(x)'
        /\ idx' = idx /\ wh' \subseteq wh \cup {s}
    <2>1. \A p \in Path : p \notin Paths(th[t]) => (p \in wh \cup {s} <=> p \in wh)
      BY <1>3
    <2>2. Send(t, idx, wh \cup {s})
      BY <1>0, <1>1
    <2> QED BY <1>0, <1>4, <2>1, <2>2, SendForgets
  <1>6. \A p \in Paths(th[t]) : Calm(p)' => Calm(p)
    BY <1>3, <1>5 DEF Calm
  <1>7. \A p \in Paths(th[t]) : excuse[p] \subseteq excuse'[p] \cup {"recreated"}
    BY <1>3, <1>5
  <1>8. /\ th[t].op \in {"rename", "delete", "unlink"} /\ Mutates(th[t])
        /\ th[t].op \in {"rename", "delete"} => th[t].on # None
        /\ th[t].op = "rename" => th[t].at # th[t].path /\ th[t].dst # th[t].path
        /\ th[t].op = "unlink" => MayOvl(s)
    BY <1>0, <1>1 DEF VInv, ThreadInv, Shaped, Mutates
  <1>9. MayOvl(s) \/ MayReal(s)
    <2>1. th[t].on \in {"real", "ovl", None} /\ SoundCall(th[t])
      BY <1>0, Inside DEF ThreadState
    <2> QED BY <1>1, <1>8, <2>1 DEF SoundCall
  <1>10. OnlyCow'
    BY <1>0, <1>5, <1>9 DEF VInv, OnlyCow, MayOvl, MayReal
  <1>11. CASE th[t].op # "rename"
    <2>1. ASSUME Calm(s)' PROVE HookKnows(s)' /\ Steady(s)'
      <3>1. HookKnows(s) /\ Marks(t, s)
        BY <1>0, <1>3, <1>6, <1>8, <1>11, <2>1, Relies DEF Mid
      <3>2. /\ idx' = idx /\ s \in wh' /\ excuse' = excuse /\ ServesNothing(s)'
        BY <1>3, <1>5, <2>1
      <3> QED BY <1>0, <1>4, <3>1, <3>2, MarkedSteady DEF VInv
    <2> QED BY <1>0, <1>3, <1>5, <1>7, <1>8, <1>10, <1>11, <2>1, Ending
  <1>12. CASE th[t].op = "rename"
    <2>1. PICK d \in Path : d = th[t].dst
      BY <1>0, <1>12, Inside DEF IsCall
    <2>2. Paths(th[t]) = {s, d} /\ s # d
      BY <1>0, <1>1, <1>8, <1>12, <2>1, ReadersPath
    <2>3. ASSUME NEW x \in {s, d}, Calm(x)' PROVE HookKnows(x)' /\ (Goes(t, "index") => Mid(t, x)')
      <3>1. x \in Paths(th[t]) /\ Calm(x) /\ x \in Path
        BY <1>6, <2>2, <2>3
      <3>2. HookKnows(x) /\ Mid(t, x)
        BY <1>0, <1>8, <3>1, Relies
      <3>3. HookKnows(x)'
        BY <1>0, <1>4, <3>1, <3>2, OverlayAssumption DEF HookKnows
      <3>4. idx' = idx /\ wh' = wh \cup {s} /\ excuse' = excuse /\ \A y \in Path : ServesNothing(y)'
        BY <1>5, <2>3, <3>1
      <3>5. CASE x = s
        <4>1. Leaves(t, s)
          BY <1>0, <1>1, <1>12, <3>2, <3>5 DEF Mid
        <4>2. Goes(t, "index") => Leaves(t, s)'
          BY <1>0, <3>4, <4>1 DEF Leaves, Goes, SameCall, MayOvl, MayReal, Shows
        <4>3. Goes(t, "index") => Mid(t, s)'
          BY <1>1, <1>12, <2>1, <2>2, <4>2 DEF Mid, Goes, SameCall, Lookup
        <4> QED BY <3>3, <3>5, <4>3
      <3>6. CASE x = d
        <4>1. Arrives(t, d)
          BY <1>0, <1>12, <2>1, <3>2, <3>6 DEF Mid
        <4>2. Goes(t, "index") => Arrives(t, d)'
          BY <1>0, <3>4, <4>1 DEF Arrives, Goes, SameCall, MayOvl, Shows
        <4>3. Goes(t, "index") => Mid(t, d)'
          BY <1>1, <1>12, <2>1, <2>2, <4>2 DEF Mid, Goes, SameCall, Lookup
        <4> QED BY <3>3, <3>6, <4>3
      <3> QED BY <2>3, <3>5, <3>6
    <2>4. "index" \in {"clear", "mark", "index", "move"} /\ Goto(t, "index")
      BY <1>0, <1>12
    <2>5. \A x \in Paths(th[t]) : Calm(x)' =>
             /\ HookKnows(x)'
             /\ th[t].op = "rename" => ovl'[th[t].path] = ovl[th[t].path]
                                       /\ real'[th[t].path] = real[th[t].path]
             /\ Goes(t, "index") => Mid(t, x)'
      BY <1>0, <2>2, <2>3
    <2> QED BY <1>0, <1>5, <1>7, <1>8, <1>10, <1>12, <2>4, <2>5, Later
  <1> QED BY <1>11, <1>12

(* The destination of a rename enters the index. *)
LEMMA RecordDestinationView ==
    ASSUME IInv, IInv', VInv, ReadsPassThrough, NEW t \in Thread, RecordDestination(t)
    PROVE  VInv'
  <1>0. /\ th[t].pc = "index" /\ th[t].pc # "idle"
        /\ Send(t, idx \cup {th[t].dst}, wh) /\ hook' = Invalidate(owner[t], th[t].dst)
        /\ Goto(t, "move")
        /\ UNCHANGED <<owner, rule, real, ovl, published, view>>
    BY DEF RecordDestination
  <1>1. PICK s \in Path : s = th[t].path
    BY <1>0, Inside
  <1>2. PICK q \in Process : q = owner[t]
    BY <1>0, Inside
  <1>3. th[t].op = "rename" /\ Mutates(th[t]) /\ MayOvl(th[t].dst)
    BY <1>0, Inside DEF SoundCall, Mutates
  <1>4. PICK d \in Path : d = th[t].dst
    BY <1>0, <1>3, Inside DEF IsCall
  <1>5. th[t].at # th[t].path /\ s # d
    BY <1>0, <1>1, <1>3, <1>4 DEF VInv, ThreadInv, Shaped
  <1>6. Paths(th[t]) = {s, d}
    BY <1>0, <1>1, <1>3, <1>4, ReadersPath
  <1>7. \A q1 \in Process, p \in Path, w \in BOOLEAN : hook'[q1][p][w] \in {hook[q1][p][w], None}
    <2>1. hook' = Invalidate(q, d)
      BY <1>0, <1>2, <1>4
    <2> QED BY <2>1, InvalidateLocal
  <1>8. /\ \A p \in Path : p \notin Paths(th[t]) => Forgets(p)
        /\ \A p \in Path : excuse[p] \subseteq excuse'[p]
        /\ \A p \in Paths(th[t]) : Calm(p)' =>
              /\ idx' = idx \cup {d} /\ wh' = wh /\ excuse' = excuse
              /\ \A x \in Path : ServesNothing(x)'
        /\ idx' \subseteq idx \cup {d} /\ wh' = wh
    <2>1. \A p \in Path : p \notin Paths(th[t]) => (p \in idx \cup {d} <=> p \in idx)
      BY <1>6
    <2>2. Send(t, idx \cup {d}, wh)
      BY <1>0, <1>4
    <2> QED BY <1>0, <1>7, <2>1, <2>2, SendForgets
  <1>9. OnlyCow'
    BY <1>0, <1>3, <1>4, <1>8 DEF VInv, OnlyCow, MayOvl, MayReal
  <1>10. \A p \in Paths(th[t]) : Calm(p)' => Calm(p)
    BY <1>6, <1>8 DEF Calm
  <1>11. \A p \in Paths(th[t]) : excuse[p] \subseteq excuse'[p] \cup {"recreated"}
    BY <1>6, <1>8
  <1>12. ASSUME NEW x \in {s, d}, Calm(x)' PROVE HookKnows(x)' /\ (Goes(t, "move") => Mid(t, x)')
    <2>1. x \in Paths(th[t]) /\ Calm(x) /\ x \in Path
      BY <1>6, <1>10, <1>12
    <2>2. HookKnows(x) /\ Mid(t, x)
      BY <1>0, <1>3, <2>1, Relies
    <2>3. HookKnows(x)'
      BY <1>0, <1>7, <2>1, <2>2, OverlayAssumption DEF HookKnows
    <2>4. idx' = idx \cup {d} /\ wh' = wh /\ excuse' = excuse /\ \A y \in Path : ServesNothing(y)'
      BY <1>8, <1>12, <2>1
    <2>5. CASE x = s
      <3>1. Leaves(t, s)
        BY <1>0, <1>1, <1>3, <2>2, <2>5 DEF Mid
      <3>2. Goes(t, "move") => Leaves(t, s)'
        BY <1>0, <1>5, <2>4, <3>1 DEF Leaves, Goes, SameCall, MayOvl, MayReal, Shows
      <3>3. Goes(t, "move") => Mid(t, s)'
        BY <1>1, <1>3, <1>4, <1>5, <3>2 DEF Mid, Goes, SameCall, Lookup
      <3> QED BY <2>3, <2>5, <3>3
    <2>6. CASE x = d
      <3>1. Arrives(t, d)
        BY <1>0, <1>3, <1>4, <2>2, <2>6 DEF Mid
      <3>2. Goes(t, "move") => Arrives(t, d)'
        BY <1>0, <2>4, <3>1 DEF Arrives, Goes, SameCall, MayOvl, Shows
      <3>3. Goes(t, "move") => Mid(t, d)'
        BY <1>1, <1>3, <1>4, <1>5, <3>2 DEF Mid, Goes, SameCall, Lookup
      <3> QED BY <2>3, <2>6, <3>3
    <2> QED BY <1>12, <2>5, <2>6
  <1>13. "move" \in {"clear", "mark", "index", "move"}
    OBVIOUS
  <1>14. \A x \in Paths(th[t]) : Calm(x)' =>
            /\ HookKnows(x)'
            /\ th[t].op = "rename" => ovl'[th[t].path] = ovl[th[t].path]
                                      /\ real'[th[t].path] = real[th[t].path]
            /\ Goes(t, "move") => Mid(t, x)'
    BY <1>0, <1>6, <1>12
  <1> QED BY <1>0, <1>3, <1>5, <1>8, <1>9, <1>11, <1>13, <1>14, Later

-----------------------------------------------------------------------------
(* Moving. *)

(* The file of a rename, and what is where it goes. *)
Source(t) == IF th[t].on = "ovl" THEN ovl[th[t].path] ELSE real[th[t].path]

Target(t) == IF th[t].pc = "decided" THEN real[th[t].dst] ELSE ovl[th[t].dst]

(* The kernel's move, path by path, and its refusal. *)
LEMMA MoveDoes ==
    ASSUME IInv, NEW t \in Thread, Move(t), NEW s \in Path, NEW d \in Path, s = th[t].path,
           d = th[t].dst, s # d
    PROVE  \/ /\ Source(t) # None /\ Moves(t, Target(t))
              /\ \A x \in Path : /\ x \notin {s, d} => SameFile(x) /\ excuse'[x] = excuse[x]
                                 /\ x = s => real'[x] = (IF th[t].on = "real" THEN None ELSE real[x])
                                 /\ x = s => ovl'[x] = (IF th[t].on = "ovl" THEN None ELSE ovl[x])
              /\ IF th[t].pc = "decided" THEN real'[d] = Source(t) /\ ovl'[d] = ovl[d]
                 ELSE real'[d] = real[d] /\ ovl'[d] = Source(t)
              /\ view'[s] = None
              /\ view'[d] = IF \/ view[s] # None /\ Moves(t, view[d])
                               \/ Doubtful(s) \/ Doubtful(d)
                            THEN view[s] ELSE "wrong"
              /\ excuse[s] \subseteq excuse'[s] /\ excuse[s] \subseteq excuse'[d]
              /\ excuse[d] \subseteq excuse'[d] \cup {"recreated"}
              /\ th[t].pc = "decided" /\ th[t].on = "ovl" => "moved" \in excuse'[s]
           \/ /\ Source(t) # None => ~Moves(t, Target(t))
              /\ \A x \in Path : SameFile(x) /\ excuse[x] \subseteq excuse'[x]
              /\ \A x \in Path : x \notin {s, d} => excuse'[x] = excuse[x]
              /\ IF th[t].pc = "decided"
                 THEN /\ excuse'[s] = excuse[s]
                      /\ d \in External /\ view[d] = None /\ real[d] # None =>
                            "recreated" \in excuse'[d]
                 ELSE /\ excuse'[d] = excuse[d]
                      /\ s \notin Project /\ th[t].on = "ovl" /\ real[s] = None =>
                            "unlisted" \in excuse'[s]
                      /\ s \notin Project /\ th[t].on # "ovl" => "vanished" \in excuse'[s]
  <1> DEFINE toReal == th[t].pc = "decided"
             gone(f, on) == IF th[t].on = on THEN [f EXCEPT ![s] = None] ELSE f
             why == IF toReal /\ th[t].on = "ovl" THEN {"moved"} ELSE {}
             lost == CASE toReal \/ s \in Project -> {}
                       [] th[t].on = "ovl" -> IF real[s] = None THEN {"unlisted"} ELSE {}
                       [] OTHER -> {"vanished"}
             fine == view[s] # None /\ Moves(t, view[d])
  <1>1. UNCHANGED <<idx, wh>> /\ Files
    BY DEF Move, index, IInv
  <1>2. CASE Source(t) # None /\ Moves(t, Target(t))
    <2>1. /\ real' = IF toReal THEN [gone(real, "real") EXCEPT ![d] = Source(t)]
                     ELSE gone(real, "real")
          /\ ovl' = IF toReal THEN gone(ovl, "ovl")
                    ELSE [gone(ovl, "ovl") EXCEPT ![d] = Source(t)]
          /\ ViewMoves(t)
          /\ excuse' = [Forgive(d, th[t].disp) EXCEPT ![d] = @ \cup excuse[s], ![s] = @ \cup why]
      BY <1>2 DEF Move, Source, Target
    <2>2. view' = [view EXCEPT ![d] = IF fine \/ Doubtful(s) \/ Doubtful(d) THEN view[s] ELSE "wrong",
                               ![s] = None]
      BY <2>1 DEF ViewMoves
    <2>3. /\ view'[s] = None
          /\ view'[d] = IF fine \/ Doubtful(s) \/ Doubtful(d) THEN view[s] ELSE "wrong"
          /\ \A x \in Path : x \notin {s, d} => view'[x] = view[x]
      BY <1>1, <2>2 DEF Files
    <2>4. /\ real'[s] = (IF th[t].on = "real" THEN None ELSE real[s])
          /\ real'[d] = (IF toReal THEN Source(t) ELSE real[d])
          /\ \A x \in Path : x \notin {s, d} => real'[x] = real[x]
      <3>1. gone(real, "real") \in [Path -> Token \cup {None}]
        BY <1>1 DEF Files
      <3>2. /\ gone(real, "real")[s] = (IF th[t].on = "real" THEN None ELSE real[s])
            /\ \A x \in Path : x # s => gone(real, "real")[x] = real[x]
        BY <1>1 DEF Files
      <3> DEFINE g == gone(real, "real")
      <3>3. real' = IF toReal THEN [g EXCEPT ![d] = Source(t)] ELSE g
        BY <2>1
      <3>4. g \in [Path -> Token \cup {None}] /\ g[s] = (IF th[t].on = "real" THEN None ELSE real[s])
            /\ \A x \in Path : x # s => g[x] = real[x]
        BY <3>1, <3>2
      <3> HIDE DEF g
      <3> QED BY <3>3, <3>4
    <2>5. /\ ovl'[s] = (IF th[t].on = "ovl" THEN None ELSE ovl[s])
          /\ ovl'[d] = (IF toReal THEN ovl[d] ELSE Source(t))
          /\ \A x \in Path : x \notin {s, d} => ovl'[x] = ovl[x]
      <3> DEFINE g == gone(ovl, "ovl")
      <3>1. ovl' = IF toReal THEN g ELSE [g EXCEPT ![d] = Source(t)]
        BY <2>1
      <3>2. g \in [Path -> Token \cup {None}] /\ g[s] = (IF th[t].on = "ovl" THEN None ELSE ovl[s])
            /\ \A x \in Path : x # s => g[x] = ovl[x]
        BY <1>1 DEF Files
      <3> HIDE DEF g
      <3> QED BY <3>1, <3>2
    <2>6. /\ excuse'[s] = excuse[s] \cup why
          /\ excuse[s] \subseteq excuse'[d] /\ excuse[d] \subseteq excuse'[d] \cup {"recreated"}
          /\ \A x \in Path : x \notin {s, d} => excuse'[x] = excuse[x]
      <3> DEFINE e == Forgive(d, th[t].disp)
      <3>1. /\ DOMAIN e = Path /\ \A x \in Path : x # d => e[x] = excuse[x]
            /\ excuse[d] \subseteq e[d] \cup {"recreated"}
        BY <1>1 DEF Files, Forgive
      <3>2. excuse' = [e EXCEPT ![d] = e[d] \cup excuse[s], ![s] = e[s] \cup why]
        BY <2>1
      <3> HIDE DEF e, why
      <3> QED BY <3>1, <3>2
    <2> QED BY <1>1, <1>2, <2>3, <2>4, <2>5, <2>6 DEF SameFile
  <1>3. CASE ~(Source(t) # None /\ Moves(t, Target(t)))
    <2>1. /\ excuse' = IF toReal THEN Resurrect(d) ELSE [excuse EXCEPT ![s] = @ \cup lost]
          /\ UNCHANGED <<real, ovl, view>>
      BY <1>3 DEF Move, Source, Target
    <2>2. \A x \in Path : SameFile(x)
      BY <1>1, <2>1 DEF SameFile
    <2>3. CASE toReal
      <3>1. excuse' = Resurrect(d)
        BY <2>1, <2>3
      <3> QED BY <1>3, <2>2, <2>3, <3>1, ResurrectLocal
    <2>4. CASE ~toReal
      <3>1. excuse' = [excuse EXCEPT ![s] = excuse[s] \cup lost]
        BY <2>1, <2>4
      <3>2. excuse'[s] = excuse[s] \cup lost /\ \A x \in Path : x # s => excuse'[x] = excuse[x]
        <4> HIDE DEF lost
        <4> QED BY <1>1, <3>1 DEF Files
      <3>3. /\ s \notin Project /\ th[t].on = "ovl" /\ real[s] = None => lost = {"unlisted"}
            /\ s \notin Project /\ th[t].on # "ovl" => lost = {"vanished"}
        BY <2>4
      <3> HIDE DEF lost
      <3> QED BY <1>3, <2>2, <2>4, <3>2, <3>3
    <2> QED BY <2>3, <2>4
  <1> QED BY <1>2, <1>3

(* What a rename that is about to move knows of its paths: the source shows  *)
(* the file, and what is at the destination is what the view has there.      *)
LEMMA MoveKnows ==
    ASSUME IInv, VInv, ReadsPassThrough, NEW t \in Thread, Move(t), NEW s \in Path, NEW d \in Path,
           s = th[t].path, d = th[t].dst, s # d, Paths(th[t]) = {s, d}
    PROVE  /\ Calm(s) \/ Calm(d) => Source(t) # None
           /\ Calm(s) => /\ HookKnows(s) /\ Shows(s, Source(t))
                         /\ th[t].pc = "decided" => /\ Steady(s)
                                                    /\ th[t].on = "real" => OnReal(s)
                         /\ th[t].pc = "move" => Leaves(t, s)
           /\ Calm(d) => /\ HookKnows(d)
                         /\ th[t].pc = "move" => Arrives(t, d)
                         /\ th[t].pc = "decided" =>
                               OnReal(d) /\ ServesWell(d) /\ (Steady(d) \/ Revived(d))
                         /\ Target(t) = None => view[d] = None \/ "recreated" \in excuse[d]
  <1>1. /\ th[t].op = "rename" /\ Mutates(th[t]) /\ th[t].pc \in {"decided", "move"}
        /\ th[t].pc # "idle"
        /\ th[t].pc = "decided" => /\ th[t].at = d /\ th[t].dec = "Passthrough"
    <2>1. th[t].op = "rename" /\ th[t].pc \in {"decided", "move"}
          /\ (th[t].pc = "decided" => th[t].at # th[t].path /\ th[t].dec = "Passthrough")
      BY DEF Move, Decided, FirstPath
    <2> QED BY <2>1, Inside DEF IsCall, Mutates
  <1>2. th[t].on \in {"real", "ovl"}
    <2>1. th[t].on \in {"real", "ovl", None}
      BY <1>1, Inside DEF ThreadState
    <2>2. th[t].on # None
      BY <1>1 DEF VInv, ThreadInv, Shaped
    <2> QED BY <2>1, <2>2
  <1>3. Calm(s) \/ Calm(d) => Source(t) # None
    <2>1. Calm(s) \/ Calm(d) => Holds(t)
      BY <1>1, Relies
    <2> QED BY <1>1, <1>2, <2>1 DEF Holds, Source
  <1>4. ASSUME Calm(s)
        PROVE  /\ HookKnows(s) /\ Shows(s, Source(t))
               /\ th[t].pc = "decided" => Steady(s) /\ (th[t].on = "real" => OnReal(s))
               /\ th[t].pc = "move" => Leaves(t, s)
    <2>1. HookKnows(s) /\ Mid(t, s)
      BY <1>1, <1>4, Relies
    <2>2. CASE th[t].pc = "move"
      <3>1. Leaves(t, s)
        BY <1>1, <2>1, <2>2 DEF Mid
      <3> QED BY <2>1, <2>2, <3>1 DEF Leaves, Source
    <2>3. CASE th[t].pc = "decided"
      <3>1. Waits(t, s)
        BY <1>1, <1>4, <2>3, AtDecided
      <3>2. th[t].on = "ovl" => MayOvl(s) /\ ovl[s] # None
        BY <1>3, <1>4, MoveSound DEF Source
      <3>3. th[t].on = "real" => ~MayOvl(s)
        BY <3>1 DEF Waits, OnReal, MayReal, MayOvl, External
      <3>4. Shows(s, Source(t))
        BY <1>2, <3>1, <3>2, <3>3 DEF Waits, Steady, Shape, Upper, Lower, OnReal, Source
      <3> QED BY <2>1, <2>3, <3>1, <3>4 DEF Waits
    <2> QED BY <1>1, <2>2, <2>3
  <1>5. ASSUME Calm(d)
        PROVE  /\ HookKnows(d)
               /\ th[t].pc = "move" => Arrives(t, d)
               /\ th[t].pc = "decided" => OnReal(d) /\ ServesWell(d) /\ (Steady(d) \/ Revived(d))
               /\ Target(t) = None => view[d] = None \/ "recreated" \in excuse[d]
    <2>1. HookKnows(d) /\ Mid(t, d)
      BY <1>1, <1>5, Relies
    <2>2. CASE th[t].pc = "move"
      <3>1. Arrives(t, d)
        BY <1>1, <2>1, <2>2 DEF Mid
      <3> QED BY <2>1, <2>2, <3>1 DEF Arrives, Target
    <2>3. CASE th[t].pc = "decided"
      <3>1. LooksUp(t, d) /\ compute(d, TRUE) = "Passthrough"
        BY <1>1, <1>5, <2>3, AtDecided DEF Cow
      <3>2. OnReal(d)
        BY <3>1, WriteDecides DEF VInv
      <3>3. ~MayOvl(d)
        BY <3>2 DEF OnReal, MayReal, MayOvl, External
      <3>4. Steady(d) => Shows(d, real[d])
        BY <3>2, <3>3 DEF Steady, Shape, Lower, OnReal
      <3>5. ServesWell(d) /\ (Steady(d) \/ Revived(d))
        BY <3>1 DEF LooksUp, Steady, Revived
      <3>6. Target(t) = None => view[d] = None \/ "recreated" \in excuse[d]
        BY <2>3, <3>4, <3>5 DEF Target, Shows, Revived
      <3> QED BY <2>1, <2>3, <3>2, <3>5, <3>6
    <2> QED BY <1>1, <2>2, <2>3
  <1> QED BY <1>3, <1>4, <1>5

(* A path whose writes are copied is at rest when nothing is cached of it    *)
(* and its overlay file is hidden, or is the view's.                         *)
LEMMA CopiedSteady ==
    ASSUME NEW p \in Path, MayOvl(p)', ServesNothing(p)',
           \/ ovl'[p] # None /\ Shows(p, ovl[p])' /\ Indexed(p)'
           \/ ovl'[p] = None /\ p \notin idx' /\ p \in wh' /\ view'[p] = None
    PROVE  Steady(p)'
  BY DEF Steady, Shape, Upper, HookCow, Indexed, ServesWell, ServesNothing

(* The kernel moves the file of a rename, or refuses to. *)
LEMMA MoveView ==
    ASSUME IInv, IInv', VInv, ReadsPassThrough, NEW t \in Thread, Move(t)
    PROVE  VInv'
  <1>0. /\ th[t].op = "rename" /\ Mutates(th[t]) /\ th[t].pc \in {"decided", "move"}
        /\ th[t].pc # "idle" /\ Return(t)
        /\ UNCHANGED <<owner, rule, idx, wh, srv, hook, published>>
    BY DEF Move, Decided, Mutates, index, caches
  <1>1. PICK s \in Path : s = th[t].path
    BY <1>0, Inside
  <1>2. PICK d \in Path : d = th[t].dst
    BY <1>0, Inside DEF IsCall
  <1>3. Paths(th[t]) = {s, d} /\ s # d
    BY <1>0, <1>1, <1>2, ReadersPath DEF VInv, ThreadInv, Shaped
  <1>4. th[t].on \in {"real", "ovl"}
    <2>1. th[t].on \in {"real", "ovl", None} /\ th[t].at \in {s, d}
      BY <1>0, <1>1, <1>2, Inside DEF ThreadState, IsCall
    <2>2. th[t].at # th[t].path
      BY <1>0 DEF Move, FirstPath, VInv, ThreadInv, Shaped
    <2> QED BY <1>0, <2>1, <2>2 DEF VInv, ThreadInv, Shaped
  <1>5. /\ th[t].on = "real" => MayReal(s)
        /\ th[t].on = "ovl" => MayOvl(s)
        /\ th[t].pc = "decided" => MayReal(d)
        /\ th[t].pc # "decided" => MayOvl(d)
    BY <1>1, <1>2, MoveSound
  <1>6. (MayOvl(s)' <=> MayOvl(s)) /\ (MayOvl(d)' <=> MayOvl(d)) /\ OnlyCow
        /\ (MayReal(s) => ~MayOvl(s)) /\ (MayReal(d) => ~MayOvl(d))
    BY <1>0 DEF MayOvl, MayReal, External, VInv
  <1>7. \A x \in Path : HookKnows(x) /\ real'[x] = real[x] => HookKnows(x)'
    BY <1>0 DEF HookKnows
  <1>8. \A x \in Path : ServesNothing(x) => ServesNothing(x)' /\ ServesWell(x)
    BY <1>0 DEF ServesNothing, ServesWell
  (* The real file of a path that is written in place may change. *)
  <1>9. ASSUME NEW x \in Path, MayReal(x), HookKnows(x), ServesWell(x), ovl'[x] = ovl[x], Lower(x)'
        PROVE  HookKnows(x)' /\ Steady(x)'
    BY <1>0, <1>6, <1>9, RealSteady
  <1>10. CASE /\ Source(t) # None => ~Moves(t, Target(t))
              /\ \A x \in Path : SameFile(x) /\ excuse[x] \subseteq excuse'[x]
              /\ \A x \in Path : x \notin {s, d} => excuse'[x] = excuse[x]
              /\ IF th[t].pc = "decided"
                 THEN /\ excuse'[s] = excuse[s]
                      /\ d \in External /\ view[d] = None /\ real[d] # None =>
                            "recreated" \in excuse'[d]
                 ELSE /\ excuse'[d] = excuse[d]
                      /\ s \notin Project /\ th[t].on = "ovl" /\ real[s] = None =>
                            "unlisted" \in excuse'[s]
                      /\ s \notin Project /\ th[t].on # "ovl" => "vanished" \in excuse'[s]
    <2>2. \A x \in Path : Calm(x)' => Calm(x)
      BY <1>10 DEF Calm
    <2>3. \A x \in Path : x \notin {s, d} => Forgets(x)
      BY <1>0, <1>10 DEF Forgets
    <2>4. ASSUME Calm(s)' PROVE HookKnows(s)' /\ Steady(s)'
      <3>1. /\ Calm(s) /\ HookKnows(s) /\ Shows(s, Source(t)) /\ Source(t) # None
            /\ th[t].pc = "decided" => Steady(s)
            /\ th[t].pc = "move" => Leaves(t, s)
        BY <1>1, <1>2, <1>3, <2>2, <2>4, MoveKnows
      <3>2. HookKnows(s)'
        BY <1>7, <1>10, <3>1 DEF SameFile
      <3>3. CASE th[t].pc = "decided"
        <4>1. Forgets(s)
          BY <1>0, <1>10, <3>3 DEF Forgets
        <4> QED BY <1>0, <3>1, <3>2, <3>3, <4>1, SteadyStays DEF IInv
      <3>4. CASE th[t].pc = "move"
        <4>1. ServesNothing(s) /\ s \in wh /\ s \notin idx
          BY <3>1, <3>4 DEF Leaves
        <4>2. CASE th[t].on = "ovl"
          <5>1. MayOvl(s)' /\ s \notin Project
            BY <1>5, <1>6, <4>2 DEF MayOvl, External
          <5>2. ovl'[s] # None /\ Shows(s, ovl[s])'
            BY <1>1, <1>10, <3>1, <4>2 DEF Source, Shows, SameFile
          <5>3. Indexed(s)'
            BY <1>10, <3>4, <4>2, <5>1 DEF Indexed, SameFile
          <5> QED BY <1>8, <3>2, <4>1, <5>1, <5>2, <5>3, CopiedSteady
        <4>3. CASE th[t].on = "real"
          <5>1. s \in Project
            BY <1>10, <2>4, <3>4, <4>3 DEF Calm
          <5>2. Lower(s)'
            BY <1>1, <1>10, <3>1, <4>3, <5>1 DEF Source, Shows, Lower, SameFile
          <5>3. ovl'[s] = ovl[s] /\ MayReal(s)
            BY <1>5, <1>10, <4>3 DEF SameFile
          <5> QED BY <1>8, <1>9, <3>1, <4>1, <5>2, <5>3
        <4> QED BY <1>4, <4>2, <4>3
      <3> QED BY <1>0, <3>3, <3>4
    <2>5. ASSUME Calm(d)' PROVE HookKnows(d)' /\ Steady(d)'
      <3>1. /\ Calm(d) /\ HookKnows(d) /\ Source(t) # None
            /\ th[t].pc = "move" => Arrives(t, d)
            /\ th[t].pc = "decided" => OnReal(d) /\ ServesWell(d) /\ (Steady(d) \/ Revived(d))
        BY <1>1, <1>2, <1>3, <2>2, <2>5, MoveKnows
      <3>2. Target(t) # None
        BY <1>10, <3>1 DEF Moves
      <3>3. CASE th[t].pc = "decided"
        <4>1. real[d] # None
          BY <1>2, <3>2, <3>3 DEF Target
        <4>2. Shows(d, real[d])'
          <5>1. CASE Steady(d)
            <6>1. Shows(d, real[d])
              BY <1>5, <1>6, <3>1, <3>3, <5>1 DEF Steady, Shape, Lower, OnReal
            <6> QED BY <1>10, <6>1 DEF Shows, SameFile
          <5>2. CASE Revived(d)
            <6>1. d \in External /\ view[d] = None
              BY <5>2 DEF Revived
            <6> QED BY <1>10, <3>3, <4>1, <6>1 DEF Shows
          <5> QED BY <3>1, <3>3, <5>1, <5>2
        <4>3. Lower(d)'
          BY <1>0, <3>1, <3>3, <4>2 DEF Lower, OnReal
        <4>4. ovl'[d] = ovl[d]
          BY <1>10 DEF SameFile
        <4> QED BY <1>5, <1>9, <3>1, <3>3, <4>3, <4>4
      <3>4. CASE th[t].pc = "move"
        <4>1. ServesNothing(d) /\ d \in idx /\ ovl[d] # None /\ Shows(d, ovl[d])
          BY <1>2, <3>1, <3>2, <3>4 DEF Arrives, Target
        <4>2. ovl'[d] # None /\ Shows(d, ovl[d])' /\ Indexed(d)'
          BY <1>0, <1>10, <4>1 DEF Shows, Indexed, SameFile
        <4>3. HookKnows(d)'
          BY <1>7, <1>10, <3>1 DEF SameFile
        <4> QED BY <1>5, <1>6, <1>8, <3>4, <4>1, <4>2, <4>3, CopiedSteady
      <3> QED BY <1>0, <3>3, <3>4
    <2>6. OnlyCow'
      BY <1>0, <1>6, <1>10 DEF OnlyCow, MayOvl, MayReal, SameFile
    <2> QED BY <1>0, <1>3, <1>10, <2>3, <2>4, <2>5, <2>6, Ending
  <1>11. CASE /\ Source(t) # None /\ Moves(t, Target(t))
              /\ \A x \in Path : /\ x \notin {s, d} => SameFile(x) /\ excuse'[x] = excuse[x]
                                 /\ x = s => real'[x] = (IF th[t].on = "real" THEN None ELSE real[x])
                                 /\ x = s => ovl'[x] = (IF th[t].on = "ovl" THEN None ELSE ovl[x])
              /\ IF th[t].pc = "decided" THEN real'[d] = Source(t) /\ ovl'[d] = ovl[d]
                 ELSE real'[d] = real[d] /\ ovl'[d] = Source(t)
              /\ view'[s] = None
              /\ view'[d] = IF \/ view[s] # None /\ Moves(t, view[d])
                               \/ Doubtful(s) \/ Doubtful(d)
                            THEN view[s] ELSE "wrong"
              /\ excuse[s] \subseteq excuse'[s] /\ excuse[s] \subseteq excuse'[d]
              /\ excuse[d] \subseteq excuse'[d] \cup {"recreated"}
              /\ th[t].pc = "decided" /\ th[t].on = "ovl" => "moved" \in excuse'[s]
    <2>1. \A x \in Path : x \notin {s, d} => Forgets(x)
      BY <1>0, <1>11 DEF Forgets
    <2>2. (Calm(s)' => Calm(s)) /\ (Calm(d)' => Calm(s) /\ Calm(d))
      BY <1>11 DEF Calm
    <2>3. ASSUME Calm(s)' PROVE HookKnows(s)' /\ Steady(s)'
      <3>1. /\ HookKnows(s)
            /\ th[t].pc = "decided" => Steady(s) /\ (th[t].on = "real" => OnReal(s))
            /\ th[t].pc = "move" => Leaves(t, s)
        BY <1>1, <1>2, <1>3, <2>2, <2>3, MoveKnows
      <3>2. CASE th[t].on = "real"
        <4>1. ServesWell(s) /\ (s \in wh \/ OnReal(s))
          BY <1>0, <1>8, <3>1, <3>2 DEF Leaves, Steady
        <4>2. real'[s] = None /\ ovl'[s] = ovl[s] /\ view'[s] = None
          BY <1>11, <3>2
        <4>3. Lower(s)'
          BY <1>0, <4>1, <4>2 DEF Lower, Shows, OnReal
        <4> QED BY <1>5, <1>9, <3>1, <3>2, <4>1, <4>2, <4>3
      <3>3. CASE th[t].on = "ovl"
        <4>1. th[t].pc = "move"
          BY <1>0, <1>11, <2>3, <3>3 DEF Calm
        <4>2. ServesNothing(s) /\ s \in wh /\ s \notin idx
          BY <3>1, <4>1 DEF Leaves
        <4>3. ovl'[s] = None /\ view'[s] = None /\ real'[s] = real[s]
          BY <1>11, <3>3
        <4> QED BY <1>0, <1>5, <1>6, <1>7, <1>8, <3>1, <3>3, <4>2, <4>3, CopiedSteady
      <3> QED BY <1>4, <3>2, <3>3
    <2>4. ASSUME Calm(d)' PROVE HookKnows(d)' /\ Steady(d)'
      <3>1. /\ Shows(s, Source(t))
            /\ HookKnows(d)
            /\ th[t].pc = "move" => Arrives(t, d)
            /\ th[t].pc = "decided" => OnReal(d) /\ ServesWell(d)
            /\ Target(t) = None => view[d] = None \/ "recreated" \in excuse[d]
        BY <1>1, <1>2, <1>3, <2>2, <2>4, MoveKnows
      <3>2. view'[d] = Source(t) \/ "recreated" \in excuse'[d]
        <4>1. CASE "recreated" \in excuse[s]
          BY <1>11, <4>1
        <4>2. CASE "recreated" \notin excuse[s]
          <5>1. view[s] = Source(t) /\ view[s] # None
            BY <1>11, <3>1, <4>2 DEF Shows
          <5>2. Moves(t, view[d]) \/ Doubtful(d)
            BY <1>11, <3>1 DEF Moves, Doubtful
          <5> QED BY <1>11, <5>1, <5>2
        <4> QED BY <4>1, <4>2
      <3>3. CASE th[t].pc = "decided"
        <4>1. Lower(d)'
          BY <1>0, <1>11, <3>1, <3>2, <3>3 DEF Lower, OnReal, Shows
        <4> QED BY <1>5, <1>9, <1>11, <3>1, <3>3, <4>1
      <3>4. CASE th[t].pc = "move"
        <4>1. ServesNothing(d) /\ d \in idx
          BY <3>1, <3>4 DEF Arrives
        <4>2. ovl'[d] # None /\ Shows(d, ovl[d])' /\ Indexed(d)'
          BY <1>0, <1>11, <3>2, <3>4, <4>1 DEF Shows, Indexed
        <4>3. HookKnows(d)'
          BY <1>7, <1>11, <3>1, <3>4
        <4> QED BY <1>5, <1>6, <1>8, <3>4, <4>1, <4>2, <4>3, CopiedSteady
      <3> QED BY <1>0, <3>3, <3>4
    <2>5. OnlyCow'
      <3>1. \A x \in Path : /\ x \notin {s, d} => ovl'[x] = ovl[x]
                            /\ x = s => ovl'[x] \in {ovl[x], None}
                            /\ x = d /\ ~MayOvl(x) => ovl'[x] = ovl[x]
        BY <1>0, <1>5, <1>11 DEF SameFile
      <3> QED BY <1>0, <1>6, <3>1 DEF OnlyCow, MayOvl, MayReal
    <2>6. \A x \in Paths(th[t]) : excuse[x] \subseteq excuse'[x] \cup {"recreated"}
      BY <1>3, <1>11
    <2> QED BY <1>0, <1>3, <2>1, <2>3, <2>4, <2>5, <2>6, Ending
  <1> QED BY <1>1, <1>2, <1>3, <1>10, <1>11, MoveDoes

-----------------------------------------------------------------------------
(* Every step keeps the view. *)
LEMMA NextView == ReadsPassThrough /\ IInv /\ VInv /\ [Next]_vars => VInv'
  <1> SUFFICES ASSUME ReadsPassThrough, IInv, VInv, [Next]_vars PROVE VInv'
    OBVIOUS
  <1>1. IInv'
    BY NextInv
  <1>2. ASSUME NEW t \in Thread, NEW r \in Calls, Call(t, r) PROVE VInv'
    BY <1>2, CallView
  <1>3. ASSUME NEW t \in Thread, Decide(t) \/ Insert(t) \/ Reply(t) \/ DecideFails(t) PROVE VInv'
    BY <1>1, <1>3, DecideView, InsertView, ReplyView, DecideFailsView
  <1>4. ASSUME NEW t \in Thread, decide_fresh_if_overlay_missing(t) \/ Revive(t) \/ Refuse(t)
        PROVE  VInv'
    BY <1>1, <1>4, FreshView, ReviveView, RefuseView
  <1>5. ASSUME NEW t \in Thread, OpenReal(t) \/ prepare_overlay(t) \/ cow_copy_verified(t)
        PROVE  VInv'
    BY <1>1, <1>5, OpenRealView, PrepareView, CopyView
  <1>6. ASSUME NEW t \in Thread, OpenOverlay(t) \/ publish_overlay_decision(t) PROVE VInv'
    BY <1>1, <1>6, OpenOverlayView, PublishView
  <1>7. ASSUME NEW t \in Thread, DeleteReal(t) \/ DeleteOverlay(t) \/ DeleteExternal(t) PROVE VInv'
    BY <1>1, <1>7, DeleteRealView, DeleteOverlayView, DeleteExternalView
  <1>8. ASSUME NEW t \in Thread,
               clear_overlay(t) \/ record_whiteout(t) \/ RecordDestination(t) \/ Move(t)
        PROVE  VInv'
    BY <1>1, <1>8, ClearOverlayView, RecordWhiteoutView, RecordDestinationView, MoveView
  <1>9. ASSUME NEW q \in Process, ProcessDies(q) PROVE VInv'
    BY <1>9, DiesView
  <1>10. CASE UNCHANGED vars
    BY <1>10, StutterView
  <1> QED BY <1>2, <1>3, <1>4, <1>5, <1>6, <1>7, <1>8, <1>9, <1>10 DEF Next, Step

(* The paths of the private view are where the invariant says, always. *)
LEMMA ViewInvariance == ASSUME ReadsPassThrough PROVE Spec => []VInv
  <1>1. Init => VInv
    BY ViewInit
  <1>2. IInv /\ VInv /\ [Next]_vars => VInv'
    BY NextView
  <1> QED BY <1>1, <1>2, Invariance, PTL DEF Spec

(* Where reads pass through, all processes share one private file system:    *)
(* whatever decisions are cached, whoever wrote, copied, deleted or renamed  *)
(* a file and whoever was killed meanwhile, an open of a path that no call   *)
(* is on finds what the calls have left there.                               *)
THEOREM OnePrivateView == ASSUME ReadsPassThrough PROVE Spec => []PrivateView
  <1>1. IInv /\ VInv => PrivateView
    <2> SUFFICES ASSUME IInv, VInv, NEW p \in Path, Quiet(p), ~Doubtful(p) PROVE Agrees(p)
      BY DEF PrivateView
    <2>1. Calm(p) /\ "recreated" \notin excuse[p]
      BY DEF Doubtful, Calm
    <2>2. Steady(p) /\ HookKnows(p)
      BY <2>1, QuietIsSteady
    <2> QED BY <2>1, <2>2, SteadyAgrees DEF VInv
  <1> QED BY <1>1, Invariance, ViewInvariance, PTL

(* Where reads pass through, the merged listing of a directory outside the   *)
(* project has exactly the files of the private view, once the calls on them *)
(* are over.                                                                 *)
THEOREM ListingsAgree == ASSUME ReadsPassThrough PROVE Spec => []ListingAgrees
  <1>1. VInv => ListingAgrees
    <2> SUFFICES ASSUME VInv, NEW p \in External, Quiet(p), excuse[p] = {}
                 PROVE  Listed(p) <=> view[p] # None
      BY DEF ListingAgrees
    <2>1. Calm(p) /\ p \in Path
      BY DEF Calm, External
    <2>2. Steady(p)
      BY <2>1, QuietIsSteady
    <2> QED BY <2>2, SteadyListed DEF VInv
  <1> QED BY <1>1, ViewInvariance, PTL
=============================================================================
