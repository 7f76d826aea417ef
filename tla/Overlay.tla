------------------------------ MODULE Overlay -------------------------------
(***************************************************************************)
(* The copy-on-write file view: how the file hooks of the guests (hook     *)
(* fs/fs_hooks, fs/fs_metadata_guard, core/hooks) and the policy of the    *)
(* broker (policy decide/overlay.rs) give the sandbox a private file       *)
(* system on top of the real one.                                          *)
(*                                                                         *)
(* A path outside the project has a real (lower) file and a place in the   *)
(* overlay.  The broker keeps an index of overlaid paths, whiteout markers *)
(* and a cache of decisions; each guest process keeps its own cache of     *)
(* decisions and the set of paths it has published.  A file call of a      *)
(* guest asks for a decision, perhaps copies the lower file up, lets the   *)
(* kernel act on one of the two files and then tells the broker.  Every    *)
(* cache access, request and kernel call is a step of its own, so calls of *)
(* different threads and processes interleave between any two of them.     *)
(*                                                                         *)
(* A file's content is a token: the path whose original content it is, the *)
(* thread that wrote it, "empty", or "torn" for a copy in progress.        *)
(* Directories, mocks, hard links, aliases and name case are left out, as  *)
(* is eviction from the caches.  A deleted file is gone at once.           *)
(***************************************************************************)
EXTENDS Integers, FiniteSets

CONSTANTS Thread,    \* threads of the guests
          Process,   \* guest processes
          Path,      \* folded DOS paths of files
          Project,   \* those inside the project directory
          Rules,     \* the (mode_read, mode_write) pairs a path may have
          Calls,     \* the calls the guests may make
          None,      \* no file, no decision
          MaxCalls,  \* bound on the calls made
          MaxActive, \* bound on the calls under way at a time
          MaxFaults  \* bound on requests lost, copies failed, processes killed

ASSUME OverlayAssumption ==
    /\ Project \subseteq Path
    /\ Rules \subseteq [read : {"Passthrough", "Cow", "Deny"},
                        write : {"Passthrough", "Cow", "Deny"}]
    /\ MaxCalls \in Nat /\ MaxActive \in Nat /\ MaxFaults \in Nat
    /\ None \notin Path \cup Thread
    /\ None \notin {"empty", "torn", "wrong", "real", "ovl",
                    "Passthrough", "Hidden", "Deny", "Cow", "CowFrom"}

VARIABLES
    owner,      \* owner[t]: the process of thread t
    rule,       \* rule[p]: the rule that matches p
    real,       \* real[p]: the file at p itself
    ovl,        \* ovl[p]: the file at p's place in the overlay
    idx,        \* OVERLAY_IDX: paths the broker knows to be overlaid
    wh,         \* WHITEOUTS: paths marked deleted
    srv,        \* srv[p][w]: the broker's cached decision for a read or a write
    hook,       \* hook[q][p][w]: the one in process q's HookCache
    published,  \* published[q]: paths q need not publish again
    th,         \* th[t]: the call t is in, and how far it is
    calls, faults,
    view,       \* history: the file system the calls should have produced
    excuse      \* history: why p may differ from view[p]

index == <<idx, wh, srv>>
caches == <<hook, published>>
history == <<view, excuse>>
vars == <<owner, rule, real, ovl, idx, wh, srv, hook, published, th, calls, faults,
          view, excuse>>

-----------------------------------------------------------------------------
(* Calls. *)

Disposition == {"OPEN", "OPEN_IF", "CREATE", "OVERWRITE", "OVERWRITE_IF"}

(* is_create_disposition. *)
is_create_disposition(disp) == disp \in {"CREATE", "OPEN_IF", "OVERWRITE_IF"}

(* NtCreateFile to read or to write, NtOpenFile to read, a query of          *)
(* attributes, an open for DELETE followed by the disposition or the rename, *)
(* NtDeleteFile.                                                             *)
Request ==
    [op : {"read", "write"}, path : Path, disp : Disposition, dst : {None}]
    \cup [op : {"open", "query", "delete", "unlink"}, path : Path, disp : {"OPEN"},
          dst : {None}]
    \cup {r \in [op : {"rename"}, path : Path, disp : {"keep", "replace"}, dst : Path] :
             r.dst # r.path}

ASSUME CallsAssumption == Calls \subseteq Request

(* May the call change the file at its path? *)
Mutates(r) == r.op \notin {"open", "query"} /\ (r.op = "read" => r.disp # "OPEN")

(* Wrong: only the access mask counts. *)
is_write_access_MaskOnly(r) == r.op \notin {"read", "open", "query"}

(* is_write_access: the access mask has a write bit, or the disposition may *)
(* change the file.                                                         *)
is_write_access(r) == r.op \notin {"read", "open", "query"} \/ (r.op = "read" /\ r.disp # "OPEN")

(* NtCreateFile with a disposition, on a file of content c: does it succeed, *)
(* and what is the file afterwards?                                          *)
Opens(c, disp) == CASE disp \in {"OPEN", "OVERWRITE"} -> c # None
                    [] disp = "CREATE" -> c = None
                    [] OTHER -> TRUE

Opened(c, disp) == IF disp = "OPEN" \/ (disp = "OPEN_IF" /\ c # None) THEN c ELSE "empty"

(* ... and after the guest has used the handle. *)
Content(t, c, disp) == IF th[t].op = "write" THEN t ELSE Opened(c, disp)

-----------------------------------------------------------------------------
(* The policy's decision. *)

Cow == {"Cow", "CowFrom"}   \* Mode::Cow without and with cow_from

External == Path \ Project

NoDecisions == [p \in Path |-> [w \in BOOLEAN |-> None]]

Overlaid(p) == p \in idx \/ ovl[p] # None

Whiteouted(p) == p \in wh /\ ~Overlaid(p)

compute(p, w) ==
    LET mode == IF w THEN rule[p].write ELSE rule[p].read
    IN  CASE p \in Project -> "Passthrough"
          [] p \in External /\ Whiteouted(p) -> "Hidden"
          [] p \in External /\ ~Whiteouted(p) ->
                CASE mode = "Deny" -> "Deny"
                  [] mode = "Passthrough" -> IF ~w /\ Overlaid(p) THEN "Cow" ELSE "Passthrough"
                  [] mode = "Cow" -> IF p \notin idx /\ w /\ real[p] # None
                                     THEN "CowFrom" ELSE "Cow"

(* decide_with_context: from the cache, or computed. *)
Served(p, w) == IF srv[p][w] # None THEN srv[p][w] ELSE compute(p, w)

-----------------------------------------------------------------------------
(* One thread's call.  at is the path being looked up: the call's path, then *)
(* the destination of a rename.  retry holds what the lookup may still do    *)
(* again: re-decide when the overlay file is missing, revive a hidden path.  *)

Idle == [pc |-> "idle", op |-> "read", path |-> None, disp |-> "OPEN", dst |-> None,
         at |-> None, retry |-> {}, dec |-> None, on |-> None]

Busy(t) == th[t].pc # "idle"

Paths(r) == {r.path, r.dst} \ {None}

Write(t) == is_write_access(th[t])

Goto(t, pc) == th' = [th EXCEPT ![t].pc = pc]

Return(t) == th' = [th EXCEPT ![t] = Idle]

(* HookCache::invalidate: both decisions of a path. *)
Invalidate(q, p) == [hook EXCEPT ![q][p] = [w \in BOOLEAN |-> None]]

overlay_publish_forget(q, p) == [published EXCEPT ![q] = @ \ {p}]

Excuse(S, why) == [p \in Path |-> IF p \in S THEN excuse[p] \cup {why} ELSE excuse[p]]

(* Something that may fail does, at the expense of what t is doing. *)
Fault(t) ==
    /\ faults < MaxFaults
    /\ faults' = faults + 1
    /\ excuse' = Excuse(Paths(th[t]), "fault")

Retries(r) == IF r.op = "unlink" THEN {}
              ELSE {"fresh"} \cup (IF is_create_disposition(r.disp) THEN {"revive"} ELSE {})

Rivals(r) == {u \in Thread : /\ Paths(r) \cap Paths(th[u]) # {}
                             /\ Mutates(r) \/ Mutates(th[u])}

(* A call begins.  Calls that overlap on a path and change it have no order  *)
(* the view could follow.                                                   *)
Call(t, r) ==
    /\ ~Busy(t)
    /\ calls < MaxCalls
    /\ calls' = calls + 1
    /\ th' = [th EXCEPT ![t] = [pc |-> "decide", op |-> r.op, path |-> r.path,
                                disp |-> r.disp, dst |-> r.dst, at |-> r.path,
                                retry |-> Retries(r), dec |-> None, on |-> None]]
    /\ Cardinality({u \in Thread : Busy(u)}) < MaxActive
    /\ excuse' = Excuse(UNION {Paths(r) \cup Paths(th[u]) : u \in Rivals(r)}, "overlap")
    /\ UNCHANGED <<owner, rule, real, ovl, index, caches, faults, view>>

(* hooks::decide: the process's cache, or the broker's cache, or compute.   *)
Decide(t) ==
    LET p == th[t].at   w == Write(t)
        d == hook[owner[t]][p][w]
    IN  /\ th[t].pc = "decide"
        /\ \/ /\ d # None
              /\ th' = [th EXCEPT ![t].pc = "decided", ![t].dec = d]
           \/ /\ d = None
              /\ th' = [th EXCEPT ![t].pc = IF srv[p][w] # None THEN "reply" ELSE "insert",
                                  ![t].dec = Served(p, w)]
        /\ UNCHANGED <<owner, rule, real, ovl, index, caches, calls, faults, history>>

(* The broker caches what it computed; a request handled in between has      *)
(* already cleared its cache.                                                *)
Insert(t) ==
    /\ th[t].pc = "insert"
    /\ srv' = [srv EXCEPT ![th[t].at][Write(t)] = th[t].dec]
    /\ Goto(t, "reply")
    /\ UNCHANGED <<owner, rule, real, ovl, idx, wh, caches, calls, faults, history>>

(* Wrong: a decision is a decision. *)
Cacheable_All(d) == TRUE

(* What another process may change is not cached (Bug #75, #78). *)
Cacheable(d) == d \notin {"Passthrough", "Hidden"}

HookInsert(t, d) ==
    hook' = IF Cacheable(d) THEN [hook EXCEPT ![owner[t]][th[t].at][Write(t)] = d] ELSE hook

Reply(t) ==
    /\ th[t].pc = "reply"
    /\ HookInsert(t, th[t].dec)
    /\ Goto(t, "decided")
    /\ UNCHANGED <<owner, rule, real, ovl, index, published, calls, faults, history>>

(* ipc_decide fails: Deny, which decide caches like any other. *)
DecideFails(t) ==
    /\ th[t].pc \in {"decide", "reply"}
    /\ hook[owner[t]][th[t].at][Write(t)] = None
    /\ HookInsert(t, "Deny")
    /\ th' = [th EXCEPT ![t].pc = "decided", ![t].dec = "Deny"]
    /\ Fault(t)
    /\ UNCHANGED <<owner, rule, real, ovl, index, published, calls, view>>

(* A request that changes the broker's tables (and so clears its cache), or  *)
(* is lost: nobody looks at the answer.                                      *)
Send(t, newIdx, newWh) ==
    \/ /\ idx' = newIdx /\ wh' = newWh
       /\ srv' = NoDecisions
       /\ UNCHANGED <<faults, excuse>>
    \/ Fault(t) /\ UNCHANGED index

-----------------------------------------------------------------------------
(* Looking a path up again. *)

Stale(t) == "fresh" \in th[t].retry /\ th[t].dec \in Cow /\ ovl[th[t].at] = None

Revivable(t) == "revive" \in th[t].retry /\ th[t].dec = "Hidden"

(* A decision whose overlay file is missing may be stale. *)
decide_fresh_if_overlay_missing(t) ==
    /\ th[t].pc = "decided" /\ Stale(t)
    /\ published' = overlay_publish_forget(owner[t], th[t].at)
    /\ hook' = Invalidate(owner[t], th[t].at)
    /\ th' = [th EXCEPT ![t].pc = "decide", ![t].retry = @ \ {"fresh"}]
    /\ UNCHANGED <<owner, rule, real, ovl, index, calls, faults, history>>

(* Wrong: publication is not re-armed. *)
Revive_KeepsPublished(t) ==
    /\ th[t].pc = "decided" /\ Revivable(t)
    /\ Send(t, idx, wh \ {th[t].at})
    /\ hook' = Invalidate(owner[t], th[t].at)
    /\ th' = [th EXCEPT ![t].pc = "decide", ![t].retry = {}]
    /\ UNCHANGED <<owner, rule, real, ovl, published, calls, view>>

(* A create, or a rename, onto a whiteouted path. *)
Revive(t) ==
    /\ th[t].pc = "decided" /\ Revivable(t)
    /\ Send(t, idx, wh \ {th[t].at})
    /\ published' = IF th[t].op = "rename" THEN published
                    ELSE overlay_publish_forget(owner[t], th[t].at)
    /\ hook' = Invalidate(owner[t], th[t].at)
    /\ th' = [th EXCEPT ![t].pc = "decide", ![t].retry = {}]
    /\ UNCHANGED <<owner, rule, real, ovl, calls, view>>

Decided(t) == th[t].pc = "decided" /\ ~Stale(t) /\ ~Revivable(t)

Refuse(t) ==
    /\ Decided(t)
    /\ th[t].dec \in {"Hidden", "Deny"}
    /\ Return(t)
    /\ UNCHANGED <<owner, rule, real, ovl, index, caches, calls, faults, history>>

-----------------------------------------------------------------------------
(* Opening the file. *)

(* Is it known that p may not be what the view says? *)
Doubtful(p) == excuse[p] \ {"unlisted"} # {}

(* The view after a successful open: what the private file system would have *)
(* given, or "wrong" when it would have refused.                             *)
ViewOpens(t, p) ==
    view' = [view EXCEPT ![p] = IF Opens(view[p], th[t].disp) \/ Doubtful(p)
                                THEN Content(t, view[p], th[t].disp) ELSE "wrong"]

(* Overwriting makes up for a wrongly recreated file. *)
Forgive(p, disp) ==
    IF disp \in {"OVERWRITE", "OVERWRITE_IF", "replace"}
    THEN [excuse EXCEPT ![p] = @ \ {"recreated"}] ELSE excuse

(* A lower file that the private view does not have is about to come back.   *)
Resurrect(p) ==
    IF p \in External /\ view[p] = None /\ real[p] # None
    THEN [excuse EXCEPT ![p] = @ \cup {"recreated"}] ELSE excuse

FirstPath(t) == th[t].at = th[t].path

(* The guest has a handle and passes it to NtSetInformationFile: to delete   *)
(* the file, or to rename it, for which the destination is looked up.        *)
UseHandle(t, layer) ==
    LET c == th[t]
    IN  th' = [th EXCEPT ![t] =
                  IF c.op = "delete" THEN [c EXCEPT !.pc = "use", !.on = layer]
                  ELSE [c EXCEPT !.pc = "decide", !.on = layer, !.at = c.dst,
                                 !.retry = {"revive"}]]

(* A read of a Cow path without an overlay file falls back on the lower one, *)
(* but not in NtOpenFile.                                                    *)
ReadsLower(t) == th[t].dec \in Cow /\ ~Write(t) /\ th[t].op # "open" /\ ovl[th[t].at] = None

OpenReal(t) ==
    LET p == th[t].at
    IN  /\ Decided(t) /\ FirstPath(t) /\ th[t].op # "unlink"
        /\ th[t].dec = "Passthrough" \/ ReadsLower(t)
        /\ \/ /\ th[t].op \in {"delete", "rename"} /\ real[p] # None
              /\ UseHandle(t, "real")
              /\ UNCHANGED <<real, history>>
           \/ /\ th[t].op \in {"delete", "rename"} /\ real[p] = None
              /\ Return(t)
              /\ UNCHANGED <<real, history>>
           \/ /\ th[t].op \notin {"delete", "rename"}
              /\ IF Mutates(th[t]) /\ Opens(real[p], th[t].disp)
                 THEN /\ real' = [real EXCEPT ![p] = Content(t, @, th[t].disp)]
                      /\ ViewOpens(t, p)
                 ELSE UNCHANGED <<real, view>>
              /\ excuse' = IF Mutates(th[t]) THEN Resurrect(p) ELSE excuse
              /\ Return(t)
        /\ UNCHANGED <<owner, rule, ovl, index, caches, calls, faults>>

(* prepare_overlay: cow_copy_verified creates the file and copies into it.   *)
(* A file the private view does not have comes back this way.                *)
Copies(t) == th[t].dec = "CowFrom" /\ ovl[th[t].at] = None /\ real[th[t].at] # None

prepare_overlay(t) ==
    LET p == th[t].at
    IN  /\ Decided(t) /\ th[t].op # "unlink"
        /\ Copies(t)
        /\ ovl' = [ovl EXCEPT ![p] = "torn"]
        /\ Goto(t, "copy")
        /\ excuse' = Resurrect(p)
        /\ UNCHANGED <<owner, rule, real, index, caches, calls, faults, view>>

cow_copy_verified(t) ==
    LET p == th[t].at
    IN  /\ th[t].pc = "copy"
        /\ \/ /\ ovl' = [ovl EXCEPT ![p] = real[p]]
              /\ UNCHANGED <<faults, excuse>>
           \/ /\ ovl' = [ovl EXCEPT ![p] = None]   \* discard_torn_materialization
              /\ Fault(t)
        /\ Goto(t, "prepared")
        /\ UNCHANGED <<owner, rule, real, index, caches, calls, view>>

Prepared(t) ==
    /\ th[t].op # "unlink"
    /\ \/ th[t].pc = "prepared"
       \/ Decided(t) /\ th[t].dec \in Cow /\ ~Copies(t) /\ ~(FirstPath(t) /\ ReadsLower(t))

HandleDisp(t) == IF th[t].op = "rename" THEN "OPEN" ELSE th[t].disp

(* The redirected open. *)
OpenOverlay(t) ==
    LET p == th[t].at   q == owner[t]   disp == HandleDisp(t)
    IN  /\ Prepared(t) /\ FirstPath(t)
        /\ IF Opens(ovl[p], disp)
           THEN /\ ovl' = [ovl EXCEPT ![p] = Content(t, @, disp)]
                /\ IF Mutates(th[t]) /\ th[t].op \notin {"delete", "rename"}
                   THEN ViewOpens(t, p) /\ excuse' = Forgive(p, disp)
                   ELSE UNCHANGED history
                /\ th' = [th EXCEPT ![t] = IF th[t].op = "query" THEN Idle
                                           ELSE [@ EXCEPT !.pc = "publish"]]
                /\ UNCHANGED caches
           ELSE /\ published' = overlay_publish_forget(q, p)
                /\ hook' = Invalidate(q, p)
                /\ Return(t)
                /\ UNCHANGED <<ovl, history>>
        /\ UNCHANGED <<owner, rule, real, index, calls, faults>>

publish_overlay_decision(t) ==
    LET p == th[t].at   q == owner[t]
    IN  /\ th[t].pc = "publish"
        /\ IF p \in published[q]
           THEN UNCHANGED <<index, caches, faults, excuse>>
           ELSE /\ Send(t, idx \cup {p}, wh)
                /\ published' = IF faults' = faults THEN [published EXCEPT ![q] = @ \cup {p}]
                                ELSE published
                /\ hook' = Invalidate(q, p)
        /\ IF th[t].op \in {"delete", "rename"} THEN UseHandle(t, "ovl") ELSE Return(t)
        /\ UNCHANGED <<owner, rule, real, ovl, calls, view>>

-----------------------------------------------------------------------------
(* Deleting, by handle (NtSetInformationFile) or by path (NtDeleteFile).     *)

DeleteReal(t) ==
    LET p == th[t].path
    IN  /\ \/ th[t].pc = "use" /\ th[t].op = "delete" /\ th[t].on = "real" /\ p \in Project
           \/ Decided(t) /\ th[t].op = "unlink" /\ th[t].dec = "Passthrough"
        /\ real' = [real EXCEPT ![p] = None]
        /\ view' = [view EXCEPT ![p] = IF real[p] = None THEN @ ELSE None]
        /\ Return(t)
        /\ UNCHANGED <<owner, rule, ovl, index, caches, calls, faults, excuse>>

(* The overlay file is deleted, or is held open by someone, or is not there. *)
DeleteOverlay(t) ==
    LET p == th[t].path
    IN  /\ \/ th[t].pc = "use" /\ th[t].op = "delete" /\ th[t].on = "ovl"
           \/ Decided(t) /\ th[t].op = "unlink" /\ th[t].dec \in Cow
        /\ \/ /\ ovl[p] # None
              /\ ovl' = [ovl EXCEPT ![p] = None]
              /\ view' = [view EXCEPT ![p] = None]
              /\ Goto(t, "clear")
           \/ /\ ovl[p] # None        \* STATUS_SHARING_VIOLATION
              /\ Goto(t, "mark")
              /\ UNCHANGED <<ovl, view>>
           \/ /\ ovl[p] = None
              /\ IF th[t].op = "unlink"
                 THEN Goto(t, "mark") /\ view' = [view EXCEPT ![p] = None]
                 ELSE Return(t) /\ UNCHANGED view
              /\ UNCHANGED ovl
        /\ UNCHANGED <<owner, rule, real, index, caches, calls, faults, excuse>>

(* A real file outside the project, opened under a Passthrough rule: hidden, *)
(* not deleted.                                                              *)
DeleteExternal(t) ==
    LET p == th[t].path
    IN  /\ th[t].pc = "use" /\ th[t].op = "delete" /\ th[t].on = "real" /\ p \in External
        /\ view' = [view EXCEPT ![p] = None]
        /\ Goto(t, "mark")
        /\ UNCHANGED <<owner, rule, real, ovl, index, caches, calls, faults, excuse>>

(* The overlay file is deleted, or the destination of a rename is prepared. *)
ClearsSource(t) == th[t].pc = "clear" \/ (Prepared(t) /\ ~FirstPath(t))

clear_overlay(t) ==
    /\ ClearsSource(t)
    /\ Send(t, idx \ {th[t].path}, wh)
    /\ Goto(t, "mark")
    /\ UNCHANGED <<owner, rule, real, ovl, caches, calls, view>>

(* The end of a delete; a rename goes on to its destination. *)
record_whiteout(t) ==
    LET p == th[t].path
    IN  /\ th[t].pc = "mark"
        /\ Send(t, idx, wh \cup {p})
        /\ hook' = Invalidate(owner[t], p)
        /\ IF th[t].op = "rename" THEN Goto(t, "index") ELSE Return(t)
        /\ UNCHANGED <<owner, rule, real, ovl, published, calls, view>>

-----------------------------------------------------------------------------
(* Renaming, by handle: the destination is looked up, the source hidden, the *)
(* destination recorded, and then the kernel moves the file.                 *)

RecordDestination(t) ==
    /\ th[t].pc = "index"
    /\ Send(t, idx \cup {th[t].dst}, wh)
    /\ hook' = Invalidate(owner[t], th[t].dst)
    /\ Goto(t, "move")
    /\ UNCHANGED <<owner, rule, real, ovl, published, calls, view>>

Moves(t, old) == old = None \/ th[t].disp = "replace"

(* What the view makes of a move that the kernel did. *)
ViewMoves(t) ==
    LET s == th[t].path   d == th[t].dst
        fine == /\ view[s] # None
                /\ Moves(t, view[d])
    IN  /\ view' = [view EXCEPT ![d] = IF fine \/ Doubtful(s) \/ Doubtful(d)
                                       THEN view[s] ELSE "wrong",
                                ![s] = None]

(* The kernel moves the open file to the overlay, or to the real path when   *)
(* the destination is Passthrough; then the broker is told nothing.          *)
Move(t) ==
    LET s == th[t].path   d == th[t].dst
        toReal == th[t].pc = "decided"
        file == IF th[t].on = "ovl" THEN ovl[s] ELSE real[s]
        old == IF toReal THEN real[d] ELSE ovl[d]
        done == file # None /\ Moves(t, old)
        gone(f, on) == IF th[t].on = on THEN [f EXCEPT ![s] = None] ELSE f
        why == IF toReal /\ th[t].on = "ovl" THEN {"moved"} ELSE {}
        lost == CASE toReal \/ s \in Project -> {}
                  [] th[t].on = "ovl" -> IF real[s] = None THEN {"unlisted"} ELSE {}
                  [] OTHER -> {"vanished"}
    IN  /\ th[t].op = "rename"
        /\ th[t].pc = "move" \/ (Decided(t) /\ ~FirstPath(t) /\ th[t].dec = "Passthrough")
        /\ Return(t)
        /\ IF done
           THEN /\ real' = LET r == gone(real, "real")
                           IN  IF toReal THEN [r EXCEPT ![d] = file] ELSE r
                /\ ovl' = LET o == gone(ovl, "ovl")
                          IN  IF toReal THEN o ELSE [o EXCEPT ![d] = file]
                /\ ViewMoves(t)
                /\ excuse' = [Forgive(d, th[t].disp) EXCEPT ![d] = @ \cup excuse[s],
                                                            ![s] = @ \cup why]
           ELSE /\ excuse' = IF toReal THEN Resurrect(d) ELSE [excuse EXCEPT ![s] = @ \cup lost]
                /\ UNCHANGED <<real, ovl, view>>
        /\ UNCHANGED <<owner, rule, index, caches, calls, faults>>

-----------------------------------------------------------------------------
(* A process is killed; another one starts with empty caches. *)
ProcessDies(q) ==
    LET mine == {t \in Thread : owner[t] = q}
    IN  /\ faults < MaxFaults
        /\ faults' = faults + 1
        /\ \E t \in mine : Busy(t)
        /\ th' = [t \in Thread |-> IF t \in mine THEN Idle ELSE th[t]]
        /\ hook' = [hook EXCEPT ![q] = NoDecisions]
        /\ published' = [published EXCEPT ![q] = {}]
        /\ excuse' = Excuse(UNION {Paths(th[t]) : t \in mine}, "fault")
        /\ UNCHANGED <<owner, rule, real, ovl, index, calls, view>>

Init ==
    /\ owner \in [Thread -> Process]
    /\ rule \in [External -> Rules]
    /\ real \in {f \in [Path -> Path \cup {None}] : \A p \in Path : f[p] \in {p, None}}
    /\ ovl = [p \in Path |-> None]
    /\ idx = {} /\ wh = {} /\ srv = NoDecisions
    /\ hook = [q \in Process |-> NoDecisions]
    /\ published = [q \in Process |-> {}]
    /\ th = [t \in Thread |-> Idle]
    /\ calls = 0 /\ faults = 0
    /\ view = real
    /\ excuse = [p \in Path |-> {}]

Step(t) ==
    \/ \E r \in Calls : Call(t, r)
    \/ Decide(t) \/ Insert(t) \/ Reply(t) \/ DecideFails(t)
    \/ decide_fresh_if_overlay_missing(t) \/ Revive(t) \/ Refuse(t)
    \/ OpenReal(t) \/ prepare_overlay(t) \/ cow_copy_verified(t)
    \/ OpenOverlay(t) \/ publish_overlay_decision(t)
    \/ DeleteReal(t) \/ DeleteOverlay(t) \/ DeleteExternal(t)
    \/ clear_overlay(t) \/ record_whiteout(t)
    \/ RecordDestination(t) \/ Move(t)

Next == \/ \E t \in Thread : Step(t)
        \/ \E q \in Process : ProcessDies(q)

Spec == Init /\ [][Next]_vars

-----------------------------------------------------------------------------
(* Properties. *)

Token == Path \cup Thread \cup {"empty", "torn", "wrong", None}

Decision == {"Passthrough", "Hidden", "Deny", None} \cup Cow

Decisions == [Path -> [BOOLEAN -> Decision]]

PC == {"idle", "decide", "insert", "reply", "decided", "copy", "prepared", "publish",
       "use", "clear", "mark", "index", "move"}

(* Every variable has its type, and a thread inside a call is at a path of   *)
(* the call.                                                                 *)
TypeOK ==
    /\ owner \in [Thread -> Process]
    /\ rule \in [External -> Rules]
    /\ real \in [Path -> Token] /\ ovl \in [Path -> Token] /\ view \in [Path -> Token]
    /\ idx \subseteq Path /\ wh \subseteq Path
    /\ srv \in Decisions
    /\ hook \in [Process -> Decisions]
    /\ published \in [Process -> SUBSET Path]
    /\ \A t \in Thread :
          /\ th[t].pc \in PC /\ th[t].dec \in Decision /\ th[t].on \in {"real", "ovl", None}
          /\ Busy(t) => th[t].at \in Paths(th[t])
    /\ excuse \in [Path -> SUBSET {"overlap", "fault", "recreated", "moved", "unlisted",
                                    "vanished"}]

(* The sandbox's promise: a guest changes a real file only where the project *)
(* or a Passthrough rule lets it, and an overlay file only of a path whose   *)
(* writes are copy-on-write, whatever is cached, lost or racing.             *)
Containment ==
    [][\A p \in Path :
          /\ real'[p] # real[p] => p \in Project \/ rule[p].write = "Passthrough"
          /\ ovl'[p] # ovl[p] => p \in External /\ rule[p].write = "Cow"]_vars

(* What process q gets to see of p if it opens it now: to read with          *)
(* NtCreateFile, to read with NtOpenFile, or to write.                       *)
Seen(q, p, api) ==
    LET w == api = "write"
        first == IF hook[q][p][w] # None THEN hook[q][p][w] ELSE Served(p, w)
        d == IF first \in Cow /\ ovl[p] = None THEN Served(p, w) ELSE first
    IN  CASE d = "Hidden" -> None
          [] d = "Passthrough" -> real[p]
          [] d = "Deny" -> IF compute(p, w) = "Deny" THEN view[p] ELSE "wrong"
          [] d \in Cow /\ ovl[p] # None -> ovl[p]
          [] d \in Cow /\ ovl[p] = None ->
                IF api = "read" \/ (api = "write" /\ d = "CowFrom") THEN real[p] ELSE None

Quiet(p) == \A t \in Thread : p \notin Paths(th[t])

Agrees(p) == \A q \in Process, api \in {"read", "open", "write"} : Seen(q, p, api) = view[p]

(* All processes of the sandbox share one private file system: when no call  *)
(* on p is under way, each of them, through each kind of open and whatever   *)
(* its caches hold, finds at p what the calls so far have left there.        *)
PrivateView == \A p \in Path : Quiet(p) /\ ~Doubtful(p) => Agrees(p)

(* Does the merged listing of p's directory show p? *)
Listed(p) == (real[p] # None \/ p \in idx) /\ ~Whiteouted(p)

(* A directory outside the project lists exactly the files that exist in the *)
(* private view.                                                             *)
ListingAgrees ==
    \A p \in External : Quiet(p) /\ excuse[p] = {} => (Listed(p) <=> view[p] # None)

(* A create onto a deleted path starts from nothing: the lower file that the *)
(* guest had deleted does not come back.                                     *)
RecreatedIsNew ==
    \A p \in Path : Quiet(p) /\ excuse[p] \subseteq {"recreated", "unlisted"} => Agrees(p)
=============================================================================
