---------------------------- MODULE PolicyStore -----------------------------
(***************************************************************************)
(* The policy a broker decides by, while CLI processes change it           *)
(* (winrsbox-launcher/src/pipe_server/mutate.rs, winrsbox-policy/src/db/,  *)
(* domains/policy_impl.rs, registry/mod.rs).                               *)
(*                                                                         *)
(* policy.redb holds three rule tables.  File and registry decisions read  *)
(* a snapshot of theirs, through a cache of decisions; a mutation commits, *)
(* loads the table again, stores the snapshot and clears the cache.  Net   *)
(* decisions compare the generation that every net mutation bumps with the *)
(* one their snapshot was taken for, and load the table when it differs.   *)
(* Each mutation and each decision runs on a thread of its own and nothing *)
(* is held from one of its steps to the next.                              *)
(*                                                                         *)
(* One rule per table stands for its rows; the file table has the default  *)
(* row as well.  One key stands for the cache.                             *)
(***************************************************************************)
EXTENDS Naturals, FiniteSets

CONSTANTS
    Mutator,     \* connections that carry a PolicyMutate request
    Decider,     \* handlers that decide for a guest
    MaxOps,      \* bound: mutations committed in a behaviour
    MayFail      \* refreshes fail in this behaviour

ASSUME StoreConstants == MaxOps \in Nat /\ MayFail \in BOOLEAN

VARIABLES
    db,        \* the committed tables
    ops,       \* number of commits
    snap,      \* the published snapshots
    cached,    \* cached[d]: what the cached decision was made from, or {}
    mut,       \* mut[m]: the request m executes
    dec,       \* dec[t]: the decision t makes
    want,      \* history: the defaults the committed DefaultsSet requests named
    raced      \* history: domains in which two requests overlapped in a way that loses one

storeVars == <<db, ops, snap, cached, mut, dec, want, raced>>

Domain == {"fs", "reg"}
Mode == {0, 1}
Row == {0, 1}         \* 0: no such rule
Table == [read : Mode, write : Mode, rule : Row]
NetTable == [gen : 0..MaxOps, rule : Row]

(* PolicyOp: upsert, remove and clear of a rule, and the defaults.          *)
Op == [on : Domain \cup {"net"}, kind : {"upsert", "remove"}, mode : {0}]
        \cup [on : {"fs"}, kind : {"read", "write"}, mode : {1}]
touches_fs_snapshot(op) == op.on = "fs"
touches_reg_snapshot(op) == op.on = "reg"

Empty == [read |-> 0, write |-> 0, rule |-> 0]
NoMutation == [pc |-> "idle", op |-> CHOOSE o \in Op : TRUE, row |-> Empty]
NoDecision == [pc |-> "idle", on |-> "fs", row |-> Empty, gen |-> 0]

StoreInit ==
    /\ db = [fs |-> Empty, reg |-> Empty, net |-> [gen |-> 0, rule |-> 0]]
    /\ ops = 0
    /\ snap = db
    /\ cached = [d \in Domain |-> {}]
    /\ mut = [m \in Mutator |-> NoMutation]
    /\ dec = [t \in Decider |-> NoDecision]
    /\ want = Empty
    /\ raced = {}

-----------------------------------------------------------------------------
(* db::exec.  A mutation is one write transaction; a net mutation bumps the *)
(* generation in the same one.                                              *)
Applied(op) ==
    LET rule == IF op.kind = "upsert" THEN 1 ELSE 0
    IN  IF op.on = "net"
          THEN [db EXCEPT !.net = [gen |-> db.net.gen + 1, rule |-> rule]]
          ELSE [db EXCEPT ![op.on].rule = rule]

(* The request is executed; a failure leaves the table alone and is         *)
(* answered at once.                                                        *)
exec(m, op) ==
    /\ mut[m].pc = "idle"
    /\ op.kind \in {"upsert", "remove"}
    /\ ops < MaxOps
    /\ ops' = ops + 1
    /\ db' = Applied(op)
    /\ mut' = [mut EXCEPT ![m] = IF touches_fs_snapshot(op) \/ touches_reg_snapshot(op)
                                 THEN [NoMutation EXCEPT !.pc = "load", !.op = op]
                                 ELSE NoMutation]
    /\ UNCHANGED <<snap, cached, dec, want, raced>>

(* defaults_set reads the current row in a transaction of its own, ...      *)
defaults_get(m, op) ==
    /\ mut[m].pc = "idle"
    /\ op.kind \in {"read", "write"}
    /\ ops < MaxOps
    /\ ops' = ops + 1
    /\ mut' = [mut EXCEPT ![m] = [pc |-> "set", op |-> op, row |-> db.fs]]
    /\ UNCHANGED <<db, snap, cached, dec, want, raced>>

(* ... and writes it back with the modes the request names.                 *)
defaults_set(m) ==
    LET op == mut[m].op
        old == mut[m].row
    IN  /\ mut[m].pc = "set"
        /\ db' = [db EXCEPT !.fs.read = IF op.kind = "read" THEN op.mode ELSE old.read,
                            !.fs.write = IF op.kind = "write" THEN op.mode ELSE old.write]
        /\ want' = IF op.kind = "read" THEN [want EXCEPT !.read = op.mode]
                   ELSE [want EXCEPT !.write = op.mode]
        /\ raced' = IF \E n \in Mutator \ {m} : mut[n].pc = "set"
                      THEN raced \cup {"defaults"} ELSE raced
        /\ mut' = [mut EXCEPT ![m].pc = "load"]
        /\ UNCHANGED <<ops, snap, cached, dec>>

(* refresh_after_mutation and reload_snapshot: load the table, ...          *)
LoadSnapshot(m) ==
    /\ mut[m].pc = "load"
    /\ mut' = [mut EXCEPT ![m].pc = "store", ![m].row = db[mut[m].op.on]]
    /\ UNCHANGED <<db, ops, snap, cached, dec, want, raced>>

(* (a failed load is answered "applied but cache refresh failed")           *)
LoadFails(m) ==
    /\ MayFail
    /\ mut[m].pc = "load"
    /\ mut' = [mut EXCEPT ![m] = NoMutation]
    /\ raced' = raced \cup {mut[m].op.on}
    /\ UNCHANGED <<db, ops, snap, cached, dec, want>>

(* ... store the snapshot, ...                                              *)
StoreSnapshot(m) ==
    LET d == mut[m].op.on
    IN  /\ mut[m].pc = "store"
        /\ snap' = [snap EXCEPT ![d] = mut[m].row]
        /\ mut' = [mut EXCEPT ![m].pc = "clear"]
        /\ raced' = IF \E n \in Mutator \ {m} : mut[n].pc = "store" /\ mut[n].op.on = d
                      THEN raced \cup {d} ELSE raced
        /\ UNCHANGED <<db, ops, cached, dec, want>>

(* A variant that does not drop the decisions made from the old snapshot.   *)
ClearCache_Keeps(m) ==
    /\ mut[m].pc = "clear"
    /\ mut' = [mut EXCEPT ![m] = NoMutation]
    /\ UNCHANGED <<db, ops, snap, cached, dec, want, raced>>

(* ... and drop the cached decisions.                                       *)
ClearCache(m) ==
    LET d == mut[m].op.on
    IN  /\ mut[m].pc = "clear"
        /\ cached' = [cached EXCEPT ![d] = {}]
        /\ mut' = [mut EXCEPT ![m] = NoMutation]
        /\ raced' = IF \E t \in Decider : dec[t].pc = "insert" /\ dec[t].on = d
                      THEN raced \cup {d} ELSE raced
        /\ UNCHANGED <<db, ops, snap, dec, want>>

-----------------------------------------------------------------------------
(* decide_with_context of Policy and RegistryPolicy: a cached decision is   *)
(* the answer, otherwise one is computed from the snapshot, ...             *)
Compute(t, d) ==
    /\ dec[t].pc = "idle"
    /\ cached[d] = {}
    /\ dec' = [dec EXCEPT ![t] = [NoDecision EXCEPT !.pc = "insert", !.on = d, !.row = snap[d]]]
    /\ UNCHANGED <<db, ops, snap, cached, mut, want, raced>>

(* ... cached and returned.                                                 *)
InsertDecision(t) ==
    /\ dec[t].pc = "insert"
    /\ cached' = [cached EXCEPT ![dec[t].on] = {dec[t].row}]
    /\ dec' = [dec EXCEPT ![t] = NoDecision]
    /\ UNCHANGED <<db, ops, snap, mut, want, raced>>

(* net_rule_decide: the persisted generation first; a snapshot taken for it *)
(* answers, ...                                                             *)
net_rule_decide(t) ==
    /\ dec[t].pc = "idle"
    /\ db.net.gen # snap.net.gen
    /\ dec' = [dec EXCEPT ![t] = [NoDecision EXCEPT !.pc = "table", !.gen = db.net.gen]]
    /\ UNCHANGED <<db, ops, snap, cached, mut, want, raced>>

(* A variant that reads the generation after the rules.                     *)
LoadNetTable_LateGen(t) ==
    \/ /\ dec[t].pc = "table"
       /\ dec' = [dec EXCEPT ![t].pc = "late", ![t].row.rule = db.net.rule]
       /\ UNCHANGED <<db, ops, snap, cached, mut, want, raced>>
    \/ /\ dec[t].pc = "late"
       /\ dec' = [dec EXCEPT ![t].pc = "publish", ![t].gen = db.net.gen]
       /\ UNCHANGED <<db, ops, snap, cached, mut, want, raced>>

(* ... any other is replaced by the table as it is now, under the           *)
(* generation that was read.                                                *)
LoadNetTable(t) ==
    /\ dec[t].pc = "table"
    /\ dec' = [dec EXCEPT ![t].pc = "publish", ![t].row.rule = db.net.rule]
    /\ UNCHANGED <<db, ops, snap, cached, mut, want, raced>>

PublishNet(t) ==
    /\ dec[t].pc = "publish"
    /\ snap' = [snap EXCEPT !.net = [gen |-> dec[t].gen, rule |-> dec[t].row.rule]]
    /\ dec' = [dec EXCEPT ![t] = NoDecision]
    /\ UNCHANGED <<db, ops, cached, mut, want, raced>>

-----------------------------------------------------------------------------
StoreNext ==
    \/ \E m \in Mutator, op \in Op : exec(m, op)
    \/ \E m \in Mutator, op \in Op : defaults_get(m, op)
    \/ \E m \in Mutator : defaults_set(m)
    \/ \E m \in Mutator : LoadSnapshot(m)
    \/ \E m \in Mutator : LoadFails(m)
    \/ \E m \in Mutator : StoreSnapshot(m)
    \/ \E m \in Mutator : ClearCache(m)
    \/ \E t \in Decider, d \in Domain : Compute(t, d)
    \/ \E t \in Decider : InsertDecision(t)
    \/ \E t \in Decider : net_rule_decide(t)
    \/ \E t \in Decider : LoadNetTable(t)
    \/ \E t \in Decider : PublishNet(t)

StoreSpec == StoreInit /\ [][StoreNext]_storeVars

-----------------------------------------------------------------------------
StoreTypeOK ==
    /\ db \in [fs : Table, reg : Table, net : NetTable]
    /\ ops \in 0..MaxOps
    /\ snap \in [fs : Table, reg : Table, net : NetTable]
    /\ cached \in [Domain -> SUBSET Table]
    /\ mut \in [Mutator -> [pc : {"idle", "set", "load", "store", "clear"}, op : Op, row : Table]]
    /\ dec \in [Decider -> [pc : {"idle", "insert", "table", "publish"}, on : Domain,
                            row : Table, gen : 0..MaxOps]]
    /\ want \in Table
    /\ raced \subseteq Domain \cup {"defaults"}

(* A change that was answered is in the table, in the snapshot and in every *)
(* cached decision of its domain, once nobody is changing the domain.  It   *)
(* can be lost in four ways only, recorded in raced: two refreshes of a     *)
(* domain overlap and the older one is stored last, a decision computed     *)
(* before a refresh is cached after it, the refresh of an applied change    *)
(* fails and the caller is told so, or two DefaultsSet requests overlap     *)
(* between the read of the row and its write; each affects its own domain   *)
(* only (execute_policy_mutate, defaults_set).                              *)
QuietIsCurrent ==
    /\ \A d \in Domain \ raced :
         (\A m \in Mutator : mut[m].pc # "idle" => mut[m].op.on # d) =>
           /\ snap[d] = db[d]
           /\ \A row \in cached[d] : row = db[d]
    /\ "defaults" \notin raced => db.fs.read = want.read /\ db.fs.write = want.write

(* A net snapshot that carries the persisted generation holds the persisted *)
(* rules, however loads and mutations interleave: the generation is read    *)
(* before the rules and committed with them (net_rule_decide,               *)
(* bump_net_rules_gen).                                                     *)
NetTagIsExact == snap.net.gen = db.net.gen => snap.net.rule = db.net.rule
=============================================================================
