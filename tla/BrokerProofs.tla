---------------------------- MODULE BrokerProofs ----------------------------
(***************************************************************************)
(* Proofs about the broker: its pipe server (PipeServer: in whose name a   *)
(* guest is served, and who gets depth 0) and what the pipe handlers share,*)
(* the byte budget (ByteBudget), the policy and its snapshots              *)
(* (PolicyStore), the event log (EventLog) and the index of the overlay    *)
(* that is moved (Migration).  The parts share no state; each has a section*)
(* with its inductive invariant, one lemma per action that is not obvious, *)
(* and its theorems.                                                       *)
(***************************************************************************)
EXTENDS ByteBudget, PolicyStore, EventLog, Migration, PipeServer, SequenceTheorems,
        FiniteSetTheorems, TLAPS

-----------------------------------------------------------------------------
(* ByteBudget.                                                             *)

(* The types but for the sum of the reservations: a handler holds bytes     *)
(* only while it reads or handles a request.                                *)
BudgetTypes ==
    /\ at \in [Handler -> Places]
    /\ declared \in [Handler -> 0..(MaxMsg + 1)]
    /\ reserved \in [Handler -> 0..Budget]
    /\ in_use \in Int /\ in_use <= Budget
    /\ \A h \in Handler : reserved[h] # 0 => at[h] \in {"body", "handle"}

LEMMA AmountBounded ==
    ASSUME BudgetTypes, NEW h \in Handler
    PROVE  Amount(h) \in 0..Budget
  BY BudgetConstants DEF BudgetTypes, Amount

LEMMA BudgetTypesStep == BudgetTypes /\ [BudgetNext]_budgetVars => BudgetTypes'
  <1> SUFFICES ASSUME BudgetTypes, [BudgetNext]_budgetVars PROVE BudgetTypes'
    OBVIOUS
  <1> USE BudgetConstants DEF BudgetTypes, Places
  <1>1. ASSUME NEW h \in Handler, NEW n \in 0..(MaxMsg + 1), read_request_with_budget(h, n)
        PROVE  BudgetTypes'
    BY <1>1 DEF read_request_with_budget
  <1>2. ASSUME NEW h \in Handler, reserve_timeout(h)
        PROVE  BudgetTypes'
    <2>1. Amount(h) \in 0..Budget
      BY AmountBounded
    <2> QED
      BY <1>2, <2>1 DEF reserve_timeout, Fits
  <1>3. ASSUME NEW h \in Handler, WaitReturns(h)
        PROVE  BudgetTypes'
    BY <1>3 DEF WaitReturns
  <1>4. ASSUME NEW h \in Handler, ReadBody(h)
        PROVE  BudgetTypes'
    BY <1>4 DEF ReadBody
  <1>5. ASSUME NEW h \in Handler, DropReservation(h)
        PROVE  BudgetTypes'
    BY <1>5 DEF DropReservation
  <1>6. ASSUME NEW h \in Handler, Notify(h)
        PROVE  BudgetTypes'
    BY <1>6 DEF Notify
  <1>7. ASSUME NEW h \in Handler, Reconnect(h)
        PROVE  BudgetTypes'
    BY <1>7 DEF Reconnect
  <1>8. CASE UNCHANGED budgetVars
    BY <1>8 DEF budgetVars
  <1> QED
    BY <1>1, <1>2, <1>3, <1>4, <1>5, <1>6, <1>7, <1>8 DEF BudgetNext

LEMMA ParkedStep ==
    BudgetTypes /\ ParkedDoesNotFit /\ [BudgetNext]_budgetVars => ParkedDoesNotFit'
  <1> SUFFICES ASSUME BudgetTypes, ParkedDoesNotFit, [BudgetNext]_budgetVars,
                      NEW p \in Handler, at'[p] = "parked"
               PROVE  ~Fits(p)' \/ \E g \in Handler : at'[g] \in {"freed", "failed"}
    BY DEF ParkedDoesNotFit
  <1> USE BudgetConstants DEF BudgetTypes, Fits, Amount
  <1>1. ASSUME NEW h \in Handler, NEW n \in 0..(MaxMsg + 1), read_request_with_budget(h, n)
        PROVE  ~Fits(p)' \/ \E g \in Handler : at'[g] \in {"freed", "failed"}
    BY <1>1 DEF read_request_with_budget, ParkedDoesNotFit
  <1>2. ASSUME NEW h \in Handler, reserve_timeout(h)
        PROVE  ~Fits(p)' \/ \E g \in Handler : at'[g] \in {"freed", "failed"}
    <2>1. Amount(h) \in 0..Budget
      BY AmountBounded
    <2>2. CASE p = h
      BY <1>2, <2>2 DEF reserve_timeout
    <2>3. CASE p # h
      BY <1>2, <2>1, <2>3 DEF reserve_timeout, ParkedDoesNotFit
    <2> QED
      BY <2>2, <2>3
  <1>3. ASSUME NEW h \in Handler, WaitReturns(h)
        PROVE  ~Fits(p)' \/ \E g \in Handler : at'[g] \in {"freed", "failed"}
    BY <1>3 DEF WaitReturns, ParkedDoesNotFit
  <1>4. ASSUME NEW h \in Handler, ReadBody(h)
        PROVE  ~Fits(p)' \/ \E g \in Handler : at'[g] \in {"freed", "failed"}
    BY <1>4 DEF ReadBody, ParkedDoesNotFit
  <1>5. ASSUME NEW h \in Handler, DropReservation(h)
        PROVE  ~Fits(p)' \/ \E g \in Handler : at'[g] \in {"freed", "failed"}
    BY <1>5 DEF DropReservation
  <1>6. ASSUME NEW h \in Handler, Notify(h)
        PROVE  FALSE
    BY <1>6 DEF Notify
  <1>7. ASSUME NEW h \in Handler, Reconnect(h)
        PROVE  ~Fits(p)' \/ \E g \in Handler : at'[g] \in {"freed", "failed"}
    BY <1>7 DEF Reconnect, ParkedDoesNotFit
  <1>8. CASE UNCHANGED budgetVars
    BY <1>8 DEF budgetVars, ParkedDoesNotFit
  <1> QED
    BY <1>1, <1>2, <1>3, <1>4, <1>5, <1>6, <1>7, <1>8 DEF BudgetNext

(* No lost wake-up, for every number of handlers, every budget and every    *)
(* limit of a message (conn.rs, reserve_timeout and Drop).                  *)
THEOREM NoLostWakeUp == BudgetSpec => []ParkedDoesNotFit
  <1>1. BudgetInit => BudgetTypes /\ ParkedDoesNotFit
    BY BudgetConstants DEF BudgetInit, BudgetTypes, Places, ParkedDoesNotFit
  <1> QED
    BY <1>1, BudgetTypesStep, ParkedStep, PTL DEF BudgetSpec

(* The bytes in use are those the handlers hold.                            *)
BytesCounted == IsFiniteSet(Bytes) /\ in_use = Cardinality(Bytes)

(* The bytes of one handler.                                               *)
LEMMA OwnBytes ==
    ASSUME NEW h, NEW n \in 0..Budget
    PROVE  IsFiniteSet({h} \X (1..n)) /\ Cardinality({h} \X (1..n)) = n
  <1>1. IsFiniteSet({h}) /\ Cardinality({h}) = 1
    BY FS_Singleton
  <1>2. n \in Int /\ 1 \in Int /\ n \in Nat
    BY BudgetConstants
  <1>3. IsFiniteSet(1..n) /\ Cardinality(1..n) = n
    BY <1>2, FS_Interval
  <1>4. /\ IsFiniteSet({h} \X (1..n))
        /\ Cardinality({h} \X (1..n)) = Cardinality({h}) * Cardinality(1..n)
    BY <1>1, <1>3, FS_Product, Zenon
  <1>5. 1 * n = n
    BY <1>2
  <1> QED
    BY <1>1, <1>3, <1>4, <1>5

(* Two sets that have nothing in common.                                   *)
LEMMA DisjointUnion ==
    ASSUME NEW S, IsFiniteSet(S), NEW T, IsFiniteSet(T), S \cap T = {}
    PROVE  /\ IsFiniteSet(S \cup T)
           /\ Cardinality(S \cup T) = Cardinality(S) + Cardinality(T)
  <1>1. Cardinality(S \cap T) = 0
    BY FS_EmptySet
  <1>2. Cardinality(S) \in Nat /\ Cardinality(T) \in Nat
    BY FS_CardinalityType
  <1>3. /\ IsFiniteSet(S \cup T)
        /\ Cardinality(S \cup T) = Cardinality(S) + Cardinality(T) - Cardinality(S \cap T)
    BY FS_Union, Zenon
  <1> QED
    BY <1>1, <1>2, <1>3

(* A reservation adds its bytes, dropping it takes them away, and nothing   *)
(* else touches either side (conn.rs, reserve_timeout and Drop).            *)
LEMMA BytesStep == BudgetTypes /\ BytesCounted /\ [BudgetNext]_budgetVars => BytesCounted'
  <1> SUFFICES ASSUME BudgetTypes, BytesCounted, [BudgetNext]_budgetVars PROVE BytesCounted'
    OBVIOUS
  <1> USE BudgetConstants
  <1>1. CASE UNCHANGED <<reserved, in_use>>
    BY <1>1 DEF BytesCounted, Bytes
  <1>2. ASSUME NEW h \in Handler, reserve_timeout(h), ~UNCHANGED <<reserved, in_use>>
        PROVE  BytesCounted'
    <2>1. /\ reserved[h] = 0
          /\ in_use' = in_use + Amount(h)
          /\ reserved' = [reserved EXCEPT ![h] = Amount(h)]
          /\ Amount(h) \in 0..Budget
      BY <1>2 DEF reserve_timeout, BudgetTypes, Amount
    <2> DEFINE own == {h} \X (1..Amount(h))
    <2>2. Bytes' = Bytes \cup own
      BY <2>1 DEF Bytes, BudgetTypes
    <2>3. Bytes \cap own = {}
      BY <2>1 DEF Bytes, BudgetTypes
    <2>4. IsFiniteSet(own) /\ Cardinality(own) = Amount(h)
      BY <2>1, OwnBytes
    <2> QED
      BY <2>1, <2>2, <2>3, <2>4, DisjointUnion DEF BytesCounted
  <1>3. ASSUME NEW h \in Handler, DropReservation(h)
        PROVE  BytesCounted'
    <2>1. /\ in_use' = in_use - reserved[h]
          /\ reserved' = [reserved EXCEPT ![h] = 0]
          /\ reserved[h] \in 0..Budget
      BY <1>3 DEF DropReservation, BudgetTypes
    <2> DEFINE own == {h} \X (1..reserved[h])
    <2>2. Bytes = Bytes' \cup own
      BY <2>1 DEF Bytes, BudgetTypes
    <2>3. Bytes' \cap own = {}
      BY <2>1 DEF Bytes, BudgetTypes
    <2>4. IsFiniteSet(own) /\ Cardinality(own) = reserved[h]
      BY <2>1, OwnBytes
    <2>5. IsFiniteSet(Bytes')
      BY <2>2, FS_Subset DEF BytesCounted
    <2>6. Cardinality(Bytes) = Cardinality(Bytes') + Cardinality(own)
      BY <2>2, <2>3, <2>4, <2>5, DisjointUnion
    <2>7. Cardinality(Bytes') \in Nat
      BY <2>5, FS_CardinalityType
    <2> QED
      BY <2>1, <2>4, <2>5, <2>6, <2>7 DEF BytesCounted
  <1> QED
    BY <1>1, <1>2, <1>3
       DEF BudgetNext, budgetVars, read_request_with_budget, WaitReturns, ReadBody, Notify, Reconnect
(* Every byte in use belongs to a reservation: whatever the requests, the   *)
(* time-outs and the bodies that cannot be read, none is lost and none is   *)
(* given back twice (conn.rs, reserve_timeout and Drop).                    *)
THEOREM BytesAreHeld == BudgetSpec => []BudgetTypeOK
  <1>1. BudgetInit => BudgetTypes /\ BytesCounted
    <2> SUFFICES ASSUME BudgetInit PROVE BudgetTypes /\ BytesCounted
      OBVIOUS
    <2>1. Bytes = {}
      BY DEF BudgetInit, Bytes
    <2> QED
      BY <2>1, FS_EmptySet, BudgetConstants DEF BudgetInit, BudgetTypes, Places, BytesCounted
  <1>2. BudgetTypes /\ BytesCounted => BudgetTypeOK
    <2> SUFFICES ASSUME BudgetTypes, BytesCounted PROVE BudgetTypeOK
      OBVIOUS
    <2>1. Cardinality(Bytes) \in Nat
      BY FS_CardinalityType DEF BytesCounted
    <2> QED
      BY <2>1, BudgetConstants DEF BudgetTypes, BytesCounted, BudgetTypeOK
  <1> QED
    BY <1>1, <1>2, BudgetTypesStep, BytesStep, PTL DEF BudgetSpec

-----------------------------------------------------------------------------
(* PolicyStore.                                                            *)

(* A mutation that will still drop the cached decisions of d.               *)
OnItsWay(d) == \E m \in Mutator : mut[m].pc \in {"load", "store", "clear"} /\ mut[m].op.on = d

(* A mutation that will still publish the table of d as it is.              *)
Fresh(m, d) ==
    /\ mut[m].pc \in {"load", "store"} /\ mut[m].op.on = d
    /\ mut[m].pc = "store" => mut[m].row = db[d]

Mutation == [pc : {"idle", "set", "load", "store", "clear"}, op : Op, row : Table]
Decision == [pc : {"idle", "insert", "table", "publish"}, on : Domain, row : Table, gen : 0..MaxOps]

(* What the requests under way are.                                         *)
Requests == \A m \in Mutator : mut[m].pc # "idle" =>
    /\ mut[m].op.on \in Domain
    /\ mut[m].pc = "set" => mut[m].op.on = "fs" /\ mut[m].op.kind \in {"read", "write"}

StoreTypes == StoreTypeOK /\ Requests /\ db.net.gen <= ops

LEMMA NoMutationType ==
    /\ NoMutation.pc = "idle"
    /\ NoMutation.op \in Op
    /\ NoMutation.row \in Table
    /\ \A op \in Op : LET new == [NoMutation EXCEPT !.pc = "load", !.op = op]
                      IN  new \in Mutation /\ new.pc = "load" /\ new.op = op
  <1>1. [on |-> "fs", kind |-> "upsert", mode |-> 0] \in Op
    BY DEF Op, Domain
  <1>2. (CHOOSE o \in Op : TRUE) \in Op
    BY <1>1
  <1>3. Empty \in Table
    BY DEF Empty, Table, Mode, Row
  <1> DEFINE none == CHOOSE o \in Op : TRUE
  <1>4. NoMutation = [pc |-> "idle", op |-> none, row |-> Empty]
    BY DEF NoMutation
  <1>5. none \in Op
    BY <1>2
  <1> HIDE DEF none
  <1>6. ASSUME NEW op \in Op
        PROVE  LET new == [NoMutation EXCEPT !.pc = "load", !.op = op]
               IN  new \in Mutation /\ new.pc = "load" /\ new.op = op
    BY <1>3, <1>4, <1>5 DEF Mutation
  <1>7. NoMutation.pc = "idle" /\ NoMutation.op = none /\ NoMutation.row = Empty
    BY <1>4
  <1> QED
    BY <1>3, <1>5, <1>6, <1>7

LEMMA EmptyTable == Empty \in Table
  BY DEF Empty, Table, Mode, Row

LEMMA NewDecision ==
    ASSUME NEW d \in Domain, NEW row \in Table
    PROVE  LET new == [NoDecision EXCEPT !.pc = "insert", !.on = d, !.row = row]
           IN  /\ new \in Decision
               /\ new.pc = "insert" /\ new.on = d /\ new.row = row
  <1>1. NoDecision \in Decision
    BY EmptyTable, StoreConstants DEF NoDecision, Decision, Domain
  <1> QED
    BY <1>1 DEF Decision

LEMMA TableOf ==
    ASSUME StoreTypeOK, NEW d \in Domain
    PROVE  db[d] \in Table /\ snap[d] \in Table
  BY DEF StoreTypeOK, Domain

(* What the commit of a rule does to the tables.                            *)
LEMMA AppliedTo ==
    ASSUME StoreTypeOK, db.net.gen < MaxOps, NEW op \in Op
    PROVE  /\ Applied(op) \in [fs : Table, reg : Table, net : NetTable]
           /\ \A d \in Domain \ {op.on} : Applied(op)[d] = db[d]
           /\ op.on # "net" => Applied(op).net = db.net
           /\ op.on = "net" => Applied(op).net.gen = db.net.gen + 1
           /\ Applied(op).fs.read = db.fs.read
           /\ Applied(op).fs.write = db.fs.write
  <1> DEFINE rule == IF op.kind = "upsert" THEN 1 ELSE 0
  <1>1. rule \in Row
    BY DEF Row
  <1>2. op.on \in {"fs", "reg", "net"}
    BY DEF Op, Domain
  <1>3. CASE op.on = "net"
    <2>1. Applied(op) = [db EXCEPT !.net = [gen |-> db.net.gen + 1, rule |-> rule]]
      BY <1>3 DEF Applied
    <2>2. [gen |-> db.net.gen + 1, rule |-> rule] \in NetTable
      BY <1>1, StoreConstants DEF StoreTypeOK, NetTable
    <2>3. /\ Applied(op) \in [fs : Table, reg : Table, net : NetTable]
          /\ Applied(op).fs = db.fs /\ Applied(op).reg = db.reg
          /\ Applied(op).net.gen = db.net.gen + 1
      BY <2>1, <2>2 DEF StoreTypeOK
    <2> QED
      BY <2>3, <1>3 DEF Domain
  <1>4. CASE op.on = "fs"
    <2>1. Applied(op) = [db EXCEPT !.fs.rule = rule]
      BY <1>4 DEF Applied
    <2>2. /\ Applied(op) \in [fs : Table, reg : Table, net : NetTable]
          /\ Applied(op).net = db.net /\ Applied(op).reg = db.reg
          /\ Applied(op).fs.read = db.fs.read /\ Applied(op).fs.write = db.fs.write
      BY <2>1, <1>1 DEF StoreTypeOK, Table
    <2> QED
      BY <2>2, <1>4 DEF Domain
  <1>5. CASE op.on = "reg"
    <2>1. Applied(op) = [db EXCEPT !.reg.rule = rule]
      BY <1>5 DEF Applied
    <2>2. /\ Applied(op) \in [fs : Table, reg : Table, net : NetTable]
          /\ Applied(op).net = db.net /\ Applied(op).fs = db.fs
      BY <2>1, <1>1 DEF StoreTypeOK, Table
    <2> QED
      BY <2>2, <1>5 DEF Domain
  <1> QED
    BY <1>2, <1>3, <1>4, <1>5

LEMMA StoreTypesInit == StoreInit => StoreTypes
  <1> SUFFICES ASSUME StoreInit PROVE StoreTypes
    OBVIOUS
  <1>1. Empty \in Table
    BY DEF Empty, Table, Mode, Row
  <1>2. [gen |-> 0, rule |-> 0] \in NetTable
    BY StoreConstants DEF NetTable, Row
  <1>3. db \in [fs : Table, reg : Table, net : NetTable] /\ snap = db /\ db.net.gen = 0
    BY <1>1, <1>2 DEF StoreInit
  <1>4. mut \in [Mutator -> Mutation]
    BY NoMutationType DEF StoreInit, NoMutation, Mutation
  <1>5. dec \in [Decider -> Decision]
    BY <1>1, StoreConstants DEF StoreInit, NoDecision, Domain, Decision
  <1>6. /\ ops \in 0..MaxOps /\ want \in Table /\ raced \subseteq Domain \cup {"defaults"}
        /\ cached \in [Domain -> SUBSET Table] /\ ops = 0
    BY <1>1, StoreConstants DEF StoreInit
  <1>7. Requests
    BY NoMutationType DEF StoreInit, Requests
  <1> QED
    BY <1>3, <1>4, <1>5, <1>6, <1>7 DEF StoreTypes, StoreTypeOK, Mutation, Decision

LEMMA StoreTypesStep == StoreTypes /\ [StoreNext]_storeVars => StoreTypes'
  <1> SUFFICES ASSUME StoreTypes, [StoreNext]_storeVars PROVE StoreTypes'
    OBVIOUS
  <1> USE StoreConstants DEF StoreTypes, Mutation, Decision
  <1>1. ASSUME NEW m \in Mutator, NEW op \in Op, exec(m, op)
        PROVE  StoreTypes'
    <2>1. db.net.gen < MaxOps /\ ops' \in 0..MaxOps
      BY <1>1 DEF exec, StoreTypeOK, NetTable
    <2>2. db' \in [fs : Table, reg : Table, net : NetTable]
      BY <1>1, <2>1, AppliedTo DEF exec
    <2>3. db'.net.gen <= ops'
      BY <1>1, <2>1, AppliedTo DEF exec, StoreTypeOK, NetTable, Op, Domain
    <2>4. mut' \in [Mutator -> Mutation]
      <3>1. NoMutation \in Mutation
        BY NoMutationType DEF NoMutation
      <3> QED
        BY <1>1, <3>1, NoMutationType DEF exec, StoreTypeOK
    <2>5. Requests'
      <3>1. op.on \in {"fs", "reg", "net"}
        BY DEF Op, Domain
      <3>2. /\ mut \in [Mutator -> Mutation] /\ "fs" \in Domain /\ "reg" \in Domain
        BY DEF StoreTypeOK, Domain, Mutation
      <3> QED
        BY <1>1, <3>1, <3>2, NoMutationType DEF exec, Requests, touches_fs_snapshot,
           touches_reg_snapshot
    <2> QED
      BY <1>1, <2>1, <2>2, <2>3, <2>4, <2>5 DEF exec, StoreTypeOK
  <1>2. ASSUME NEW m \in Mutator, NEW op \in Op, defaults_get(m, op)
        PROVE  StoreTypes'
    <2>1. mut' \in [Mutator -> Mutation]
      BY <1>2 DEF defaults_get, StoreTypeOK
    <2>2. Requests'
      BY <1>2 DEF defaults_get, StoreTypeOK, Requests, Domain, Op
    <2>3. ops' \in 0..MaxOps /\ db'.net.gen <= ops'
      BY <1>2 DEF defaults_get, StoreTypeOK, NetTable
    <2> QED
      BY <1>2, <2>1, <2>2, <2>3 DEF defaults_get, StoreTypeOK
  <1>3. ASSUME NEW m \in Mutator, defaults_set(m)
        PROVE  StoreTypes'
    <2>1. mut[m].op.mode \in Mode
      BY DEF StoreTypeOK, Op, Mode
    <2>2. db'.net = db.net /\ db' \in [fs : Table, reg : Table, net : NetTable]
      BY <1>3, <2>1 DEF defaults_set, StoreTypeOK, Table
    <2>3. want' \in Table /\ raced' \subseteq Domain \cup {"defaults"}
      BY <1>3, <2>1 DEF defaults_set, StoreTypeOK, Table
    <2>4. mut' \in [Mutator -> Mutation]
      BY <1>3 DEF defaults_set, StoreTypeOK
    <2>5. Requests'
      BY <1>3 DEF defaults_set, StoreTypeOK, Requests
    <2> QED
      BY <1>3, <2>2, <2>3, <2>4, <2>5 DEF defaults_set, StoreTypeOK
  <1>4. ASSUME NEW m \in Mutator, LoadSnapshot(m)
        PROVE  StoreTypes'
    <2>1. db[mut[m].op.on] \in Table
      BY <1>4, TableOf DEF LoadSnapshot, Requests
    <2>2. mut' \in [Mutator -> Mutation]
      <3>1. mut \in [Mutator -> Mutation]
        BY DEF StoreTypeOK, Mutation
      <3> QED
        BY <1>4, <2>1, <3>1 DEF LoadSnapshot, Mutation
    <2>3. Requests'
      BY <1>4 DEF LoadSnapshot, StoreTypeOK, Requests
    <2> QED
      BY <1>4, <2>2, <2>3 DEF LoadSnapshot, StoreTypeOK
  <1>5. ASSUME NEW m \in Mutator, LoadFails(m) \/ ClearCache(m)
        PROVE  StoreTypes'
    <2>1. mut' = [mut EXCEPT ![m] = NoMutation] /\ UNCHANGED <<db, ops, snap, dec, want>>
      BY <1>5 DEF LoadFails, ClearCache
    <2>2. NoMutation \in Mutation
      BY NoMutationType DEF NoMutation
    <2>3. mut' \in [Mutator -> Mutation]
      BY <2>1, <2>2 DEF StoreTypeOK
    <2>4. raced' \subseteq Domain \cup {"defaults"}
      BY <1>5 DEF LoadFails, ClearCache, StoreTypeOK, Requests
    <2>5. cached' \in [Domain -> SUBSET Table]
      BY <1>5 DEF LoadFails, ClearCache, StoreTypeOK
    <2>6. Requests'
      <3>1. mut'[m].pc = "idle" /\ \A n \in Mutator \ {m} : mut'[n] = mut[n]
        BY <2>1, NoMutationType DEF StoreTypeOK
      <3> QED
        BY <3>1 DEF Requests
    <2> QED
      BY <2>1, <2>3, <2>4, <2>5, <2>6 DEF StoreTypeOK
  <1>6. ASSUME NEW m \in Mutator, StoreSnapshot(m)
        PROVE  StoreTypes'
    <2>1. mut[m].op.on \in Domain /\ mut[m].row \in Table
      BY <1>6 DEF StoreSnapshot, StoreTypeOK, Requests
    <2>2. snap' \in [fs : Table, reg : Table, net : NetTable] /\ raced' \subseteq Domain \cup {"defaults"}
      BY <1>6, <2>1 DEF StoreSnapshot, StoreTypeOK, Domain
    <2>3. mut' \in [Mutator -> Mutation]
      BY <1>6 DEF StoreSnapshot, StoreTypeOK
    <2>4. Requests'
      BY <1>6 DEF StoreSnapshot, StoreTypeOK, Requests
    <2> QED
      BY <1>6, <2>2, <2>3, <2>4 DEF StoreSnapshot, StoreTypeOK
  <1>7. ASSUME NEW t \in Decider, NEW d \in Domain, Compute(t, d)
        PROVE  StoreTypes'
    <2>1. dec' \in [Decider -> Decision]
      <3>1. snap[d] \in Table /\ dec \in [Decider -> Decision]
        BY TableOf DEF StoreTypeOK, Decision
      <3> QED
        BY <1>7, <3>1, NewDecision DEF Compute, Decision
    <2> QED
      BY <1>7, <2>1 DEF Compute, StoreTypeOK, Requests
  <1>8. ASSUME NEW t \in Decider, InsertDecision(t)
        PROVE  StoreTypes'
    <2>1. Empty \in Table
      BY DEF Empty, Table, Mode, Row
    <2>2. dec' \in [Decider -> Decision]
      BY <1>8, <2>1 DEF InsertDecision, StoreTypeOK, NoDecision, Domain
    <2>3. cached' \in [Domain -> SUBSET Table]
      BY <1>8 DEF InsertDecision, StoreTypeOK
    <2> QED
      BY <1>8, <2>2, <2>3 DEF InsertDecision, StoreTypeOK, Requests
  <1>9. ASSUME NEW t \in Decider, net_rule_decide(t)
        PROVE  StoreTypes'
    <2>1. Empty \in Table
      BY DEF Empty, Table, Mode, Row
    <2>2. dec' \in [Decider -> Decision]
      BY <1>9, <2>1 DEF net_rule_decide, StoreTypeOK, NoDecision, NetTable, Domain
    <2> QED
      BY <1>9, <2>2 DEF net_rule_decide, StoreTypeOK, Requests
  <1>10. ASSUME NEW t \in Decider, LoadNetTable(t)
         PROVE  StoreTypes'
    <2>1. dec' \in [Decider -> Decision]
      <3>1. db.net.rule \in Row /\ dec \in [Decider -> Decision]
        BY DEF StoreTypeOK, Decision, NetTable
      <3> QED
        <4>1. dec[t] \in Decision
          BY <3>1
        <4>2. [dec[t].row EXCEPT !.rule = db.net.rule] \in Table
          BY <3>1, <4>1 DEF Decision, Table
        <4>3. [dec[t] EXCEPT !.pc = "publish", !.row = [dec[t].row EXCEPT !.rule = db.net.rule]] \in Decision
          BY <4>1, <4>2 DEF Decision
        <4> QED
          BY <1>10, <3>1, <4>3 DEF LoadNetTable
    <2> QED
      BY <1>10, <2>1 DEF LoadNetTable, StoreTypeOK, Requests
  <1>11. ASSUME NEW t \in Decider, PublishNet(t)
         PROVE  StoreTypes'
    <2>1. Empty \in Table
      BY DEF Empty, Table, Mode, Row
    <2>2. dec' \in [Decider -> Decision]
      BY <1>11, <2>1 DEF PublishNet, StoreTypeOK, NoDecision, Domain
    <2>3. [gen |-> dec[t].gen, rule |-> dec[t].row.rule] \in NetTable
      BY DEF StoreTypeOK, NetTable, Table
    <2> QED
      BY <1>11, <2>2, <2>3 DEF PublishNet, StoreTypeOK, Requests
  <1>12. CASE UNCHANGED storeVars
    BY <1>12 DEF storeVars, StoreTypeOK, Requests
  <1> QED
    BY <1>1, <1>2, <1>3, <1>4, <1>5, <1>6, <1>7, <1>8, <1>9, <1>10, <1>11, <1>12 DEF StoreNext

-----------------------------------------------------------------------------
(* Where a domain in which no two requests have overlapped stands: a        *)
(* snapshot, a row about to be stored and a decision that differ from the   *)
(* table have a mutation behind them that will replace them.                *)
Behind(d) ==
    /\ snap[d] # db[d] => \E m \in Mutator : Fresh(m, d)
    /\ \A m \in Mutator : mut[m].pc = "store" /\ mut[m].op.on = d /\ mut[m].row # db[d]
                            => \E n \in Mutator : Fresh(n, d)
    /\ \A row \in cached[d] : row # db[d] => OnItsWay(d)
    /\ \A t \in Decider : dec[t].pc = "insert" /\ dec[t].on = d /\ dec[t].row # db[d]
                            => OnItsWay(d)

(* What a committed request does, and what it leaves alone.                 *)
LEMMA ExecEffect ==
    ASSUME StoreTypes, NEW m \in Mutator, NEW op \in Op, exec(m, op)
    PROVE  /\ \A d \in Domain \ {op.on} : db'[d] = db[d]
           /\ op.on \in Domain => mut'[m].pc = "load" /\ mut'[m].op.on = op.on
           /\ op.on \notin Domain => mut'[m].pc = "idle"
           /\ mut[m].pc = "idle"
           /\ \A n \in Mutator \ {m} : mut'[n] = mut[n]
           /\ db'.fs.read = db.fs.read /\ db'.fs.write = db.fs.write
           /\ UNCHANGED <<snap, cached, dec, want, raced>>
  <1>1. db.net.gen < MaxOps
    BY StoreConstants DEF exec, StoreTypes, StoreTypeOK, NetTable
  <1>2. mut \in [Mutator -> Mutation]
    BY DEF StoreTypes, StoreTypeOK, Mutation
  <1>3. op.on \in {"fs", "reg", "net"}
    BY DEF Op, Domain
  <1>4. /\ \A d \in Domain \ {op.on} : Applied(op)[d] = db[d]
        /\ Applied(op).fs.read = db.fs.read /\ Applied(op).fs.write = db.fs.write
    BY <1>1, AppliedTo DEF StoreTypes
  <1> QED
    BY <1>2, <1>3, <1>4, NoMutationType
    DEF exec, touches_fs_snapshot, touches_reg_snapshot, Domain

(* A decision computed is one from the snapshot of its domain.              *)
LEMMA ComputeEffect ==
    ASSUME StoreTypes, NEW t \in Decider, NEW d \in Domain, Compute(t, d)
    PROVE  /\ dec'[t].pc = "insert" /\ dec'[t].on = d /\ dec'[t].row = snap[d]
           /\ \A u \in Decider \ {t} : dec'[u] = dec[u]
           /\ UNCHANGED <<db, snap, cached, mut>>
  <1>1. snap[d] \in Table /\ dec \in [Decider -> Decision]
    BY TableOf DEF StoreTypes, StoreTypeOK, Decision
  <1> DEFINE new == [NoDecision EXCEPT !.pc = "insert", !.on = d, !.row = snap[d]]
  <1>2. new.pc = "insert" /\ new.on = d /\ new.row = snap[d]
    BY DEF NoDecision
  <1>3. dec' = [dec EXCEPT ![t] = new] /\ UNCHANGED <<db, snap, cached, mut>>
    BY DEF Compute
  <1> HIDE DEF new
  <1> QED
    BY <1>1, <1>2, <1>3

LEMMA BehindStep ==
    ASSUME StoreTypes, [StoreNext]_storeVars, NEW d \in Domain, d \notin raced', Behind(d)
    PROVE  Behind(d)'
  <1>0. mut \in [Mutator -> Mutation] /\ dec \in [Decider -> Decision] /\ Requests
    BY DEF StoreTypes, StoreTypeOK, Mutation, Decision
  <1> USE DEF Behind, Fresh, OnItsWay
  <1>1. ASSUME NEW m \in Mutator, NEW op \in Op, exec(m, op)
        PROVE  Behind(d)'
    BY <1>1, ExecEffect
  <1>2. ASSUME NEW m \in Mutator, NEW op \in Op, defaults_get(m, op)
        PROVE  Behind(d)'
    BY <1>0, <1>2 DEF defaults_get
  <1>3. ASSUME NEW m \in Mutator, defaults_set(m)
        PROVE  Behind(d)'
    <2>1. mut[m].op.on = "fs"
      BY <1>0, <1>3 DEF defaults_set, Requests
    <2>2. mut'[m].pc = "load" /\ mut'[m].op.on = "fs" /\ \A n \in Mutator \ {m} : mut'[n] = mut[n]
      BY <1>0, <1>3, <2>1 DEF defaults_set
    <2>3. db'["reg"] = db["reg"] /\ UNCHANGED <<snap, cached, dec>> /\ mut[m].pc = "set"
      BY <1>3 DEF defaults_set, StoreTypes, StoreTypeOK
    <2> QED
      BY <2>1, <2>2, <2>3 DEF Domain
  <1>4. ASSUME NEW m \in Mutator, LoadSnapshot(m)
        PROVE  Behind(d)'
    <2>1. /\ mut'[m].pc = "store" /\ mut'[m].op = mut[m].op /\ mut'[m].row = db[mut[m].op.on]
          /\ \A n \in Mutator \ {m} : mut'[n] = mut[n]
          /\ UNCHANGED <<db, snap, cached, dec>> /\ mut[m].pc = "load"
      BY <1>0, <1>4 DEF LoadSnapshot, Mutation
    <2> QED
      BY <2>1
  <1>5. ASSUME NEW m \in Mutator, LoadFails(m)
        PROVE  Behind(d)'
    BY <1>0, <1>5, NoMutationType DEF LoadFails
  <1>6. ASSUME NEW m \in Mutator, StoreSnapshot(m)
        PROVE  Behind(d)'
    <2>1. /\ mut'[m].pc = "clear" /\ mut'[m].op = mut[m].op
          /\ \A n \in Mutator \ {m} : mut'[n] = mut[n]
          /\ UNCHANGED <<db, cached, dec>> /\ mut[m].pc = "store"
      BY <1>0, <1>6 DEF StoreSnapshot, Mutation
    <2>2. CASE mut[m].op.on # d
      <3>1. snap'[d] = snap[d]
        BY <1>6, <2>2 DEF StoreSnapshot, StoreTypes, StoreTypeOK, Domain
      <3> QED
        BY <2>1, <2>2, <3>1
    <2>3. CASE mut[m].op.on = d
      <3>1. snap'[d] = mut[m].row
        BY <1>6, <2>3 DEF StoreSnapshot, StoreTypes, StoreTypeOK, Domain
      <3>2. ~ \E n \in Mutator \ {m} : mut[n].pc = "store" /\ mut[n].op.on = d
        BY <1>6, <2>3 DEF StoreSnapshot
      <3> QED
        BY <2>1, <2>3, <3>1, <3>2
    <2> QED
      BY <2>2, <2>3
  <1>7. ASSUME NEW m \in Mutator, ClearCache(m)
        PROVE  Behind(d)'
    <2>1. /\ mut'[m].pc = "idle" /\ \A n \in Mutator \ {m} : mut'[n] = mut[n]
          /\ UNCHANGED <<db, snap, dec>> /\ mut[m].pc = "clear"
      BY <1>0, <1>7, NoMutationType DEF ClearCache
    <2>2. CASE mut[m].op.on # d
      <3>1. cached'[d] = cached[d]
        BY <1>7, <2>2 DEF ClearCache, StoreTypes, StoreTypeOK
      <3> QED
        BY <2>1, <2>2, <3>1
    <2>3. CASE mut[m].op.on = d
      <3>1. cached'[d] = {}
        BY <1>7, <2>3 DEF ClearCache, StoreTypes, StoreTypeOK
      <3>2. ~ \E t \in Decider : dec[t].pc = "insert" /\ dec[t].on = d
        BY <1>7, <2>3 DEF ClearCache
      <3> QED
        BY <2>1, <2>3, <3>1, <3>2
    <2> QED
      BY <2>2, <2>3
  <1>8. ASSUME NEW t \in Decider, NEW e \in Domain, Compute(t, e)
        PROVE  Behind(d)'
    BY <1>8, ComputeEffect
  <1>9. ASSUME NEW t \in Decider, InsertDecision(t)
        PROVE  Behind(d)'
    <2>1. /\ dec'[t].pc = "idle" /\ \A u \in Decider \ {t} : dec'[u] = dec[u]
          /\ UNCHANGED <<db, snap, mut>> /\ dec[t].pc = "insert"
          /\ cached'[d] = IF dec[t].on = d THEN {dec[t].row} ELSE cached[d]
      BY <1>0, <1>9 DEF InsertDecision, NoDecision, StoreTypes, StoreTypeOK
    <2> QED
      BY <2>1
  <1>10. ASSUME NEW t \in Decider, net_rule_decide(t)
         PROVE  Behind(d)'
    <2>1. /\ dec'[t].pc = "table" /\ \A u \in Decider \ {t} : dec'[u] = dec[u]
          /\ UNCHANGED <<db, snap, cached, mut>>
      BY <1>0, <1>10 DEF net_rule_decide, NoDecision
    <2> QED
      BY <2>1
  <1>11. ASSUME NEW t \in Decider, LoadNetTable(t)
         PROVE  Behind(d)'
    <2>1. /\ dec'[t].pc = "publish" /\ \A u \in Decider \ {t} : dec'[u] = dec[u]
          /\ UNCHANGED <<db, snap, cached, mut>>
      BY <1>0, <1>11 DEF LoadNetTable, Decision
    <2> QED
      BY <2>1
  <1>12. ASSUME NEW t \in Decider, PublishNet(t)
         PROVE  Behind(d)'
    <2>1. /\ dec'[t].pc = "idle" /\ \A u \in Decider \ {t} : dec'[u] = dec[u]
          /\ UNCHANGED <<db, cached, mut>> /\ snap'[d] = snap[d]
      BY <1>0, <1>12 DEF PublishNet, NoDecision, StoreTypes, StoreTypeOK, Domain
    <2> QED
      BY <2>1
  <1>13. CASE UNCHANGED storeVars
    BY <1>13 DEF storeVars
  <1> QED
    BY <1>1, <1>2, <1>3, <1>4, <1>5, <1>6, <1>7, <1>8, <1>9, <1>10, <1>11, <1>12, <1>13
    DEF StoreNext

-----------------------------------------------------------------------------
(* The default row while no two DefaultsSet requests have overlapped.       *)
Defaults == "defaults" \notin raced =>
    /\ db.fs.read = want.read /\ db.fs.write = want.write
    /\ \A m \in Mutator : mut[m].pc = "set" =>
         mut[m].row.read = db.fs.read /\ mut[m].row.write = db.fs.write

LEMMA DefaultsStep == StoreTypes /\ Defaults /\ [StoreNext]_storeVars => Defaults'
  <1> SUFFICES ASSUME StoreTypes, Defaults, [StoreNext]_storeVars, "defaults" \notin raced'
               PROVE  /\ db'.fs.read = want'.read /\ db'.fs.write = want'.write
                      /\ \A m \in Mutator : mut'[m].pc = "set" =>
                           mut'[m].row.read = db'.fs.read /\ mut'[m].row.write = db'.fs.write
    BY DEF Defaults
  <1>0. /\ mut \in [Mutator -> Mutation] /\ want \in Table
        /\ db \in [fs : Table, reg : Table, net : NetTable]
    BY DEF StoreTypes, StoreTypeOK, Mutation
  <1> DEFINE Kept == /\ UNCHANGED want /\ raced \subseteq raced'
                     /\ db'.fs.read = db.fs.read /\ db'.fs.write = db.fs.write
                     /\ \A m \in Mutator : mut'[m].pc = "set" => mut'[m] = mut[m]
  <1>1. CASE Kept
    BY <1>1 DEF Defaults
  <1>2. ASSUME NEW m \in Mutator, NEW op \in Op, exec(m, op)
        PROVE  Kept
    BY <1>2, ExecEffect
  <1>3. ASSUME NEW m \in Mutator, NEW op \in Op, defaults_get(m, op)
        PROVE  /\ db'.fs.read = want'.read /\ db'.fs.write = want'.write
               /\ \A n \in Mutator : mut'[n].pc = "set" =>
                    mut'[n].row.read = db'.fs.read /\ mut'[n].row.write = db'.fs.write
    BY <1>0, <1>3 DEF defaults_get, Defaults
  <1>4. ASSUME NEW m \in Mutator, defaults_set(m)
        PROVE  /\ db'.fs.read = want'.read /\ db'.fs.write = want'.write
               /\ \A n \in Mutator : mut'[n].pc = "set" =>
                    mut'[n].row.read = db'.fs.read /\ mut'[n].row.write = db'.fs.write
    <2>1. /\ ~ \E n \in Mutator \ {m} : mut[n].pc = "set"
          /\ "defaults" \notin raced
      BY <1>4 DEF defaults_set
    <2>2. mut'[m].pc = "load" /\ \A n \in Mutator \ {m} : mut'[n] = mut[n]
      BY <1>0, <1>4 DEF defaults_set, Mutation
    <2>3. mut[m].row.read = want.read /\ mut[m].row.write = want.write
      BY <1>4, <2>1 DEF defaults_set, Defaults
    <2>4. /\ db'.fs.read = IF mut[m].op.kind = "read" THEN mut[m].op.mode ELSE mut[m].row.read
          /\ db'.fs.write = IF mut[m].op.kind = "write" THEN mut[m].op.mode ELSE mut[m].row.write
      BY <1>0, <1>4 DEF defaults_set, Table
    <2>5. mut[m].op.kind \in {"read", "write"}
      BY <1>4 DEF defaults_set, StoreTypes, Requests
    <2> QED
      BY <1>0, <1>4, <2>1, <2>2, <2>3, <2>4, <2>5 DEF defaults_set, Table
  <1>5. ASSUME NEW m \in Mutator, LoadSnapshot(m) \/ StoreSnapshot(m)
        PROVE  Kept
    BY <1>0, <1>5 DEF LoadSnapshot, StoreSnapshot, Mutation
  <1>6. ASSUME NEW m \in Mutator, LoadFails(m) \/ ClearCache(m)
        PROVE  Kept
    BY <1>0, <1>6, NoMutationType DEF LoadFails, ClearCache
  <1>7. ASSUME NEW t \in Decider, InsertDecision(t) \/ net_rule_decide(t) \/ LoadNetTable(t) \/ PublishNet(t)
        PROVE  Kept
    BY <1>7 DEF InsertDecision, net_rule_decide, LoadNetTable, PublishNet
  <1>8. ASSUME NEW t \in Decider, NEW d \in Domain, Compute(t, d)
        PROVE  Kept
    BY <1>8 DEF Compute
  <1>9. CASE UNCHANGED storeVars
    BY <1>9 DEF storeVars, Defaults
  <1> HIDE DEF Kept
  <1> QED
    BY <1>1, <1>2, <1>3, <1>4, <1>5, <1>6, <1>7, <1>8, <1>9 DEF StoreNext

-----------------------------------------------------------------------------
(* A generation never runs ahead of the table it was read from.             *)
NetTags ==
    /\ snap.net.gen <= db.net.gen
    /\ NetTagIsExact
    /\ \A t \in Decider :
         /\ dec[t].pc \in {"table", "publish"} => dec[t].gen <= db.net.gen
         /\ dec[t].pc = "publish" /\ dec[t].gen = db.net.gen => dec[t].row.rule = db.net.rule

LEMMA NetTagsStep == StoreTypes /\ NetTags /\ [StoreNext]_storeVars => NetTags'
  <1> SUFFICES ASSUME StoreTypes, NetTags, [StoreNext]_storeVars PROVE NetTags'
    OBVIOUS
  <1>0. /\ dec \in [Decider -> Decision] /\ db.net \in NetTable /\ snap.net \in NetTable
        /\ snap \in [fs : Table, reg : Table, net : NetTable]
    BY DEF StoreTypes, StoreTypeOK, Decision
  <1> USE DEF NetTags, NetTagIsExact
  <1>1. ASSUME NEW m \in Mutator, NEW op \in Op, exec(m, op)
        PROVE  NetTags'
    <2>1. db.net.gen < MaxOps
      BY <1>1, StoreConstants DEF exec, StoreTypes, StoreTypeOK, NetTable
    <2>2. db'.net = db.net \/ db'.net.gen = db.net.gen + 1
      BY <1>1, <2>1, AppliedTo DEF exec, StoreTypes
    <2>3. UNCHANGED <<snap, dec>>
      BY <1>1 DEF exec
    <2>4. \A t \in Decider : dec[t].gen \in Nat
      BY <1>0 DEF Decision
    <2>5. db.net.gen \in Nat /\ snap.net.gen \in Nat
      BY <1>0 DEF NetTable
    <2> QED
      BY <2>2, <2>3, <2>4, <2>5
  <1>2. ASSUME NEW m \in Mutator, NEW op \in Op, defaults_get(m, op)
        PROVE  NetTags'
    BY <1>2 DEF defaults_get
  <1>3. ASSUME NEW m \in Mutator,
               \/ defaults_set(m) \/ LoadSnapshot(m) \/ LoadFails(m) \/ StoreSnapshot(m) \/ ClearCache(m)
        PROVE  NetTags'
    <2>1. UNCHANGED dec
      BY <1>3 DEF defaults_set, LoadSnapshot, LoadFails, StoreSnapshot, ClearCache
    <2>2. UNCHANGED db.net
      BY <1>3 DEF defaults_set, LoadSnapshot, LoadFails, StoreSnapshot, ClearCache, StoreTypes, StoreTypeOK
    <2>3. UNCHANGED snap.net
      BY <1>3 DEF defaults_set, LoadSnapshot, LoadFails, StoreSnapshot, ClearCache, StoreTypes,
         StoreTypeOK, Requests, Domain
    <2> QED
      BY <2>1, <2>2, <2>3
  <1>4. ASSUME NEW t \in Decider, NEW d \in Domain, Compute(t, d)
        PROVE  NetTags'
    BY <1>4, ComputeEffect
  <1>5. ASSUME NEW t \in Decider, InsertDecision(t)
        PROVE  NetTags'
    BY <1>0, <1>5 DEF InsertDecision, NoDecision
  <1>6. ASSUME NEW t \in Decider, net_rule_decide(t)
        PROVE  NetTags'
    BY <1>0, <1>6 DEF net_rule_decide, NoDecision, NetTable
  <1>7. ASSUME NEW t \in Decider, LoadNetTable(t)
        PROVE  NetTags'
    <2>1. /\ dec'[t].pc = "publish" /\ dec'[t].gen = dec[t].gen /\ dec'[t].row.rule = db.net.rule
          /\ \A u \in Decider \ {t} : dec'[u] = dec[u]
          /\ UNCHANGED <<db, snap>> /\ dec[t].pc = "table"
      BY <1>0, <1>7 DEF LoadNetTable, Decision, Table
    <2> QED
      BY <2>1
  <1>8. ASSUME NEW t \in Decider, PublishNet(t)
        PROVE  NetTags'
    <2>1. /\ dec'[t].pc = "idle" /\ \A u \in Decider \ {t} : dec'[u] = dec[u]
          /\ UNCHANGED db /\ dec[t].pc = "publish"
          /\ snap'.net.gen = dec[t].gen /\ snap'.net.rule = dec[t].row.rule
      BY <1>0, <1>8 DEF PublishNet, NoDecision
    <2> QED
      BY <2>1
  <1>9. CASE UNCHANGED storeVars
    BY <1>9 DEF storeVars
  <1> QED
    BY <1>1, <1>2, <1>3, <1>4, <1>5, <1>6, <1>7, <1>8, <1>9 DEF StoreNext

-----------------------------------------------------------------------------
(* The types of the policy's state.                                         *)
THEOREM StoreTypesHold == StoreSpec => []StoreTypeOK
  <1>1. StoreTypes => StoreTypeOK
    BY DEF StoreTypes
  <1> QED
    BY <1>1, StoreTypesInit, StoreTypesStep, PTL DEF StoreSpec

(* For any number of connections and guests, a domain nobody is changing    *)
(* and in which no two requests overlapped decides by its committed table.  *)
THEOREM StoreCurrent == StoreSpec => []QuietIsCurrent
  <1> DEFINE Inv == StoreTypes /\ Defaults /\ \A d \in Domain \ raced : Behind(d)
  <1>1. StoreInit => Inv
    <2> SUFFICES ASSUME StoreInit PROVE Defaults /\ \A d \in Domain : Behind(d)
      BY StoreTypesInit
    <2>1. Defaults
      BY NoMutationType DEF StoreInit, Defaults
    <2>2. ASSUME NEW d \in Domain PROVE Behind(d)
      BY NoMutationType DEF StoreInit, Behind, NoDecision
    <2> QED
      BY <2>1, <2>2
  <1>2. Inv /\ [StoreNext]_storeVars => Inv'
    <2>1. raced \subseteq raced' \/ ~[StoreNext]_storeVars
      BY DEF StoreNext, exec, defaults_get, defaults_set, LoadSnapshot, LoadFails, StoreSnapshot,
         ClearCache, Compute, InsertDecision, net_rule_decide, LoadNetTable, PublishNet, storeVars
    <2> QED
      BY <2>1, StoreTypesStep, DefaultsStep, BehindStep
  <1>3. Inv => QuietIsCurrent
    BY DEF QuietIsCurrent, Defaults, Behind, Fresh, OnItsWay
  <1> QED
    BY <1>1, <1>2, <1>3, PTL DEF StoreSpec

(* A net snapshot that carries the persisted generation is the persisted    *)
(* table, for any number of loads and mutations (net_rule_decide).          *)
THEOREM NetTagExact == StoreSpec => []NetTagIsExact
  <1>1. StoreInit => NetTags
    BY DEF StoreInit, NetTags, NetTagIsExact, NoDecision
  <1>2. NetTags => NetTagIsExact
    BY DEF NetTags
  <1> QED
    BY <1>1, <1>2, StoreTypesInit, StoreTypesStep, NetTagsStep, PTL DEF StoreSpec

-----------------------------------------------------------------------------
(* EventLog.                                                               *)

Increasing(s) == \A i, j \in DOMAIN s : i < j => s[i] < s[j]
Below(s, u) == \A i \in DOMAIN s, j \in DOMAIN u : s[i] < u[j]

LEMMA AppendedSet ==
    ASSUME NEW S, NEW s \in Seq(S), NEW x \in S
    PROVE  ToSet(Append(s, x)) = ToSet(s) \cup {x}
  <1>1. DOMAIN s = 1..Len(s) /\ DOMAIN Append(s, x) = 1..(Len(s) + 1)
    OBVIOUS
  <1>2. \A i \in 1..Len(s) : Append(s, x)[i] = s[i]
    OBVIOUS
  <1>3. Append(s, x)[Len(s) + 1] = x
    OBVIOUS
  <1>4. ToSet(s) \cup {x} \subseteq ToSet(Append(s, x))
    BY <1>1, <1>2, <1>3 DEF ToSet
  <1>5. ToSet(Append(s, x)) \subseteq ToSet(s) \cup {x}
    BY <1>1, <1>2, <1>3 DEF ToSet
  <1> QED
    BY <1>4, <1>5

LEMMA HeadAndTail ==
    ASSUME NEW S, NEW s \in Seq(S), s # <<>>
    PROVE  /\ Head(s) \in S /\ Tail(s) \in Seq(S)
           /\ ToSet(s) = ToSet(Tail(s)) \cup {Head(s)}
           /\ Head(s) = s[1] /\ 1 \in DOMAIN s
           /\ DOMAIN Tail(s) = 1..(Len(s) - 1)
           /\ \A i \in DOMAIN Tail(s) : Tail(s)[i] = s[i + 1] /\ i + 1 \in DOMAIN s
           /\ Len(s) = 1 <=> Tail(s) = <<>>
  <1>1. /\ Len(s) \in Nat \ {0} /\ DOMAIN s = 1..Len(s)
        /\ Head(s) = s[1] /\ Head(s) \in S
        /\ Tail(s) \in Seq(S) /\ DOMAIN Tail(s) = 1..(Len(s) - 1)
    OBVIOUS
  <1>2. \A i \in 1..(Len(s) - 1) : Tail(s)[i] = s[i + 1]
    OBVIOUS
  <1>3. Len(s) = 1 <=> Tail(s) = <<>>
    <2>1. Len(Tail(s)) = Len(s) - 1
      OBVIOUS
    <2>2. Tail(s) = <<>> <=> Len(Tail(s)) = 0
      BY <1>1, EmptySeq
    <2> QED
      BY <1>1, <2>1, <2>2
  <1>4. ToSet(Tail(s)) \cup {Head(s)} \subseteq ToSet(s)
    BY <1>1, <1>2 DEF ToSet
  <1>5. ASSUME NEW i \in DOMAIN s PROVE s[i] \in ToSet(Tail(s)) \cup {Head(s)}
    <2>1. CASE i = 1
      BY <2>1, <1>1
    <2>2. CASE i # 1
      <3>1. i - 1 \in 1..(Len(s) - 1) /\ Tail(s)[i - 1] = s[i]
        BY <2>2, <1>1, <1>2
      <3> QED
        BY <3>1, <1>1 DEF ToSet
    <2> QED
      BY <2>1, <2>2
  <1>6. ToSet(s) = ToSet(Tail(s)) \cup {Head(s)}
    BY <1>4, <1>5 DEF ToSet
  <1> QED
    BY <1>1, <1>2, <1>3, <1>6

-----------------------------------------------------------------------------
LogTypes ==
    /\ pushed \in Nat
    /\ pending \in Seq(Nat) /\ file \in Seq(Nat)
    /\ holder \in Writer \cup {NoWriter}
    /\ wr \in [Writer -> [pc : {"idle", "maybe", "lock", "take", "open", "write"},
                          line : Nat, now : BOOLEAN, lines : Seq(Nat)]]

(* flush_lock, and that only its holder has lines in hand.                  *)
FlushLock ==
    \A t \in Writer :
        /\ wr[t].pc \in {"take", "open", "write"} <=> holder = t
        /\ wr[t].pc \in {"open", "write"} <=> wr[t].lines # <<>>

(* The file, the lines in hand and the buffer go on from each other.        *)
Ordered ==
    /\ Increasing(file) /\ Increasing(pending) /\ Below(file, pending)
    /\ \A i \in DOMAIN pending : pending[i] <= pushed
    /\ \A i \in DOMAIN file : file[i] <= pushed
    /\ \A t \in Writer : Increasing(wr[t].lines) /\ Below(file, wr[t].lines) /\ Below(wr[t].lines, pending)
    /\ \A t \in Writer : \A i \in DOMAIN wr[t].lines : wr[t].lines[i] <= pushed

(* Every line is somewhere.                                                 *)
EventsKept ==
    \A n \in 1..pushed :
        n \in ToSet(file) \cup lost \cup ToSet(pending)
                \/ \E t \in Writer : n \in ToSet(wr[t].lines)

(* The line of a call whose event must not wait is past the buffer once     *)
(* the call has taken it.                                                   *)
Promises ==
    /\ promised \subseteq ToSet(file) \cup lost
    /\ \A t \in Writer :
         /\ wr[t].now => wr[t].pc \notin {"idle", "maybe"} /\ wr[t].line \in 1..pushed
         /\ wr[t].now /\ wr[t].pc \in {"open", "write"} =>
              wr[t].line \in ToSet(file) \cup lost \cup ToSet(wr[t].lines)

LogInv == LogTypes /\ FlushLock /\ Ordered /\ EventsKept /\ Promises

LEMMA NothingElseInHand ==
    ASSUME LogInv, NEW t \in Writer, holder = t, NEW u \in Writer, u # t
    PROVE  wr[u].lines = <<>>
  BY DEF LogInv, LogTypes, FlushLock

LEMMA Elements ==
    ASSUME LogInv
    PROVE  /\ \A i \in DOMAIN file : file[i] \in Nat
           /\ \A i \in DOMAIN pending : pending[i] \in Nat
           /\ \A t \in Writer : /\ wr[t].lines \in Seq(Nat)
                               /\ \A i \in DOMAIN wr[t].lines : wr[t].lines[i] \in Nat
  <1>1. \A t \in Writer : wr[t].lines \in Seq(Nat)
    BY DEF LogInv, LogTypes
  <1> QED
    BY <1>1, ElementOfSeq DEF LogInv, LogTypes

LEMMA PushStep ==
    ASSUME LogInv, NEW t \in Writer, NEW immediate \in BOOLEAN, push(t, immediate)
    PROVE  LogInv'
  <1> USE LogAssumption DEF push
  <1>a. /\ ToSet(pending') = ToSet(pending) \cup {pushed + 1}
        /\ pending' \in Seq(Nat)
        /\ DOMAIN pending' = 1..(Len(pending) + 1) /\ DOMAIN pending = 1..Len(pending)
        /\ Len(pending) \in Nat
        /\ \A i \in 1..Len(pending) : pending'[i] = pending[i]
        /\ pending'[Len(pending) + 1] = pushed + 1
    <2>1. pending \in Seq(Nat) /\ pushed + 1 \in Nat /\ pending' = Append(pending, pushed + 1)
      BY DEF LogInv, LogTypes
    <2>2. ToSet(pending') = ToSet(pending) \cup {pushed + 1}
      BY <2>1, AppendedSet
    <2>3. /\ pending' \in Seq(Nat)
          /\ DOMAIN pending' = 1..(Len(pending) + 1) /\ DOMAIN pending = 1..Len(pending)
          /\ Len(pending) \in Nat
      BY <2>1
    <2>4. /\ \A i \in 1..Len(pending) : pending'[i] = pending[i]
          /\ pending'[Len(pending) + 1] = pushed + 1
      BY <2>1
    <2> QED
      BY <2>2, <2>3, <2>4
  <1>b. ToSet(<<>>) = {}
    BY DEF ToSet
  <1>1. LogTypes'
    BY <1>a DEF LogInv, LogTypes
  <1>2. FlushLock'
    BY <1>a DEF LogInv, LogTypes, FlushLock
  <1>3. Ordered'
    <2>1. Increasing(pending')
      BY <1>a DEF LogInv, LogTypes, Ordered, Increasing
    <2>2. Below(file, pending')
      <3> SUFFICES ASSUME NEW i \in DOMAIN file, NEW j \in DOMAIN pending'
                    PROVE  file[i] < pending'[j]
        BY DEF Below
      <3>1. file[i] \in Nat /\ file[i] <= pushed /\ pushed \in Nat
        BY Elements DEF LogInv, LogTypes, Ordered
      <3>2. CASE j \in DOMAIN pending
        BY <3>2, <1>a DEF LogInv, Ordered, Below
      <3>3. CASE j = Len(pending) + 1
        BY <3>1, <3>3, <1>a
      <3> QED
        BY <3>2, <3>3, <1>a
    <2>3. ASSUME NEW u \in Writer
          PROVE  Below(wr'[u].lines, pending') /\ Below(file, wr'[u].lines) /\ Increasing(wr'[u].lines)
      <3>1. CASE u = t
        BY <3>1 DEF LogInv, LogTypes, Below, Increasing
      <3>2. CASE u # t
        <4>1. wr'[u].lines = wr[u].lines
          BY <3>2 DEF LogInv, LogTypes
        <4>2. Below(wr[u].lines, pending')
          <5> SUFFICES ASSUME NEW i \in DOMAIN wr[u].lines, NEW j \in DOMAIN pending'
                        PROVE  wr[u].lines[i] < pending'[j]
            BY DEF Below
          <5>1. wr[u].lines[i] \in Nat /\ wr[u].lines[i] <= pushed /\ pushed \in Nat
            BY Elements DEF LogInv, LogTypes, Ordered
          <5>2. CASE j \in DOMAIN pending
            BY <5>2, <1>a DEF LogInv, Ordered, Below
          <5>3. CASE j = Len(pending) + 1
            BY <5>1, <5>3, <1>a
          <5> QED
            BY <5>2, <5>3, <1>a
        <4> QED
          BY <4>1, <4>2 DEF LogInv, Ordered
      <3> QED
        BY <3>1, <3>2
    <2>4. \A i \in DOMAIN pending' : pending'[i] <= pushed'
      BY <1>a DEF LogInv, LogTypes, Ordered
    <2>5. (\A i \in DOMAIN file' : file'[i] <= pushed') /\ Increasing(file')
      BY <1>a, ElementOfSeq DEF LogInv, LogTypes, Ordered
    <2>6. \A u \in Writer : \A i \in DOMAIN wr'[u].lines : wr'[u].lines[i] <= pushed'
      BY <1>a, ElementOfSeq DEF LogInv, LogTypes, Ordered
    <2> QED
      BY <2>1, <2>2, <2>3, <2>4, <2>5, <2>6 DEF Ordered
  <1>4. EventsKept'
    <2> SUFFICES ASSUME NEW n \in 1..pushed'
                 PROVE  n \in ToSet(file) \cup lost \cup ToSet(pending')
                          \/ \E u \in Writer : n \in ToSet(wr'[u].lines)
      BY DEF EventsKept
    <2>1. CASE n = pushed + 1
      BY <2>1, <1>a
    <2>2. CASE n \in 1..pushed /\ \E u \in Writer : n \in ToSet(wr[u].lines)
      <3>1. PICK u \in Writer : n \in ToSet(wr[u].lines)
        BY <2>2
      <3>2. u # t
        BY <3>1, <1>b DEF LogInv, LogTypes, FlushLock
      <3> QED
        BY <3>1, <3>2 DEF LogInv, LogTypes
    <2> QED
      BY <2>1, <2>2, <1>a DEF LogInv, LogTypes, EventsKept
  <1>5. Promises'
    BY <1>a DEF LogInv, LogTypes, Promises
  <1> QED
    BY <1>1, <1>2, <1>3, <1>4, <1>5 DEF LogInv

LEMMA MaybeStep ==
    ASSUME LogInv, NEW t \in Writer, maybe_flush(t)
    PROVE  LogInv'
  <1> USE LogAssumption DEF maybe_flush, Return, Ready
  <1>1. wr[t].pc = "maybe" /\ ~wr[t].now /\ wr[t].lines = <<>> /\ <<>> \in Seq(Nat)
    BY DEF LogInv, LogTypes, FlushLock, Promises
  <1>2. promised' = promised
    BY <1>1
  <1>3. CASE wr' = [wr EXCEPT ![t].pc = "lock"]
    <2>1. LogTypes'
      BY <1>1, <1>3 DEF LogInv, LogTypes
    <2>2. FlushLock'
      BY <1>1, <1>3 DEF LogInv, LogTypes, FlushLock
    <2>3. \A u \in Writer : wr'[u].lines = wr[u].lines
      BY <1>3 DEF LogInv, LogTypes
    <2>4. Ordered' /\ EventsKept'
      BY <2>3 DEF LogInv, Ordered, EventsKept
    <2>5. Promises'
      BY <1>1, <1>2, <1>3 DEF LogInv, LogTypes, Promises
    <2> QED
      BY <2>1, <2>2, <2>4, <2>5 DEF LogInv
  <1>4. CASE wr' = [wr EXCEPT ![t] = Ready]
    <2>1. LogTypes'
      BY <1>1, <1>4 DEF LogInv, LogTypes
    <2>2. FlushLock'
      BY <1>1, <1>4 DEF LogInv, LogTypes, FlushLock
    <2>3. \A u \in Writer : wr'[u].lines = wr[u].lines
      BY <1>1, <1>4 DEF LogInv, LogTypes
    <2>4. Ordered' /\ EventsKept'
      BY <2>3 DEF LogInv, Ordered, EventsKept
    <2>5. Promises'
      BY <1>1, <1>2, <1>4 DEF LogInv, LogTypes, Promises
    <2> QED
      BY <2>1, <2>2, <2>4, <2>5 DEF LogInv
  <1> QED
    BY <1>3, <1>4

LEMMA ForceStep ==
    ASSUME LogInv, NEW t \in Writer, force_flush(t)
    PROVE  LogInv'
  <1> USE LogAssumption DEF force_flush, Return, Ready
  <1>a. /\ wr'[t] \in [pc : {"idle", "maybe", "lock", "take", "open", "write"},
                        line : Nat, now : BOOLEAN, lines : Seq(Nat)]
        /\ \A u \in Writer : wr'[u].lines = wr[u].lines /\ (u # t => wr'[u] = wr[u])
    <2>1. wr[t].lines = <<>> /\ <<>> \in Seq(Nat)
      BY DEF LogInv, LogTypes, FlushLock
    <2> QED
      BY <2>1 DEF LogInv, LogTypes
  <1>1. LogTypes'
    BY DEF LogInv, LogTypes
  <1>2. FlushLock'
    BY <1>a DEF LogInv, LogTypes, FlushLock
  <1>3. Ordered'
    BY <1>a DEF LogInv, LogTypes, Ordered
  <1>4. EventsKept'
    BY <1>a DEF LogInv, LogTypes, EventsKept
  <1>5. Promises'
    BY <1>a DEF LogInv, LogTypes, Promises
  <1> QED
    BY <1>1, <1>2, <1>3, <1>4, <1>5 DEF LogInv

LEMMA LockStep ==
    ASSUME LogInv, NEW t \in Writer, lock_flush(t)
    PROVE  LogInv'
  <1> USE LogAssumption DEF lock_flush, Return, Ready
  <1>a. /\ wr'[t] \in [pc : {"idle", "maybe", "lock", "take", "open", "write"},
                        line : Nat, now : BOOLEAN, lines : Seq(Nat)]
        /\ \A u \in Writer : wr'[u].lines = wr[u].lines /\ (u # t => wr'[u] = wr[u])
    <2>1. wr[t].lines = <<>> /\ <<>> \in Seq(Nat)
      BY DEF LogInv, LogTypes, FlushLock
    <2> QED
      BY <2>1 DEF LogInv, LogTypes
  <1>1. LogTypes'
    BY DEF LogInv, LogTypes
  <1>2. FlushLock'
    BY <1>a DEF LogInv, LogTypes, FlushLock
  <1>3. Ordered'
    BY <1>a DEF LogInv, LogTypes, Ordered
  <1>4. EventsKept'
    BY <1>a DEF LogInv, LogTypes, EventsKept
  <1>5. Promises'
    BY <1>a DEF LogInv, LogTypes, Promises
  <1> QED
    BY <1>1, <1>2, <1>3, <1>4, <1>5 DEF LogInv

(* While t holds flush_lock a line is in the file, lost, buffered or in t's *)
(* hands.                                                                   *)
LEMMA HolderKeeps ==
    ASSUME LogInv, NEW t \in Writer, holder = t, NEW n \in 1..pushed
    PROVE  n \in ToSet(file) \cup lost \cup ToSet(pending) \cup ToSet(wr[t].lines)
  <1>1. ToSet(<<>>) = {}
    BY DEF ToSet
  <1>2. \A u \in Writer : n \in ToSet(wr[u].lines) => u = t
    BY <1>1, NothingElseInHand
  <1> QED
    BY <1>2 DEF LogInv, EventsKept

LEMMA TakeStep ==
    ASSUME LogInv, NEW t \in Writer, take_lines(t)
    PROVE  LogInv'
  <1> USE LogAssumption DEF take_lines, Return, Ready
  <1>1. wr[t].pc = "take" /\ holder = t /\ wr[t].lines = <<>> /\ <<>> \in Seq(Nat)
    BY DEF LogInv, LogTypes, FlushLock
  <1>2. ToSet(<<>>) = {} /\ \A s \in Seq(Nat) : Below(s, <<>>) /\ Below(<<>>, s) /\ Increasing(<<>>)
    BY DEF ToSet, Below, Increasing
  <1>3. \A n \in 1..pushed : n \in ToSet(file) \cup lost \cup ToSet(pending)
    BY <1>1, <1>2, HolderKeeps
  <1>4. CASE pending = <<>>
    <2>1. wr' = [wr EXCEPT ![t] = Ready] /\ holder' = NoWriter
      BY <1>4
    <2>2. LogTypes'
      BY <1>1, <1>4, <2>1 DEF LogInv, LogTypes
    <2>3. FlushLock'
      BY <1>1, <2>1 DEF LogInv, LogTypes, FlushLock
    <2>4. \A u \in Writer : wr'[u].lines = wr[u].lines
      BY <1>1, <2>1 DEF LogInv, LogTypes
    <2>5. Ordered' /\ EventsKept'
      BY <1>4, <2>4 DEF LogInv, Ordered, EventsKept
    <2>6. promised' \subseteq ToSet(file) \cup lost
      BY <1>2, <1>3, <1>4 DEF LogInv, Promises
    <2>7. Promises'
      BY <1>1, <2>1, <2>6 DEF LogInv, LogTypes, Promises
    <2> QED
      BY <2>2, <2>3, <2>5, <2>7 DEF LogInv
  <1>5. CASE pending # <<>>
    <2>1. /\ wr' = [wr EXCEPT ![t].pc = "open", ![t].lines = pending]
          /\ pending' = <<>> /\ UNCHANGED <<holder, promised>>
      BY <1>5
    <2>2. LogTypes'
      BY <1>1, <2>1 DEF LogInv, LogTypes
    <2>3. FlushLock'
      BY <1>1, <1>5, <2>1 DEF LogInv, LogTypes, FlushLock
    <2>4. /\ wr'[t].lines = pending /\ wr'[t].now = wr[t].now /\ wr'[t].line = wr[t].line
          /\ \A u \in Writer \ {t} : wr'[u] = wr[u]
      BY <2>1 DEF LogInv, LogTypes
    <2>5. Ordered'
      <3>1. \A u \in Writer : wr'[u].lines \in Seq(Nat)
        BY <2>2 DEF LogTypes
      <3>2. DOMAIN <<>> = {}
        OBVIOUS
      <3>3. \A u \in Writer : /\ Increasing(wr'[u].lines) /\ Below(file, wr'[u].lines)
                              /\ Below(wr'[u].lines, <<>>)
        BY <1>2, <2>4, <3>1 DEF LogInv, Ordered
      <3>4. \A u \in Writer : \A i \in DOMAIN wr'[u].lines : wr'[u].lines[i] <= pushed
        BY <2>4 DEF LogInv, Ordered
      <3>5. file \in Seq(Nat)
        BY DEF LogInv, LogTypes
      <3> QED
        BY <1>2, <2>1, <3>2, <3>3, <3>4, <3>5 DEF LogInv, Ordered
    <2>6. EventsKept'
      BY <1>3, <2>4 DEF EventsKept
    <2>7. Promises'
      BY <1>1, <1>3, <2>1, <2>4 DEF LogInv, LogTypes, Promises
    <2> QED
      BY <2>2, <2>3, <2>5, <2>6, <2>7 DEF LogInv
  <1> QED
    BY <1>4, <1>5

LEMMA OpenStep ==
    ASSUME LogInv, NEW t \in Writer, NEW ok \in BOOLEAN, open_log(t, ok)
    PROVE  LogInv'
  <1> USE LogAssumption DEF open_log, Return, Ready
  <1>1. wr[t].pc = "open" /\ holder = t /\ <<>> \in Seq(Nat)
    BY DEF LogInv, LogTypes, FlushLock
  <1>2. ToSet(<<>>) = {} /\ \A s \in Seq(Nat) : Below(s, <<>>) /\ Below(<<>>, s) /\ Increasing(<<>>)
    BY DEF ToSet, Below, Increasing
  <1>3. CASE ok
    <2>1. wr' = [wr EXCEPT ![t].pc = "write"] /\ UNCHANGED <<holder, lost, promised>>
      BY <1>3
    <2>2. LogTypes'
      BY <1>1, <2>1 DEF LogInv, LogTypes
    <2>3. FlushLock'
      BY <1>1, <2>1 DEF LogInv, LogTypes, FlushLock
    <2>4. \A u \in Writer : wr'[u].lines = wr[u].lines
      BY <1>1, <2>1 DEF LogInv, LogTypes
    <2>5. Ordered' /\ EventsKept'
      BY <2>1, <2>4 DEF LogInv, Ordered, EventsKept
    <2>6. Promises'
      BY <1>1, <2>1 DEF LogInv, LogTypes, Promises
    <2> QED
      BY <2>2, <2>3, <2>5, <2>6 DEF LogInv
  <1>4. CASE ~ok
    <2>1. /\ wr' = [wr EXCEPT ![t] = Ready] /\ holder' = NoWriter
          /\ lost' = lost \cup ToSet(wr[t].lines)
      BY <1>4
    <2>2. LogTypes'
      BY <1>1, <2>1 DEF LogInv, LogTypes
    <2>3. FlushLock'
      BY <1>1, <2>1 DEF LogInv, LogTypes, FlushLock
    <2>4. wr'[t].lines = <<>> /\ \A u \in Writer \ {t} : wr'[u] = wr[u]
      BY <2>1 DEF LogInv, LogTypes
    <2>5. Ordered'
      <3>1. file \in Seq(Nat) /\ pending \in Seq(Nat) /\ DOMAIN <<>> = {}
        BY DEF LogInv, LogTypes
      <3>2. \A u \in Writer : /\ Increasing(wr'[u].lines) /\ Below(file, wr'[u].lines)
                              /\ Below(wr'[u].lines, pending)
        BY <1>2, <2>4, <3>1 DEF LogInv, Ordered
      <3>3. \A u \in Writer : \A i \in DOMAIN wr'[u].lines : wr'[u].lines[i] <= pushed
        BY <2>4, <3>1 DEF LogInv, Ordered
      <3> QED
        BY <3>2, <3>3 DEF LogInv, Ordered
    <2>6. EventsKept'
      BY <1>1, <2>1, HolderKeeps DEF EventsKept
    <2>7. promised' \subseteq ToSet(file) \cup lost'
      BY <1>1, <2>1 DEF LogInv, Promises
    <2>8. Promises'
      BY <1>1, <2>1, <2>7 DEF LogInv, LogTypes, Promises
    <2> QED
      BY <2>2, <2>3, <2>5, <2>6, <2>8 DEF LogInv
  <1> QED
    BY <1>3, <1>4

LEMMA WriteStep ==
    ASSUME LogInv, NEW t \in Writer, NEW how, write_line(t, how)
    PROVE  LogInv'
  <1> DEFINE lines == wr[t].lines
             rest == Tail(lines)
  <1> USE LogAssumption DEF write_line, Return, Ready
  <1>1. /\ wr[t].pc = "write" /\ holder = t /\ <<>> \in Seq(Nat)
        /\ lines \in Seq(Nat) /\ lines # <<>> /\ file \in Seq(Nat) /\ pending \in Seq(Nat)
    BY DEF LogInv, LogTypes, FlushLock
  <1>2. ToSet(<<>>) = {} /\ \A s \in Seq(Nat) : Below(s, <<>>) /\ Below(<<>>, s) /\ Increasing(<<>>)
    BY DEF ToSet, Below, Increasing
  <1>3. /\ Head(lines) \in Nat /\ rest \in Seq(Nat)
        /\ ToSet(lines) = ToSet(rest) \cup {Head(lines)}
        /\ Head(lines) = lines[1] /\ 1 \in DOMAIN lines
        /\ DOMAIN rest = 1..(Len(lines) - 1)
        /\ \A i \in DOMAIN rest : rest[i] = lines[i + 1] /\ i + 1 \in DOMAIN lines
        /\ Len(lines) = 1 <=> rest = <<>>
    BY <1>1, HeadAndTail
  <1>4. /\ file' \in Seq(Nat)
        /\ ToSet(file') \cup lost' = ToSet(file) \cup lost \cup {Head(lines)}
        /\ \/ file' = file
           \/ file' = Append(file, Head(lines)) /\ ToSet(file') = ToSet(file) \cup {Head(lines)}
    <2>1. CASE file' = Append(file, Head(lines)) /\ lost' = lost
      <3>1. file \in Seq(Nat) /\ Head(lines) \in Nat
        BY <1>1, <1>3
      <3>2. ToSet(file') = ToSet(file) \cup {Head(lines)}
        BY <2>1, <3>1, AppendedSet
      <3>3. file' \in Seq(Nat)
        BY <2>1, <3>1
      <3> QED
        BY <2>1, <3>2, <3>3
    <2>2. CASE file' = file /\ lost' = lost \cup {Head(lines)}
      BY <1>1, <2>2
    <2> QED
      BY <2>1, <2>2
  <1>5. /\ Len(file) \in Nat /\ DOMAIN file = 1..Len(file)
        /\ \A i \in DOMAIN file : file'[i] = file[i]
        /\ \A i \in DOMAIN file' : i \in DOMAIN file \/ (i = Len(file) + 1 /\ file'[i] = Head(lines))
    <2>1. CASE file' = file
      BY <1>1, <2>1
    <2>2. CASE file' = Append(file, Head(lines))
      <3> DEFINE line == Head(lines)
      <3>1. file \in Seq(Nat) /\ line \in Nat /\ file' = Append(file, line)
        BY <1>1, <1>3, <2>2
      <3> HIDE DEF line, lines
      <3>2. DOMAIN file = 1..Len(file) /\ Len(file) \in Nat /\ DOMAIN file' = 1..(Len(file) + 1)
        BY <3>1
      <3>3. (\A i \in 1..Len(file) : file'[i] = file[i]) /\ file'[Len(file) + 1] = line
        BY <3>1
      <3> QED
        BY <3>2, <3>3 DEF line
    <2> QED
      BY <1>4, <2>1, <2>2
  <1>6. /\ pending' = pending /\ pushed' = pushed
        /\ wr' \in [Writer -> [pc : {"idle", "maybe", "lock", "take", "open", "write"},
                               line : Nat, now : BOOLEAN, lines : Seq(Nat)]]
        /\ wr'[t].lines = rest
        /\ \A u \in Writer \ {t} : wr'[u] = wr[u]
        /\ IF rest = <<>> THEN wr'[t] = Ready /\ holder' = NoWriter
           ELSE wr'[t].pc = "write" /\ holder' = t /\ promised' = promised
                  /\ wr'[t].now = wr[t].now /\ wr'[t].line = wr[t].line
    <2>1. CASE rest = <<>>
      <3>1. wr' = [wr EXCEPT ![t] = Ready] /\ holder' = NoWriter
        BY <1>3, <2>1
      <3> QED
        BY <1>1, <2>1, <3>1 DEF LogInv, LogTypes
    <2>2. CASE rest # <<>>
      <3>1. wr' = [wr EXCEPT ![t].lines = rest] /\ holder' = t /\ promised' = promised
        BY <1>1, <1>3, <2>2
      <3> QED
        BY <1>1, <1>3, <2>2, <3>1 DEF LogInv, LogTypes
    <2> QED
      BY <2>1, <2>2
  <1> HIDE DEF lines, rest
  <1>7. LogTypes'
    BY <1>1, <1>4, <1>6 DEF LogInv, LogTypes
  <1>8. FlushLock'
    <2>1. ASSUME NEW u \in Writer \ {t}
          PROVE  wr'[u].pc \notin {"take", "open", "write"} /\ wr'[u].lines = <<>> /\ holder' # u
      BY <1>1, <1>6 DEF LogInv, LogTypes, FlushLock
    <2>2. /\ wr'[t].pc \in {"take", "open", "write"} <=> holder' = t
          /\ wr'[t].pc \in {"open", "write"} <=> wr'[t].lines # <<>>
      <3>1. CASE rest = <<>>
        <4>1. wr'[t].pc = "idle" /\ holder' = NoWriter /\ wr'[t].lines = <<>>
          BY <1>6, <3>1
        <4> QED
          BY <4>1
      <3>2. CASE rest # <<>>
        BY <1>6, <3>2
      <3> QED
        BY <3>1, <3>2
    <2> QED
      BY <2>1, <2>2 DEF FlushLock
  <1>9. Below(file, lines) /\ Increasing(lines) /\ Below(lines, pending)
    BY DEF LogInv, Ordered, lines
  <1>10. Ordered'
    <2>1. Increasing(file')
      <3> SUFFICES ASSUME NEW i \in DOMAIN file', NEW j \in DOMAIN file', i < j
                   PROVE  file'[i] < file'[j]
        BY DEF Increasing
      <3>1. i \in DOMAIN file /\ (j \in DOMAIN file \/ (j = Len(file) + 1 /\ file'[j] = Head(lines)))
        BY <1>5
      <3>2. CASE j \in DOMAIN file
        BY <1>5, <3>1, <3>2 DEF LogInv, Ordered, Increasing
      <3>3. CASE j = Len(file) + 1 /\ file'[j] = Head(lines)
        BY <1>3, <1>5, <1>9, <3>1, <3>3 DEF Below
      <3> QED
        BY <3>1, <3>2, <3>3
    <2>2. Below(file', pending)
      <3> SUFFICES ASSUME NEW i \in DOMAIN file', NEW j \in DOMAIN pending
                   PROVE  file'[i] < pending[j]
        BY DEF Below
      <3>1. CASE i \in DOMAIN file
        BY <1>5, <3>1 DEF LogInv, Ordered, Below
      <3>2. CASE i = Len(file) + 1 /\ file'[i] = Head(lines)
        BY <1>3, <1>5, <1>9, <3>2 DEF Below
      <3> QED
        BY <1>5, <3>1, <3>2
    <2>3. Below(file', rest)
      <3> SUFFICES ASSUME NEW i \in DOMAIN file', NEW j \in DOMAIN rest
                   PROVE  file'[i] < rest[j]
        BY DEF Below
      <3>1. rest[j] = lines[j + 1] /\ j + 1 \in DOMAIN lines /\ j \in Nat \ {0}
        BY <1>3
      <3>2. CASE i \in DOMAIN file
        BY <1>5, <1>9, <3>1, <3>2 DEF Below
      <3>3. CASE i = Len(file) + 1 /\ file'[i] = Head(lines)
        BY <1>3, <1>9, <3>1, <3>3 DEF Increasing
      <3> QED
        BY <1>5, <3>2, <3>3
    <2>4. Increasing(rest) /\ Below(rest, pending)
      BY <1>3, <1>9 DEF Increasing, Below
    <2>5. \A i \in DOMAIN rest : rest[i] <= pushed
      BY <1>3 DEF LogInv, Ordered, lines
    <2>6. \A i \in DOMAIN file' : file'[i] <= pushed
      BY <1>3, <1>5 DEF LogInv, Ordered, lines
    <2>7. \A u \in Writer \ {t} : wr'[u].lines = <<>>
      BY <1>1, <1>6, NothingElseInHand
    <2>8. \A u \in Writer : /\ Increasing(wr'[u].lines) /\ Below(file', wr'[u].lines)
                            /\ Below(wr'[u].lines, pending)
      BY <1>1, <1>2, <1>4, <1>6, <2>3, <2>4, <2>7
    <2>9. \A u \in Writer : \A i \in DOMAIN wr'[u].lines : wr'[u].lines[i] <= pushed
      BY <1>6, <2>5 DEF LogInv, Ordered
    <2> QED
      BY <1>6, <2>1, <2>2, <2>6, <2>8, <2>9 DEF LogInv, Ordered
  <1>11. EventsKept'
    <2> SUFFICES ASSUME NEW n \in 1..pushed
                 PROVE  n \in ToSet(file') \cup lost' \cup ToSet(pending) \cup ToSet(wr'[t].lines)
      BY <1>6 DEF EventsKept
    <2>1. n \in ToSet(file) \cup lost \cup ToSet(pending) \cup ToSet(lines)
      BY <1>1, HolderKeeps DEF lines
    <2> QED
      BY <1>3, <1>4, <1>6, <2>1
  <1>12. Promises'
    <2>1. wr[t].now => wr[t].line \in ToSet(file) \cup lost \cup ToSet(lines)
      BY <1>1 DEF LogInv, Promises, lines
    <2>2. CASE rest = <<>>
      <3>1. promised' \subseteq ToSet(file') \cup lost'
        BY <1>2, <1>3, <1>4, <2>1, <2>2 DEF LogInv, Promises, lines
      <3>2. ~wr'[t].now
        BY <1>6, <2>2
      <3>3. \A u \in Writer : wr'[u].now => u # t
        BY <3>2
      <3> QED
        BY <1>1, <1>4, <1>6, <3>1, <3>3 DEF LogInv, LogTypes, Promises, FlushLock
    <2>3. CASE rest # <<>>
      BY <1>1, <1>3, <1>4, <1>6, <2>1, <2>3 DEF LogInv, LogTypes, Promises, FlushLock
    <2> QED
      BY <2>2, <2>3
  <1> QED
    BY <1>7, <1>8, <1>10, <1>11, <1>12 DEF LogInv

LEMMA LogInvStep == LogInv /\ [LogNext]_logVars => LogInv'
  <1> SUFFICES ASSUME LogInv, [LogNext]_logVars PROVE LogInv'
    OBVIOUS
  <1>1. CASE UNCHANGED logVars
    BY <1>1 DEF logVars, LogInv, LogTypes, FlushLock, Ordered, EventsKept, Promises
  <1>2. CASE LogNext
    BY <1>2, PushStep, MaybeStep, ForceStep, LockStep, TakeStep, OpenStep, WriteStep DEF LogNext
  <1> QED
    BY <1>1, <1>2

(* Lines come from a push only, and there are no more than the bound.       *)
OnlyPushed ==
    /\ pushed <= MaxLines
    /\ ToSet(file) \cup lost \cup ToSet(pending) \subseteq 1..pushed
    /\ \A t \in Writer : ToSet(wr[t].lines) \subseteq 1..pushed

LEMMA OnlyPushedStep == LogInv /\ OnlyPushed /\ [LogNext]_logVars => OnlyPushed'
  <1> SUFFICES ASSUME LogInv, OnlyPushed, [LogNext]_logVars PROVE OnlyPushed'
    OBVIOUS
  <1> USE LogAssumption
  <1>0. /\ ToSet(<<>>) = {}
        /\ wr \in [Writer -> [pc : {"idle", "maybe", "lock", "take", "open", "write"},
                              line : Nat, now : BOOLEAN, lines : Seq(Nat)]]
        /\ pushed \in Nat /\ file \in Seq(Nat) /\ pending \in Seq(Nat)
    BY DEF ToSet, LogInv, LogTypes
  <1>1. CASE UNCHANGED logVars
    BY <1>1 DEF logVars, OnlyPushed
  <1>2. ASSUME NEW t \in Writer, NEW immediate \in BOOLEAN, push(t, immediate)
        PROVE  OnlyPushed'
    <2>1. ToSet(pending') = ToSet(pending) \cup {pushed + 1}
      <3>1. pending' = Append(pending, pushed + 1) /\ pending \in Seq(Nat) /\ pushed + 1 \in Nat
        BY <1>0, <1>2 DEF push
      <3> QED
        BY <3>1, AppendedSet
    <2>2. ToSet(wr'[t].lines) = {} /\ \A u \in Writer \ {t} : wr'[u] = wr[u]
      BY <1>0, <1>2 DEF push
    <2>3. pushed' = pushed + 1 /\ pushed' <= MaxLines /\ UNCHANGED <<file, lost>>
      BY <1>0, <1>2 DEF push
    <2>4. 1..pushed' = 1..pushed \cup {pushed + 1}
      BY <1>0, <2>3
    <2>5. ToSet(file') \cup lost' \cup ToSet(pending') \subseteq 1..pushed'
      BY <2>1, <2>3, <2>4 DEF OnlyPushed
    <2>6. \A u \in Writer : ToSet(wr'[u].lines) \subseteq 1..pushed'
      BY <2>2, <2>4 DEF OnlyPushed
    <2> QED
      BY <2>3, <2>5, <2>6 DEF OnlyPushed
  <1>3. ASSUME NEW t \in Writer, maybe_flush(t) \/ force_flush(t) \/ lock_flush(t)
        PROVE  OnlyPushed'
    <2>1. wr'[t].lines \in {wr[t].lines, <<>>} /\ \A u \in Writer \ {t} : wr'[u] = wr[u]
      BY <1>0, <1>3 DEF maybe_flush, force_flush, lock_flush, Return, Ready
    <2>2. UNCHANGED <<pushed, file, pending, lost>>
      BY <1>3 DEF maybe_flush, force_flush, lock_flush
    <2> QED
      BY <1>0, <2>1, <2>2 DEF OnlyPushed
  <1>4. ASSUME NEW t \in Writer, take_lines(t)
        PROVE  OnlyPushed'
    <2>1. wr'[t].lines \in {pending, <<>>} /\ \A u \in Writer \ {t} : wr'[u] = wr[u]
      BY <1>0, <1>4 DEF take_lines, Return, Ready
    <2>2. UNCHANGED <<pushed, file, lost>> /\ pending' = <<>>
      BY <1>4 DEF take_lines
    <2> QED
      BY <1>0, <2>1, <2>2 DEF OnlyPushed
  <1>5. ASSUME NEW t \in Writer, NEW ok \in BOOLEAN, open_log(t, ok)
        PROVE  OnlyPushed'
    <2>1. wr'[t].lines \in {wr[t].lines, <<>>} /\ \A u \in Writer \ {t} : wr'[u] = wr[u]
      BY <1>0, <1>5 DEF open_log, Return, Ready
    <2>2. /\ lost' \in {lost, lost \cup ToSet(wr[t].lines)}
          /\ UNCHANGED <<pushed, file, pending>>
      BY <1>5 DEF open_log
    <2> QED
      BY <1>0, <2>1, <2>2 DEF OnlyPushed
  <1>6. ASSUME NEW t \in Writer, NEW how, write_line(t, how)
        PROVE  OnlyPushed'
    <2>1. wr[t].lines \in Seq(Nat) /\ wr[t].lines # <<>>
      BY <1>0, <1>6 DEF write_line, LogInv, FlushLock
    <2>2. /\ Head(wr[t].lines) \in ToSet(wr[t].lines)
          /\ ToSet(Tail(wr[t].lines)) \subseteq ToSet(wr[t].lines)
          /\ Head(wr[t].lines) \in Nat
      BY <2>1, HeadAndTail
    <2>3. ToSet(file') \cup lost' = ToSet(file) \cup lost \cup {Head(wr[t].lines)}
      <3>1. CASE file' = Append(file, Head(wr[t].lines)) /\ lost' = lost
        <4>1. ToSet(file') = ToSet(file) \cup {Head(wr[t].lines)}
          BY <1>0, <2>2, <3>1, AppendedSet
        <4> QED
          BY <3>1, <4>1
      <3>2. CASE file' = file /\ lost' = lost \cup {Head(wr[t].lines)}
        BY <3>2
      <3> QED
        BY <1>6, <3>1, <3>2 DEF write_line
    <2>4. wr'[t].lines \in {<<>>, Tail(wr[t].lines)} /\ \A u \in Writer \ {t} : wr'[u] = wr[u]
      BY <1>0, <1>6 DEF write_line, Return, Ready
    <2>5. UNCHANGED <<pushed, pending>>
      BY <1>6 DEF write_line
    <2>6. ToSet(file') \cup lost' \cup ToSet(pending') \subseteq 1..pushed'
      BY <2>2, <2>3, <2>5 DEF OnlyPushed
    <2>7. \A u \in Writer : ToSet(wr'[u].lines) \subseteq 1..pushed'
      BY <1>0, <2>2, <2>4, <2>5 DEF OnlyPushed
    <2> QED
      BY <2>5, <2>6, <2>7 DEF OnlyPushed
  <1> QED
    BY <1>1, <1>2, <1>3, <1>4, <1>5, <1>6 DEF LogNext

(* What is lost is nowhere else. *)
LostApart ==
    /\ lost \cap (ToSet(file) \cup ToSet(pending)) = {}
    /\ \A t \in Writer : lost \cap ToSet(wr[t].lines) = {}

(* The lines in hand are neither in the file nor in the buffer, and nobody   *)
(* else has any.                                                             *)
LEMMA HandApart ==
    ASSUME LogInv, NEW t \in Writer, holder = t
    PROVE  /\ ToSet(wr[t].lines) \cap (ToSet(file) \cup ToSet(pending)) = {}
           /\ \A u \in Writer \ {t} : ToSet(wr[u].lines) = {}
           /\ wr[t].lines # <<>> => Head(wr[t].lines) \notin ToSet(Tail(wr[t].lines))
  <1>1. \A u \in Writer \ {t} : ToSet(wr[u].lines) = {}
    BY NothingElseInHand DEF ToSet
  <1>2. ASSUME NEW s \in Seq(Nat), NEW u \in Seq(Nat), Below(s, u)
        PROVE  ToSet(s) \cap ToSet(u) = {}
    <2> SUFFICES ASSUME NEW i \in DOMAIN s, NEW j \in DOMAIN u PROVE s[i] # u[j]
      BY DEF ToSet
    <2>1. s[i] \in Nat /\ u[j] \in Nat /\ s[i] < u[j]
      BY <1>2, ElementOfSeq DEF Below
    <2> QED
      BY <2>1
  <1>3. /\ wr[t].lines \in Seq(Nat) /\ file \in Seq(Nat) /\ pending \in Seq(Nat)
        /\ Below(file, wr[t].lines) /\ Below(wr[t].lines, pending) /\ Increasing(wr[t].lines)
    BY DEF LogInv, LogTypes, Ordered
  <1>4. ToSet(wr[t].lines) \cap (ToSet(file) \cup ToSet(pending)) = {}
    BY <1>2, <1>3
  <1>5. ASSUME wr[t].lines # <<>> PROVE Head(wr[t].lines) \notin ToSet(Tail(wr[t].lines))
    <2> DEFINE s == wr[t].lines
               u == Tail(s)
    <2>1. s \in Seq(Nat) /\ s # <<>> /\ Increasing(s)
      BY <1>3, <1>5
    <2> HIDE DEF s
    <2>2. /\ Head(s) = s[1] /\ 1 \in DOMAIN s /\ DOMAIN u = 1..(Len(s) - 1)
          /\ \A i \in DOMAIN u : u[i] = s[i + 1] /\ i + 1 \in DOMAIN s
      BY <2>1, HeadAndTail
    <2>3. ASSUME NEW i \in DOMAIN u PROVE Head(s) # u[i]
      <3>1. s[1] < s[i + 1] /\ s[1] \in Nat /\ s[i + 1] \in Nat
        BY <2>1, <2>2, ElementOfSeq DEF Increasing
      <3> QED
        BY <2>2, <3>1
    <2> QED
      BY <2>3 DEF ToSet, s
  <1> QED
    BY <1>1, <1>4, <1>5

LEMMA LostApartStep == LogInv /\ OnlyPushed /\ LostApart /\ [LogNext]_logVars => LostApart'
  <1> SUFFICES ASSUME LogInv, OnlyPushed, LostApart, [LogNext]_logVars PROVE LostApart'
    OBVIOUS
  <1> USE LogAssumption
  <1>0. /\ ToSet(<<>>) = {}
        /\ wr \in [Writer -> [pc : {"idle", "maybe", "lock", "take", "open", "write"},
                              line : Nat, now : BOOLEAN, lines : Seq(Nat)]]
        /\ pushed \in Nat /\ file \in Seq(Nat) /\ pending \in Seq(Nat)
    BY DEF ToSet, LogInv, LogTypes
  <1>1. CASE UNCHANGED logVars
    BY <1>1 DEF logVars, LostApart
  <1>2. ASSUME NEW t \in Writer, NEW immediate \in BOOLEAN, push(t, immediate)
        PROVE  LostApart'
    <2>1. ToSet(pending') = ToSet(pending) \cup {pushed + 1}
      <3>1. pending' = Append(pending, pushed + 1) /\ pending \in Seq(Nat) /\ pushed + 1 \in Nat
        BY <1>0, <1>2 DEF push
      <3> QED
        BY <3>1, AppendedSet
    <2>2. pushed + 1 \notin lost /\ UNCHANGED <<lost, file>>
      BY <1>0, <1>2 DEF push, OnlyPushed
    <2>3. ToSet(wr'[t].lines) = {} /\ \A u \in Writer \ {t} : wr'[u] = wr[u]
      BY <1>0, <1>2 DEF push
    <2> QED
      BY <2>1, <2>2, <2>3 DEF LostApart
  <1>3. ASSUME NEW t \in Writer, maybe_flush(t) \/ force_flush(t) \/ lock_flush(t)
        PROVE  LostApart'
    <2>1. wr'[t].lines \in {wr[t].lines, <<>>} /\ \A u \in Writer \ {t} : wr'[u] = wr[u]
      BY <1>0, <1>3 DEF maybe_flush, force_flush, lock_flush, Return, Ready
    <2>2. UNCHANGED <<file, pending, lost>>
      BY <1>3 DEF maybe_flush, force_flush, lock_flush
    <2> QED
      BY <1>0, <2>1, <2>2 DEF LostApart
  <1>4. ASSUME NEW t \in Writer, take_lines(t)
        PROVE  LostApart'
    <2>1. wr'[t].lines \in {pending, <<>>} /\ \A u \in Writer \ {t} : wr'[u] = wr[u]
      BY <1>0, <1>4 DEF take_lines, Return, Ready
    <2>2. UNCHANGED <<file, lost>> /\ pending' = <<>>
      BY <1>4 DEF take_lines
    <2> QED
      BY <1>0, <2>1, <2>2 DEF LostApart
  <1>5. ASSUME NEW t \in Writer, NEW ok \in BOOLEAN, open_log(t, ok)
        PROVE  LostApart'
    <2>1. UNCHANGED <<file, pending>> /\ \A u \in Writer \ {t} : wr'[u] = wr[u]
      BY <1>0, <1>5 DEF open_log, Return, Ready
    <2>2. CASE lost' = lost /\ wr'[t].lines = wr[t].lines
      BY <2>1, <2>2 DEF LostApart
    <2>3. CASE lost' = lost \cup ToSet(wr[t].lines) /\ wr'[t].lines = <<>>
      <3>1. holder = t
        BY <1>5 DEF open_log, LogInv, FlushLock
      <3> QED
        BY <1>0, <2>1, <2>3, <3>1, HandApart DEF LostApart
    <2> QED
      BY <1>0, <1>5, <2>2, <2>3 DEF open_log, Return, Ready
  <1>6. ASSUME NEW t \in Writer, NEW how, write_line(t, how)
        PROVE  LostApart'
    <2>1. wr[t].lines \in Seq(Nat) /\ wr[t].lines # <<>> /\ holder = t
      BY <1>0, <1>6 DEF write_line, LogInv, FlushLock
    <2>2. /\ ToSet(wr[t].lines) = ToSet(Tail(wr[t].lines)) \cup {Head(wr[t].lines)}
          /\ Head(wr[t].lines) \in Nat
      BY <2>1, HeadAndTail
    <2>3. /\ Head(wr[t].lines) \notin ToSet(file) \cup ToSet(pending) \cup ToSet(Tail(wr[t].lines))
          /\ \A u \in Writer \ {t} : ToSet(wr[u].lines) = {}
      BY <2>1, <2>2, HandApart
    <2>4. /\ wr'[t].lines \in {<<>>, Tail(wr[t].lines)} /\ \A u \in Writer \ {t} : wr'[u] = wr[u]
          /\ pending' = pending
      BY <1>0, <1>6 DEF write_line, Return, Ready
    <2>5. \A u \in Writer : lost' \cap ToSet(wr'[u].lines) = {}
      <3>1. lost' \subseteq lost \cup {Head(wr[t].lines)}
        BY <1>6 DEF write_line
      <3> QED
        BY <1>0, <2>2, <2>3, <2>4, <3>1 DEF LostApart
    <2>6. lost' \cap (ToSet(file') \cup ToSet(pending')) = {}
      <3>1. CASE file' = Append(file, Head(wr[t].lines)) /\ lost' = lost
        <4>1. ToSet(file') = ToSet(file) \cup {Head(wr[t].lines)}
          BY <1>0, <2>2, <3>1, AppendedSet
        <4> QED
          BY <2>2, <2>4, <3>1, <4>1 DEF LostApart
      <3>2. CASE file' = file /\ lost' = lost \cup {Head(wr[t].lines)}
        BY <2>3, <2>4, <3>2 DEF LostApart
      <3> QED
        BY <1>6, <3>1, <3>2 DEF write_line
    <2> QED
      BY <2>5, <2>6 DEF LostApart
  <1> QED
    BY <1>1, <1>2, <1>3, <1>4, <1>5, <1>6 DEF LogNext

LEMMA LogInvInit == LogInit => LogInv
  <1>1. <<>> \in Seq(Nat) /\ ToSet(<<>>) = {} /\ Increasing(<<>>) /\ Below(<<>>, <<>>) /\ DOMAIN <<>> = {}
    BY DEF ToSet, Increasing, Below
  <1> QED
    BY <1>1, LogAssumption
    DEF LogInit, LogInv, LogTypes, FlushLock, Ordered, EventsKept, Promises, Ready

(* A line that must not wait has been written out when its call returns,    *)
(* whoever took it out of the buffer, or an error that do_flush ignores has *)
(* lost it; and the file has its lines once, in order (jsonl_log.rs,        *)
(* do_flush).                                                               *)
THEOREM ImmediateWritten == LogSpec => []ImmediateIsWritten
  <1>1. LogInv => ImmediateIsWritten
    BY DEF LogInv, Promises, Ordered, Increasing, ImmediateIsWritten
  <1> QED
    BY <1>1, LogInvInit, LogInvStep, PTL DEF LogSpec

(* Every line that was pushed is in the buffer, in the hand of the one      *)
(* thread that flushes, in the file, or lost to an error of the file, and   *)
(* never both of the last two; there is no other line (push, do_flush).     *)
THEOREM NoLineLost == LogSpec => []LogTypeOK
  <1>1. LogInit => OnlyPushed /\ LostApart
    <2>1. ToSet(<<>>) = {}
      BY DEF ToSet
    <2> QED
      BY <2>1, LogAssumption DEF LogInit, OnlyPushed, LostApart, Ready
  <1>2. LogInv /\ OnlyPushed /\ LostApart => LogTypeOK
    <2> SUFFICES ASSUME LogInv, OnlyPushed, LostApart PROVE LogTypeOK
      OBVIOUS
    <2>1. pushed \in 0..MaxLines
      BY LogAssumption DEF LogInv, LogTypes, OnlyPushed
    <2>2. \A t \in Writer : wr[t].pc \in {"take", "open", "write"} <=> holder = t
      BY DEF LogInv, FlushLock
    <2>3. 1..pushed = ToSet(file) \cup lost \cup ToSet(pending)
                        \cup UNION {ToSet(wr[t].lines) : t \in Writer}
      BY DEF LogInv, EventsKept, OnlyPushed
    <2> QED
      BY <2>1, <2>2, <2>3 DEF LogTypeOK, LostApart
  <1> QED
    BY <1>1, <1>2, LogInvInit, LogInvStep, OnlyPushedStep, LostApartStep, PTL DEF LogSpec

-----------------------------------------------------------------------------
(* Migration.                                                              *)

(* Rows and what they lead to: an entry no guest has written is as the      *)
(* earlier build left it, and one under the new root is what was written.   *)
Rows ==
    /\ \A e \in Entry : rows[e] # "new" => wrote[e] = legacy[e]
    /\ \A e \in Entry : rows[e] = "new" /\ wrote[e] # "absent" => files[e] = wrote[e]
    /\ \A e \in Entry : legacy[e] = "else" => rows[e] # "legacy"

(* The marker and the rows change together.                                 *)
Marker ==
    /\ complete => \A e \in Entry : rows[e] # "legacy"
    /\ ~complete => \A e \in Entry : rows[e] # "new" /\ files[e] \in {"absent", "mine", "else"}
    /\ phase \in {"validate", "copy", "link", "commit"} => ~complete
    /\ phase = "serve" => complete

Arrived(e) == rows[e] = "legacy" /\ legacy[e] # "absent" => files[e] = legacy[e]

(* What the broker at hand has copied, and the copy it is making.           *)
Copies ==
    /\ phase = "validate" => row_at = 1
    /\ phase \in {"copy", "link"} => \A e \in Entry : e < row_at => Arrived(e)
    /\ phase = "commit" => \A e \in Entry : Arrived(e)
    /\ phase = "link" =>
         /\ row_at \in Entry /\ rows[row_at] = "legacy" /\ legacy[row_at] = "mine"
         /\ files[row_at] = "absent"
         /\ temp \in {"part", "mine"}

MigrationInv == MigrationTypeOK /\ Rows /\ Marker /\ Copies /\ RefusedForAReason

LEMMA MigrationInvInit == MigrationInit => MigrationInv
  <1> SUFFICES ASSUME MigrationInit PROVE MigrationInv
    OBVIOUS
  <1> USE MigrationConstants DEF MigrationInit, Entry, Content, Indexed
  <1>1. MigrationTypeOK
    <2>1. /\ rows \in [Entry -> {"none", "legacy", "new"}]
          /\ files \in [Entry -> Content]
      OBVIOUS
    <2>2. wrote \in [Entry -> Content]
      OBVIOUS
    <2>3. row_at \in 1..(Entries + 1) /\ launches \in 0..MaxLaunches
      OBVIOUS
    <2> QED
      BY <2>1, <2>2, <2>3 DEF MigrationTypeOK
  <1>2. Rows /\ Marker /\ Copies /\ RefusedForAReason
    BY DEF Rows, Marker, Copies, RefusedForAReason
  <1> QED
    BY <1>1, <1>2 DEF MigrationInv

LEMMA MigrationInvStep == MigrationInv /\ [MigrationNext]_migrationVars => MigrationInv'
  <1> SUFFICES ASSUME MigrationInv, [MigrationNext]_migrationVars
               PROVE  MigrationInv'
    OBVIOUS
  <1> USE MigrationConstants DEF MigrationInv, MigrationTypeOK, Rows, Marker, Copies, Arrived,
          RefusedForAReason, Entry, Content, Indexed, existing_destination_matches
  <1>1. CASE StartBroker
    <2>1. MigrationTypeOK'
      BY <1>1 DEF StartBroker
    <2>2. Rows'
      BY <1>1 DEF StartBroker
    <2>3. Marker'
      BY <1>1 DEF StartBroker
    <2>4. Copies'
      BY <1>1 DEF StartBroker
    <2>5. RefusedForAReason'
      BY <1>1 DEF StartBroker
    <2> QED
      BY <2>1, <2>2, <2>3, <2>4, <2>5
  <1>2. CASE validate_legacy_indexed_files
    <2>1. MigrationTypeOK'
      BY <1>2 DEF validate_legacy_indexed_files
    <2>2. Rows'
      BY <1>2 DEF validate_legacy_indexed_files
    <2>3. Marker'
      BY <1>2 DEF validate_legacy_indexed_files
    <2>4. Copies'
      BY <1>2 DEF validate_legacy_indexed_files
    <2>5. RefusedForAReason'
      BY <1>2 DEF validate_legacy_indexed_files
    <2> QED
      BY <2>1, <2>2, <2>3, <2>4, <2>5
  <1>3. CASE SkipEntry
    BY <1>3 DEF SkipEntry, NextEntry
  <1>4. CASE KeepExisting
    BY <1>4 DEF KeepExisting, NextEntry
  <1>5. CASE BeginCopy
    BY <1>5 DEF BeginCopy
  <1>6. CASE FinishCopy
    BY <1>6 DEF FinishCopy
  <1>7. CASE link_staged_file_no_replace
    BY <1>7 DEF link_staged_file_no_replace
  <1>8. CASE AllCopied
    BY <1>8 DEF AllCopied
  <1>9. CASE rebase_and_mark_complete
    BY <1>9 DEF rebase_and_mark_complete
  <1>10. CASE IoError
    BY <1>10 DEF IoError
  <1>11. CASE BrokerEnds
    BY <1>11 DEF BrokerEnds
  <1>12. ASSUME NEW e \in Entry, GuestWrites(e)
         PROVE  MigrationInv'
    BY <1>12 DEF GuestWrites
  <1>13. CASE UNCHANGED migrationVars
    BY <1>13 DEF migrationVars
  <1> QED
    BY <1>1, <1>2, <1>3, <1>4, <1>5, <1>6, <1>7, <1>8, <1>9, <1>10, <1>11, <1>12, <1>13
    DEF MigrationNext

(* The types of the migration's state.                                      *)
THEOREM MigrationTypes == MigrationSpec => []MigrationTypeOK
  <1>1. MigrationInv => MigrationTypeOK
    BY DEF MigrationInv
  <1> QED
    BY <1>1, MigrationInvInit, MigrationInvStep, PTL DEF MigrationSpec

(* For any index and any number of crashes the index leads to what the      *)
(* guests last wrote (inject.rs, migrate_cdrive_overlay).                   *)
THEOREM ViewKept == MigrationSpec => []MigrationKeepsView
  <1>1. MigrationInv => MigrationKeepsView
    BY DEF MigrationInv, MigrationTypeOK, Rows, MigrationKeepsView, Overlaid, Entry,
       Content, Indexed
  <1> QED
    BY <1>1, MigrationInvInit, MigrationInvStep, PTL DEF MigrationSpec

(* A refused launch names a state of the disk that was there before.        *)
THEOREM RefusalHasReason == MigrationSpec => []RefusedForAReason
  <1>1. MigrationInv => RefusedForAReason
    BY DEF MigrationInv
  <1> QED
    BY <1>1, MigrationInvInit, MigrationInvStep, PTL DEF MigrationSpec

-----------------------------------------------------------------------------
(* PipeServer.                                                             *)


(* What carries a creation time carries one that is past, so that a process *)
(* created later is told apart by its own.                                  *)
Times ==
    /\ \A p \in Pid :
         /\ proc[p].ct <= clock
         /\ proc[p].st # "free" => proc[p].ct # 0
         /\ table[p].madeFor <= clock
    /\ \A s \in Session : roots[s].info.madeFor <= clock
    /\ \A c \in Conn : conn[c].owner <= clock

(* An entry of depth 0, in the table or kept for a take-over, was made for  *)
(* a process that a launcher started as its target.                         *)
MadeForRoot(entry, p) ==
    entry.depth = 0 /\ proc[p].st # "free" /\ entry.madeFor = proc[p].ct => proc[p].root

RootEntries ==
    /\ \A p \in Pid : MadeForRoot(table[p], p)
    /\ \A s \in Session : roots[s].pid # NoPid => MadeForRoot(roots[s].info, roots[s].pid)

(* Hello succeeds on a connection with a handler only.                      *)
Connections == \A c \in Conn :
    /\ conn[c].conn_pid => conn[c].st = "serving"
    /\ conn[c].st # "none" => conn[c].pid \in Pid

(* The entry of a connection that said Hello was made for its client; it    *)
(* has the client's image if the kernel answers when a child is reported.   *)
OwnEntry(c) ==
    conn[c].conn_pid /\ OwnerLives(c) =>
      /\ table[conn[c].pid] # NoEntry
      /\ table[conn[c].pid].create_time = conn[c].owner
      /\ "spawned" \notin ProbeFails => table[conn[c].pid].exe_lower = proc[conn[c].pid].image

ServerInv ==
    /\ ServerTypeOK
    /\ Times
    /\ RootEntries
    /\ Connections
    /\ \A c \in Conn : OwnEntry(c)

-----------------------------------------------------------------------------
(* What a row of the process table may be, and the types of what the        *)
(* operators of the server give.                                            *)

ProcEntries == ProcInfo \cup {NoEntry}

LEMMA EntryTypes ==
    /\ NoEntry \in [depth : Nat, exe_lower : Image \cup {NoImage}, create_time : Time, madeFor : Time]
    /\ NoEntry.depth # 0 /\ NoEntry.madeFor = 0 /\ NoEntry \notin ProcInfo
    /\ ProcInfo \subseteq [depth : Nat, exe_lower : Image \cup {NoImage},
                           create_time : Time, madeFor : Time]
    /\ Free \in Kernel /\ Free.st = "free" /\ Free.ct = 0
    /\ NoConnection \in Connection /\ NoConnection.st = "none" /\ ~NoConnection.conn_pid
    /\ NoConnection.owner = 0
  <1> USE ServerConstants
  <1>1. NoEntry \in [depth : Nat, exe_lower : Image \cup {NoImage}, create_time : Time, madeFor : Time]
    BY DEF NoEntry, Time
  <1>2. NoEntry.depth # 0 /\ NoEntry.madeFor = 0 /\ NoEntry.depth = MaxDepth + 1
    BY DEF NoEntry
  <1>3. NoEntry \notin ProcInfo
    BY <1>2 DEF ProcInfo
  <1>4. ProcInfo \subseteq [depth : Nat, exe_lower : Image \cup {NoImage},
                            create_time : Time, madeFor : Time]
    BY DEF ProcInfo
  <1>5. Free \in Kernel /\ Free.st = "free" /\ Free.ct = 0
    BY DEF Free, Kernel, Time, Session
  <1>6. /\ NoConnection \in Connection /\ NoConnection.st = "none" /\ ~NoConnection.conn_pid
        /\ NoConnection.owner = 0
    BY DEF NoConnection, Connection, Time
  <1> QED
    BY <1>1, <1>2, <1>3, <1>4, <1>5, <1>6

LEMMA ChildDepth ==
    ASSUME NEW d \in Nat
    PROVE  child_depth(d) \in 1..MaxDepth
  BY ServerConstants DEF child_depth

(* No walk of ancestors gives depth 0.                                      *)
LEMMA ResolvedDepth ==
    ASSUME ServerTypeOK, NEW p \in Pid
    PROVE  resolve_new_entry_depth(p) \in 1..MaxDepth
  <1> DEFINE anc == Ancestors(p)
             Hit(n) == /\ anc[n] \in Pid
                       /\ table[anc[n]] # NoEntry
                       /\ \A i, j \in 0..(n - 1) : i # j => anc[i] # anc[j]
             first == {n \in 1..WalkMax : Hit(n) /\ \A m \in 1..(n - 1) : ~Hit(m)}
             least == CHOOSE n \in first : TRUE
  <1>1. resolve_new_entry_depth(p)
          = IF first = {} THEN MaxDepth ELSE child_depth(table[anc[least]].depth)
    BY DEF resolve_new_entry_depth
  <1>2. CASE first = {}
    BY <1>1, <1>2, ServerConstants
  <1>3. CASE first # {}
    <2>1. least \in first
      BY <1>3
    <2>2. anc[least] \in Pid
      BY <2>1
    <2> HIDE DEF anc, least
    <2>3. table[anc[least]].depth \in Nat
      BY <2>2, EntryTypes DEF ServerTypeOK
    <2> QED
      BY <1>1, <1>3, <2>3, ChildDepth
  <1> QED
    BY <1>2, <1>3

-----------------------------------------------------------------------------
(* What happens to the processes when none is created.                      *)
Fades == \A p \in Pid :
    \/ proc'[p] = Free
    \/ /\ proc'[p].ct = proc[p].ct /\ proc'[p].root = proc[p].root /\ proc'[p].image = proc[p].image
       /\ proc[p].st = "free" => proc'[p].st = "free"
       /\ proc'[p].st = "alive" => proc[p].st = "alive"

LEMMA Reaped ==
    ASSUME NEW ps \in [Pid -> Kernel], NEW cs
    PROVE  /\ Reap(ps, cs) \in [Pid -> Kernel]
           /\ \A p \in Pid : Reap(ps, cs)[p] = ps[p] \/ (Reap(ps, cs)[p] = Free /\ ps[p].st # "alive")
  BY EntryTypes DEF Reap

LEMMA ReapFades ==
    ASSUME ServerTypeOK, NEW cs, proc' = Reap(proc, cs)
    PROVE  Fades /\ proc' \in [Pid -> Kernel]
  BY Reaped DEF ServerTypeOK, Fades

(* What holds of the processes and the entries while none is created and    *)
(* none is made.                                                            *)
LEMMA FadesStep ==
    ASSUME ServerInv, Fades, UNCHANGED clock
    PROVE  /\ \A p \in Pid : /\ proc'[p].ct <= clock'
                             /\ proc'[p].st # "free" => proc'[p].ct # 0
           /\ \A p \in Pid, e \in ProcEntries : MadeForRoot(e, p) => MadeForRoot(e, p)'
  <1>1. clock \in Nat
    BY ServerConstants DEF ServerInv, ServerTypeOK, Time
  <1>2. ASSUME NEW p \in Pid, proc'[p] = Free
        PROVE  /\ proc'[p].ct <= clock'
               /\ proc'[p].st # "free" => proc'[p].ct # 0
               /\ \A e \in ProcEntries : MadeForRoot(e, p)'
    BY <1>1, <1>2, EntryTypes DEF MadeForRoot
  <1>3. ASSUME NEW p \in Pid, proc'[p] # Free
        PROVE  /\ proc'[p].ct <= clock'
               /\ proc'[p].st # "free" => proc'[p].ct # 0
               /\ \A e \in ProcEntries : MadeForRoot(e, p) => MadeForRoot(e, p)'
    BY <1>3 DEF MadeForRoot, Fades, ServerInv, Times
  <1> QED
    BY <1>2, <1>3

-----------------------------------------------------------------------------
(* The steps.                                                               *)

(* A process is created, and at most its own entry with it.                 *)
LEMMA StartedStep ==
    ASSUME ServerInv, NEW p \in Pid, NEW parent \in Pid \cup {NoPid},
           NEW role \in {"guest", "launcher", "stranger"}, NEW s \in Session,
           NEW image \in Image \cup {NoImage}, NEW root \in BOOLEAN,
           Started(p, parent, role, s, image, root), UNCHANGED <<broker, conn>>,
           table' \in [Pid -> ProcEntries],
           roots' \in [Session -> [pid : Pid \cup {NoPid}, info : ProcEntries]],
           \A q \in Pid : table'[q] = table[q]
                            \/ (q = p /\ root /\ table'[q].madeFor = clock + 1),
           \A z \in Session : roots'[z] = roots[z]
                                \/ (roots'[z].pid = p /\ root /\ roots'[z].info.madeFor = clock + 1)
    PROVE  ServerInv'
  <1> DEFINE new == [st |-> "alive", ct |-> clock + 1, parent |-> parent, role |-> role,
                     session |-> s, image |-> image, root |-> root]
  <1>1. clock \in Nat /\ clock' = clock + 1 /\ clock' \in Time
    BY ServerConstants DEF Started, ServerInv, ServerTypeOK, Time
  <1>2. new \in Kernel
    BY <1>1 DEF Kernel
  <1>3. /\ proc' \in [Pid -> Kernel] /\ proc'[p] = new
        /\ \A q \in Pid \ {p} : proc'[q] = proc[q]
    BY <1>2 DEF Started, ServerInv, ServerTypeOK
  <1>4. /\ proc'[p].st = "alive" /\ proc'[p].ct = clock + 1 /\ proc'[p].root = root
    BY <1>3
  <1> HIDE DEF new
  <1>5. ServerTypeOK'
    BY <1>1, <1>3 DEF ServerInv, ServerTypeOK, ProcEntries
  <1>6. /\ \A q \in Pid : proc[q].ct \in Nat /\ table[q].madeFor \in Nat
        /\ \A z \in Session : roots[z].info.madeFor \in Nat
        /\ \A c \in Conn : conn[c].owner \in Nat
    BY ServerConstants, EntryTypes DEF ServerInv, ServerTypeOK, Kernel, Connection, Time
  <1>7. Times'
    <2>1. \A q \in Pid : proc'[q].ct <= clock' /\ (proc'[q].st # "free" => proc'[q].ct # 0)
      BY <1>1, <1>3, <1>4, <1>6 DEF ServerInv, Times
    <2>2. \A q \in Pid : table'[q].madeFor <= clock'
      BY <1>1, <1>6 DEF ServerInv, Times
    <2>3. \A z \in Session : roots'[z].info.madeFor <= clock'
      BY <1>1, <1>6 DEF ServerInv, Times
    <2>4. \A c \in Conn : conn'[c].owner <= clock'
      BY <1>1, <1>6 DEF ServerInv, Times
    <2> QED
      BY <2>1, <2>2, <2>3, <2>4 DEF Times
  <1>8. ASSUME NEW q \in Pid, NEW e \in ProcEntries,
               (MadeForRoot(e, q) /\ e.madeFor <= clock) \/ (q = p /\ root /\ e.madeFor = clock + 1)
        PROVE  MadeForRoot(e, q)'
    <2>1. e.madeFor \in Nat
      BY ServerConstants, EntryTypes DEF ProcEntries, Time
    <2>2. CASE q # p
      BY <1>3, <1>8, <2>2 DEF MadeForRoot
    <2>3. CASE q = p
      BY <1>1, <1>4, <1>8, <2>1, <2>3 DEF MadeForRoot
    <2> QED
      BY <2>2, <2>3
  <1>9. RootEntries'
    <2>1. ASSUME NEW q \in Pid PROVE MadeForRoot(table[q], q)'
      <3>1. \/ MadeForRoot(table'[q], q) /\ table'[q].madeFor <= clock
            \/ q = p /\ root /\ table'[q].madeFor = clock + 1
        BY DEF ServerInv, Times, RootEntries
      <3>2. table'[q] \in ProcEntries
        OBVIOUS
      <3> QED
        BY <1>8, <3>1, <3>2 DEF MadeForRoot
    <2>2. ASSUME NEW z \in Session, roots'[z].pid # NoPid
          PROVE  MadeForRoot(roots[z].info, roots[z].pid)'
      <3>1. roots'[z].pid \in Pid /\ roots'[z].info \in ProcEntries
        BY <2>2
      <3>2. CASE roots'[z] = roots[z]
        <4>1. MadeForRoot(roots'[z].info, roots'[z].pid) /\ roots'[z].info.madeFor <= clock
          BY <2>2, <3>2 DEF ServerInv, Times, RootEntries
        <4> QED
          BY <1>8, <3>1, <4>1 DEF MadeForRoot
      <3>3. CASE roots'[z] # roots[z]
        BY <1>8, <3>1, <3>3 DEF MadeForRoot
      <3> QED
        BY <3>2, <3>3
    <2> QED
      BY <2>1, <2>2 DEF RootEntries
  <1>10. Connections'
    BY DEF ServerInv, Connections
  <1>11. ASSUME NEW c \in Conn
         PROVE  OwnEntry(c)'
    <2>1. CASE conn[c].pid \in Pid \ {p}
      BY <1>3, <2>1 DEF OwnEntry, OwnerLives, ServerInv
    <2>2. CASE conn[c].pid = p
      <3>1. ~OwnerLives(c)'
        BY <1>1, <1>4, <1>6, <2>2 DEF OwnerLives, ServerInv, Times
      <3> QED
        BY <3>1 DEF OwnEntry
    <2>3. CASE conn[c].pid \notin Pid
      BY <2>3 DEF OwnEntry, OwnerLives
    <2> QED
      BY <2>1, <2>2, <2>3
  <1> QED
    BY <1>5, <1>7, <1>9, <1>10, <1>11 DEF ServerInv

(* No process is created, and what an entry says anew it says of the live   *)
(* process at its PID.                                                      *)
SaysOf(q, e) ==
    /\ e \in ProcInfo /\ e.madeFor <= clock
    /\ MadeForRoot(e, q)
    /\ proc[q].st = "alive" =>
         /\ e.create_time = proc[q].ct
         /\ "spawned" \notin ProbeFails => e.exe_lower = proc[q].image

LEMMA ServeStep ==
    ASSUME ServerInv, Fades, proc' \in [Pid -> Kernel], UNCHANGED <<clock, broker, roots>>,
           table' \in [Pid -> ProcEntries], conn' \in [Conn -> Connection],
           \A q \in Pid : table'[q] = table[q] \/ SaysOf(q, table'[q]),
           \A c \in Conn :
             \/ conn'[c].st = "none" /\ ~conn'[c].conn_pid /\ conn'[c].owner = 0
             \/ /\ conn'[c].pid = conn[c].pid /\ conn'[c].owner = conn[c].owner
                /\ conn'[c].st # "none" => conn[c].st # "none"
                /\ conn'[c].conn_pid =>
                     /\ conn'[c].st = "serving"
                     /\ conn[c].conn_pid \/ SaysOf(conn[c].pid, table'[conn[c].pid])
    PROVE  ServerInv'
  <1>1. ServerTypeOK'
    BY DEF ServerInv, ServerTypeOK, ProcEntries
  <1>2. /\ \A p \in Pid : proc'[p].ct <= clock' /\ (proc'[p].st # "free" => proc'[p].ct # 0)
        /\ \A p \in Pid, e \in ProcEntries : MadeForRoot(e, p) => MadeForRoot(e, p)'
    BY FadesStep
  <1>3. Times'
    <2>1. \A q \in Pid : table'[q].madeFor <= clock'
      BY DEF ServerInv, Times, SaysOf
    <2>2. \A c \in Conn : conn'[c].owner <= clock'
      BY ServerConstants DEF ServerInv, Times, ServerTypeOK, Time
    <2>3. \A z \in Session : roots'[z].info.madeFor <= clock'
      BY DEF ServerInv, Times
    <2> QED
      BY <1>2, <2>1, <2>2, <2>3 DEF Times
  <1>4. RootEntries'
    <2>1. ASSUME NEW q \in Pid PROVE MadeForRoot(table[q], q)'
      <3>1. MadeForRoot(table'[q], q) /\ table'[q] \in ProcEntries
        BY DEF ServerInv, RootEntries, SaysOf
      <3> QED
        BY <1>2, <3>1 DEF MadeForRoot
    <2>2. ASSUME NEW z \in Session, roots'[z].pid # NoPid
          PROVE  MadeForRoot(roots[z].info, roots[z].pid)'
      <3>1. /\ MadeForRoot(roots[z].info, roots[z].pid) /\ roots'[z] = roots[z]
            /\ roots[z].pid \in Pid /\ roots[z].info \in ProcEntries
        BY <2>2 DEF ServerInv, ServerTypeOK, RootEntries, ProcEntries
      <3> QED
        BY <1>2, <3>1 DEF MadeForRoot
    <2> QED
      BY <2>1, <2>2 DEF RootEntries
  <1>5. Connections'
    BY DEF ServerInv, Connections
  <1>6. ASSUME NEW c \in Conn
        PROVE  OwnEntry(c)'
    <2> SUFFICES ASSUME conn'[c].conn_pid, OwnerLives(c)'
                 PROVE  /\ table'[conn'[c].pid] # NoEntry
                        /\ table'[conn'[c].pid].create_time = conn'[c].owner
                        /\ "spawned" \notin ProbeFails
                             => table'[conn'[c].pid].exe_lower = proc'[conn'[c].pid].image
      BY DEF OwnEntry
    <2> DEFINE q == conn[c].pid
    <2>1. conn'[c].pid = q /\ conn'[c].owner = conn[c].owner /\ q \in Pid
          /\ (conn[c].conn_pid \/ SaysOf(q, table'[q]))
      BY DEF OwnerLives
    <2>2. /\ proc'[q].st = "alive" /\ proc'[q].ct = conn[c].owner
          /\ proc'[q].ct = proc[q].ct /\ proc'[q].image = proc[q].image /\ proc[q].st = "alive"
      BY <2>1, EntryTypes DEF OwnerLives, Fades
    <2>3. CASE SaysOf(q, table'[q])
      BY <2>1, <2>2, <2>3, EntryTypes DEF SaysOf
    <2>4. CASE table'[q] = table[q] /\ conn[c].conn_pid
      BY <2>1, <2>2, <2>4 DEF ServerInv, OwnEntry, OwnerLives
    <2> QED
      BY <2>1, <2>3, <2>4
  <1> QED
    BY <1>1, <1>3, <1>4, <1>5, <1>6 DEF ServerInv

LEMMA AnswerEffect ==
    ASSUME ServerInv, NEW c \in Conn, NEW hello \in BOOLEAN, Read(c), Answer(c, hello)
    PROVE  /\ Fades /\ proc' \in [Pid -> Kernel] /\ conn' \in [Conn -> Connection]
           /\ UNCHANGED <<clock, broker, roots>>
           /\ \A d \in Conn \ {c} : conn'[d] = conn[d]
           /\ \/ conn'[c] = NoConnection
              \/ /\ conn'[c].pid = conn[c].pid /\ conn'[c].owner = conn[c].owner
                 /\ conn'[c].st = "serving" /\ conn[c].st = "serving"
                 /\ conn'[c].conn_pid <=> conn[c].conn_pid \/ hello
  <1>1. proc' = Reap(proc, conn') /\ UNCHANGED <<clock, broker, roots>>
    BY DEF Answer
  <1>2. Fades /\ proc' \in [Pid -> Kernel]
    BY <1>1, ReapFades DEF ServerInv
  <1>3. conn \in [Conn -> Connection] /\ conn[c].st = "serving"
    BY DEF ServerInv, ServerTypeOK, Read
  <1>4. CASE OwnerLives(c)
    <2>1. CASE hello
      <3>1. conn' = [conn EXCEPT ![c] = [conn[c] EXCEPT !.conn_pid = TRUE]]
        BY <1>3, <1>4, <2>1 DEF Answer
      <3> QED
        BY <1>1, <1>2, <1>3, <2>1, <3>1 DEF Connection
    <2>2. CASE ~hello
      <3>1. conn' = conn
        BY <1>3, <1>4, <2>2 DEF Answer
      <3> QED
        BY <1>1, <1>2, <1>3, <2>2, <3>1
    <2> QED
      BY <2>1, <2>2
  <1>5. CASE ~OwnerLives(c)
    <2>1. conn' = [conn EXCEPT ![c] = NoConnection]
      BY <1>5 DEF Answer
    <2> QED
      BY <1>1, <1>2, <1>3, <2>1, EntryTypes
  <1> QED
    BY <1>4, <1>5

LEMMA AnsweredStep ==
    ASSUME ServerInv, NEW c \in Conn, NEW hello \in BOOLEAN, Read(c), Answer(c, hello),
           table' \in [Pid -> ProcEntries],
           \A q \in Pid : table'[q] = table[q] \/ SaysOf(q, table'[q]),
           hello => SaysOf(conn[c].pid, table'[conn[c].pid])
    PROVE  ServerInv'
  <1>1. ASSUME NEW d \in Conn
        PROVE  \/ conn'[d].st = "none" /\ ~conn'[d].conn_pid /\ conn'[d].owner = 0
               \/ /\ conn'[d].pid = conn[d].pid /\ conn'[d].owner = conn[d].owner
                  /\ conn'[d].st # "none" => conn[d].st # "none"
                  /\ conn'[d].conn_pid =>
                       /\ conn'[d].st = "serving"
                       /\ conn[d].conn_pid \/ SaysOf(conn[d].pid, table'[conn[d].pid])
    <2>1. CASE d = c
      BY <2>1, AnswerEffect, EntryTypes
    <2>2. CASE d # c
      <3>1. conn'[d] = conn[d]
        BY <2>2, AnswerEffect
      <3> QED
        BY <3>1 DEF ServerInv, Connections
    <2> QED
      BY <2>1, <2>2
  <1>2. /\ Fades /\ proc' \in [Pid -> Kernel] /\ conn' \in [Conn -> Connection]
        /\ UNCHANGED <<clock, broker, roots>>
    BY AnswerEffect
  <1> QED
    BY <1>1, <1>2, ServeStep

LEMMA HelloStep ==
    ASSUME ServerInv, NEW c \in Conn, Hello(c)
    PROVE  ServerInv'
  <1> DEFINE p == conn[c].pid
  <1>1. Read(c) /\ p \in Pid
    BY DEF Hello, Read, ServerInv, Connections
  <1>2. CASE Answer(c, FALSE) /\ UNCHANGED table
    BY <1>1, <1>2, AnsweredStep DEF ServerInv, ServerTypeOK, ProcEntries
  <1>3. ASSUME NEW image \in ImageProbes(p, "hello"), image # "failed", Answer(c, TRUE),
               table' = [table EXCEPT ![p] = HelloEntry(p, image)]
        PROVE  ServerInv'
    <2>1. Openable(p) /\ image = proc[p].image
      BY <1>3 DEF ImageProbes
    <2>2. CreateTime(p) = proc[p].ct /\ proc[p].ct # 0 /\ proc[p].ct <= clock
      BY <1>1, <2>1 DEF CreateTime, Openable, ServerInv, Times
    <2>3. /\ table \in [Pid -> ProcEntries] /\ proc[p].ct \in Time /\ image \in Image \cup {NoImage}
      BY <1>1, <2>1 DEF ServerInv, ServerTypeOK, Kernel, ProcEntries
    <2>4. SaysOf(p, HelloEntry(p, image))
      <3>1. CASE table[p] = NoEntry
        <4>1. resolve_new_entry_depth(p) \in 1..MaxDepth
          BY <1>1, ResolvedDepth DEF ServerInv
        <4>2. HelloEntry(p, image) = [depth |-> resolve_new_entry_depth(p), exe_lower |-> image,
                                      create_time |-> proc[p].ct, madeFor |-> proc[p].ct]
          BY <2>2, <3>1 DEF HelloEntry
        <4> QED
          BY <2>1, <2>2, <2>3, <4>1, <4>2, ServerConstants DEF SaysOf, MadeForRoot, ProcInfo
      <3>2. CASE table[p] # NoEntry
        <4>1. HelloEntry(p, image) = [table[p] EXCEPT !.exe_lower = image, !.create_time = proc[p].ct]
          BY <2>2, <3>2 DEF HelloEntry
        <4>2. table[p] \in ProcInfo /\ table[p].madeFor <= clock /\ MadeForRoot(table[p], p)
          BY <1>1, <2>3, <3>2 DEF ProcEntries, ServerInv, Times, RootEntries
        <4>3. /\ HelloEntry(p, image) \in ProcInfo
              /\ HelloEntry(p, image).depth = table[p].depth
              /\ HelloEntry(p, image).madeFor = table[p].madeFor
              /\ HelloEntry(p, image).exe_lower = image
              /\ HelloEntry(p, image).create_time = proc[p].ct
          BY <2>3, <4>1, <4>2 DEF ProcInfo
        <4> QED
          BY <2>1, <4>2, <4>3 DEF SaysOf, MadeForRoot
      <3> QED
        BY <3>1, <3>2
    <2>5. table' \in [Pid -> ProcEntries] /\ table'[p] = HelloEntry(p, image)
          /\ \A q \in Pid \ {p} : table'[q] = table[q]
      BY <1>1, <1>3, <2>3, <2>4 DEF SaysOf, ProcEntries
    <2> QED
      BY <1>1, <1>3, <2>4, <2>5, AnsweredStep
  <1> QED
    BY <1>2, <1>3 DEF Hello

LEMMA SpawnedChildStep ==
    ASSUME ServerInv, NEW c \in Conn, NEW child \in Pid, NEW exe \in Image, SpawnedChild(c, child, exe)
    PROVE  ServerInv'
  <1>1. Read(c) /\ Answer(c, FALSE) /\ table \in [Pid -> ProcEntries] /\ conn[c].pid \in Pid
    BY DEF SpawnedChild, Read, ServerInv, ServerTypeOK, Connections, ProcEntries
  <1>2. CASE UNCHANGED table
    BY <1>1, <1>2, AnsweredStep
  <1> DEFINE d == IF table[conn[c].pid] # NoEntry THEN table[conn[c].pid].depth ELSE 0
             entry(image) ==
               [depth |-> child_depth(d),
                exe_lower |-> IF image = "failed" THEN exe ELSE image,
                create_time |-> CreateTime(child), madeFor |-> CreateTime(child)]
  <1>3. ASSUME NEW image \in ImageProbes(child, "spawned"),
               table' = [table EXCEPT ![child] = entry(image)]
        PROVE  ServerInv'
    <2>1. child_depth(d) \in 1..MaxDepth
      BY <1>1, ChildDepth, EntryTypes DEF ProcEntries
    <2>2. /\ CreateTime(child) \in Time /\ CreateTime(child) <= clock
          /\ proc[child].st = "alive" => CreateTime(child) = proc[child].ct
      BY ServerConstants DEF CreateTime, Openable, ServerInv, ServerTypeOK, Times, Kernel, Time
    <2> HIDE DEF d
    <2>3. /\ image \in Image \cup {NoImage, "failed"}
          /\ proc[child].st = "alive" /\ "spawned" \notin ProbeFails =>
               image = proc[child].image /\ image # "failed"
      BY ServerConstants DEF ImageProbes, Openable, ServerInv, ServerTypeOK, Kernel
    <2>4. SaysOf(child, entry(image))
      <3>1. entry(image) \in ProcInfo
        BY <2>1, <2>2, <2>3, ServerConstants DEF ProcInfo
      <3>2. entry(image).depth # 0
        BY <2>1, ServerConstants
      <3> QED
        BY <2>2, <2>3, <3>1, <3>2 DEF SaysOf, MadeForRoot
    <2> HIDE DEF entry
    <2>5. table' \in [Pid -> ProcEntries] /\ table'[child] = entry(image)
          /\ \A q \in Pid \ {child} : table'[q] = table[q]
      BY <1>1, <1>3, <2>4 DEF SaysOf, ProcEntries
    <2> QED
      BY <1>1, <2>4, <2>5, AnsweredStep
  <1> QED
    BY <1>2, <1>3 DEF SpawnedChild

(* A connection changes and no entry does.                                  *)
LEMMA ConnectionStep ==
    ASSUME ServerInv, NEW c \in Conn, NEW new \in Connection,
           conn' = [conn EXCEPT ![c] = new],
           proc' = proc \/ proc' = Reap(proc, conn'), UNCHANGED <<clock, broker, roots, table>>,
           \/ new.st = "none" /\ ~new.conn_pid /\ new.owner = 0
           \/ /\ new.pid = conn[c].pid /\ new.owner = conn[c].owner /\ conn[c].st # "none"
              /\ new.conn_pid => new.st = "serving" /\ conn[c].conn_pid
    PROVE  ServerInv'
  <1>1. conn' \in [Conn -> Connection] /\ conn'[c] = new /\ \A d \in Conn \ {c} : conn'[d] = conn[d]
    BY DEF ServerInv, ServerTypeOK
  <1>2. Fades /\ proc' \in [Pid -> Kernel]
    <2>1. CASE proc' = proc
      BY <2>1 DEF Fades, ServerInv, ServerTypeOK
    <2>2. CASE proc' = Reap(proc, conn')
      BY <2>2, ReapFades DEF ServerInv
    <2> QED
      BY <2>1, <2>2
  <1>3. table' \in [Pid -> ProcEntries] /\ \A q \in Pid : table'[q] = table[q]
    BY DEF ServerInv, ServerTypeOK, ProcEntries
  <1>4. ASSUME NEW d \in Conn
        PROVE  \/ conn'[d].st = "none" /\ ~conn'[d].conn_pid /\ conn'[d].owner = 0
               \/ /\ conn'[d].pid = conn[d].pid /\ conn'[d].owner = conn[d].owner
                  /\ conn'[d].st # "none" => conn[d].st # "none"
                  /\ conn'[d].conn_pid => conn'[d].st = "serving" /\ conn[d].conn_pid
    BY <1>1 DEF ServerInv, Connections
  <1> QED
    BY <1>1, <1>2, <1>3, <1>4, ServeStep

LEMMA ConnectStep ==
    ASSUME ServerInv, NEW c \in Conn, NEW p \in Pid, Connect(c, p)
    PROVE  ServerInv'
  <1> DEFINE new == [NoConnection EXCEPT !.st = "open", !.pid = p, !.owner = proc[p].ct]
  <1>1. /\ new \in Connection /\ new.st = "open" /\ new.pid = p /\ new.owner = proc[p].ct
        /\ ~new.conn_pid
    <2>1. proc[p].ct \in Time
      BY DEF ServerInv, ServerTypeOK, Kernel
    <2>2. NoConnection \in Connection /\ ~NoConnection.conn_pid
      BY EntryTypes
    <2> QED
      BY <2>1, <2>2 DEF Connection
  <1>2. conn' = [conn EXCEPT ![c] = new] /\ UNCHANGED <<proc, clock, broker, roots, table>>
    BY DEF Connect
  <1> HIDE DEF new
  <1>3. /\ conn' \in [Conn -> Connection] /\ conn'[c] = new
        /\ \A d \in Conn \ {c} : conn'[d] = conn[d]
    BY <1>1, <1>2 DEF ServerInv, ServerTypeOK
  <1>4. ServerTypeOK' /\ RootEntries'
    BY <1>2, <1>3 DEF ServerInv, ServerTypeOK, RootEntries, MadeForRoot
  <1>5. Times' /\ Connections'
    BY <1>1, <1>2, <1>3 DEF ServerInv, Times, Connections
  <1>6. \A d \in Conn : OwnEntry(d)'
    BY <1>1, <1>2, <1>3 DEF ServerInv, OwnEntry, OwnerLives
  <1> QED
    BY <1>4, <1>5, <1>6 DEF ServerInv

(* The other launcher serves from its own table: its target's entry.        *)
LEMMA TakeOverStep ==
    ASSUME ServerInv, TakeOver
    PROVE  ServerInv'
  <1> DEFINE s == 3 - broker
             none == [c \in Conn |-> NoConnection]
             ended == [p \in Pid |-> IF proc[p].st = "alive" /\ proc[p].role = "guest"
                                          /\ proc[p].session = broker
                                       THEN [proc[p] EXCEPT !.st = "exited"] ELSE proc[p]]
  <1>1. /\ s \in Session /\ roots[s].pid \in Pid /\ broker' = s /\ conn' = none
        /\ proc' = Reap(ended, none) /\ UNCHANGED <<clock, roots>>
        /\ table' = [p \in Pid |-> IF p = roots[s].pid THEN roots[s].info ELSE NoEntry]
    BY DEF TakeOver, Session, ServerInv, ServerTypeOK
  <1>2. /\ ended \in [Pid -> Kernel]
        /\ \A p \in Pid : /\ ended[p].ct = proc[p].ct /\ ended[p].root = proc[p].root
                          /\ ended[p].image = proc[p].image
                          /\ proc[p].st = "free" => ended[p].st = "free"
                          /\ ended[p].st = "alive" => proc[p].st = "alive"
    <2>1. ASSUME NEW p \in Pid
          PROVE  LET e == [proc[p] EXCEPT !.st = "exited"]
                 IN  /\ e \in Kernel /\ e.ct = proc[p].ct /\ e.root = proc[p].root
                     /\ e.image = proc[p].image /\ e.st = "exited" /\ proc[p] \in Kernel
      <3>1. proc[p] \in Kernel
        BY DEF ServerInv, ServerTypeOK
      <3> QED
        BY <3>1 DEF Kernel
    <2> QED
      BY <2>1
  <1> HIDE DEF s, ended
  <1>3. Fades /\ proc' \in [Pid -> Kernel]
    BY <1>1, <1>2, Reaped DEF Fades
  <1>4. \A c \in Conn : conn'[c] = NoConnection
    BY <1>1
  <1>5. ServerTypeOK'
    <2>1. conn' \in [Conn -> Connection]
      BY <1>1, EntryTypes
    <2>2. roots[s].info \in ProcEntries
      BY <1>1 DEF ServerInv, ServerTypeOK, ProcEntries
    <2>3. table' \in [Pid -> ProcEntries]
      BY <1>1, <2>2 DEF ProcEntries
    <2> QED
      BY <1>1, <1>3, <2>1, <2>3 DEF ServerInv, ServerTypeOK, ProcEntries
  <1>6. /\ \A p \in Pid : proc'[p].ct <= clock' /\ (proc'[p].st # "free" => proc'[p].ct # 0)
        /\ \A p \in Pid, e \in ProcEntries : MadeForRoot(e, p) => MadeForRoot(e, p)'
    BY <1>1, <1>3, FadesStep
  <1>7. Times'
    BY <1>1, <1>4, <1>6, EntryTypes, ServerConstants
    DEF ServerInv, Times, ServerTypeOK, Time
  <1>8. RootEntries'
    <2>1. ASSUME NEW z \in Session, roots[z].pid # NoPid
          PROVE  MadeForRoot(roots[z].info, roots[z].pid)'
      <3>1. /\ MadeForRoot(roots[z].info, roots[z].pid) /\ roots'[z] = roots[z]
            /\ roots[z].pid \in Pid /\ roots[z].info \in ProcEntries
        BY <1>1, <2>1 DEF ServerInv, ServerTypeOK, RootEntries, ProcEntries
      <3> QED
        BY <1>6, <3>1 DEF MadeForRoot
    <2>2. ASSUME NEW p \in Pid
          PROVE  MadeForRoot(table[p], p)'
      <3>1. CASE p = roots[s].pid
        <4>1. table'[p] = roots'[s].info /\ roots'[s].pid = p /\ roots[s].pid # NoPid
          BY <1>1, <3>1, ServerConstants
        <4> QED
          BY <1>1, <2>1, <4>1 DEF MadeForRoot
      <3>2. CASE p # roots[s].pid
        <4>1. table'[p] = NoEntry
          BY <1>1, <3>2
        <4> QED
          BY <4>1, EntryTypes DEF MadeForRoot
      <3> QED
        BY <3>1, <3>2
    <2> QED
      BY <1>1, <2>1, <2>2 DEF RootEntries
  <1>9. Connections' /\ \A c \in Conn : OwnEntry(c)'
    BY <1>4, EntryTypes DEF Connections, OwnEntry
  <1> QED
    BY <1>5, <1>7, <1>8, <1>9 DEF ServerInv

LEMMA ExitStep ==
    ASSUME ServerInv, NEW p \in Pid, Exit(p)
    PROVE  ServerInv'
  <1> DEFINE dead == [proc[p] EXCEPT !.st = "exited"]
             ps == [proc EXCEPT ![p] = dead]
  <1>1. /\ proc' = Reap(ps, conn) /\ UNCHANGED <<clock, broker, roots, table, conn>>
        /\ proc[p].st = "alive"
    BY DEF Exit
  <1>2. /\ dead \in Kernel /\ dead.ct = proc[p].ct /\ dead.root = proc[p].root
        /\ dead.image = proc[p].image /\ dead.st = "exited"
    <2>1. proc[p] \in Kernel
      BY DEF ServerInv, ServerTypeOK
    <2> QED
      BY <2>1 DEF Kernel
  <1> HIDE DEF dead
  <1>3. ps \in [Pid -> Kernel] /\ ps[p] = dead /\ \A q \in Pid \ {p} : ps[q] = proc[q]
    BY <1>2 DEF ServerInv, ServerTypeOK
  <1> HIDE DEF ps
  <1>4. Fades /\ proc' \in [Pid -> Kernel]
    <2>1. ASSUME NEW q \in Pid
          PROVE  \/ proc'[q] = Free
                 \/ /\ proc'[q].ct = proc[q].ct /\ proc'[q].root = proc[q].root
                    /\ proc'[q].image = proc[q].image
                    /\ proc[q].st = "free" => proc'[q].st = "free"
                    /\ proc'[q].st = "alive" => proc[q].st = "alive"
      <3>1. proc'[q] = ps[q] \/ proc'[q] = Free
        BY <1>1, <1>3, Reaped
      <3>2. CASE q = p
        BY <1>1, <1>2, <1>3, <3>1, <3>2
      <3>3. CASE q # p
        BY <1>3, <3>1, <3>3
      <3> QED
        BY <3>2, <3>3
    <2> QED
      BY <1>1, <1>3, <2>1, Reaped DEF Fades
  <1>5. table' \in [Pid -> ProcEntries] /\ conn' \in [Conn -> Connection]
    BY <1>1 DEF ServerInv, ServerTypeOK, ProcEntries
  <1>6. ASSUME NEW c \in Conn
        PROVE  /\ conn'[c] = conn[c]
               /\ conn'[c].conn_pid => conn'[c].st = "serving"
    BY <1>1 DEF ServerInv, Connections
  <1> QED
    BY <1>1, <1>4, <1>5, <1>6, ServeStep

LEMMA LaunchRootStep ==
    ASSUME ServerInv, NEW p \in Pid, NEW s \in Session, NEW image \in Image, NEW arg0 \in Image,
           LaunchRoot(p, s, image, arg0)
    PROVE  ServerInv'
  <1> DEFINE entry == [depth |-> 0, exe_lower |-> arg0, create_time |-> clock + 1,
                       madeFor |-> clock + 1]
             own == [pid |-> p, info |-> entry]
  <1>1. /\ Started(p, NoPid, "guest", s, image, TRUE) /\ UNCHANGED <<broker, conn>>
        /\ roots' = [roots EXCEPT ![s] = own]
        /\ table' = IF s = broker THEN [table EXCEPT ![p] = entry] ELSE table
    BY DEF LaunchRoot
  <1>2. clock + 1 \in Time
    BY <1>1, ServerConstants DEF Started, ServerInv, ServerTypeOK, Time
  <1>3. entry \in ProcInfo /\ entry.madeFor = clock + 1
    BY <1>2, ServerConstants DEF ProcInfo
  <1> HIDE DEF entry
  <1>4. own \in [pid : Pid \cup {NoPid}, info : ProcEntries] /\ own.pid = p /\ own.info = entry
    BY <1>3 DEF ProcEntries
  <1> HIDE DEF own
  <1>5. /\ roots' \in [Session -> [pid : Pid \cup {NoPid}, info : ProcEntries]]
        /\ roots'[s] = own /\ \A z \in Session \ {s} : roots'[z] = roots[z]
    BY <1>1, <1>4 DEF ServerInv, ServerTypeOK, ProcEntries
  <1>6. /\ table' \in [Pid -> ProcEntries]
        /\ \A q \in Pid : table'[q] = table[q] \/ (q = p /\ table'[q] = entry)
    BY <1>1, <1>3 DEF ServerInv, ServerTypeOK, ProcEntries
  <1>7. /\ \A q \in Pid : table'[q] = table[q] \/ (q = p /\ table'[q].madeFor = clock + 1)
        /\ \A z \in Session : roots'[z] = roots[z]
                               \/ (roots'[z].pid = p /\ roots'[z].info.madeFor = clock + 1)
    BY <1>3, <1>4, <1>5, <1>6
  <1> QED
    BY <1>1, <1>5, <1>6, <1>7, StartedStep

LEMMA ServerInvStep == ServerInv /\ [ServerNext]_serverVars => ServerInv'
  <1> SUFFICES ASSUME ServerInv, [ServerNext]_serverVars PROVE ServerInv'
    OBVIOUS
  <1>0. /\ table \in [Pid -> ProcEntries]
        /\ roots \in [Session -> [pid : Pid \cup {NoPid}, info : ProcEntries]]
        /\ conn \in [Conn -> Connection]
    BY DEF ServerInv, ServerTypeOK, ProcEntries
  <1>1. ASSUME NEW p \in Pid, NEW s \in Session, NEW image \in Image, NEW arg0 \in Image,
               LaunchRoot(p, s, image, arg0)
        PROVE  ServerInv'
    BY <1>1, LaunchRootStep
  <1>2. ASSUME NEW p \in Pid, NEW q \in Pid, NEW image \in Image, SpawnChild(p, q, image)
        PROVE  ServerInv'
    <2>1. proc[p].session \in Session
      BY DEF ServerInv, ServerTypeOK, Kernel
    <2>2. Started(q, p, "guest", proc[p].session, image, FALSE) /\ UNCHANGED <<broker, roots, table, conn>>
      BY <1>2 DEF SpawnChild
    <2>3. /\ table' \in [Pid -> ProcEntries] /\ table' = table /\ roots' = roots
          /\ roots' \in [Session -> [pid : Pid \cup {NoPid}, info : ProcEntries]]
      BY <1>0, <2>2
    <2> QED
      BY <2>1, <2>2, <2>3, StartedStep
  <1>3. ASSUME NEW p \in Pid, NEW role \in {"launcher", "stranger"}, StartOutsider(p, role)
        PROVE  ServerInv'
    <2>1. Started(p, NoPid, role, 1, NoImage, FALSE) /\ UNCHANGED <<broker, roots, table, conn>>
      BY <1>3 DEF StartOutsider
    <2>2. /\ table' \in [Pid -> ProcEntries] /\ table' = table /\ roots' = roots
          /\ roots' \in [Session -> [pid : Pid \cup {NoPid}, info : ProcEntries]]
      BY <1>0, <2>1
    <2>3. /\ 1 \in Session /\ NoPid \in Pid \cup {NoPid} /\ NoImage \in Image \cup {NoImage}
          /\ role \in {"guest", "launcher", "stranger"} /\ FALSE \in BOOLEAN
      BY DEF Session
    <2> QED
      BY <2>1, <2>2, <2>3, StartedStep
  <1>4. ASSUME NEW p \in Pid, Exit(p)
        PROVE  ServerInv'
    BY <1>4, ExitStep
  <1>5. CASE TakeOver
    BY <1>5, TakeOverStep
  <1>6. ASSUME NEW c \in Conn, NEW p \in Pid, Connect(c, p)
        PROVE  ServerInv'
    BY <1>6, ConnectStep
  <1>7. ASSUME NEW c \in Conn, accept_worker(c)
        PROVE  ServerInv'
    <2> DEFINE st == IF is_owned_client_pid(conn[c].pid) THEN "admitted" ELSE "preadmission"
               new == [conn[c] EXCEPT !.st = st]
    <2>1. conn' = [conn EXCEPT ![c] = new] /\ UNCHANGED <<proc, clock, broker, roots, table>>
          /\ conn[c].st = "open"
      BY <1>7 DEF accept_worker
    <2>2. /\ new \in Connection /\ new.pid = conn[c].pid /\ new.owner = conn[c].owner
          /\ new.conn_pid = conn[c].conn_pid
      BY <1>0 DEF Connection
    <2>3. ~conn[c].conn_pid
      BY <2>1 DEF ServerInv, Connections
    <2> HIDE DEF new
    <2> QED
      BY <2>1, <2>2, <2>3, ConnectionStep
  <1>8. ASSUME NEW c \in Conn, StartHandler(c)
        PROVE  ServerInv'
    <2> DEFINE ct == CreateTime(conn[c].pid)
               new == [conn[c] EXCEPT !.st = "serving", !.handle = ct]
    <2>1. conn' = [conn EXCEPT ![c] = new] /\ UNCHANGED <<proc, clock, broker, roots, table>>
          /\ conn[c].st = "admitted"
      BY <1>8 DEF StartHandler
    <2>2. ct \in Time
      BY <2>1, ServerConstants DEF CreateTime, ServerInv, ServerTypeOK, Connections, Kernel, Time
    <2> HIDE DEF ct
    <2>3. /\ new \in Connection /\ new.pid = conn[c].pid /\ new.owner = conn[c].owner
          /\ new.conn_pid = conn[c].conn_pid
      BY <1>0, <2>2 DEF Connection
    <2>4. ~conn[c].conn_pid
      BY <2>1 DEF ServerInv, Connections
    <2> HIDE DEF new
    <2> QED
      BY <2>1, <2>3, <2>4, ConnectionStep
  <1>9. ASSUME NEW c \in Conn, handle_preadmission_connection(c)
        PROVE  ServerInv'
    <2> DEFINE ct == CreateTime(conn[c].pid)
               new == [conn[c] EXCEPT !.st = "attached", !.handle = ct]
    <2>1. /\ conn' = [conn EXCEPT ![c] = new] \/ conn' = [conn EXCEPT ![c] = NoConnection]
          /\ proc' = Reap(proc, conn') /\ UNCHANGED <<clock, broker, roots, table>>
          /\ conn[c].st = "preadmission"
      BY <1>9 DEF handle_preadmission_connection
    <2>2. ct \in Time
      BY <2>1, ServerConstants DEF CreateTime, ServerInv, ServerTypeOK, Connections, Kernel, Time
    <2> HIDE DEF ct
    <2>3. /\ new \in Connection /\ new.pid = conn[c].pid /\ new.owner = conn[c].owner
          /\ new.conn_pid = conn[c].conn_pid
      BY <1>0, <2>2 DEF Connection
    <2>4. ~conn[c].conn_pid
      BY <2>1 DEF ServerInv, Connections
    <2> HIDE DEF new
    <2>5. CASE conn' = [conn EXCEPT ![c] = new]
      BY <2>1, <2>3, <2>4, <2>5, ConnectionStep
    <2>6. CASE conn' = [conn EXCEPT ![c] = NoConnection]
      BY <2>1, <2>6, EntryTypes, ConnectionStep
    <2> QED
      BY <2>1, <2>5, <2>6
  <1>10. ASSUME NEW c \in Conn, Hello(c)
         PROVE  ServerInv'
    BY <1>10, HelloStep
  <1>11. ASSUME NEW c \in Conn, NEW q \in Pid, NEW exe \in Image, SpawnedChild(c, q, exe)
         PROVE  ServerInv'
    BY <1>11, SpawnedChildStep
  <1>12. ASSUME NEW c \in Conn, Decide(c)
         PROVE  ServerInv'
    BY <1>0, <1>12, AnsweredStep DEF Decide
  <1>13. ASSUME NEW c \in Conn, EndHandler(c)
         PROVE  ServerInv'
    BY <1>13, EntryTypes, ConnectionStep DEF EndHandler
  <1>14. CASE UNCHANGED serverVars
    BY <1>14 DEF serverVars, ServerInv, ServerTypeOK, Times, RootEntries, MadeForRoot, Connections,
       OwnEntry, OwnerLives
  <1> QED
    BY <1>1, <1>2, <1>3, <1>4, <1>5, <1>6, <1>7, <1>8, <1>9, <1>10, <1>11, <1>12, <1>13, <1>14
    DEF ServerNext

LEMMA ServerInvInit == ServerInit => ServerInv
  <1> SUFFICES ASSUME ServerInit PROVE ServerInv
    OBVIOUS
  <1>1. /\ \A p \in Pid : proc[p] = Free /\ table[p] = NoEntry
        /\ \A s \in Session : roots[s].pid = NoPid /\ roots[s].info = NoEntry
        /\ \A c \in Conn : conn[c] = NoConnection
        /\ clock = 0
    BY DEF ServerInit
  <1>2. ServerTypeOK
    <2>1. [pid |-> NoPid, info |-> NoEntry] \in [pid : Pid \cup {NoPid}, info : ProcInfo \cup {NoEntry}]
      OBVIOUS
    <2> QED
      BY <2>1, EntryTypes, ServerConstants DEF ServerInit, ServerTypeOK, Session, Time
  <1>3. Times /\ RootEntries
    BY <1>1, EntryTypes DEF Times, RootEntries, MadeForRoot
  <1>4. Connections /\ \A c \in Conn : OwnEntry(c)
    BY <1>1, EntryTypes DEF Connections, OwnEntry
  <1> QED
    BY <1>2, <1>3, <1>4 DEF ServerInv

-----------------------------------------------------------------------------
(* The types of the server's state.                                         *)
THEOREM ServerTypes == ServerSpec => []ServerTypeOK
  <1>1. ServerInv => ServerTypeOK
    BY DEF ServerInv
  <1> QED
    BY <1>1, ServerInvInit, ServerInvStep, PTL DEF ServerSpec

(* For any number of processes, pipe instances, take-overs and reuses of a  *)
(* PID, depth 0 is a launcher's own target's (resolve_new_entry_depth,      *)
(* child_depth).                                                            *)
THEOREM DepthZeroRoots == ServerSpec => []DepthZeroIsRoot
  <1>1. ServerInv => DepthZeroIsRoot
    BY DEF ServerInv, RootEntries, MadeForRoot, DepthZeroIsRoot
  <1> QED
    BY <1>1, ServerInvInit, ServerInvStep, PTL DEF ServerSpec

(* The context of a decision is the client's own if the kernel tells the    *)
(* image of a child that is alive when its parent reports it; otherwise the *)
(* report is used (SpawnedChild).                                           *)
THEOREM OwnContext ==
    ASSUME "spawned" \notin ProbeFails
    PROVE  ServerSpec => []ContextIsOwn
  <1>1. ServerInv => ContextIsOwn
    BY DEF ServerInv, OwnEntry, ContextIsOwn, Serving, decide_context
  <1> QED
    BY <1>1, ServerInvInit, ServerInvStep, PTL DEF ServerSpec

(* The entry behind a context was made for the client's own process, told   *)
(* apart by its creation time from whoever had the PID before, whatever the *)
(* kernel answers.                                                          *)
ContextIsOfOwner == \A c \in Serving :
    conn[c].conn_pid /\ OwnerLives(c) =>
      decide_context(c) # NoEntry /\ decide_context(c).create_time = conn[c].owner

(* ... for all values of the constants (handle_connection).                 *)
THEOREM OwnersContext == ServerSpec => []ContextIsOfOwner
  <1>1. ServerInv => ContextIsOfOwner
    BY DEF ServerInv, OwnEntry, ContextIsOfOwner, Serving, decide_context
  <1> QED
    BY <1>1, ServerInvInit, ServerInvStep, PTL DEF ServerSpec
=============================================================================
