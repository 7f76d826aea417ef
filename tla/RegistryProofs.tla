--------------------------- MODULE RegistryProofs ---------------------------
(***************************************************************************)
(* Proofs about views that a guest is shown: the registry (Registry), where*)
(* no hooked call changes the host behind a rule and an answered write     *)
(* survives every crash; the listing of a directory (DirListing), which    *)
(* ends complete and shows nothing twice or hidden; and the page of records*)
(* that each call of a listing edits (DirRecords), where the caller reads  *)
(* every name that is not hidden and the overlay's behind them.            *)
(***************************************************************************)
EXTENDS Registry, DirListing, DirRecords, SequenceTheorems, WellFoundedInduction, TLAPS

Entry == RegEntry \cup {Absent}
Call == [pc : {"idle", "send", "flush", "flushed"}, key : Key \cup {NoKey},
         name : Name \cup {NoName}, entry : Entry]

(* What does not change, and what the hooked calls in progress are.         *)
CallTypes ==
    /\ regRules \in [Key -> {"none", "Deny", "Passthrough", "Cow"}]
    /\ mocks \subseteq Key \X Name
    /\ call \in [Caller -> Call]
    /\ \A t \in Caller : call[t].pc # "idle" => call[t].key \in Key /\ call[t].entry \in RegEntry
    /\ meant \in [Key -> [Name -> SUBSET Entry]]

(* The caller that holds the mutex has put its entry into the map, and has  *)
(* it in the directory of the key once its flush is done.                   *)
Holder == \A t \in Caller :
    /\ call[t].pc \in {"flush", "flushed"} =>
         /\ regUp = "up"
         /\ call[t].name # NoName => values[call[t].key][call[t].name] = call[t].entry
    /\ call[t].pc = "flushed" /\ call[t].name # NoName =>
         workreg[friendly_to_overlay[call[t].key]].values[call[t].name] = to_json(call[t].entry)

RegInv == RegTypeOK /\ CallTypes /\ Holder /\ AnsweredIsDurable

-----------------------------------------------------------------------------
(* The codec of values.json: what parses again is what was stored.          *)

LEMMA Decoded ==
    ASSUME NEW r \in Raw
    PROVE  /\ reg_value_from_raw(r).typ \in {"Dword", "Sz", "Binary"}
           /\ reg_value_from_raw(r).data \in {"U32", "Bytes", "String"}
           /\ reg_value_from_raw(r) \in RegEntry
  BY RegistryConstants DEF reg_value_from_raw, RegEntry

LEMMA CodecKeeps ==
    ASSUME NEW v \in Entry, Parses(to_json(v))
    PROVE  from_json(to_json(v)) = v
  <1>1. CASE v \in {Absent, Deleted}
    BY <1>1 DEF Absent, Deleted, to_json, from_json
  <1>2. ASSUME NEW r \in Raw, v = reg_value_from_raw(r)
        PROVE  from_json(to_json(v)) = v
    <2>1. r \in {"dword", "short_dword", "string", "binary"}
      BY RegistryConstants
    <2>2. CASE r = "dword"
      BY <1>2, <2>2 DEF reg_value_from_raw, to_json, from_json
    <2>3. CASE r = "short_dword"
      BY <1>2, <2>3 DEF reg_value_from_raw, to_json, from_json, Parses
    <2>4. CASE r = "string"
      BY <1>2, <2>4 DEF reg_value_from_raw, to_json, from_json
    <2>5. CASE r = "binary"
      BY <1>2, <2>5 DEF reg_value_from_raw, to_json, from_json
    <2> QED
      BY <2>1, <2>2, <2>3, <2>4, <2>5
  <1> QED
    BY <1>1, <1>2 DEF Entry, RegEntry

LEMMA EntryTypes ==
    /\ Deleted \in RegEntry /\ Absent \in Entry /\ RegEntry \subseteq Entry
    /\ \A v \in Entry : to_json(v) \in Json
    /\ idle \in Call /\ idle.pc = "idle"
  BY DEF RegEntry, Entry, Json, idle, Call

-----------------------------------------------------------------------------
(* The host's registry.                                                     *)

(* A call that the broker lets through is one for a value the rules leave   *)
(* to the host, or a mocked one.                                            *)
LEMMA LetThrough ==
    ASSUME CallTypes, NEW k \in Key, NEW n \in Name \cup {NoName},
           NEW m \in check_write_mode(k, n), m \notin {"Deny", "Cow"}
    PROVE  /\ k \in Persistence => k \in Environment /\ n \in EnvNames
           /\ regRules[k] = "Passthrough" \/ <<k, n>> \in mocks
           /\ n = NoName => k \notin Persistence /\ regRules[k] = "Passthrough"
  <1>1. m = resp_reg_decide(k, n, TRUE)
    BY DEF check_write_mode
  <1>2. ~(k \in Persistence /\ ~(k \in Environment /\ n \in EnvNames))
    BY <1>1 DEF resp_reg_decide
  <1>3. m = compute_reg(k, n, TRUE)
    BY <1>1, <1>2 DEF resp_reg_decide
  <1>4. <<k, n>> \in mocks \/ m = RuleMode(k, TRUE)
    BY <1>3 DEF compute_reg
  <1>5. <<k, n>> \in mocks \/ regRules[k] = "Passthrough"
    BY <1>4 DEF RuleMode, CallTypes
  <1>6. n = NoName => n \notin Name /\ n \notin EnvNames /\ <<k, n>> \notin mocks
    BY RegistryConstants DEF CallTypes
  <1> QED
    BY <1>2, <1>5, <1>6

(* What one step may do to one key of the host.                             *)
GuardedStep(k) ==
    hive[k] # hive'[k] =>
      LET n == (hive[k].names \ hive'[k].names) \cup (hive'[k].names \ hive[k].names)
      IN  /\ k \in Persistence => k \in Environment /\ n # {} /\ n \subseteq EnvNames
          /\ regRules[k] # "Passthrough" => n # {} /\ \A m \in n : <<k, m>> \in mocks

HiveType == hive \in [Key -> [present : BOOLEAN, names : SUBSET Name]]

(* A value added to or taken from one key.                                  *)
LEMMA OneValue ==
    ASSUME HiveType, CallTypes, NEW k \in Key, NEW n \in Name,
           NEW m \in check_write_mode(k, n), m \notin {"Deny", "Cow"},
           NtSetValueKey(k, n) \/ NtDeleteValueKey(k, n)
    PROVE  (\A j \in Key : GuardedStep(j)) /\ HiveType'
  <1>1. /\ k \in Persistence => k \in Environment /\ n \in EnvNames
        /\ regRules[k] = "Passthrough" \/ <<k, n>> \in mocks
    BY LetThrough
  <1>2. /\ \A j \in Key \ {k} : hive'[j] = hive[j]
        /\ hive'[k].present = hive[k].present
        /\ hive'[k].names \in {hive[k].names, hive[k].names \cup {n}, hive[k].names \ {n}}
        /\ HiveType'
    BY DEF HiveType, NtSetValueKey, NtDeleteValueKey
  <1>3. hive'[k] # hive[k] => hive'[k].names # hive[k].names
    BY <1>2 DEF HiveType
  <1> DEFINE changed == (hive[k].names \ hive'[k].names) \cup (hive'[k].names \ hive[k].names)
  <1>4. hive'[k] # hive[k] => changed = {n}
    BY <1>2, <1>3
  <1> HIDE DEF changed
  <1>5. GuardedStep(k)
    BY <1>1, <1>4 DEF GuardedStep, changed
  <1> QED
    BY <1>2, <1>5 DEF GuardedStep

(* A key created or deleted.                                                *)
LEMMA OneKey ==
    ASSUME HiveType, CallTypes, NEW k \in Key,
           NEW m \in check_write_mode(k, NoName), m \notin {"Deny", "Cow"},
           NtCreateKey(k) \/ NtDeleteKey(k)
    PROVE  (\A j \in Key : GuardedStep(j)) /\ HiveType'
  <1>1. k \notin Persistence /\ regRules[k] = "Passthrough"
    BY LetThrough
  <1>2. (\A j \in Key \ {k} : hive'[j] = hive[j]) /\ HiveType'
    <2>1. CASE NtCreateKey(k)
      BY <2>1 DEF HiveType, NtCreateKey
    <2>2. CASE NtDeleteKey(k)
      <3>1. [present |-> FALSE, names |-> {}] \in [present : BOOLEAN, names : SUBSET Name]
        OBVIOUS
      <3> QED
        BY <2>2, <3>1 DEF HiveType, NtDeleteKey
    <2> QED
      BY <2>1, <2>2
  <1> QED
    BY <1>1, <1>2 DEF GuardedStep

LEMMA HostStep ==
    ASSUME HiveType, CallTypes, [RegNext]_regVars
    PROVE  (\A k \in Key : GuardedStep(k)) /\ HiveType'
  <1>0. UNCHANGED hive => (\A k \in Key : GuardedStep(k)) /\ HiveType'
    BY DEF GuardedStep, HiveType
  <1>1. ASSUME NEW t \in Caller, NEW k \in Key, NEW acc \in Access, hook_nt_create_key(t, k, acc)
        PROVE  (\A j \in Key : GuardedStep(j)) /\ HiveType'
    <2>1. UNCHANGED hive \/ \E m \in check_write_mode(k, NoName) :
             LET a == nt_create_key_effective_access(acc, m)
             IN  nt_create_key_action(a, m) = "Proceed" /\ NtCreateKey(k)
      BY <1>1 DEF hook_nt_create_key, NtOpenKey
    <2>2. ASSUME NEW m \in check_write_mode(k, NoName),
                 nt_create_key_action(nt_create_key_effective_access(acc, m), m) = "Proceed"
          PROVE  m \notin {"Deny", "Cow"}
      BY <2>2 DEF nt_create_key_action
    <2> QED
      BY <1>0, <2>1, <2>2, OneKey
  <1>2. ASSUME NEW t \in Caller, NEW k \in Key, NEW n \in Name, NEW raw \in Raw,
               hook_nt_set_value_key(t, k, n, raw)
        PROVE  (\A j \in Key : GuardedStep(j)) /\ HiveType'
    <2>1. UNCHANGED hive \/ \E m \in check_write_mode(k, n) :
             m \notin {"Deny", "Cow"} /\ NtSetValueKey(k, n)
      BY <1>2 DEF hook_nt_set_value_key
    <2> QED
      BY <1>0, <2>1, OneValue
  <1>3. ASSUME NEW t \in Caller, NEW k \in Key, NEW n \in Name, hook_nt_delete_value_key(t, k, n)
        PROVE  (\A j \in Key : GuardedStep(j)) /\ HiveType'
    <2>1. UNCHANGED hive \/ \E m \in check_write_mode(k, n) :
             m \notin {"Deny", "Cow"} /\ NtDeleteValueKey(k, n)
      BY <1>3 DEF hook_nt_delete_value_key
    <2> QED
      BY <1>0, <2>1, OneValue
  <1>4. ASSUME NEW t \in Caller, NEW k \in Key, hook_nt_delete_key(t, k)
        PROVE  (\A j \in Key : GuardedStep(j)) /\ HiveType'
    <2>1. UNCHANGED hive \/ \E m \in check_write_mode(k, NoName) :
             m \notin {"Deny", "Cow"} /\ NtDeleteKey(k)
      BY <1>4 DEF hook_nt_delete_key
    <2> QED
      BY <1>0, <2>1, OneKey
  <1>5. ASSUME NEW t \in Caller, NEW k \in Key,
               \/ move_key_refused(t, k) \/ hive_file_refused(t, k) \/ transacted_refused(t, k)
               \/ \E n \in Name \cup {NoName} : RequestDelete(t, k, n)
        PROVE  UNCHANGED hive
    BY <1>5 DEF move_key_refused, hive_file_refused, transacted_refused, RequestDelete
  <1>6. ASSUME NEW t \in Caller,
               set(t) \/ flush_key(t) \/ RegWriteOk(t) \/ RegWriteErr(t) \/ RegWriteLost(t)
        PROVE  UNCHANGED hive
    BY <1>6 DEF set, flush_key, RegWriteOk, RegWriteErr, RegWriteLost, regRest
  <1>7. ASSUME RegCrash \/ load_from_disk
        PROVE  UNCHANGED hive
    BY <1>7 DEF RegCrash, load_from_disk, regRest
  <1>8. CASE UNCHANGED regVars
    BY <1>0, <1>8 DEF regVars
  <1> QED
    BY <1>0, <1>1, <1>2, <1>3, <1>4, <1>5, <1>6, <1>7, <1>8 DEF RegNext

-----------------------------------------------------------------------------
(* The store.                                                               *)

(* A step of a hook: at most one caller now waits for the broker.           *)
Sends(t) ==
    /\ call[t].pc = "idle"
    /\ \A u \in Caller \ {t} : call'[u] = call[u]
    /\ call'[t] = call[t] \/ call'[t].pc = "send"
    /\ call' \in [Caller -> Call]
    /\ call'[t].pc # "idle" => call'[t].key \in Key /\ call'[t].entry \in RegEntry

LEMMA SendsStep ==
    ASSUME RegInv, NEW t \in Caller, Sends(t), HiveType', calls' \in 0..MaxCalls,
           UNCHANGED <<regStore, regPolicy>>
    PROVE  RegInv'
  <1> USE DEF RegInv, Sends, regStore, regPolicy, regHistory, OwnDirectory
  <1>1. RegTypeOK'
    BY DEF RegTypeOK, HiveType
  <1>2. CallTypes'
    BY DEF CallTypes
  <1>3. Holder'
    BY DEF Holder
  <1>4. AnsweredIsDurable'
    BY DEF AnsweredIsDurable
  <1> QED
    BY <1>1, <1>2, <1>3, <1>4

(* A caller gives the call up, having changed nothing.                      *)
LEMMA GivesUpStep ==
    ASSUME RegInv, NEW t \in Caller, call' = [call EXCEPT ![t] = idle],
           owner' = IF owner = t THEN NoCaller ELSE owner,
           UNCHANGED <<regRest, values, deleted, workreg, regUp, meant, regHistory>>
    PROVE  RegInv'
  <1>1. /\ call'[t] = idle /\ \A u \in Caller \ {t} : call'[u] = call[u]
        /\ call' \in [Caller -> Call] /\ idle.pc = "idle"
    BY EntryTypes DEF RegInv, CallTypes
  <1> USE DEF RegInv, regRest, regPolicy, regHistory, OwnDirectory
  <1>2. RegTypeOK'
    BY <1>1, RegistryConstants DEF RegTypeOK
  <1>3. CallTypes'
    BY <1>1 DEF CallTypes
  <1>4. Holder'
    BY <1>1 DEF Holder
  <1>5. AnsweredIsDurable'
    BY DEF AnsweredIsDurable
  <1> QED
    BY <1>2, <1>3, <1>4, <1>5

(* The map is changed by the caller that takes the mutex.                   *)
LEMMA SetStep ==
    ASSUME RegInv, NEW t \in Caller, set(t)
    PROVE  RegInv'
  <1> DEFINE c == call[t]
  <1>1. /\ c.key \in Key /\ c.name \in Name \cup {NoName} /\ c.entry \in RegEntry /\ c.pc = "send"
        /\ owner = NoCaller /\ regUp = "up" /\ NoCaller \notin Caller
        /\ \A u \in Caller : call[u].pc \notin {"flush", "flushed"}
    BY RegistryConstants DEF set, RegInv, RegTypeOK, CallTypes, Call
  <1>2. /\ call'[t].pc = "flush" /\ call'[t].key = c.key /\ call'[t].name = c.name
        /\ call'[t].entry = c.entry /\ call' \in [Caller -> Call]
        /\ \A u \in Caller \ {t} : call'[u] = call[u]
    BY DEF set, RegInv, CallTypes, Call
  <1>3. UNCHANGED <<hive, regRules, mocks, calls, workreg, regUp, mixed, reloaded>> /\ owner' = t
    BY DEF set, regRest, regPolicy, regHistory
  <1> USE DEF OwnDirectory
  <1>4. CASE c.name = NoName
    <2>1. deleted' = deleted \cup {c.key} /\ UNCHANGED <<values, meant>>
      BY <1>4 DEF set
    <2>2. RegTypeOK'
      BY <1>1, <1>2, <1>3, <2>1 DEF RegInv, RegTypeOK
    <2>3. CallTypes' /\ Holder' /\ AnsweredIsDurable'
      BY <1>1, <1>2, <1>3, <1>4, <2>1, ZenonT(40) DEF RegInv, CallTypes, Holder, AnsweredIsDurable
    <2> QED
      BY <2>2, <2>3 DEF RegInv
  <1>5. CASE c.name # NoName
    <2>1. /\ values' = [values EXCEPT ![c.key][c.name] = c.entry]
          /\ meant' = [meant EXCEPT ![c.key][c.name] = @ \cup {c.entry}]
          /\ UNCHANGED deleted
      BY <1>5 DEF set
    <2>2. c.name \in Name /\ RegEntry \subseteq Entry
      BY <1>1, <1>5, EntryTypes
    <2>3. /\ values' \in [Key -> [Name -> Entry]] /\ values'[c.key][c.name] = c.entry
          /\ \A k \in Key, n \in Name : values'[k][n] = values[k][n] \/ (k = c.key /\ n = c.name)
      BY <1>1, <2>1, <2>2 DEF RegInv, RegTypeOK, Entry
    <2>4. /\ meant' \in [Key -> [Name -> SUBSET Entry]] /\ c.entry \in meant'[c.key][c.name]
          /\ \A k \in Key, n \in Name : meant[k][n] \subseteq meant'[k][n]
      <3>1. meant[c.key][c.name] \in SUBSET Entry
        BY <1>1, <2>2 DEF RegInv, CallTypes
      <3> DEFINE held == meant[c.key][c.name] \cup {c.entry}
      <3>2. held \in SUBSET Entry
        BY <1>1, <2>2, <3>1
      <3>3. meant' = [meant EXCEPT ![c.key][c.name] = held]
        BY <2>1
      <3> HIDE DEF held
      <3>4. /\ meant' \in [Key -> [Name -> SUBSET Entry]] /\ meant'[c.key][c.name] = held
            /\ \A k \in Key, n \in Name : meant'[k][n] = meant[k][n] \/ (k = c.key /\ n = c.name)
        BY <1>1, <2>2, <3>2, <3>3 DEF RegInv, CallTypes
      <3> QED
        BY <3>4 DEF held
    <2> HIDE DEF c
    <2>5. RegTypeOK'
      BY <1>1, <1>2, <1>3, <2>1, <2>3 DEF RegInv, RegTypeOK, Entry
    <2>6. CallTypes'
      BY <1>1, <1>2, <1>3, <2>4 DEF RegInv, CallTypes, c
    <2>7. Holder'
      BY <1>1, <1>2, <1>3, <2>3 DEF RegInv, Holder
    <2>8. AnsweredIsDurable'
      BY <1>1, <1>3, <2>3, <2>4 DEF RegInv, AnsweredIsDurable
    <2> QED
      BY <2>5, <2>6, <2>7, <2>8 DEF RegInv
  <1> QED
    BY <1>4, <1>5

(* Its flush replaces the file of the key.                                  *)
LEMMA FlushStep ==
    ASSUME RegInv, NEW t \in Caller, flush_key(t)
    PROVE  RegInv'
  <1> DEFINE c == call[t]
             dir == friendly_to_overlay[c.key]
             file == [n \in Name |-> to_json(values[c.key][n])]
  <1>1. /\ c.key \in Key /\ c.name \in Name \cup {NoName} /\ c.entry \in RegEntry /\ c.pc = "flush"
        /\ owner = t /\ regUp = "up"
        /\ \A u \in Caller \ {t} : call[u].pc \notin {"flush", "flushed"}
        /\ c.name # NoName => values[c.key][c.name] = c.entry
        /\ dir \in Key
    BY RegistryConstants DEF flush_key, RegInv, RegTypeOK, CallTypes, Call, Holder
  <1>2. /\ call'[t].pc = "flushed" /\ call'[t].key = c.key /\ call'[t].name = c.name
        /\ call'[t].entry = c.entry /\ call' \in [Caller -> Call]
        /\ \A u \in Caller \ {t} : call'[u] = call[u]
    BY DEF flush_key, RegInv, CallTypes, Call
  <1>3. UNCHANGED <<hive, regRules, mocks, calls, values, deleted, owner, regUp, meant, reloaded>>
    BY DEF flush_key, regRest, regPolicy
  <1>4. /\ workreg' \in [Key -> [values : [Name -> Json], deleted : BOOLEAN]]
        /\ mixed \subseteq mixed' /\ mixed' \subseteq Key
        /\ \A k \in Key \ mixed', n \in Name : workreg'[k].values[n] = workreg[k].values[n]
                                        \/ workreg'[k].values[n] = to_json(values[k][n])
        /\ c.name # NoName => \A n \in Name : workreg'[dir].values[n] = to_json(values[c.key][n])
    <2>1. workreg \in [Key -> [values : [Name -> Json], deleted : BOOLEAN]]
      BY DEF RegInv, RegTypeOK
    <2>2. file \in [Name -> Json]
      BY <1>1, EntryTypes DEF RegInv, RegTypeOK, Entry
    <2>3. CASE c.name = NoName
      <3>1. workreg' = [workreg EXCEPT ![dir].deleted = TRUE] /\ mixed' = mixed
        BY <2>3 DEF flush_key
      <3>2. mixed \subseteq Key
        BY DEF RegInv, RegTypeOK
      <3> HIDE DEF dir, file, c
      <3> QED
        BY <1>1, <2>1, <2>3, <3>1, <3>2
    <2>4. CASE c.name # NoName
      <3>1. /\ workreg' = [workreg EXCEPT ![dir].values = file]
            /\ mixed' = IF dir = c.key THEN mixed ELSE mixed \cup {dir}
        BY <2>4 DEF flush_key
      <3>2. /\ workreg' \in [Key -> [values : [Name -> Json], deleted : BOOLEAN]]
            /\ workreg'[dir].values = file
            /\ \A k \in Key \ {dir} : workreg'[k] = workreg[k]
        <4> HIDE DEF file, c, dir
        <4> QED
          BY <1>1, <2>1, <2>2, <3>1
      <3>3. dir # c.key => dir \in mixed'
        BY <3>1
      <3>4. mixed \subseteq mixed' /\ mixed' \subseteq Key
        BY <1>1, <3>1 DEF RegInv, RegTypeOK
      <3> QED
        BY <3>2, <3>3, <3>4
    <2> QED
      BY <2>3, <2>4
  <1> HIDE DEF c, dir, file
  <1>5. RegTypeOK'
    BY <1>1, <1>2, <1>3, <1>4 DEF RegInv, RegTypeOK, c
  <1>6. CallTypes'
    BY <1>1, <1>2, <1>3 DEF RegInv, CallTypes
  <1>7. Holder'
    BY <1>1, <1>2, <1>3, <1>4 DEF RegInv, Holder, c, dir
  <1>8. AnsweredIsDurable'
    BY <1>1, <1>3, <1>4 DEF RegInv, AnsweredIsDurable, OwnDirectory
  <1> QED
    BY <1>5, <1>6, <1>7, <1>8 DEF RegInv

(* The answer: the disk holds the entry that is acknowledged.               *)
LEMMA OkStep ==
    ASSUME RegInv, NEW t \in Caller, RegWriteOk(t)
    PROVE  RegInv'
  <1> DEFINE c == call[t]
  <1>1. /\ c.key \in Key /\ c.name \in Name \cup {NoName} /\ c.entry \in RegEntry
        /\ owner = t /\ \A u \in Caller \ {t} : call[u].pc \notin {"flush", "flushed"}
        /\ c.name # NoName => /\ values[c.key][c.name] = c.entry
                              /\ workreg[friendly_to_overlay[c.key]].values[c.name] = to_json(c.entry)
    BY DEF RegWriteOk, RegInv, RegTypeOK, CallTypes, Call, Holder
  <1>2. call' = [call EXCEPT ![t] = idle] /\ owner' = NoCaller
        /\ UNCHANGED <<regRest, values, deleted, workreg, regUp, regHistory>>
    BY DEF RegWriteOk
  <1>3. CASE c.name = NoName
    BY <1>1, <1>2, <1>3, GivesUpStep DEF RegWriteOk
  <1>4. CASE c.name # NoName
    <2>1. meant' = [meant EXCEPT ![c.key][c.name] = {c.entry}]
      BY <1>4 DEF RegWriteOk
    <2>2. c.name \in Name /\ c.entry \in Entry
      BY <1>1, <1>4, EntryTypes
    <2>3. /\ meant' \in [Key -> [Name -> SUBSET Entry]] /\ meant'[c.key][c.name] = {c.entry}
          /\ \A k \in Key, n \in Name : meant'[k][n] = meant[k][n] \/ (k = c.key /\ n = c.name)
      BY <1>1, <2>1, <2>2 DEF RegInv, CallTypes
    <2>4. /\ call'[t].pc = "idle" /\ \A u \in Caller \ {t} : call'[u] = call[u]
          /\ call' \in [Caller -> Call]
      BY <1>2, EntryTypes DEF RegInv, CallTypes
    <2> USE DEF regRest, regPolicy, regHistory
    <2> HIDE DEF c
    <2>5. RegTypeOK'
      BY <1>1, <1>2, <2>4, RegistryConstants DEF RegInv, RegTypeOK
    <2>6. CallTypes'
      BY <1>2, <2>3, <2>4 DEF RegInv, CallTypes
    <2>7. Holder'
      BY <1>2, <2>4 DEF RegInv, Holder
    <2>8. AnsweredIsDurable'
      BY <1>1, <1>2, <1>4, <2>3 DEF RegInv, AnsweredIsDurable, OwnDirectory
    <2> QED
      BY <2>5, <2>6, <2>7, <2>8 DEF RegInv
  <1> QED
    BY <1>3, <1>4

(* A restarted broker loads what the disk holds, or does not start.         *)
LEMMA LoadStep ==
    ASSUME RegInv, load_from_disk
    PROVE  RegInv'
  <1>1. \A t \in Caller : call[t].pc \notin {"flush", "flushed"}
    BY DEF load_from_disk, RegInv, Holder
  <1>2. UNCHANGED <<regRest, workreg, owner, call, meant, mixed>> /\ reloaded' = TRUE
    BY DEF load_from_disk
  <1> USE DEF regRest, regPolicy
  <1>3. CASE \A k \in Key, n \in Name : Parses(workreg[k].values[n])
    <2>1. /\ regUp' = "up"
          /\ values' = [k \in Key |-> [n \in Name |->
                           IF friendly_to_overlay[k] = k THEN from_json(workreg[k].values[n])
                           ELSE Absent]]
          /\ deleted' \subseteq Key
      BY <1>3 DEF load_from_disk
    <2>2. ASSUME NEW k \in Key, NEW n \in Name, OwnDirectory(k)
          PROVE  values'[k][n] \in meant[k][n]
      <3>1. PICK v \in meant[k][n] : workreg[k].values[n] = to_json(v)
        BY <2>2 DEF RegInv, AnsweredIsDurable
      <3>2. v \in Entry
        BY DEF RegInv, CallTypes
      <3>3. from_json(to_json(v)) = v
        BY <1>3, <3>1, <3>2, CodecKeeps
      <3> QED
        BY <2>1, <2>2, <3>1, <3>3 DEF OwnDirectory
    <2>3. values' \in [Key -> [Name -> Entry]]
      <3>1. ASSUME NEW k \in Key, NEW n \in Name
            PROVE  from_json(workreg[k].values[n]) \in Entry
        <4>1. PICK v \in Entry : workreg[k].values[n] = to_json(v)
          BY DEF RegInv, RegTypeOK, Json, Entry
        <4> QED
          BY <1>3, <4>1, CodecKeeps
      <3> QED
        BY <2>1, <3>1, EntryTypes
    <2>4. RegTypeOK'
      BY <1>2, <2>1, <2>3 DEF RegInv, RegTypeOK, Entry
    <2>5. CallTypes' /\ Holder'
      BY <1>1, <1>2 DEF RegInv, CallTypes, Holder
    <2>6. AnsweredIsDurable'
      BY <1>2, <2>2 DEF RegInv, AnsweredIsDurable, OwnDirectory
    <2> QED
      BY <2>4, <2>5, <2>6 DEF RegInv
  <1>4. CASE ~ \A k \in Key, n \in Name : Parses(workreg[k].values[n])
    <2>1. regUp' = "failed" /\ UNCHANGED <<values, deleted>>
      BY <1>4 DEF load_from_disk
    <2> QED
      BY <1>1, <1>2, <2>1 DEF RegInv, RegTypeOK, CallTypes, Holder, AnsweredIsDurable, OwnDirectory
  <1> QED
    BY <1>3, <1>4

LEMMA RegInvStep == RegInv /\ [RegNext]_regVars => RegInv'
  <1> SUFFICES ASSUME RegInv, [RegNext]_regVars PROVE RegInv'
    OBVIOUS
  <1>0. HiveType' /\ call \in [Caller -> Call] /\ calls \in 0..MaxCalls
    BY HostStep DEF RegInv, RegTypeOK, HiveType, CallTypes
  <1>1. ASSUME NEW t \in Caller, NEW k \in Key, Begin(t, k), UNCHANGED <<call, regStore, regPolicy>>
        PROVE  RegInv'
    <2>1. Sends(t) /\ calls' \in 0..MaxCalls
      BY <1>0, <1>1, RegistryConstants DEF Sends, Begin
    <2> QED
      BY <1>0, <1>1, <2>1, SendsStep
  <1>2. ASSUME NEW t \in Caller, NEW k \in Key, Begin(t, k), UNCHANGED <<regStore, regPolicy>>,
               NEW n \in Name \cup {NoName}, NEW v \in RegEntry,
               call' = [call EXCEPT ![t] = [pc |-> "send", key |-> k, name |-> n, entry |-> v]]
        PROVE  RegInv'
    <2>1. [pc |-> "send", key |-> k, name |-> n, entry |-> v] \in Call
      BY EntryTypes DEF Call
    <2>2. Sends(t) /\ calls' \in 0..MaxCalls
      BY <1>0, <1>2, <2>1, RegistryConstants DEF Sends, Begin
    <2> QED
      BY <1>0, <1>2, <2>2, SendsStep
  <1>3. ASSUME NEW t \in Caller, NEW k \in Key, NEW acc \in Access, hook_nt_create_key(t, k, acc)
        PROVE  RegInv'
    BY <1>1, <1>3 DEF hook_nt_create_key
  <1>4. ASSUME NEW t \in Caller, NEW k \in Key, NEW n \in Name, NEW raw \in Raw,
               hook_nt_set_value_key(t, k, n, raw)
        PROVE  RegInv'
    <2>1. reg_value_from_raw(raw) \in RegEntry
      BY Decoded
    <2>2. Begin(t, k) /\ UNCHANGED <<regStore, regPolicy>>
      BY <1>4 DEF hook_nt_set_value_key
    <2>3. \/ UNCHANGED call
          \/ call' = [call EXCEPT ![t] = [pc |-> "send", key |-> k, name |-> n,
                                          entry |-> reg_value_from_raw(raw)]]
      BY <1>4 DEF hook_nt_set_value_key
    <2> QED
      BY <1>1, <1>2, <2>1, <2>2, <2>3
  <1>5. ASSUME NEW t \in Caller, NEW k \in Key, NEW n \in Name, hook_nt_delete_value_key(t, k, n)
        PROVE  RegInv'
    BY <1>1, <1>5 DEF hook_nt_delete_value_key
  <1>6. ASSUME NEW t \in Caller, NEW k \in Key, hook_nt_delete_key(t, k)
        PROVE  RegInv'
    BY <1>1, <1>6 DEF hook_nt_delete_key
  <1>7. ASSUME NEW t \in Caller, NEW k \in Key,
               move_key_refused(t, k) \/ hive_file_refused(t, k) \/ transacted_refused(t, k)
        PROVE  RegInv'
    BY <1>1, <1>7 DEF move_key_refused, hive_file_refused, transacted_refused
  <1>8. ASSUME NEW t \in Caller, NEW k \in Key, NEW n \in Name \cup {NoName}, RequestDelete(t, k, n)
        PROVE  RegInv'
    BY <1>2, <1>8, EntryTypes DEF RequestDelete
  <1>9. ASSUME NEW t \in Caller, RegWriteErr(t) \/ RegWriteLost(t)
        PROVE  RegInv'
    <2>1. owner' = IF owner = t THEN NoCaller ELSE owner
      BY <1>9 DEF RegWriteErr, RegWriteLost, RegInv, RegTypeOK
    <2> QED
      BY <1>9, <2>1, GivesUpStep DEF RegWriteErr, RegWriteLost
  <1>10. ASSUME NEW t \in Caller, set(t) \/ flush_key(t) \/ RegWriteOk(t)
         PROVE  RegInv'
    BY <1>10, SetStep, FlushStep, OkStep
  <1>11. CASE RegCrash
    <2>1. \A t \in Caller : call'[t] = idle
      BY <1>11 DEF RegCrash
    <2>2. /\ regUp' = "down" /\ owner' = NoCaller /\ call' \in [Caller -> Call]
          /\ UNCHANGED <<regRest, values, deleted, workreg, meant, regHistory>>
      BY <1>11, EntryTypes DEF RegCrash
    <2> USE EntryTypes, RegistryConstants DEF RegInv, regRest, regPolicy, regHistory, OwnDirectory
    <2>3. RegTypeOK'
      BY <2>1, <2>2 DEF RegTypeOK
    <2>4. CallTypes' /\ Holder' /\ AnsweredIsDurable'
      BY <2>1, <2>2 DEF CallTypes, Holder, AnsweredIsDurable
    <2> QED
      BY <2>3, <2>4
  <1>12. CASE load_from_disk
    BY <1>12, LoadStep
  <1>13. CASE UNCHANGED regVars
    BY <1>13 DEF regVars, regHistory, RegInv, RegTypeOK, CallTypes, Holder, AnsweredIsDurable,
                 OwnDirectory
  <1> QED
    BY <1>3, <1>4, <1>5, <1>6, <1>7, <1>8, <1>9, <1>10, <1>11, <1>12, <1>13 DEF RegNext

LEMMA RegInvInit == RegInit => RegInv
  <1> SUFFICES ASSUME RegInit PROVE RegInv
    OBVIOUS
  <1>1. \A t \in Caller : call[t] = idle
    BY DEF RegInit
  <1>2. RegTypeOK
    <2>1. to_json(Absent) \in Json
      BY EntryTypes
    <2>2. workreg \in [Key -> [values : [Name -> Json], deleted : BOOLEAN]]
      BY <2>1 DEF RegInit
    <2>3. hive \in [Key -> [present : BOOLEAN, names : SUBSET Name]]
      BY DEF RegInit
    <2>4. values \in [Key -> [Name -> RegEntry \cup {Absent}]]
      BY DEF RegInit
    <2>5. calls \in 0..MaxCalls
      BY RegistryConstants DEF RegInit
    <2> QED
      BY <1>1, <2>2, <2>3, <2>4, <2>5, EntryTypes, RegistryConstants DEF RegInit, RegTypeOK
  <1>3. CallTypes
    BY <1>1, EntryTypes DEF RegInit, CallTypes
  <1>4. Holder
    BY <1>1, EntryTypes DEF Holder
  <1>5. AnsweredIsDurable
    BY DEF RegInit, AnsweredIsDurable
  <1> QED
    BY <1>2, <1>3, <1>4, <1>5 DEF RegInv

(* The types of the registry's state, and the one caller inside the store.  *)
THEOREM RegTypes == RegSpec => []RegTypeOK
  <1>1. RegInv => RegTypeOK
    BY DEF RegInv
  <1> QED
    BY <1>1, RegInvInit, RegInvStep, PTL DEF RegSpec

(* For any keys, names, callers and any sharing of directories: an answered *)
(* RegWrite is on the disk and in the map of a broker that has loaded it,   *)
(* across any number of crashes, unless the key is kept in a directory that *)
(* spells or serves another key (friendly_to_overlay, flush_key,            *)
(* load_from_disk).                                                         *)
THEOREM AnsweredDurable == RegSpec => []AnsweredIsDurable
  <1>1. RegInv => AnsweredIsDurable
    BY DEF RegInv
  <1> QED
    BY <1>1, RegInvInit, RegInvStep, PTL DEF RegSpec

(* No hooked call changes the host under a key whose writes are denied or   *)
(* copied (nt_create_key_action, resp_reg_decide).                          *)
THEOREM HostIsGuarded == RegSpec => HostGuarded
  <1>1. RegInv /\ [RegNext]_regVars =>
          [\A k \in Key : GuardedStep(k)]_regVars
    BY HostStep DEF RegInv, RegTypeOK, HiveType
  <1>2. RegSpec => [][\A k \in Key : GuardedStep(k)]_regVars
    BY <1>1, RegInvInit, RegInvStep, PTL DEF RegSpec
  <1> QED
    BY <1>2 DEF HostGuarded, GuardedStep
-----------------------------------------------------------------------------
(****************************************************************************)
(* A listing merged with the overlay (DirListing)                           *)
(****************************************************************************)
(* A query without a FileName has no mask.                                  *)
Masks == {NoMask} \cup SUBSET Names

(* What the registry keeps of a listing (DirEnumState).                     *)
EnumState ==
    [dir : Dir \cup {NoDir}, mask : Masks, real_done : BOOLEAN, overlay_done : BOOLEAN,
     delivered : SUBSET Names, has_extras : BOOLEAN, extras : SUBSET Names]

(* An entry of the registry (ENUM_STATES).                                  *)
StateEntry == [key : HandleValue \cup {OtherHandle}, st : EnumState]

(* The kernel's side of a handle: its directory, its position, its mask.    *)
FileObject == [dir : Dir \cup {NoDir}, last : SUBSET Names, mask : Masks]

(* A query between the entry of the hook and its return.                    *)
QueryRecord ==
    [pc : {"pending", "completed", "real", "overlay", "publish", "return"},
     h : HandleValue, mask : Masks, single : BOOLEAN, restart : BOOLEAN, room : Nat,
     status : {"pending", "success", "no such file", "no more files", "error"},
     page : SUBSET Names, st : EnumState, dir : Dir \cup {NoDir}, hide : SUBSET Names,
     base : SUBSET Names, again : SUBSET Names, gone : SUBSET Names,
     answered : BOOLEAN, taken : BOOLEAN]

(* What the caller of a handle saw.                                         *)
PassRecord ==
    [steady : SUBSET Names, listed : SUBSET Names, again : SUBSET Names,
     missed : SUBSET Names, kept : BOOLEAN, over : BOOLEAN]

(* The registry has one entry per value (store_enum_state).                 *)
OneEach(s) == \A i, j \in DOMAIN s : s[i].key = s[j].key => i = j

(* The shapes of the variables.                                             *)
ListingShapes ==
    /\ disk \in [Dir -> SUBSET Names]
    /\ index \in [Dir -> SUBSET Names]
    /\ tombs \in [Dir -> SUBSET Names]
    /\ object \in [HandleValue -> FileObject]
    /\ states \in Seq(StateEntry) /\ Len(states) <= ENUM_STATES_CAP /\ OneEach(states)
    /\ query = NoQuery \/ query \in QueryRecord
    /\ buffer \subseteq Names
    /\ pass \in [HandleValue -> PassRecord]

(* A fresh state has delivered and fetched nothing (DirEnumState::new).     *)
LEMMA FreshTypes ==
    ASSUME NEW d \in Dir \cup {NoDir}, NEW m \in Masks
    PROVE  /\ FreshState(d, m) \in EnumState
           /\ FreshState(d, m).dir = d /\ FreshState(d, m).mask = m
           /\ ~FreshState(d, m).real_done /\ ~FreshState(d, m).overlay_done
           /\ ~FreshState(d, m).has_extras
           /\ FreshState(d, m).delivered = {} /\ FreshState(d, m).extras = {}
  BY DEF FreshState, EnumState

(* No query is no record of a query.                                        *)
LEMMA NoQueryIsNone == NoQuery \notin QueryRecord /\ NoQuery.pc = "idle"
  BY DEF NoQuery, QueryRecord

(* A set of names that has one has a first one.                             *)
LEMMA LeastName ==
    ASSUME ListingConstants, NEW S \in SUBSET Names, S # {}
    PROVE  \E m \in S : \A k \in S : m <= k
  <1>1. S \subseteq Nat
    BY DEF ListingConstants
  <1>2. PICK x \in S : \A y \in S : ~(<<y, x>> \in OpToRel(<, Nat))
    BY <1>1, WFMin, NatLessThanWellFounded, Zenon
  <1>3. \A y \in S : <<y, x>> \in Nat \X Nat /\ y < x => <<y, x>> \in OpToRel(<, Nat)
    BY DEF OpToRel
  <1>4. \A y \in S : ~(y < x)
    BY <1>1, <1>2, <1>3
  <1> QED
    BY <1>1, <1>4

(* An empty buffer takes at least one name, if it is large enough for the   *)
(* first (append_overlay_entries).                                          *)
LEMMA FittingFirst ==
    ASSUME ListingConstants, NEW S \in SUBSET Names, NEW single, NEW room \in Nat,
           S # {}, ~Cramped(S, room)
    PROVE  Fitting(S, {}, single, room) # {}
  <1>1. PICK m \in S : \A k \in S : m <= k
    BY LeastName
  <1>2. ASSUME NEW n \in S, n <= m PROVE n = m
    BY <1>1, <1>2 DEF ListingConstants
  <1>4. m \in First(S) /\ Size(m) <= room
    BY <1>1 DEF First, Cramped, Size
  <1>3. m \in Fitting(S, {}, single, room)
    BY <1>2, <1>4 DEF Fitting
  <1> QED
    BY <1>3

(* What fits is the front of what is wanted (append_overlay_entries).       *)
LEMMA FittingIsPrefix ==
    ASSUME ListingConstants, NEW S \in SUBSET Names, NEW shown, NEW single, NEW room
    PROVE  /\ Fitting(S, shown, single, room) \subseteq S
           /\ \A n \in S, m \in Fitting(S, shown, single, room) :
                 n <= m => n \in Fitting(S, shown, single, room)
  <1>1. Fitting(S, shown, single, room) \subseteq S
    BY DEF Fitting
  <1>2. ASSUME NEW n \in S, NEW m \in Fitting(S, shown, single, room), n <= m
        PROVE  n \in Fitting(S, shown, single, room)
    <2>0. S \subseteq Nat /\ m \in Nat /\ n \in Nat
      BY <1>1 DEF ListingConstants
    <2>1. \A k \in S : k <= n => k <= m
      BY <1>2, <2>0
    <2> QED
      BY <1>2, <2>1 DEF Fitting
  <1> QED
    BY <1>1, <1>2

(* What RemoveAt leaves of a sequence.                                      *)
LEMMA RemovedEntry ==
    ASSUME NEW S, NEW s \in Seq(S), NEW k \in 1 .. Len(s)
    PROVE  /\ RemoveAt(s, k) \in Seq(S) /\ Len(RemoveAt(s, k)) = Len(s) - 1
           /\ \A j \in 1 .. Len(s) - 1 :
                 RemoveAt(s, k)[j] = IF j < k THEN s[j] ELSE s[j + 1]
  <1> DEFINE front == SubSeq(s, 1, k - 1)
             back == SubSeq(s, k + 1, Len(s))
  <1>1. Len(s) \in Nat
    BY LenProperties
  <1>2. front \in Seq(S) /\ Len(front) = k - 1 /\ \A j \in 1 .. k - 1 : front[j] = s[j]
    BY <1>1
  <1>3. /\ back \in Seq(S) /\ Len(back) = Len(s) - k
        /\ \A j \in 1 .. Len(s) - k : back[j] = s[k + j]
    BY <1>1
  <1>4. RemoveAt(s, k) = front \o back
    BY DEF RemoveAt
  <1> HIDE DEF front, back
  <1>5. /\ front \o back \in Seq(S) /\ Len(front \o back) = Len(s) - 1
        /\ \A j \in 1 .. Len(s) - 1 :
              (front \o back)[j] = IF j <= k - 1 THEN front[j] ELSE back[j - (k - 1)]
    <2> DEFINE both == front \o back
    <2>1. /\ both \in Seq(S) /\ Len(both) = Len(front) + Len(back)
          /\ \A i \in 1 .. Len(front) + Len(back) :
                both[i] = IF i <= Len(front) THEN front[i] ELSE back[i - Len(front)]
      BY <1>2, <1>3, ConcatProperties, Zenon
    <2> HIDE DEF both
    <2>2. Len(front) + Len(back) = Len(s) - 1 /\ Len(front) = k - 1
      BY <1>1, <1>2, <1>3
    <2>3. /\ both \in Seq(S) /\ Len(both) = Len(s) - 1
          /\ \A j \in 1 .. Len(s) - 1 : both[j] = IF j <= k - 1 THEN front[j] ELSE back[j - (k - 1)]
      BY <2>1, <2>2
    <2> QED
      BY <2>3 DEF both
  <1>6. ASSUME NEW j \in 1 .. Len(s) - 1
        PROVE  RemoveAt(s, k)[j] = IF j < k THEN s[j] ELSE s[j + 1]
    <2>1. CASE j < k
      BY <1>1, <1>2, <1>4, <1>5, <2>1
    <2>2. CASE ~(j < k)
      <3>1. j - (k - 1) \in 1 .. Len(s) - k /\ k + (j - (k - 1)) = j + 1
        BY <1>1, <2>2
      <3> QED
        BY <1>1, <1>3, <1>4, <1>5, <2>2, <3>1
    <2> QED
      BY <2>1, <2>2
  <1> QED
    BY <1>4, <1>5, <1>6

(* The registry after take_enum_state: the other entries, each once.        *)
LEMMA WithoutEntries ==
    ASSUME ListingConstants, ListingShapes, NEW h
    PROVE  /\ Without(h) \in Seq(StateEntry) /\ Len(Without(h)) <= ENUM_STATES_CAP
           /\ OneEach(Without(h))
           /\ \A j \in DOMAIN Without(h) :
                 \E i \in DOMAIN states : Without(h)[j] = states[i] /\ states[i].key # h
  <1>1. CASE Stored(h) = {}
    BY <1>1 DEF Without, Stored, ListingShapes
  <1>2. CASE Stored(h) # {}
    <2> DEFINE k == CHOOSE i \in Stored(h) : TRUE
               n == Len(states)
    <2>1. k \in Stored(h)
      BY <1>2
    <2>2. k \in 1 .. n /\ n \in Nat /\ states[k].key = h
      BY <2>1, LenProperties DEF Stored, ListingShapes
    <2>3. Without(h) = RemoveAt(states, k)
      BY <1>2 DEF Without
    <2> HIDE DEF k
    <2>4. /\ Without(h) \in Seq(StateEntry) /\ Len(Without(h)) = n - 1
          /\ \A j \in 1 .. n - 1 : Without(h)[j] = IF j < k THEN states[j] ELSE states[j + 1]
      <3>1. states \in Seq(StateEntry) /\ k \in 1 .. Len(states)
        BY <2>2 DEF ListingShapes
      <3>2. /\ RemoveAt(states, k) \in Seq(StateEntry) /\ Len(RemoveAt(states, k)) = Len(states) - 1
            /\ \A j \in 1 .. Len(states) - 1 :
                  RemoveAt(states, k)[j] = IF j < k THEN states[j] ELSE states[j + 1]
        BY <3>1, RemovedEntry, SMT
      <3> QED
        BY <2>3, <3>2, Zenon
    <2>5. DOMAIN Without(h) = 1 .. Len(Without(h))
      BY <2>4, LenProperties
    <2>6. DOMAIN Without(h) = 1 .. n - 1
      BY <2>4, <2>5, Zenon
    <2>7. DOMAIN states = 1 .. n
      BY <2>2 DEF ListingShapes
    <2>8. OneEach(Without(h))
      <3> SUFFICES ASSUME NEW i \in 1 .. n - 1, NEW j \in 1 .. n - 1,
                          Without(h)[i].key = Without(h)[j].key
                   PROVE  i = j
        BY <2>6 DEF OneEach
      <3> DEFINE i2 == IF i < k THEN i ELSE i + 1
                 j2 == IF j < k THEN j ELSE j + 1
      <3>1. i2 \in 1 .. n /\ j2 \in 1 .. n /\ (i2 = j2 => i = j)
        BY <2>2
      <3>2. Without(h)[i] = states[i2] /\ Without(h)[j] = states[j2]
        BY <2>4
      <3> HIDE DEF i2, j2
      <3>3. i2 = j2
        BY <2>7, <3>1, <3>2 DEF OneEach, ListingShapes
      <3> QED
        BY <3>1, <3>3
    <2>9. \A j \in 1 .. n - 1 :
             \E i \in DOMAIN states : Without(h)[j] = states[i] /\ states[i].key # h
      <3> TAKE j \in 1 .. n - 1
      <3> DEFINE i == IF j < k THEN j ELSE j + 1
      <3>1. i \in 1 .. n /\ i # k
        BY <2>2
      <3>2. Without(h)[j] = states[i]
        BY <2>4
      <3> HIDE DEF i
      <3>3. states[i].key # h
        BY <2>2, <2>7, <3>1 DEF OneEach, ListingShapes
      <3> QED
        BY <2>7, <3>1, <3>2, <3>3
    <2>10. Len(Without(h)) <= ENUM_STATES_CAP
      BY <2>2, <2>4 DEF ListingConstants, ListingShapes
    <2> QED
      BY <2>4, <2>6, <2>8, <2>9, <2>10
  <1> QED
    BY <1>1, <1>2

(* What the registry holds once a state was stored.                         *)
StoredLast(s, h, st) ==
    \A j \in DOMAIN s :
        \/ s[j] = [key |-> h, st |-> st]
        \/ \E i \in DOMAIN states : s[j] = states[i] /\ states[i].key # h

(* The registry after store_enum_state, whether the oldest had to go or     *)
(* not.                                                                     *)
LEMMA StoredEntries ==
    ASSUME ListingConstants, ListingShapes,
           NEW h \in HandleValue \cup {OtherHandle}, NEW st \in EnumState
    PROVE  LET s == store_enum_state(h, st)
           IN  /\ s \in Seq(StateEntry) /\ Len(s) <= ENUM_STATES_CAP /\ OneEach(s)
               /\ StoredLast(s, h, st)
  <1> DEFINE others == Without(h)
             keeps == IF Len(others) >= ENUM_STATES_CAP THEN Tail(others) ELSE others
             e == [key |-> h, st |-> st]
             s == Append(keeps, e)
  <1>1. /\ others \in Seq(StateEntry) /\ Len(others) <= ENUM_STATES_CAP /\ OneEach(others)
        /\ \A j \in DOMAIN others :
              \E i \in DOMAIN states : others[j] = states[i] /\ states[i].key # h
    BY WithoutEntries
  <1>2. ENUM_STATES_CAP \in Nat \ {0}
    BY DEF ListingConstants
  <1> HIDE DEF others
  <1>3. /\ keeps \in Seq(StateEntry) /\ Len(keeps) < ENUM_STATES_CAP /\ OneEach(keeps)
        /\ \A j \in DOMAIN keeps :
              \E i \in DOMAIN states : keeps[j] = states[i] /\ states[i].key # h
    <2>1. CASE ~(Len(others) >= ENUM_STATES_CAP)
      BY <1>1, <1>2, <2>1, LenProperties
    <2>2. CASE Len(others) >= ENUM_STATES_CAP
      <3>1. others # <<>>
        BY <1>1, <1>2, <2>2
      <3>2. /\ keeps = Tail(others) /\ keeps \in Seq(StateEntry) /\ Len(keeps) = Len(others) - 1
            /\ \A j \in 1 .. Len(keeps) : keeps[j] = others[j + 1]
        BY <1>1, <2>2, <3>1, HeadTailProperties
      <3>3. /\ DOMAIN keeps = 1 .. Len(keeps) /\ DOMAIN others = 1 .. Len(keeps) + 1
            /\ Len(keeps) \in Nat
        BY <1>1, <3>2, LenProperties
      <3>4. \A j \in 1 .. Len(keeps) : j + 1 \in DOMAIN others
        BY <3>3
      <3>5. OneEach(keeps)
        BY <1>1, <3>2, <3>3, <3>4 DEF OneEach
      <3> QED
        BY <1>1, <1>2, <3>2, <3>3, <3>4, <3>5
    <2> QED
      BY <2>1, <2>2
  <1> HIDE DEF keeps
  <1>4. e \in StateEntry
    BY DEF StateEntry
  <1>5. /\ s \in Seq(StateEntry) /\ Len(s) = Len(keeps) + 1
        /\ \A j \in 1 .. Len(keeps) : s[j] = keeps[j]
        /\ s[Len(keeps) + 1] = e
    BY <1>3, <1>4, AppendProperties
  <1>6. DOMAIN s = DOMAIN keeps \cup {Len(keeps) + 1} /\ DOMAIN keeps = 1 .. Len(keeps)
        /\ Len(keeps) \in Nat
    BY <1>3, <1>5, LenProperties
  <1>7. \A j \in DOMAIN keeps : s[j] = keeps[j] /\ keeps[j].key # h
    BY <1>3, <1>5, <1>6
  <1>8. e.key = h
    OBVIOUS
  <1> HIDE DEF s
  <1>9. OneEach(s)
    BY <1>3, <1>5, <1>6, <1>7, <1>8 DEF OneEach
  <1>10. StoredLast(s, h, st)
    BY <1>3, <1>5, <1>6, <1>7 DEF StoredLast
  <1>11. s = store_enum_state(h, st)
    BY DEF s, keeps, others, store_enum_state
  <1>12. Len(s) <= ENUM_STATES_CAP
    BY <1>2, <1>3, <1>5, LenProperties
  <1> QED
    BY <1>5, <1>9, <1>10, <1>11, <1>12

(* An empty registry has one entry per value.                               *)
LEMMA NoEntryStart == OneEach(<<>>)
  BY DEF OneEach

(* The variables start in their shapes.                                     *)
LEMMA ShapesInit == ListingConstants /\ ListingInit => ListingShapes
  <1> SUFFICES ASSUME ListingConstants, ListingInit PROVE ListingShapes
    OBVIOUS
  <1> USE DEF ListingInit
  <1>1. disk \in [Dir -> SUBSET Names] /\ index \in [Dir -> SUBSET Names] /\ tombs \in [Dir -> SUBSET Names]
    OBVIOUS
  <1>2. object \in [HandleValue -> FileObject]
    BY DEF ClosedObject, FileObject, Masks
  <1>3. states \in Seq(StateEntry) /\ Len(states) <= ENUM_STATES_CAP
    BY DEF ListingConstants
  <1>4. pass \in [HandleValue -> PassRecord]
    BY DEF NoPass, PassRecord
  <1> QED
    BY <1>1, <1>2, <1>3, <1>4, NoEntryStart DEF ListingShapes

(* The state a query takes, stored or fresh, is a state (take_enum_state).  *)
LEMMA TakenTypes ==
    ASSUME ListingShapes, NEW h, NEW d \in Dir \cup {NoDir}, NEW m \in Masks, NEW r \in BOOLEAN
    PROVE  TakenState(h, d, m, r) \in EnumState
  <1>1. CASE Resumes(h, d, r)
    <2> DEFINE i == CHOOSE i \in Stored(h) : TRUE
    <2>1. i \in Stored(h)
      BY <1>1 DEF Resumes
    <2> HIDE DEF i
    <2>2. states[i] \in StateEntry
      BY <2>1 DEF Stored, ListingShapes
    <2>3. states[i].st \in EnumState
      BY <2>2 DEF StateEntry
    <2> DEFINE was == states[i].st
               mask == IF m = NoMask THEN was.mask ELSE m
    <2>4. [was EXCEPT !.mask = mask] \in EnumState
      BY <2>3 DEF EnumState
    <2>5. TakenState(h, d, m, r) = [was EXCEPT !.mask = mask]
      BY <1>1 DEF TakenState, i
    <2> QED
      BY <2>4, <2>5
  <1>2. CASE ~Resumes(h, d, r)
    BY <1>2, FreshTypes DEF TakenState
  <1> QED
    BY <1>1, <1>2

(* The shapes of what is kept of a handle.                                  *)
LEMMA HandleTypes ==
    ASSUME ListingShapes, NEW h \in HandleValue
    PROVE  /\ object[h] \in FileObject /\ object[h].dir \in Dir \cup {NoDir}
           /\ object[h].last \in SUBSET Names /\ object[h].mask \in Masks
           /\ pass[h] \in PassRecord
           /\ pass[h].steady \in SUBSET Names /\ pass[h].listed \in SUBSET Names
           /\ pass[h].again \in SUBSET Names /\ pass[h].missed \in SUBSET Names
           /\ pass[h].kept \in BOOLEAN /\ pass[h].over \in BOOLEAN
  <1>1. object[h] \in FileObject /\ pass[h] \in PassRecord
    BY DEF ListingShapes
  <1> QED
    BY <1>1 DEF FileObject, PassRecord

(* The shapes of a query's parts.                                           *)
LEMMA QueryTypes ==
    ASSUME query \in QueryRecord
    PROVE  /\ query # NoQuery
           /\ query.pc \in {"pending", "completed", "real", "overlay", "publish", "return"}
           /\ query.h \in HandleValue /\ query.mask \in Masks /\ query.single \in BOOLEAN
           /\ query.restart \in BOOLEAN /\ query.page \in SUBSET Names /\ query.room \in Nat
           /\ query.status \in {"pending", "success", "no such file", "no more files", "error"}
           /\ query.st \in EnumState /\ query.dir \in Dir \cup {NoDir}
           /\ query.hide \in SUBSET Names /\ query.base \in SUBSET Names
           /\ query.again \in SUBSET Names /\ query.gone \in SUBSET Names
           /\ query.answered \in BOOLEAN /\ query.taken \in BOOLEAN
  BY NoQueryIsNone DEF QueryRecord

(* The shapes of a state's parts.                                           *)
LEMMA StateTypes ==
    ASSUME NEW st \in EnumState
    PROVE  /\ st.dir \in Dir \cup {NoDir} /\ st.mask \in Masks
           /\ st.real_done \in BOOLEAN /\ st.overlay_done \in BOOLEAN
           /\ st.has_extras \in BOOLEAN
           /\ st.delivered \in SUBSET Names /\ st.extras \in SUBSET Names
  BY DEF EnumState

(* A query at some point of the hook is a query.                            *)
LEMMA Busy ==
    ASSUME ListingShapes,
           query.pc \in {"pending", "completed", "real", "overlay", "publish", "return"}
    PROVE  query \in QueryRecord
  BY NoQueryIsNone DEF ListingShapes

(* What is visible are names, and a pass starts with all of them steady.    *)
LEMMA VisibleTypes ==
    ASSUME ListingConstants, ListingShapes, NEW d \in Dir
    PROVE  /\ Visible(d) \in SUBSET Names /\ whiteouts_under(d) \in SUBSET Names
           /\ NewPass(d) \in PassRecord /\ NewPass(d).steady = Visible(d)
           /\ NewPass(d).listed = {} /\ NewPass(d).again = {} /\ NewPass(d).missed = {}
           /\ NewPass(d).kept /\ ~NewPass(d).over
  <1>1. Visible(d) \in SUBSET Names /\ whiteouts_under(d) \in SUBSET Names
    BY DEF Visible, whiteouts_under, ListingShapes
  <1> QED
    BY <1>1 DEF NewPass, NoPass, PassRecord

(* The query is one of handle h.                                            *)
Serving(h) == query # NoQuery /\ query.h = h

(* The names the query of h has for its caller so far.                      *)
Base(h) == IF Serving(h) THEN query.base ELSE {}

(* The page the kernel has filled for h and the hook has not looked at.     *)
PageOf(h) == IF Serving(h) /\ query.pc \in {"completed", "real"} THEN query.page ELSE {}

(* The query of h starts over and has not taken a state yet.                *)
Restarting(h) == Serving(h) /\ ~query.taken /\ query.restart

(* The names handed out on h, and those about to be.                        *)
Seen(h) == pass[h].listed \cup Base(h)

(* The names up to the kernel's position.                                   *)
Reached(h) == {n \in Names : \E m \in object[h].last : n <= m}

(* The query of h ends without a name: the caller may be told that it is    *)
(* over although the overlay could not be asked (the path of the handle is  *)
(* not known).                                                              *)
Ends(h) ==
    /\ Serving(h) /\ query.taken /\ query.base = {}
    /\ \/ query.pc \in {"real", "overlay"} /\ query.st.real_done /\ query.dir = NoDir
       \/ query.pc = "publish" /\ Ended

(* A state that belongs to the directory of h: of the steady names, those   *)
(* it counts as delivered were seen; once its real stream is done, those of *)
(* the disk were listed; once the children are fetched, the others are      *)
(* among those left or were seen.                                           *)
Continues(h, st) == st.dir = object[h].dir =>
    /\ \A n \in pass[h].steady : Matches(n, st.mask)
    /\ pass[h].steady \cap st.delivered \subseteq Seen(h)
    /\ ~pass[h].over /\ st.real_done =>
         pass[h].steady \cap disk[object[h].dir] \subseteq pass[h].listed
    /\ ~pass[h].over /\ st.has_extras =>
         pass[h].steady \ disk[object[h].dir] \subseteq st.extras \cup Seen(h)

(* The overlay is done when the children are fetched and none is left       *)
(* (overlay_done).                                                          *)
StateOK(st) == st.overlay_done => st.has_extras /\ st.extras = {}

(* The pass of an open handle: steady names are visible; those of the disk  *)
(* the kernel is past were seen or are in the page; and a stored state      *)
(* continues the pass unless the query restarts.                            *)
OpenPass(h) == object[h].dir # NoDir =>
    /\ pass[h].steady \subseteq Visible(object[h].dir)
    /\ ~pass[h].over /\ ~Ends(h) =>
         pass[h].steady \cap disk[object[h].dir] \cap Reached(h)
             \subseteq Seen(h) \cup PageOf(h)
    /\ \A i \in Stored(h) : ~Restarting(h) => Continues(h, states[i].st)

(* What the property asks of a pass, and that a state which is kept counts  *)
(* all that was seen as delivered.                                          *)
PassOK(h) ==
    /\ pass[h].missed = {}
    /\ pass[h].kept => /\ pass[h].again = {}
                       /\ \A i \in Stored(h) : Seen(h) \subseteq states[i].st.delivered

(* The steady names of the pass the query belongs to.                       *)
Steady == pass[query.h].steady

(* Where the parts of a query are empty, by how far it has come             *)
(* (process_dir_output).                                                    *)
QueryShape ==
    /\ object[query.h].dir # NoDir
    /\ query.pc \in {"pending", "completed", "real"} => query.base = {}
    /\ query.pc = "completed" => ~query.taken /\ \A n \in Steady : Matches(n, query.mask)
    /\ ~query.taken => query.pc \in {"pending", "completed"} /\ query.answered
    /\ query.pc \notin {"publish", "return"} => query.again = {}
    /\ query.pc # "return" => buffer = {}
    /\ query.pc = "return" => /\ buffer = IF query.status = "error" THEN query.page ELSE query.base
                             /\ query.base \subseteq pass[query.h].listed
    /\ query.pc = "overlay" => query.st.real_done \/ query.base # {}
    /\ query.pc = "publish" /\ Ended => query.base = {}

(* What the kernel's answer says: a page comes with success only; a name    *)
(* that an error cut off and went past is not steady; and at the end of the *)
(* stream the position is past every steady name of the disk.               *)
QueryAnswer == query.pc \in {"completed", "real"} =>
    /\ query.status \notin {"success", "error"} => query.page = {}
    /\ query.status = "error" => query.page \cap Steady \cap Reached(query.h) = {}
    /\ query.status \in {"no such file", "no more files"} =>
         Steady \cap disk[object[query.h].dir] \subseteq Reached(query.h)

(* The state a query has taken: nothing hidden is steady or shown, it       *)
(* continues the pass, its registry entry is out, and the query that ends   *)
(* the pass with an answer of the broker leaves no steady name unlisted.    *)
QueryState == query.taken =>
    /\ Dot \in query.hide /\ query.gone \subseteq query.hide
    /\ query.hide \cap (Steady \cup query.base) = {}
    /\ query.dir \in {NoDir, object[query.h].dir}
    /\ query.dir # NoDir => query.st.dir = query.dir
    /\ query.answered => query.dir # NoDir
    /\ StateOK(query.st)
    /\ Continues(query.h, query.st)
    /\ query.pc = "pending" => ~query.restart /\ ~query.st.real_done
    /\ query.pc \in {"pending", "real", "overlay"} => Stored(query.h) = {}
    /\ pass[query.h].kept => query.again = {} /\ Seen(query.h) \subseteq query.st.delivered
    /\ query.pc = "publish" /\ Ended /\ query.answered /\ ~pass[query.h].over =>
         Steady \subseteq pass[query.h].listed

(* The three together, of a query that runs.                                *)
QueryOK == query # NoQuery => QueryShape /\ QueryAnswer /\ QueryState

(* The inductive invariant of the listing.                                  *)
ListingInv ==
    /\ \A h \in HandleValue : object[h] # ClosedObject => object[h].dir # NoDir
    /\ \A i \in DOMAIN states : StateOK(states[i].st)
    /\ \A h \in HandleValue : OpenPass(h) /\ PassOK(h)
    /\ QueryOK

(* The entry of h is one that was there before.                             *)
FromBefore(h) == \A i \in Stored(h)' : \E j \in Stored(h) : states'[i] = states[j]

(* What a step that neither opens h nor starts, serves or ends a query of   *)
(* it leaves as it was; names may leave the steady ones.                    *)
SamePass(h) ==
    /\ object'[h] = object[h]
    /\ pass'[h].steady \subseteq pass[h].steady
    /\ pass'[h].listed = pass[h].listed /\ pass'[h].again = pass[h].again
    /\ pass'[h].missed = pass[h].missed /\ pass'[h].over = pass[h].over
    /\ pass'[h].kept = pass[h].kept
    /\ object[h].dir # NoDir => pass'[h].steady \subseteq Visible(object[h].dir)'

(* A pass is left as it is by a step that neither changes its state nor     *)
(* lets its query go back (OpenPass).                                       *)
LEMMA PassKept ==
    ASSUME NEW h \in HandleValue, OpenPass(h), PassOK(h), SamePass(h), FromBefore(h), disk' = disk,
           Base(h)' = Base(h), PageOf(h)' = PageOf(h),
           Restarting(h) => Restarting(h)', Ends(h) => Ends(h)'
    PROVE  OpenPass(h)' /\ PassOK(h)'
  <1>1. Seen(h)' = Seen(h) /\ Reached(h)' = Reached(h)
    BY DEF Seen, Reached, SamePass
  <1>2. ASSUME NEW st, Continues(h, st) PROVE Continues(h, st)'
    BY <1>1, <1>2 DEF Continues, SamePass
  <1>3. PassOK(h)'
    BY <1>1 DEF PassOK, SamePass, FromBefore
  <1>4. CASE object[h].dir # NoDir
    <2>1. pass'[h].steady \subseteq Visible(object[h].dir)' /\ object'[h] = object[h]
      BY <1>4 DEF SamePass
    <2>2. ~pass'[h].over /\ ~Ends(h)' =>
             pass'[h].steady \cap disk[object[h].dir] \cap Reached(h)' \subseteq Seen(h)' \cup PageOf(h)'
      BY <1>1, <1>4 DEF OpenPass, SamePass
    <2>3. (\A i \in Stored(h) : ~Restarting(h) => Continues(h, states[i].st))'
      <3> SUFFICES ASSUME NEW i \in Stored(h)', ~Restarting(h)'
                   PROVE  Continues(h, states[i].st)'
        OBVIOUS
      <3>1. PICK j \in Stored(h) : states'[i] = states[j]
        BY DEF FromBefore
      <3>2. PICK st : st = states[j].st
        OBVIOUS
      <3>3. Continues(h, st)
        BY <1>4, <3>1, <3>2 DEF OpenPass
      <3>4. Continues(h, st)'
        BY <1>2, <3>3
      <3> QED
        BY <3>1, <3>2, <3>4 DEF Continues
    <2> QED
      BY <1>3, <2>1, <2>2, <2>3 DEF OpenPass
  <1>5. CASE object[h].dir = NoDir
    BY <1>3, <1>5 DEF OpenPass, SamePass
  <1> QED
    BY <1>4, <1>5

(* The same of a handle that has no query.                                  *)
LEMMA IdlePassKept ==
    ASSUME NEW h \in HandleValue, OpenPass(h), PassOK(h), SamePass(h), FromBefore(h), disk' = disk,
           ~Serving(h), ~Serving(h)'
    PROVE  OpenPass(h)' /\ PassOK(h)'
  <1>1. Base(h)' = Base(h) /\ PageOf(h)' = PageOf(h) /\ ~Restarting(h) /\ ~Ends(h)
    BY DEF Base, PageOf, Restarting, Ends
  <1> QED
    BY <1>1, PassKept

(* A step of the query of one handle does not touch the others.             *)
Apart(h) ==
    /\ disk' = disk /\ index' = index /\ tombs' = tombs
    /\ object'[h] = object[h] /\ pass'[h] = pass[h]

(* A step of one query leaves the passes of the other handles (OpenPass).   *)
LEMMA OtherPass ==
    ASSUME NEW h \in HandleValue, OpenPass(h), PassOK(h), Apart(h), FromBefore(h),
           ~Serving(h), ~Serving(h)'
    PROVE  OpenPass(h)' /\ PassOK(h)'
  <1>1. \A d : Visible(d)' = Visible(d)
    BY DEF Visible, whiteouts_under, Apart
  <1>2. SamePass(h)
    BY <1>1 DEF SamePass, Apart, OpenPass
  <1> QED
    BY <1>2, IdlePassKept DEF Apart

(* What of a query other threads and guests leave alone.                    *)
SameQuery ==
    /\ query' = [query EXCEPT !.gone = query'.gone] /\ query'.gone \subseteq query.gone

(* What other threads and guests do leaves the query as it is (QueryOK).    *)
LEMMA QueryKept ==
    ASSUME query \in QueryRecord, QueryOK, SameQuery, SamePass(query.h),
           disk' = disk, buffer' = buffer, FromBefore(query.h)
    PROVE  QueryOK' /\ query' \in QueryRecord
  <1> DEFINE h == query.h
  <1>1. /\ query' \in QueryRecord
        /\ query'.pc = query.pc /\ query'.h = h /\ query'.mask = query.mask
        /\ query'.restart = query.restart /\ query'.taken = query.taken
        /\ query'.status = query.status /\ query'.page = query.page /\ query'.st = query.st
        /\ query'.dir = query.dir /\ query'.hide = query.hide /\ query'.base = query.base
        /\ query'.again = query.again /\ query'.answered = query.answered
        /\ query'.gone \subseteq query.gone
    BY DEF SameQuery, QueryRecord
  <1>2. query # NoQuery /\ query' # NoQuery
    BY <1>1, NoQueryIsNone
  <1>3. /\ Seen(h)' = Seen(h) /\ Reached(h)' = Reached(h) /\ Ended' = Ended
        /\ pass'[h].steady \subseteq pass[h].steady
        /\ pass'[h].kept = pass[h].kept /\ pass'[h].over = pass[h].over
        /\ pass'[h].listed = pass[h].listed
    BY <1>1, <1>2 DEF Seen, Base, Serving, Reached, SamePass, Ended
  <1>9. object'[h] = object[h]
    BY DEF SamePass
  <1>4. QueryShape'
    BY <1>1, <1>2, <1>3, <1>9 DEF QueryOK, QueryShape, Steady
  <1>5. QueryAnswer'
    BY <1>1, <1>2, <1>3, <1>9 DEF QueryOK, QueryAnswer, Steady
  <1>6. Continues(h, query.st) => Continues(h, query.st)'
    BY <1>1, <1>3, <1>9 DEF Continues
  <1>7. Stored(h) = {} => Stored(h)' = {}
    BY DEF FromBefore
  <1>8. QueryState'
    <2>1. CASE query.taken
      BY <1>1, <1>2, <1>3, <1>6, <1>7, <1>9, <2>1 DEF QueryOK, QueryState, Steady, StateOK
    <2>2. CASE ~query.taken
      BY <1>1, <2>2 DEF QueryState
    <2> QED
      BY <2>1, <2>2
  <1> QED
    BY <1>1, <1>4, <1>5, <1>8 DEF QueryOK

(* A pass of which nothing changes.                                         *)
LEMMA Untouched ==
    ASSUME NEW h \in HandleValue, OpenPass(h), PassOK(h), Apart(h), UNCHANGED <<states, query>>
    PROVE  OpenPass(h)' /\ PassOK(h)'
  <1>1. /\ Base(h)' = Base(h) /\ PageOf(h)' = PageOf(h)
        /\ Restarting(h)' = Restarting(h) /\ Ends(h)' = Ends(h) /\ FromBefore(h)
    BY DEF Base, PageOf, Restarting, Ends, Serving, Ended, FromBefore, Stored
  <1>2. \A d : Visible(d)' = Visible(d)
    BY DEF Visible, whiteouts_under, Apart
  <1>3. SamePass(h)
    BY <1>2 DEF SamePass, Apart, OpenPass
  <1> QED
    BY <1>1, <1>3, PassKept DEF Apart

(* A query of which nothing changes.                                        *)
LEMMA QueryUntouched ==
    ASSUME ListingShapes, QueryOK, UNCHANGED <<states, query, buffer>>,
           query # NoQuery => Apart(query.h) /\ OpenPass(query.h)
    PROVE  QueryOK'
  <1>1. CASE query = NoQuery
    BY <1>1 DEF QueryOK
  <1>2. CASE query # NoQuery
    <2>1. query \in QueryRecord
      BY <1>2 DEF ListingShapes
    <2>2. \A d : Visible(d)' = Visible(d)
      BY <1>2 DEF Visible, whiteouts_under, Apart
    <2>3. SamePass(query.h)
      BY <1>2, <2>2 DEF SamePass, Apart, OpenPass
    <2>4. SameQuery
      BY <2>1 DEF SameQuery, QueryRecord
    <2>5. FromBefore(query.h) /\ disk' = disk
      BY <1>2 DEF FromBefore, Stored, Apart
    <2> QED
      BY <2>1, <2>3, <2>4, <2>5, QueryKept
  <1> QED
    BY <1>1, <1>2

(* The invariant with the shapes.                                           *)
ListingInd == ListingShapes /\ ListingInv

(* The invariant at the start.                                              *)
LEMMA ListingIndInit == ListingConstants /\ ListingInit => ListingInd
  <1> SUFFICES ASSUME ListingConstants, ListingInit PROVE ListingInv
    BY ShapesInit DEF ListingInd
  <1>1. query = NoQuery /\ states = <<>> /\ buffer = {}
    BY DEF ListingInit
  <1>2. \A h \in HandleValue : Stored(h) = {} /\ object[h].dir = NoDir /\ pass[h] = NoPass
    BY <1>1 DEF Stored, ListingInit, ClosedObject
  <1>3. \A h \in HandleValue : OpenPass(h) /\ PassOK(h)
    BY <1>2 DEF OpenPass, PassOK, NoPass
  <1>4. \A h \in HandleValue : object[h] = ClosedObject
    BY DEF ListingInit
  <1> QED
    BY <1>1, <1>3, <1>4 DEF ListingInv, QueryOK

(* A handle is opened: no state that is stored under its value belongs to   *)
(* the directory, or the pass would continue another's.                     *)
LEMMA OpenKeeps ==
    ASSUME ListingConstants, ~ReopenSame, ListingInd, NEW h \in HandleValue, NEW d \in Dir, Open(h, d)
    PROVE  ListingInd'
  <1> USE DEF ListingInd
  <1>1. /\ object[h] = ClosedObject /\ object[h].dir = NoDir /\ object[h].last = {}
        /\ \A i \in Stored(h) : states[i].st.dir # d
        /\ UNCHANGED <<disk, index, tombs, states, query, buffer>>
    BY DEF Open, ClosedObject
  <1>2. /\ object'[h].dir = d /\ object'[h].last = {} /\ pass'[h] = NewPass(d)
        /\ \A o \in HandleValue \ {h} : object'[o] = object[o] /\ pass'[o] = pass[o]
        /\ object' \in [HandleValue -> FileObject]
        /\ pass' \in [HandleValue -> PassRecord]
    BY <1>1, HandleTypes, VisibleTypes DEF Open, ListingShapes, FileObject
  <1>3. ListingShapes'
    BY <1>1, <1>2 DEF ListingShapes, OneEach
  <1>4. ~Serving(h) /\ ~Serving(h)'
    BY <1>1 DEF Serving, ListingInv, QueryOK, QueryShape
  <1>5. \A o \in HandleValue \ {h} : Apart(o)
    BY <1>1, <1>2 DEF Apart
  <1>6. OpenPass(h)' /\ PassOK(h)'
    <2>1. Seen(h)' = {} /\ Reached(h)' = {} /\ Visible(d)' = Visible(d)
      BY <1>1, <1>2, <1>4, VisibleTypes DEF Seen, Base, Reached, Visible, whiteouts_under
    <2>2. (\A i \in Stored(h) : Continues(h, states[i].st))'
      BY <1>1, <1>2 DEF Continues, Stored
    <2>3. pass'[h].steady = Visible(d) /\ pass'[h].missed = {} /\ pass'[h].again = {}
      BY <1>2, VisibleTypes
    <2> QED
      BY <1>2, <2>1, <2>2, <2>3 DEF OpenPass, PassOK
  <1>7. \A o \in HandleValue \ {h} : OpenPass(o)' /\ PassOK(o)'
    BY <1>1, <1>5, Untouched DEF ListingInv
  <1>8. QueryOK'
    <2>1. query # NoQuery => query.h \in HandleValue \ {h}
      BY <1>4, QueryTypes DEF ListingShapes, Serving
    <2> QED
      BY <1>1, <1>5, <2>1, QueryUntouched DEF ListingInv
  <1>9. \A o \in HandleValue : object'[o] # ClosedObject => object'[o].dir # NoDir
    BY <1>2 DEF ListingInv, ListingConstants
  <1> QED
    BY <1>1, <1>3, <1>6, <1>7, <1>8, <1>9 DEF ListingInv, StateOK

(* A handle is closed; its state stays in the registry.                     *)
LEMMA CloseKeeps ==
    ASSUME ListingConstants, ListingInd, NEW h \in HandleValue, Close(h)
    PROVE  ListingInd'
  <1> USE DEF ListingInd
  <1>1. UNCHANGED <<disk, index, tombs, states, query, buffer, pass>>
    BY DEF Close
  <1>2. /\ object'[h] = ClosedObject /\ object'[h].dir = NoDir
        /\ \A o \in HandleValue \ {h} : object'[o] = object[o]
        /\ object' \in [HandleValue -> FileObject]
    BY DEF Close, ListingShapes, FileObject, ClosedObject, Masks
  <1>3. ListingShapes'
    BY <1>1, <1>2 DEF ListingShapes, OneEach
  <1>4. \A o \in HandleValue \ {h} : Apart(o)
    BY <1>1, <1>2 DEF Apart
  <1>5. OpenPass(h)' /\ PassOK(h)'
    <2>1. Stored(h)' = Stored(h) /\ Seen(h)' = Seen(h)
      BY <1>1 DEF Stored, Seen, Base, Serving
    <2> QED
      BY <1>1, <1>2, <2>1 DEF OpenPass, PassOK, ListingInv
  <1>6. \A o \in HandleValue \ {h} : OpenPass(o)' /\ PassOK(o)'
    BY <1>1, <1>4, Untouched DEF ListingInv
  <1>7. QueryOK'
    <2>1. query # NoQuery => query.h \in HandleValue \ {h}
      BY QueryTypes DEF ListingShapes, Close
    <2> QED
      BY <1>1, <1>4, <2>1, QueryUntouched DEF ListingInv
  <1>8. \A o \in HandleValue : object'[o] # ClosedObject => object'[o].dir # NoDir
    BY <1>2 DEF ListingInv
  <1> QED
    BY <1>1, <1>3, <1>5, <1>6, <1>7, <1>8 DEF ListingInv, StateOK

(* A query enters the hook (hook_nt_query_directory_file).                  *)
LEMMA QueryStartKeeps ==
    ASSUME ListingConstants, ListingInd, NEW h \in HandleValue, NEW q \in Query,
           hook_nt_query_directory_file(h, q)
    PROVE  ListingInd'
  <1> USE DEF ListingInd
  <1>1. query = NoQuery /\ object[h] # ClosedObject /\ buffer' = {}
        /\ UNCHANGED <<disk, index, tombs, object, states, pass>>
    BY DEF hook_nt_query_directory_file
  <1>2. q.mask \in Masks /\ q.single \in BOOLEAN /\ q.restart \in BOOLEAN /\ q.room \in Nat
    BY DEF ListingConstants, Masks
  <1>3. /\ query' \in QueryRecord /\ query'.pc = "pending" /\ query'.h = h /\ ~query'.taken
        /\ query'.answered /\ query'.base = {} /\ query'.again = {}
    <2>1. FreshState(NoDir, NoMask) \in EnumState
      BY FreshTypes DEF Masks
    <2> QED
      BY <1>2, <2>1 DEF hook_nt_query_directory_file, QueryRecord
  <1>4. ListingShapes'
    BY <1>1, <1>3 DEF ListingShapes, OneEach
  <1>5. query' # NoQuery /\ object[h].dir # NoDir
    BY <1>1, <1>3, NoQueryIsNone DEF ListingInv
  <1>6. \A o : Visible(o)' = Visible(o)
    BY <1>1 DEF Visible, whiteouts_under
  <1>7. ASSUME NEW o \in HandleValue PROVE OpenPass(o)' /\ PassOK(o)'
    <2>1. OpenPass(o) /\ PassOK(o)
      BY DEF ListingInv
    <2>2. /\ Base(o) = {} /\ PageOf(o) = {} /\ ~Restarting(o) /\ ~Ends(o)
          /\ Base(o)' = {} /\ PageOf(o)' = {} /\ FromBefore(o)
      BY <1>1, <1>3 DEF Base, PageOf, Restarting, Ends, Serving, FromBefore, Stored
    <2>3. SamePass(o)
      BY <1>1, <1>6, <2>1 DEF SamePass, OpenPass
    <2> QED
      BY <1>1, <2>1, <2>2, <2>3, PassKept
  <1>8. QueryOK'
    BY <1>1, <1>3, <1>5 DEF QueryOK, QueryShape, QueryAnswer, QueryState
  <1> QED
    BY <1>1, <1>4, <1>7, <1>8 DEF ListingInv, StateOK

(* A query is refused before it reaches the kernel.                         *)
LEMMA UnsupervisedKeeps ==
    ASSUME ListingInd, NEW h \in HandleValue, Unsupervised(h)
    PROVE  ListingInd'
  <1> USE DEF ListingInd
  <1>1. query = NoQuery /\ buffer' = {}
        /\ UNCHANGED <<disk, index, tombs, object, states, query, pass>>
    BY DEF Unsupervised
  <1>2. ListingShapes'
    BY <1>1 DEF ListingShapes, OneEach
  <1>3. \A o \in HandleValue : OpenPass(o)' /\ PassOK(o)'
    BY <1>1, Untouched DEF Apart, ListingInv
  <1> QED
    BY <1>1, <1>2, <1>3 DEF ListingInv, StateOK, QueryOK

(* A listing over another handle may push out a state; the pass it belonged *)
(* to is not kept then.                                                     *)
LEMMA OtherListingKeeps ==
    ASSUME ListingConstants, ListingInd, OtherListing
    PROVE  ListingInd'
  <1> USE DEF ListingInd
  <1> DEFINE st == FreshState(NoDir, NoMask)
  <1>1. /\ states' = store_enum_state(OtherHandle, st)
        /\ UNCHANGED <<disk, index, tombs, object, query, buffer, pass>>
    BY DEF OtherListing
  <1>2. st \in EnumState /\ ~st.overlay_done
    BY FreshTypes DEF Masks
  <1> HIDE DEF st
  <1>3. /\ states' \in Seq(StateEntry) /\ Len(states') <= ENUM_STATES_CAP /\ OneEach(states')
        /\ StoredLast(states', OtherHandle, st)
    BY <1>1, <1>2, StoredEntries
  <1>4. ListingShapes'
    BY <1>1, <1>3 DEF ListingShapes
  <1>5. \A i \in DOMAIN states' : StateOK(states'[i].st)
    BY <1>2, <1>3 DEF StoredLast, StateOK, ListingInv
  <1>6. ASSUME NEW o \in HandleValue PROVE FromBefore(o)
    BY <1>3 DEF FromBefore, Stored, StoredLast, ListingConstants
  <1>7. \A d : Visible(d)' = Visible(d)
    BY <1>1 DEF Visible, whiteouts_under
  <1>8. ASSUME NEW o \in HandleValue PROVE SamePass(o) /\ OpenPass(o)' /\ PassOK(o)'
    <2>1. OpenPass(o) /\ PassOK(o)
      BY DEF ListingInv
    <2>2. /\ Base(o)' = Base(o) /\ PageOf(o)' = PageOf(o)
          /\ Restarting(o)' = Restarting(o) /\ Ends(o)' = Ends(o)
      BY <1>1 DEF Base, PageOf, Restarting, Ends, Serving, Ended
    <2>3. SamePass(o)
      BY <1>1, <1>7, <2>1 DEF SamePass, OpenPass
    <2> QED
      BY <1>1, <1>6, <2>1, <2>2, <2>3, PassKept
  <1>9. QueryOK'
    <2>1. CASE query = NoQuery
      BY <1>1, <2>1 DEF QueryOK
    <2>2. CASE query # NoQuery
      <3>1. query \in QueryRecord /\ query.h \in HandleValue /\ SameQuery
        BY <1>1, <2>2, QueryTypes DEF ListingShapes, SameQuery, QueryRecord
      <3> QED
        BY <1>1, <1>6, <1>8, <3>1, QueryKept DEF ListingInv
    <2> QED
      BY <2>1, <2>2
  <1> QED
    BY <1>1, <1>4, <1>5, <1>8, <1>9 DEF ListingInv

(* A file of the overlay appears: it is steady in no pass that began        *)
(* before.                                                                  *)
LEMMA RecordOverlayKeeps ==
    ASSUME ListingConstants, ListingInd, NEW d \in Dir, NEW n \in Names \ {Dot}, RecordOverlay(d, n)
    PROVE  ListingInd'
  <1> USE DEF ListingInd
  <1>1. /\ UNCHANGED <<disk, tombs, object, states, buffer, pass>>
        /\ index' = [index EXCEPT ![d] = index[d] \cup {n}]
    BY DEF RecordOverlay
  <1>2. \/ query = NoQuery /\ query' = query
        \/ query \in QueryRecord /\ SameQuery /\ query' \in QueryRecord
    <2>1. CASE query = NoQuery
      BY <2>1 DEF RecordOverlay
    <2>2. CASE query # NoQuery
      <3>1. query \in QueryRecord /\ query' = [query EXCEPT !.gone = query.gone \ {n}]
        BY <2>2 DEF RecordOverlay, ListingShapes
      <3> QED
        BY <3>1 DEF SameQuery, QueryRecord
    <2> QED
      BY <2>1, <2>2
  <1>3. ListingShapes'
    BY <1>1, <1>2 DEF ListingShapes, OneEach
  <1>4. \A e \in Dir : Visible(e) \subseteq Visible(e)'
    BY <1>1 DEF Visible, whiteouts_under, ListingShapes
  <1>5. ASSUME NEW o \in HandleValue PROVE SamePass(o) /\ FromBefore(o) /\ OpenPass(o)' /\ PassOK(o)'
    <2>1. OpenPass(o) /\ PassOK(o) /\ FromBefore(o)
      BY <1>1 DEF ListingInv, FromBefore, Stored
    <2>2. /\ Base(o)' = Base(o) /\ PageOf(o)' = PageOf(o)
          /\ Restarting(o)' = Restarting(o) /\ Ends(o)' = Ends(o)
      <3>1. CASE query = NoQuery /\ query' = query
        BY <3>1 DEF Base, PageOf, Restarting, Ends, Serving, Ended
      <3>2. CASE query \in QueryRecord /\ SameQuery /\ query' \in QueryRecord
        BY <3>2, NoQueryIsNone, ZenonT(40)
           DEF Base, PageOf, Restarting, Ends, Serving, Ended, SameQuery, QueryRecord
      <3> QED
        BY <1>2, <3>1, <3>2
    <2>3. SamePass(o)
      BY <1>1, <1>4, <2>1, HandleTypes DEF SamePass, OpenPass
    <2> QED
      BY <1>1, <2>1, <2>2, <2>3, PassKept
  <1>6. QueryOK'
    <2>1. CASE query = NoQuery /\ query' = query
      BY <2>1 DEF QueryOK
    <2>2. CASE query \in QueryRecord /\ SameQuery
      BY <1>1, <1>5, <2>2, QueryTypes, QueryKept DEF ListingInv
    <2> QED
      BY <1>2, <2>1, <2>2
  <1> QED
    BY <1>1, <1>3, <1>5, <1>6 DEF ListingInv, StateOK

(* A file is deleted: it is steady no longer.                               *)
LEMMA RecordWhiteoutKeeps ==
    ASSUME ListingConstants, ListingInd, NEW d \in Dir, NEW n \in Names \ {Dot}, RecordWhiteout(d, n)
    PROVE  ListingInd'
  <1> USE DEF ListingInd
  <1>1. /\ UNCHANGED <<disk, object, states, query, buffer>>
        /\ index' = [index EXCEPT ![d] = index[d] \ {n}]
        /\ tombs' = [tombs EXCEPT ![d] = tombs[d] \cup {n}]
    BY DEF RecordWhiteout
  <1>2. pass' \in [HandleValue -> PassRecord]
    BY ZenonT(40) DEF RecordWhiteout, ListingShapes, PassRecord
  <1>3. ListingShapes'
    BY <1>1, <1>2 DEF ListingShapes, OneEach
  <1>4. \A e \in Dir : IF e = d THEN Visible(e) \ {n} \subseteq Visible(e)' ELSE Visible(e)' = Visible(e)
    BY <1>1 DEF Visible, whiteouts_under, ListingShapes
  <1>5. ASSUME NEW o \in HandleValue PROVE SamePass(o) /\ FromBefore(o) /\ OpenPass(o)' /\ PassOK(o)'
    <2>1. OpenPass(o) /\ PassOK(o) /\ FromBefore(o)
      BY <1>1 DEF ListingInv, FromBefore, Stored
    <2>2. /\ Base(o)' = Base(o) /\ PageOf(o)' = PageOf(o)
          /\ Restarting(o)' = Restarting(o) /\ Ends(o)' = Ends(o)
      BY <1>1 DEF Base, PageOf, Restarting, Ends, Serving, Ended
    <2>3. SamePass(o)
      <3>1. /\ pass'[o].listed = pass[o].listed /\ pass'[o].again = pass[o].again
            /\ pass'[o].missed = pass[o].missed /\ pass'[o].over = pass[o].over
            /\ pass'[o].kept = pass[o].kept
            /\ pass'[o].steady = IF object[o].dir = d THEN pass[o].steady \ {n} ELSE pass[o].steady
        BY HandleTypes DEF RecordWhiteout, PassRecord
      <3> QED
        BY <1>1, <1>4, <2>1, <3>1, HandleTypes DEF SamePass, OpenPass
    <2> QED
      BY <1>1, <2>1, <2>2, <2>3, PassKept
  <1>6. QueryOK'
    <2>1. CASE query = NoQuery
      BY <1>1, <2>1 DEF QueryOK
    <2>2. CASE query # NoQuery
      <3>1. query \in QueryRecord /\ query.h \in HandleValue /\ SameQuery
        BY <1>1, <2>2, QueryTypes DEF ListingShapes, SameQuery, QueryRecord
      <3> QED
        BY <1>1, <1>5, <3>1, QueryKept DEF ListingInv
    <2> QED
      BY <2>1, <2>2
  <1> QED
    BY <1>1, <1>3, <1>5, <1>6 DEF ListingInv, StateOK

(* A step of the query of h leaves the passes of the others.                *)
LEMMA OthersKept ==
    ASSUME ListingInv, query # NoQuery, query' = NoQuery \/ query'.h = query.h,
           NEW h, query.h = h,
           \A o \in HandleValue \ {h} : Apart(o) /\ FromBefore(o)
    PROVE  \A o \in HandleValue \ {h} : OpenPass(o)' /\ PassOK(o)'
  <1> TAKE o \in HandleValue \ {h}
  <1>1. ~Serving(o) /\ ~Serving(o)'
    BY DEF Serving
  <1> QED
    BY <1>1, OtherPass DEF ListingInv

(* The query returns (DropSupervision).                                     *)
LEMMA DropKeeps ==
    ASSUME ListingInd, DropSupervision
    PROVE  ListingInd'
  <1> USE DEF ListingInd
  <1>1. query' = NoQuery /\ UNCHANGED <<disk, index, tombs, object, states, buffer, pass>>
    BY DEF DropSupervision
  <1>2. query \in QueryRecord /\ query # NoQuery /\ query.h \in HandleValue /\ query.pc = "return"
    BY Busy, QueryTypes DEF DropSupervision
  <1> PICK h \in HandleValue : h = query.h
    BY <1>2
  <1>3. ListingShapes'
    BY <1>1 DEF ListingShapes, OneEach
  <1>4. \A o : Stored(o)' = Stored(o) /\ FromBefore(o)
    BY <1>1 DEF Stored, FromBefore
  <1>5. \A o \in HandleValue \ {h} : OpenPass(o)' /\ PassOK(o)'
    BY <1>1, <1>2, <1>4, OthersKept DEF Apart
  <1>6. OpenPass(h)' /\ PassOK(h)'
    <2>1. OpenPass(h) /\ PassOK(h) /\ QueryShape /\ QueryState
      BY <1>2 DEF ListingInv, QueryOK
    <2>2. Base(h) \subseteq pass[h].listed /\ ~Ends(h) /\ PageOf(h) = {} /\ ~Restarting(h)
      BY <1>2, <2>1 DEF Base, Ends, PageOf, Restarting, QueryShape
    <2>3. Base(h)' = {} /\ PageOf(h)' = {} /\ ~Restarting(h)' /\ ~Ends(h)'
      BY <1>1 DEF Serving, Base, PageOf, Restarting, Ends
    <2>4. Seen(h)' = Seen(h) /\ Reached(h)' = Reached(h) /\ \A d : Visible(d)' = Visible(d)
      BY <1>1, <2>2, <2>3 DEF Seen, Reached, Visible, whiteouts_under
    <2>5. OpenPass(h)'
      BY <1>1, <1>4, <2>1, <2>2, <2>3, <2>4 DEF OpenPass, Continues
    <2>6. PassOK(h)'
      BY <1>1, <1>4, <2>1, <2>4 DEF PassOK
    <2> QED
      BY <2>5, <2>6
  <1> QED
    BY <1>1, <1>2, <1>3, <1>5, <1>6 DEF ListingInv, StateOK, QueryOK

(* What the invariant says of a query that runs.                            *)
LEMMA AtQuery ==
    ASSUME ListingInd,
           query.pc \in {"pending", "completed", "real", "overlay", "publish", "return"}
    PROVE  /\ query \in QueryRecord /\ query # NoQuery /\ query.h \in HandleValue
           /\ OpenPass(query.h) /\ PassOK(query.h)
           /\ QueryShape /\ QueryAnswer /\ QueryState
           /\ object[query.h].dir \in Dir
  <1>1. query \in QueryRecord /\ query # NoQuery /\ query.h \in HandleValue
    BY Busy, QueryTypes DEF ListingInd
  <1>2. QueryShape /\ QueryAnswer /\ QueryState
    BY <1>1 DEF ListingInd, ListingInv, QueryOK
  <1>3. object[query.h].dir \in Dir
    BY <1>1, <1>2, HandleTypes DEF QueryShape, ListingInd
  <1> QED
    BY <1>1, <1>2, <1>3 DEF ListingInd, ListingInv

(* The real stream was done before (process_dir_output).                    *)
LEMMA SkipRealKeeps ==
    ASSUME ListingInd, SkipReal
    PROVE  ListingInd'
  <1>1. /\ query.pc = "real" /\ query.st.real_done
        /\ UNCHANGED <<disk, index, tombs, object, states, buffer, pass>>
    BY DEF SkipReal
  <1>2. /\ query \in QueryRecord /\ query # NoQuery /\ query.h \in HandleValue
        /\ OpenPass(query.h) /\ PassOK(query.h) /\ QueryShape /\ QueryAnswer /\ QueryState
        /\ object[query.h].dir \in Dir
    BY <1>1, AtQuery
  <1> PICK h \in HandleValue : h = query.h
    BY <1>2
  <1>3. /\ query' \in QueryRecord /\ query'.pc = "overlay" /\ query'.h = h
        /\ query'.mask = query.mask /\ query'.single = query.single
        /\ query'.restart = query.restart /\ query'.status = query.status
        /\ query'.page = query.page /\ query'.st = query.st /\ query'.dir = query.dir
        /\ query'.hide = query.hide /\ query'.base = query.base /\ query'.again = query.again
        /\ query'.gone = query.gone /\ query'.answered = query.answered
        /\ query'.taken = query.taken
    BY <1>2 DEF SkipReal, QueryRecord
  <1>4. ListingShapes'
    BY <1>1, <1>3 DEF ListingInd, ListingShapes, OneEach
  <1>5. \A o : Stored(o)' = Stored(o) /\ FromBefore(o)
    BY <1>1 DEF Stored, FromBefore
  <1>6. \A o \in HandleValue \ {h} : OpenPass(o)' /\ PassOK(o)'
    BY <1>1, <1>2, <1>3, <1>5, OthersKept DEF Apart, ListingInd
  <1>7. query' # NoQuery /\ Serving(h) /\ Serving(h)' /\ query.taken /\ Stored(h) = {} /\ query.base = {}
    BY <1>1, <1>2, <1>3, NoQueryIsNone DEF Serving, QueryShape, QueryState
  <1>8. /\ Seen(h)' = Seen(h) /\ Reached(h)' = Reached(h)
        /\ \A d : Visible(d)' = Visible(d)
    BY <1>1, <1>3, <1>7 DEF Seen, Base, Reached, Visible, whiteouts_under
  <1>9. OpenPass(h)'
    <2>1. CASE query.dir = NoDir
      <3>1. Ends(h)'
        BY <1>1, <1>3, <1>7, <2>1 DEF Ends
      <3> QED
        BY <1>1, <1>2, <1>5, <1>7, <1>8, <3>1 DEF OpenPass
    <2>2. CASE query.dir # NoDir
      <3>1. Continues(h, query.st) /\ query.st.dir = object[h].dir
        BY <1>2, <1>7, <2>2 DEF QueryState
      <3> QED
        BY <1>1, <1>2, <1>5, <1>7, <1>8, <3>1 DEF OpenPass, Continues, Seen
    <2> QED
      BY <2>1, <2>2
  <1>10. PassOK(h)'
    BY <1>1, <1>2, <1>5, <1>8 DEF PassOK
  <1>11. Ended' = Ended /\ Steady' = Steady
    BY <1>1, <1>3 DEF Ended, Steady
  <1>12. QueryShape' /\ QueryAnswer'
    BY <1>1, <1>2, <1>3, <1>11 DEF QueryShape, QueryAnswer
  <1>13. Continues(h, query.st) => Continues(h, query.st)'
    BY <1>1, <1>3, <1>8 DEF Continues
  <1>14. QueryState'
    BY <1>1, <1>2, <1>3, <1>5, <1>7, <1>8, <1>11, <1>13 DEF QueryState, StateOK
  <1> QED
    BY <1>1, <1>4, <1>6, <1>9, <1>10, <1>12, <1>14 DEF ListingInd, ListingInv, StateOK, QueryOK

(* The kernel has no more names: those of the disk that are steady were     *)
(* listed.                                                                  *)
LEMMA RealExhaustedKeeps ==
    ASSUME ListingInd, RealExhausted
    PROVE  ListingInd'
  <1>1. /\ query.pc = "real" /\ ~query.st.real_done
        /\ query.status \in {"no such file", "no more files"}
        /\ UNCHANGED <<disk, index, tombs, object, states, buffer, pass>>
    BY DEF RealExhausted
  <1>2. /\ query \in QueryRecord /\ query # NoQuery /\ query.h \in HandleValue
        /\ OpenPass(query.h) /\ PassOK(query.h) /\ QueryShape /\ QueryAnswer /\ QueryState
        /\ object[query.h].dir \in Dir
    BY <1>1, AtQuery
  <1> PICK h \in HandleValue : h = query.h
    BY <1>2
  <1> PICK st \in EnumState : st = query.st
    BY <1>2, QueryTypes
  <1> DEFINE st2 == [st EXCEPT !.real_done = TRUE]
  <1>3. /\ st2 \in EnumState /\ st2.real_done /\ st2.dir = st.dir /\ st2.mask = st.mask
        /\ st2.overlay_done = st.overlay_done /\ st2.delivered = st.delivered
        /\ st2.has_extras = st.has_extras /\ st2.extras = st.extras
    BY DEF EnumState
  <1>4. query'.st = st2
    BY <1>2 DEF RealExhausted, QueryRecord
  <1> HIDE DEF st2
  <1>5. /\ query' \in QueryRecord /\ query'.pc = "overlay" /\ query'.h = h
        /\ query'.mask = query.mask /\ query'.single = query.single
        /\ query'.restart = query.restart /\ query'.status = query.status
        /\ query'.page = query.page /\ query'.dir = query.dir
        /\ query'.hide = query.hide /\ query'.base = query.base /\ query'.again = query.again
        /\ query'.gone = query.gone /\ query'.answered = query.answered
        /\ query'.taken = query.taken
    BY <1>2, <1>3, <1>4 DEF RealExhausted, QueryRecord
  <1>6. ListingShapes'
    BY <1>1, <1>5 DEF ListingInd, ListingShapes, OneEach
  <1>7. \A o : Stored(o)' = Stored(o) /\ FromBefore(o)
    BY <1>1 DEF Stored, FromBefore
  <1>8. \A o \in HandleValue \ {h} : OpenPass(o)' /\ PassOK(o)'
    BY <1>1, <1>2, <1>5, <1>7, OthersKept DEF Apart, ListingInd
  <1>9. /\ query' # NoQuery /\ Serving(h) /\ Serving(h)' /\ query.taken /\ Stored(h) = {}
        /\ query.base = {} /\ query.page = {} /\ query.again = {}
    BY <1>1, <1>2, <1>5, NoQueryIsNone DEF Serving, QueryShape, QueryState, QueryAnswer
  <1>10. /\ Seen(h)' = Seen(h) /\ Reached(h)' = Reached(h) /\ Seen(h) = pass[h].listed
         /\ \A d : Visible(d)' = Visible(d)
    BY <1>1, <1>5, <1>9 DEF Seen, Base, Reached, Visible, whiteouts_under
  <1>11. ~Ends(h) /\ PageOf(h) = {} /\ Ended' = Ended /\ Steady' = Steady
    BY <1>1, <1>5, <1>9 DEF Ends, PageOf, Ended, Steady
  <1>12. ~pass[h].over => pass[h].steady \cap disk[object[h].dir] \subseteq pass[h].listed
    <2>1. pass[h].steady \cap disk[object[h].dir] \subseteq Reached(h)
      BY <1>1, <1>2 DEF QueryAnswer, Steady
    <2> QED
      BY <1>2, <1>10, <1>11, <2>1, NoQueryIsNone DEF OpenPass, ListingConstants, QueryShape
  <1>13. OpenPass(h)'
    BY <1>1, <1>2, <1>7, <1>9, <1>10, <1>12 DEF OpenPass
  <1>14. PassOK(h)'
    BY <1>1, <1>2, <1>7, <1>10 DEF PassOK
  <1>15. QueryShape' /\ QueryAnswer'
    BY <1>1, <1>2, <1>3, <1>4, <1>5, <1>9, <1>11 DEF QueryShape, QueryAnswer
  <1>16. Continues(h, st2)'
    <2>1. Continues(h, st)
      BY <1>2, <1>9 DEF QueryState
    <2> QED
      BY <1>1, <1>3, <1>10, <1>12, <2>1 DEF Continues
  <1>17. QueryState'
    <2>1. Continues(query.h, query.st)'
      BY <1>4, <1>5, <1>16 DEF Continues
    <2>2. StateOK(query'.st)
      BY <1>2, <1>3, <1>4, <1>9 DEF QueryState, StateOK
    <2>3. pass[h].kept => Seen(h) \subseteq query'.st.delivered
      BY <1>2, <1>3, <1>4, <1>9 DEF QueryState
    <2>4. query'.dir # NoDir => query'.st.dir = query'.dir
      BY <1>2, <1>3, <1>4, <1>5, <1>9 DEF QueryState
    <2> QED
      BY <1>1, <1>2, <1>5, <1>7, <1>9, <1>10, <1>11, <2>1, <2>2, <2>3, <2>4, ZenonT(40) DEF QueryState, StateOK
  <1> QED
    BY <1>1, <1>6, <1>8, <1>13, <1>14, <1>15, <1>17 DEF ListingInd, ListingInv, StateOK, QueryOK

(* A page counts as delivered and its visible names are shown; one of       *)
(* hidden names only goes back to the kernel.                               *)
LEMMA RealPageKeeps ==
    ASSUME ListingInd, RealPage
    PROVE  ListingInd'
  <1>1. /\ query.pc = "real" /\ ~query.st.real_done /\ query.status = "success"
        /\ UNCHANGED <<disk, index, tombs, object, states, buffer, pass>>
    BY DEF RealPage
  <1>2. /\ query \in QueryRecord /\ query # NoQuery /\ query.h \in HandleValue
        /\ OpenPass(query.h) /\ PassOK(query.h) /\ QueryShape /\ QueryAnswer /\ QueryState
        /\ object[query.h].dir \in Dir
    BY <1>1, AtQuery
  <1> PICK h \in HandleValue : h = query.h
    BY <1>2
  <1> PICK st \in EnumState : st = query.st
    BY <1>2, QueryTypes
  <1> PICK got \in SUBSET Names : got = query.page
    BY <1>2, QueryTypes
  <1> DEFINE st2 == [st EXCEPT !.delivered = st.delivered \cup got]
             shown == got \ query.hide
  <1>3. /\ st2 \in EnumState /\ st2.real_done = st.real_done /\ st2.dir = st.dir /\ st2.mask = st.mask
        /\ st2.overlay_done = st.overlay_done /\ st2.delivered = st.delivered \cup got
        /\ st2.has_extras = st.has_extras /\ st2.extras = st.extras
    BY DEF EnumState
  <1>4. query'.st = st2 /\ query'.base = shown
    BY <1>2 DEF RealPage, QueryRecord
  <1> HIDE DEF st2
  <1>5. /\ query' \in QueryRecord /\ query'.h = h
        /\ query'.pc = (IF shown = {} THEN "pending" ELSE "overlay")
        /\ query'.restart = (IF shown = {} THEN FALSE ELSE query.restart)
        /\ query'.mask = query.mask /\ query'.single = query.single /\ query'.status = query.status
        /\ query'.page = query.page /\ query'.dir = query.dir
        /\ query'.hide = query.hide /\ query'.again = query.again
        /\ query'.gone = query.gone /\ query'.answered = query.answered
        /\ query'.taken = query.taken
    BY <1>2, <1>3, <1>4, ZenonT(40) DEF RealPage, QueryRecord
  <1>6. ListingShapes'
    BY <1>1, <1>5 DEF ListingInd, ListingShapes, OneEach
  <1>7. \A o : Stored(o)' = Stored(o) /\ FromBefore(o)
    BY <1>1 DEF Stored, FromBefore
  <1>8. \A o \in HandleValue \ {h} : OpenPass(o)' /\ PassOK(o)'
    BY <1>1, <1>2, <1>5, <1>7, OthersKept DEF Apart, ListingInd
  <1>9. /\ query' # NoQuery /\ Serving(h) /\ Serving(h)' /\ query.taken /\ Stored(h) = {}
        /\ query.base = {} /\ query.again = {}
    BY <1>1, <1>2, <1>5, NoQueryIsNone DEF Serving, QueryShape, QueryState
  <1>10. /\ Seen(h)' = pass[h].listed \cup shown /\ Reached(h)' = Reached(h)
         /\ Seen(h) = pass[h].listed /\ Base(h)' = shown
         /\ \A d : Visible(d)' = Visible(d)
    BY <1>1, <1>4, <1>5, <1>9 DEF Seen, Base, Reached, Visible, whiteouts_under
  <1>11. ~Ends(h) /\ PageOf(h) = got /\ Steady' = Steady
    BY <1>1, <1>5, <1>9 DEF Ends, PageOf, Steady
  <1>12. pass[h].steady \cap got \subseteq shown
    BY <1>2, <1>9 DEF QueryState, Steady
  <1> HIDE DEF shown
  <1>13. OpenPass(h)'
    BY <1>1, <1>2, <1>7, <1>9, <1>10, <1>11, <1>12 DEF OpenPass
  <1>14. PassOK(h)'
    BY <1>1, <1>2, <1>7, <1>9, <1>10 DEF PassOK
  <1>15. QueryShape' /\ QueryAnswer'
    BY <1>1, <1>2, <1>3, <1>4, <1>5, <1>9, <1>11 DEF QueryShape, QueryAnswer
  <1>16. Continues(h, st2)'
    <2>1. Continues(h, st)
      BY <1>2, <1>9 DEF QueryState
    <2> QED
      BY <1>1, <1>3, <1>10, <1>12, <2>1 DEF Continues
  <1>17. QueryState'
    <2>1. Continues(query.h, query.st)'
      BY <1>4, <1>5, <1>16 DEF Continues
    <2>2. StateOK(query'.st)
      BY <1>2, <1>3, <1>4, <1>9 DEF QueryState, StateOK
    <2>3. pass[h].kept => pass[h].listed \cup shown \subseteq query'.st.delivered
      BY <1>2, <1>3, <1>4, <1>9, <1>10 DEF QueryState, shown
    <2>4. query'.dir # NoDir => query'.st.dir = query'.dir
      BY <1>2, <1>3, <1>4, <1>5, <1>9 DEF QueryState
    <2>5. query'.hide \cap (Steady' \cup query'.base) = {}
      BY <1>2, <1>4, <1>5, <1>9, <1>11 DEF QueryState, shown
    <2>6. query'.pc = "pending" => ~query'.restart /\ ~query'.st.real_done
      BY <1>1, <1>3, <1>4, <1>5
    <2>7. Seen(query.h)' = pass[h].listed \cup shown
      BY <1>5, <1>10
    <2> QED
      BY <1>1, <1>2, <1>5, <1>7, <1>9, <1>11, <2>1, <2>2, <2>3, <2>4, <2>5, <2>6, <2>7 DEF QueryState, StateOK
  <1> QED
    BY <1>1, <1>6, <1>8, <1>13, <1>14, <1>15, <1>17 DEF ListingInd, ListingInv, StateOK, QueryOK

(* The kernel's error goes to the caller; the state is stored again.        *)
LEMMA RealErrorKeeps ==
    ASSUME ListingConstants, ListingInd, RealError
    PROVE  ListingInd'
  <1>1. /\ query.pc = "real" /\ ~query.st.real_done /\ query.status = "error"
        /\ UNCHANGED <<disk, index, tombs, object, buffer, pass>>
    BY DEF RealError
  <1>2. /\ query \in QueryRecord /\ query # NoQuery /\ query.h \in HandleValue
        /\ OpenPass(query.h) /\ PassOK(query.h) /\ QueryShape /\ QueryAnswer /\ QueryState
        /\ object[query.h].dir \in Dir
    BY <1>1, AtQuery
  <1> PICK h \in HandleValue : h = query.h
    BY <1>2
  <1> PICK st \in EnumState : st = query.st
    BY <1>2, QueryTypes
  <1>3. /\ query' \in QueryRecord /\ query'.pc = "publish" /\ query'.h = h
        /\ query'.mask = query.mask /\ query'.single = query.single
        /\ query'.restart = query.restart /\ query'.status = query.status
        /\ query'.page = query.page /\ query'.st = query.st /\ query'.dir = query.dir
        /\ query'.hide = query.hide /\ query'.base = query.base /\ query'.again = query.again
        /\ query'.gone = query.gone /\ query'.answered = query.answered
        /\ query'.taken = query.taken
    BY <1>2 DEF RealError, QueryRecord
  <1>4. /\ states' \in Seq(StateEntry) /\ Len(states') <= ENUM_STATES_CAP /\ OneEach(states')
        /\ StoredLast(states', h, st)
    BY <1>2, StoredEntries DEF RealError, ListingInd
  <1>5. ListingShapes'
    BY <1>1, <1>3, <1>4 DEF ListingInd, ListingShapes
  <1>6. \A o \in HandleValue \ {h} : FromBefore(o)
    BY <1>4 DEF FromBefore, Stored, StoredLast
  <1>7. \A i \in Stored(h)' : states'[i].st = st
    BY <1>4 DEF Stored, StoredLast
  <1>8. \A o \in HandleValue \ {h} : OpenPass(o)' /\ PassOK(o)'
    BY <1>1, <1>2, <1>3, <1>6, OthersKept DEF Apart, ListingInd
  <1>9. /\ query' # NoQuery /\ Serving(h) /\ Serving(h)' /\ query.taken
        /\ query.base = {} /\ query.again = {}
        /\ query.page \cap pass[h].steady \cap Reached(h) = {}
        /\ Continues(h, st) /\ StateOK(st)
        /\ (pass[h].kept => Seen(h) \subseteq st.delivered)
    BY <1>1, <1>2, <1>3, NoQueryIsNone DEF Serving, QueryShape, QueryAnswer, QueryState, Steady
  <1>10. /\ Seen(h)' = Seen(h) /\ Reached(h)' = Reached(h)
         /\ \A d : Visible(d)' = Visible(d)
    BY <1>1, <1>3, <1>9 DEF Seen, Base, Reached, Visible, whiteouts_under
  <1>11. ~Ends(h) /\ PageOf(h) = query.page /\ ~Ended /\ ~Ended' /\ Steady' = Steady
    BY <1>1, <1>3, <1>9 DEF Ends, PageOf, Ended, Steady
  <1>12. Continues(h, st)'
    BY <1>1, <1>9, <1>10 DEF Continues
  <1>13. OpenPass(h)'
    <2>1. (\A i \in Stored(h) : Continues(h, states[i].st))'
      BY <1>7, <1>12 DEF Continues
    <2> QED
      BY <1>1, <1>2, <1>9, <1>10, <1>11, <2>1 DEF OpenPass
  <1>14. PassOK(h)'
    BY <1>1, <1>2, <1>7, <1>9, <1>10 DEF PassOK
  <1>15. QueryShape' /\ QueryAnswer'
    BY <1>1, <1>2, <1>3, <1>9, <1>11 DEF QueryShape, QueryAnswer
  <1>16. QueryState'
    <2>1. Continues(query.h, query.st)'
      BY <1>3, <1>12 DEF Continues
    <2>2. Seen(query.h)' = Seen(h)
      BY <1>3, <1>10
    <2> QED
      BY <1>1, <1>2, <1>3, <1>9, <1>11, <2>1, <2>2 DEF QueryState, StateOK
  <1>17. \A i \in DOMAIN states' : StateOK(states'[i].st)
    BY <1>4, <1>9 DEF StoredLast, StateOK, ListingInd, ListingInv
  <1> QED
    BY <1>1, <1>5, <1>8, <1>13, <1>14, <1>15, <1>16, <1>17 DEF ListingInd, ListingInv, QueryOK

(* The names go to the caller, and with none the pass is over (publish).    *)
LEMMA PublishKeeps ==
    ASSUME ListingInd, publish
    PROVE  ListingInd'
  <1>1. /\ query.pc = "publish"
        /\ buffer' = IF query.status = "error" THEN query.page ELSE query.base
        /\ UNCHANGED <<disk, index, tombs, object, states>>
    BY DEF publish
  <1>2. /\ query \in QueryRecord /\ query # NoQuery /\ query.h \in HandleValue
        /\ OpenPass(query.h) /\ PassOK(query.h) /\ QueryShape /\ QueryAnswer /\ QueryState
        /\ object[query.h].dir \in Dir
    BY <1>1, AtQuery
  <1> PICK h \in HandleValue : h = query.h
    BY <1>2
  <1>3. /\ query' \in QueryRecord /\ query'.pc = "return" /\ query'.h = h
        /\ query'.mask = query.mask /\ query'.single = query.single
        /\ query'.restart = query.restart /\ query'.status = query.status
        /\ query'.page = query.page /\ query'.st = query.st /\ query'.dir = query.dir
        /\ query'.hide = query.hide /\ query'.base = query.base /\ query'.again = query.again
        /\ query'.gone = query.gone /\ query'.answered = query.answered
        /\ query'.taken = query.taken
    BY <1>2 DEF publish, QueryRecord
  <1>4. /\ query' # NoQuery /\ Serving(h) /\ Serving(h)' /\ query.taken
        /\ (pass[h].kept => query.again = {})
        /\ (Ended => query.base = {})
        /\ (Ended /\ query.answered /\ ~pass[h].over => pass[h].steady \subseteq pass[h].listed)
        /\ Continues(h, query.st)
    BY <1>1, <1>2, <1>3, NoQueryIsNone DEF Serving, QueryShape, QueryState, Steady
  <1> DEFINE missed == IF Ended /\ ~pass[query.h].over /\ query.answered
                       THEN pass[query.h].steady \ pass[query.h].listed
                       ELSE pass[query.h].missed
             new == [pass[query.h] EXCEPT !.listed = pass[query.h].listed \cup query.base,
                                          !.again = pass[query.h].again \cup query.again,
                                          !.over = pass[query.h].over \/ Ended,
                                          !.missed = missed]
  <1>5. pass' = [pass EXCEPT ![query.h] = new]
    BY DEF publish
  <1>21. Ended \in BOOLEAN
    BY DEF Ended
  <1>6. missed \in SUBSET Names
    BY <1>2, HandleTypes DEF ListingInd
  <1>7. /\ new \in PassRecord /\ new.listed = pass[h].listed \cup query.base
        /\ new.again = pass[h].again \cup query.again /\ new.over = (pass[h].over \/ Ended)
        /\ new.missed = missed /\ new.steady = pass[h].steady /\ new.kept = pass[h].kept
    <2>1. pass[h] \in PassRecord
      BY HandleTypes DEF ListingInd
    <2>2. query.base \in SUBSET Names /\ query.again \in SUBSET Names
      BY <1>2, QueryTypes
    <2> HIDE DEF missed
    <2> QED
      BY <1>6, <1>21, <2>1, <2>2 DEF PassRecord
  <1>8. missed = {}
    BY <1>2, <1>4 DEF PassOK
  <1> HIDE DEF new, missed
  <1>9. /\ pass' \in [HandleValue -> PassRecord] /\ pass'[h] = new
        /\ \A o \in HandleValue \ {h} : pass'[o] = pass[o]
    BY <1>5, <1>7 DEF ListingInd, ListingShapes
  <1>10. ListingShapes'
    BY <1>1, <1>2, <1>3, <1>9, QueryTypes DEF ListingInd, ListingShapes, OneEach
  <1>11. \A o : Stored(o)' = Stored(o) /\ FromBefore(o)
    BY <1>1 DEF Stored, FromBefore
  <1>12. \A o \in HandleValue \ {h} : OpenPass(o)' /\ PassOK(o)'
    BY <1>1, <1>2, <1>3, <1>9, <1>11, OthersKept DEF Apart, ListingInd
  <1>13. /\ Seen(h)' = Seen(h) /\ Seen(h) = pass'[h].listed /\ Reached(h)' = Reached(h)
         /\ \A d : Visible(d)' = Visible(d)
    BY <1>1, <1>3, <1>4, <1>7, <1>9 DEF Seen, Base, Reached, Visible, whiteouts_under
  <1>14. /\ PageOf(h) = {} /\ PageOf(h)' = {} /\ Steady' = Steady /\ Ended' = Ended
         /\ (~pass'[h].over => ~pass[h].over /\ ~Ended /\ ~Ends(h))
         /\ ~Restarting(h) /\ ~Restarting(h)'
    BY <1>1, <1>3, <1>4, <1>7, <1>9 DEF PageOf, Steady, Ended, Ends, Restarting
  <1>15. \A st : Continues(h, st) => Continues(h, st)'
    BY <1>1, <1>7, <1>9, <1>13, <1>14 DEF Continues
  <1>16. OpenPass(h)'
    <2>1. (\A i \in Stored(h) : Continues(h, states[i].st))'
      <3>1. \A i \in Stored(h) : Continues(h, states[i].st)
        BY <1>2, <1>14 DEF OpenPass, QueryShape
      <3> QED
        BY <1>1, <1>7, <1>9, <1>11, <1>13, <1>14, <3>1 DEF Continues
    <2> QED
      BY <1>1, <1>2, <1>7, <1>9, <1>13, <1>14, <2>1 DEF OpenPass
  <1>17. PassOK(h)'
    BY <1>1, <1>2, <1>4, <1>7, <1>8, <1>9, <1>11, <1>13 DEF PassOK
  <1>18. QueryShape' /\ QueryAnswer'
    BY <1>1, <1>2, <1>3, <1>4, <1>13, <1>14 DEF QueryShape, QueryAnswer, Seen, Base
  <1>19. QueryState'
    <2>1. Continues(query.h, query.st)'
      <3>1. PICK st : st = query.st
        OBVIOUS
      <3>2. Continues(h, st)'
        BY <1>4, <1>15, <3>1
      <3> QED
        BY <1>3, <3>1, <3>2 DEF Continues
    <2>2. Seen(query.h)' = Seen(h)
      BY <1>3, <1>13
    <2>3. pass'[h].kept = pass[h].kept
      BY <1>7, <1>9
    <2> QED
      BY <1>1, <1>2, <1>3, <1>4, <1>14, <2>1, <2>2, <2>3 DEF QueryState, StateOK
  <1> QED
    BY <1>1, <1>10, <1>12, <1>16, <1>17, <1>18, <1>19 DEF ListingInd, ListingInv, StateOK, QueryOK

(* The kernel answers with an error.                                        *)
LEMMA KernelFailsKeeps ==
    ASSUME ListingInd, KernelFails
    PROVE  ListingInd'
  <1>1. /\ query.pc = "pending"
        /\ UNCHANGED <<disk, index, tombs, object, states, buffer>>
    BY DEF KernelFails
  <1>2. /\ query \in QueryRecord /\ query # NoQuery /\ query.h \in HandleValue
        /\ OpenPass(query.h) /\ PassOK(query.h) /\ QueryShape /\ QueryAnswer /\ QueryState
        /\ object[query.h].dir \in Dir
    BY <1>1, AtQuery
  <1> PICK h \in HandleValue : h = query.h
    BY <1>2
  <1>3. /\ query' \in QueryRecord /\ query'.h = h
        /\ query'.pc = (IF query.taken THEN "real" ELSE "completed")
        /\ query'.page = {} /\ query'.status = "error"
        /\ query'.mask = query.mask /\ query'.single = query.single
        /\ query'.restart = query.restart /\ query'.st = query.st /\ query'.dir = query.dir
        /\ query'.hide = query.hide /\ query'.base = query.base /\ query'.again = query.again
        /\ query'.gone = query.gone /\ query'.answered = query.answered
        /\ query'.taken = query.taken
    BY <1>2 DEF KernelFails, QueryRecord
  <1> DEFINE left == {n \in pass[h].steady : Matches(n, query.mask)}
             new == [pass[h] EXCEPT !.steady = left]
  <1>4. pass' = [pass EXCEPT ![h] = new]
    BY DEF KernelFails
  <1>5. /\ new \in PassRecord /\ new.steady = left /\ new.listed = pass[h].listed
        /\ new.again = pass[h].again /\ new.missed = pass[h].missed
        /\ new.kept = pass[h].kept /\ new.over = pass[h].over
    <2>1. pass[h] \in PassRecord
      BY HandleTypes DEF ListingInd
    <2> QED
      BY <2>1 DEF PassRecord
  <1> HIDE DEF new
  <1>6. /\ pass' \in [HandleValue -> PassRecord] /\ pass'[h] = new
        /\ \A o \in HandleValue \ {h} : pass'[o] = pass[o]
    BY <1>4, <1>5 DEF ListingInd, ListingShapes
  <1>7. ListingShapes'
    BY <1>1, <1>3, <1>6 DEF ListingInd, ListingShapes, OneEach
  <1>8. \A o : Stored(o)' = Stored(o) /\ FromBefore(o)
    BY <1>1 DEF Stored, FromBefore
  <1>9. \A o \in HandleValue \ {h} : OpenPass(o)' /\ PassOK(o)'
    BY <1>1, <1>2, <1>3, <1>6, <1>8, OthersKept DEF Apart, ListingInd
  <1>10. /\ query' # NoQuery /\ Serving(h) /\ Serving(h)' /\ query.base = {} /\ query.again = {}
         /\ \A d : Visible(d)' = Visible(d)
    BY <1>1, <1>2, <1>3, NoQueryIsNone DEF Serving, QueryShape, Visible, whiteouts_under
  <1>11. SamePass(h)
    BY <1>1, <1>2, <1>5, <1>6, <1>10 DEF SamePass, OpenPass
  <1>12. /\ Base(h)' = Base(h) /\ PageOf(h)' = PageOf(h) /\ Restarting(h)' = Restarting(h)
         /\ ~Ends(h)
    BY <1>1, <1>3, <1>10 DEF Base, PageOf, Restarting, Ends
  <1>13. OpenPass(h)' /\ PassOK(h)'
    BY <1>1, <1>2, <1>8, <1>11, <1>12, PassKept
  <1>14. /\ Steady' = left /\ left \subseteq pass[h].steady /\ ~Ended'
         /\ Seen(h)' = Seen(h) /\ pass'[h].kept = pass[h].kept
         /\ pass'[h].over = pass[h].over /\ pass'[h].listed = pass[h].listed
    BY <1>3, <1>5, <1>6, <1>12 DEF Steady, Ended, Seen
  <1>15. QueryShape' /\ QueryAnswer'
    BY <1>1, <1>2, <1>3, <1>10, <1>14 DEF QueryShape, QueryAnswer
  <1>16. QueryState'
    <2>1. CASE ~query.taken
      BY <1>3, <2>1 DEF QueryState
    <2>2. CASE query.taken
      <3>1. /\ Continues(h, query.st)
            /\ pass[h].kept => Seen(h) \subseteq query.st.delivered
            /\ query.hide \cap (pass[h].steady \cup query.base) = {} /\ Stored(h) = {}
        BY <1>1, <1>2, <2>2 DEF QueryState, Steady
      <3>2. Continues(query.h, query.st)'
        BY <1>1, <1>2, <1>3, <1>14, <2>2, <1>5, <1>6 DEF Continues, QueryState
      <3>3. Seen(query.h)' = Seen(h)
        BY <1>3, <1>14
      <3>4. query'.hide \cap (Steady' \cup query'.base) = {}
        BY <1>3, <1>14, <3>1
      <3> QED
        BY <1>1, <1>2, <1>3, <1>8, <1>10, <1>14, <2>2, <3>1, <3>2, <3>3, <3>4 DEF QueryState, StateOK
    <2> QED
      BY <2>1, <2>2
  <1> QED
    BY <1>1, <1>7, <1>9, <1>13, <1>15, <1>16 DEF ListingInd, ListingInv, StateOK, QueryOK

(* The kernel fills a page, or says that there is none.                     *)
LEMMA KernelCompletesKeeps ==
    ASSUME ListingConstants, ListingInd, KernelCompletes
    PROVE  ListingInd'
  <1>1. /\ query.pc = "pending"
        /\ UNCHANGED <<disk, index, tombs, states, buffer>>
    BY DEF KernelCompletes
  <1>2. /\ query \in QueryRecord /\ query # NoQuery /\ query.h \in HandleValue
        /\ OpenPass(query.h) /\ PassOK(query.h) /\ QueryShape /\ QueryAnswer /\ QueryState
        /\ object[query.h].dir \in Dir
    BY <1>1, AtQuery
  <1> PICK h \in HandleValue : h = query.h
    BY <1>2
  <1> DEFINE names == RemainingNames(query.h, query.mask, query.restart)
             got == Page(names, query.single, query.room)
             pos == Position(query.h, query.restart)
             mask == RetainedMask(query.h, query.mask)
             had == QueryPass
             left == {n \in had.steady : Matches(n, mask)}
             new == [had EXCEPT !.steady = left]
             status == CASE got # {} -> "success"
                         [] got = {} /\ pos = {} -> "no such file"
                         [] OTHER -> "no more files"
  <1>3. /\ pass' = [pass EXCEPT ![query.h] = new]
        /\ object' = [object EXCEPT ![query.h].last = pos \cup got, ![query.h].mask = mask]
        /\ query' = [query EXCEPT !.pc = IF query.taken THEN "real" ELSE "completed",
                                  !.page = got, !.status = status]
    BY DEF KernelCompletes
  <1>31. ~Cramped(names, query.room) /\ query.room \in Nat
    BY <1>2, QueryTypes DEF KernelCompletes
  <1>4. names = {n \in disk[object[h].dir] : Matches(n, mask) /\ \A m \in pos : m < n}
    BY DEF RemainingNames
  <1>5. disk[object[h].dir] \in SUBSET Names /\ pos \in SUBSET Names /\ mask \in Masks
    BY <1>2, HandleTypes, QueryTypes DEF ListingInd, ListingShapes, Position, RetainedMask
  <1>6. pos = IF query.restart THEN {} ELSE object[h].last
    BY DEF Position
  <1>7. query.mask # NoMask => mask = query.mask
    BY DEF RetainedMask
  <1>8. names \in SUBSET Names
    BY <1>4, <1>5
  <1> HIDE DEF names
  <1>9. /\ got \subseteq names /\ (names # {} => got # {})
        /\ \A n \in names, m \in got : n <= m => n \in got
    BY <1>8, <1>31, FittingIsPrefix, FittingFirst DEF Page
  <1>10. status \in {"success", "no such file", "no more files"} /\ (status # "success" => got = {})
    OBVIOUS
  <1> HIDE DEF got, pos, mask, status
  <1>11. /\ had \in PassRecord
         /\ query.restart => had.steady = Visible(object[h].dir) /\ had.listed = {} /\ had.again = {}
                             /\ had.missed = {} /\ had.kept /\ ~had.over
         /\ ~query.restart => had = pass[h]
    BY <1>2, HandleTypes, VisibleTypes DEF ListingInd, QueryPass
  <1> HIDE DEF had
  <1>12. /\ new \in PassRecord /\ new.steady = left /\ new.listed = had.listed
         /\ new.again = had.again /\ new.missed = had.missed
         /\ new.kept = had.kept /\ new.over = had.over
    BY <1>11 DEF PassRecord
  <1> HIDE DEF new
  <1>13. /\ pass' \in [HandleValue -> PassRecord] /\ pass'[h] = new
         /\ \A o \in HandleValue \ {h} : pass'[o] = pass[o]
    BY <1>3, <1>12 DEF ListingInd, ListingShapes
  <1>14. /\ object' \in [HandleValue -> FileObject] /\ object'[h].dir = object[h].dir
         /\ object'[h].last = pos \cup got
         /\ \A o \in HandleValue \ {h} : object'[o] = object[o]
    BY <1>3, <1>5, <1>8, <1>9, SMTT(30) DEF ListingInd, ListingShapes, FileObject
  <1>15. /\ query' \in QueryRecord /\ query'.h = h
         /\ query'.pc = (IF query.taken THEN "real" ELSE "completed")
         /\ query'.page = got /\ query'.status = status
         /\ query'.mask = query.mask /\ query'.single = query.single
         /\ query'.restart = query.restart /\ query'.st = query.st /\ query'.dir = query.dir
         /\ query'.hide = query.hide /\ query'.base = query.base /\ query'.again = query.again
         /\ query'.gone = query.gone /\ query'.answered = query.answered
         /\ query'.taken = query.taken
    BY <1>2, <1>3, <1>8, <1>9, <1>10, ZenonT(40) DEF QueryRecord
  <1>16. ListingShapes'
    BY <1>1, <1>13, <1>14, <1>15 DEF ListingInd, ListingShapes, OneEach
  <1>17. \A o : Stored(o)' = Stored(o) /\ FromBefore(o)
    BY <1>1 DEF Stored, FromBefore
  <1>18. \A o \in HandleValue \ {h} : OpenPass(o)' /\ PassOK(o)'
    BY <1>1, <1>2, <1>13, <1>14, <1>15, <1>17, OthersKept DEF Apart, ListingInd
  <1>19. /\ query' # NoQuery /\ Serving(h) /\ Serving(h)' /\ query.base = {} /\ query.again = {}
         /\ \A d : Visible(d)' = Visible(d)
    BY <1>1, <1>2, <1>15, NoQueryIsNone DEF Serving, QueryShape, Visible, whiteouts_under
  <1>20. /\ Base(h)' = {} /\ Base(h) = {} /\ PageOf(h) = {} /\ PageOf(h)' = got
         /\ Seen(h) = pass[h].listed /\ Seen(h)' = had.listed /\ ~Ends(h)
         /\ Steady' = left /\ Restarting(h)' = Restarting(h)
    BY <1>1, <1>12, <1>13, <1>15, <1>19 DEF Base, PageOf, Seen, Ends, Steady, Restarting
  <1>21. /\ left \subseteq had.steady /\ \A n \in left : Matches(n, mask)
         /\ had.steady \subseteq Visible(object[h].dir)
    BY <1>2, <1>11 DEF OpenPass, QueryShape
  <1>22. ASSUME NEW n \in left \cap disk[object[h].dir] \cap Reached(h)', ~had.over
         PROVE  n \in had.listed \cup got
    <2>1. n \in Names /\ n \in Nat /\ Names \subseteq Nat
      BY <1>5 DEF ListingConstants
    <2>2. PICK m \in pos \cup got : n <= m
      BY <1>14 DEF Reached
    <2>3. CASE \E k \in pos : n <= k
      <3>1. ~query.restart /\ pos = object[h].last /\ had = pass[h]
        BY <1>6, <1>11, <2>3
      <3>2. n \in Reached(h)
        BY <2>1, <2>3, <3>1 DEF Reached
      <3> QED
        BY <1>2, <1>20, <1>21, <1>22, <3>1, <3>2 DEF OpenPass, QueryShape
    <2>4. CASE ~(\E k \in pos : n <= k)
      <3>1. \A k \in pos : k < n
        BY <1>5, <2>1, <2>4
      <3>2. n \in names /\ m \in got
        BY <1>4, <1>21, <2>2, <2>4, <3>1
      <3> QED
        BY <1>9, <2>2, <3>2
    <2> QED
      BY <2>3, <2>4
  <1>23. ASSUME got = {}
         PROVE  left \cap disk[object[h].dir] \subseteq Reached(h)'
    <2> SUFFICES ASSUME NEW n \in left \cap disk[object[h].dir] PROVE n \in Reached(h)'
      OBVIOUS
    <2>1. n \in Names /\ n \in Nat /\ Names \subseteq Nat
      BY <1>5 DEF ListingConstants
    <2>2. PICK m \in pos : ~(m < n)
      BY <1>4, <1>9, <1>21, <1>23
    <2>3. m \in Nat
      BY <1>5, <2>1
    <2>4. n <= m
      BY <2>1, <2>2, <2>3
    <2> QED
      BY <1>14, <2>1, <2>4 DEF Reached
  <1> HIDE DEF left
  <1>24. ~query.restart => \A st : Continues(h, st) => Continues(h, st)'
    BY <1>1, <1>11, <1>12, <1>13, <1>14, <1>20, <1>21 DEF Continues
  <1>25. OpenPass(h)'
    <2>1. (\A i \in Stored(h) : ~Restarting(h) => Continues(h, states[i].st))'
      <3>1. CASE query.restart /\ ~query.taken
        BY <1>15, <1>19, <3>1 DEF Restarting
      <3>2. CASE ~query.restart
        <4>1. \A i \in Stored(h) : Continues(h, states[i].st)
          BY <1>2, <3>2 DEF OpenPass, Restarting, QueryShape
        <4> QED
          BY <1>1, <1>11, <1>12, <1>13, <1>14, <1>17, <1>20, <1>21, <3>2, <4>1 DEF Continues
      <3> QED
        BY <1>1, <1>2, <3>1, <3>2 DEF QueryState
    <2> QED
      BY <1>1, <1>12, <1>13, <1>14, <1>19, <1>20, <1>21, <1>22, <2>1 DEF OpenPass
  <1>26. PassOK(h)'
    BY <1>1, <1>2, <1>11, <1>12, <1>13, <1>17, <1>20 DEF PassOK
  <1>27. QueryShape'
    BY <1>1, <1>2, <1>7, <1>14, <1>15, <1>19, <1>20, <1>21 DEF QueryShape, Matches
  <1>28. QueryAnswer'
    <2>1. Reached(query.h)' = Reached(h)'
      BY <1>15
    <2> QED
      BY <1>1, <1>10, <1>14, <1>15, <1>20, <1>23, <2>1 DEF QueryAnswer
  <1>29. QueryState'
    <2>1. CASE ~query.taken
      BY <1>15, <2>1 DEF QueryState
    <2>2. CASE query.taken
      <3>1. /\ Continues(h, query.st) /\ ~query.restart /\ had = pass[h]
            /\ pass[h].kept => Seen(h) \subseteq query.st.delivered
            /\ query.hide \cap (pass[h].steady \cup query.base) = {} /\ Stored(h) = {}
        BY <1>1, <1>2, <1>11, <2>2 DEF QueryState, Steady
      <3>2. Continues(query.h, query.st)'
        <4>1. PICK st : st = query.st
          OBVIOUS
        <4>2. Continues(h, st)'
          BY <1>24, <3>1, <4>1
        <4> QED
          BY <1>15, <4>1, <4>2 DEF Continues
      <3>3. Seen(query.h)' = Seen(h)
        BY <1>15, <1>20, <3>1
      <3>4. query'.hide \cap (Steady' \cup query'.base) = {}
        BY <1>15, <1>20, <1>21, <3>1
      <3>5. pass'[h].kept = pass[h].kept
        BY <1>12, <1>13, <3>1
      <3> QED
        BY <1>1, <1>2, <1>14, <1>15, <1>17, <1>19, <2>2, <3>1, <3>2, <3>3, <3>4, <3>5
           DEF QueryState, StateOK
    <2> QED
      BY <2>1, <2>2
  <1>30. \A o \in HandleValue : object'[o] # ClosedObject => object'[o].dir # NoDir
    BY <1>2, <1>14 DEF ListingInd, ListingInv, QueryShape
  <1> QED
    BY <1>1, <1>16, <1>18, <1>25, <1>26, <1>27, <1>28, <1>29, <1>30
       DEF ListingInd, ListingInv, StateOK, QueryOK

(* The kernel cuts the first record off: it is steady no longer if the      *)
(* cursor went past it.                                                     *)
LEMMA KernelCutsOffKeeps ==
    ASSUME ListingConstants, ListingInd, NEW passes \in BOOLEAN, KernelCutsOff(passes)
    PROVE  ListingInd'
  <1>1. /\ query.pc = "pending"
        /\ UNCHANGED <<disk, index, tombs, states, buffer>>
    BY DEF KernelCutsOff
  <1>2. /\ query \in QueryRecord /\ query # NoQuery /\ query.h \in HandleValue
        /\ OpenPass(query.h) /\ PassOK(query.h) /\ QueryShape /\ QueryAnswer /\ QueryState
        /\ object[query.h].dir \in Dir
    BY <1>1, AtQuery
  <1> PICK h \in HandleValue : h = query.h
    BY <1>2
  <1> DEFINE names == RemainingNames(query.h, query.mask, query.restart)
             got == First(names)
             lost == IF passes THEN First(names) ELSE {}
             pos == Position(query.h, query.restart)
             mask == RetainedMask(query.h, query.mask)
             had == QueryPass
             left == {n \in had.steady \ lost : Matches(n, mask)}
             new == [had EXCEPT !.steady = left]
  <1>3. /\ pass' = [pass EXCEPT ![query.h] = new]
        /\ object' = [object EXCEPT ![query.h].last = pos \cup lost, ![query.h].mask = mask]
        /\ query' = [query EXCEPT !.pc = IF query.taken THEN "real" ELSE "completed",
                                  !.page = got, !.status = "error"]
    BY DEF KernelCutsOff
  <1>4. names = {n \in disk[object[h].dir] : Matches(n, mask) /\ \A m \in pos : m < n}
    BY DEF RemainingNames
  <1>5. disk[object[h].dir] \in SUBSET Names /\ pos \in SUBSET Names /\ mask \in Masks
    BY <1>2, HandleTypes, QueryTypes DEF ListingInd, ListingShapes, Position, RetainedMask
  <1>6. pos = IF query.restart THEN {} ELSE object[h].last
    BY DEF Position
  <1>7. query.mask # NoMask => mask = query.mask
    BY DEF RetainedMask
  <1>8. names \in SUBSET Names
    BY <1>4, <1>5
  <1> HIDE DEF names
  <1>9. /\ got \subseteq names /\ lost \subseteq got /\ (lost = got \/ lost = {})
        /\ \A n \in names, m \in got : m <= n
    BY DEF First
  <1> HIDE DEF got, lost, pos, mask
  <1>11. /\ had \in PassRecord
         /\ query.restart => had.steady = Visible(object[h].dir) /\ had.listed = {} /\ had.again = {}
                             /\ had.missed = {} /\ had.kept /\ ~had.over
         /\ ~query.restart => had = pass[h]
    BY <1>2, HandleTypes, VisibleTypes DEF ListingInd, QueryPass
  <1> HIDE DEF had
  <1>12. /\ new \in PassRecord /\ new.steady = left /\ new.listed = had.listed
         /\ new.again = had.again /\ new.missed = had.missed
         /\ new.kept = had.kept /\ new.over = had.over
    BY <1>11 DEF PassRecord
  <1> HIDE DEF new
  <1>13. /\ pass' \in [HandleValue -> PassRecord] /\ pass'[h] = new
         /\ \A o \in HandleValue \ {h} : pass'[o] = pass[o]
    BY <1>3, <1>12 DEF ListingInd, ListingShapes
  <1>14. /\ object' \in [HandleValue -> FileObject] /\ object'[h].dir = object[h].dir
         /\ object'[h].last = pos \cup lost
         /\ \A o \in HandleValue \ {h} : object'[o] = object[o]
    BY <1>3, <1>5, <1>8, <1>9, SMTT(30) DEF ListingInd, ListingShapes, FileObject
  <1>15. /\ query' \in QueryRecord /\ query'.h = h
         /\ query'.pc = (IF query.taken THEN "real" ELSE "completed")
         /\ query'.page = got /\ query'.status = "error"
         /\ query'.mask = query.mask /\ query'.single = query.single
         /\ query'.restart = query.restart /\ query'.st = query.st /\ query'.dir = query.dir
         /\ query'.hide = query.hide /\ query'.base = query.base /\ query'.again = query.again
         /\ query'.gone = query.gone /\ query'.answered = query.answered
         /\ query'.taken = query.taken
    BY <1>2, <1>3, <1>8, <1>9, ZenonT(40) DEF QueryRecord
  <1>16. ListingShapes'
    BY <1>1, <1>13, <1>14, <1>15 DEF ListingInd, ListingShapes, OneEach
  <1>17. \A o : Stored(o)' = Stored(o) /\ FromBefore(o)
    BY <1>1 DEF Stored, FromBefore
  <1>18. \A o \in HandleValue \ {h} : OpenPass(o)' /\ PassOK(o)'
    BY <1>1, <1>2, <1>13, <1>14, <1>15, <1>17, OthersKept DEF Apart, ListingInd
  <1>19. /\ query' # NoQuery /\ Serving(h) /\ Serving(h)' /\ query.base = {} /\ query.again = {}
         /\ \A d : Visible(d)' = Visible(d)
    BY <1>1, <1>2, <1>15, NoQueryIsNone DEF Serving, QueryShape, Visible, whiteouts_under
  <1>20. /\ Base(h)' = {} /\ Base(h) = {} /\ PageOf(h) = {} /\ PageOf(h)' = got
         /\ Seen(h) = pass[h].listed /\ Seen(h)' = had.listed /\ ~Ends(h)
         /\ Steady' = left /\ Restarting(h)' = Restarting(h)
    BY <1>1, <1>12, <1>13, <1>15, <1>19 DEF Base, PageOf, Seen, Ends, Steady, Restarting
  <1>21. /\ left \subseteq had.steady /\ left \cap lost = {} /\ \A n \in left : Matches(n, mask)
         /\ had.steady \subseteq Visible(object[h].dir)
    BY <1>2, <1>11 DEF OpenPass, QueryShape
  <1> HIDE DEF left
  <1>22. ASSUME NEW n \in left \cap disk[object[h].dir] \cap Reached(h)'
         PROVE  \E k \in pos : n <= k
    <2>1. n \in Names /\ n \in Nat /\ Names \subseteq Nat
      BY <1>5 DEF ListingConstants
    <2>2. PICK m \in pos \cup lost : n <= m
      BY <1>14 DEF Reached
    <2>3. CASE m \in lost /\ \A k \in pos : ~(n <= k)
      <3>1. m \in got /\ got = lost /\ m \in Nat
        BY <1>8, <1>9, <2>1, <2>3
      <3>2. \A k \in pos : k < n
        BY <1>5, <2>1, <2>3
      <3>3. n \in names
        BY <1>4, <1>21, <3>2
      <3>4. m <= n
        BY <1>9, <3>1, <3>3
      <3> QED
        BY <1>21, <2>1, <2>2, <2>3, <3>1, <3>4
    <2> QED
      BY <2>2, <2>3
  <1>23. ASSUME NEW n \in left \cap disk[object[h].dir] \cap Reached(h)'
         PROVE  n \notin got /\ (~had.over => n \in had.listed)
    <2>1. PICK k \in pos : n <= k
      BY <1>22
    <2>2. n \in Nat /\ k \in Nat /\ n \in Names
      BY <1>5 DEF ListingConstants
    <2>3. n \notin names
      BY <1>4, <2>1, <2>2
    <2>4. ~query.restart /\ pos = object[h].last /\ had = pass[h]
      BY <1>6, <1>11, <2>1
    <2>5. n \in Reached(h)
      BY <2>1, <2>2, <2>4 DEF Reached
    <2> QED
      BY <1>2, <1>9, <1>20, <1>21, <2>3, <2>4, <2>5 DEF OpenPass, QueryShape
  <1>24. ~query.restart => \A st : Continues(h, st) => Continues(h, st)'
    BY <1>1, <1>11, <1>12, <1>13, <1>14, <1>20, <1>21 DEF Continues
  <1>25. OpenPass(h)'
    <2>1. (\A i \in Stored(h) : ~Restarting(h) => Continues(h, states[i].st))'
      <3>1. CASE query.restart /\ ~query.taken
        BY <1>15, <1>19, <3>1 DEF Restarting
      <3>2. CASE ~query.restart
        <4>1. \A i \in Stored(h) : Continues(h, states[i].st)
          BY <1>2, <3>2 DEF OpenPass, Restarting, QueryShape
        <4> QED
          BY <1>1, <1>11, <1>12, <1>13, <1>14, <1>17, <1>20, <1>21, <3>2, <4>1 DEF Continues
      <3> QED
        BY <1>1, <1>2, <3>1, <3>2 DEF QueryState
    <2> QED
      BY <1>1, <1>12, <1>13, <1>14, <1>19, <1>20, <1>21, <1>23, <2>1 DEF OpenPass
  <1>26. PassOK(h)'
    BY <1>1, <1>2, <1>11, <1>12, <1>13, <1>17, <1>20 DEF PassOK
  <1>27. QueryShape'
    BY <1>1, <1>2, <1>7, <1>14, <1>15, <1>19, <1>20, <1>21 DEF QueryShape, Matches
  <1>28. QueryAnswer'
    <2>1. Reached(query.h)' = Reached(h)'
      BY <1>15
    <2>2. left \cap got \cap Reached(h)' = {}
      BY <1>4, <1>9, <1>23
    <2> QED
      BY <1>15, <1>20, <2>1, <2>2 DEF QueryAnswer
  <1>29. QueryState'
    <2>1. CASE ~query.taken
      BY <1>15, <2>1 DEF QueryState
    <2>2. CASE query.taken
      <3>1. /\ Continues(h, query.st) /\ ~query.restart /\ had = pass[h]
            /\ pass[h].kept => Seen(h) \subseteq query.st.delivered
            /\ query.hide \cap (pass[h].steady \cup query.base) = {} /\ Stored(h) = {}
        BY <1>1, <1>2, <1>11, <2>2 DEF QueryState, Steady
      <3>2. Continues(query.h, query.st)'
        <4>1. PICK st : st = query.st
          OBVIOUS
        <4>2. Continues(h, st)'
          BY <1>24, <3>1, <4>1
        <4> QED
          BY <1>15, <4>1, <4>2 DEF Continues
      <3>3. Seen(query.h)' = Seen(h)
        BY <1>15, <1>20, <3>1
      <3>4. query'.hide \cap (Steady' \cup query'.base) = {}
        BY <1>15, <1>20, <1>21, <3>1
      <3>5. pass'[h].kept = pass[h].kept
        BY <1>12, <1>13, <3>1
      <3> QED
        BY <1>1, <1>2, <1>14, <1>15, <1>17, <1>19, <2>2, <3>1, <3>2, <3>3, <3>4, <3>5
           DEF QueryState, StateOK
    <2> QED
      BY <2>1, <2>2
  <1>30. \A o \in HandleValue : object'[o] # ClosedObject => object'[o].dir # NoDir
    BY <1>2, <1>14 DEF ListingInd, ListingInv, QueryShape
  <1> QED
    BY <1>1, <1>16, <1>18, <1>25, <1>26, <1>27, <1>28, <1>29, <1>30
       DEF ListingInd, ListingInv, StateOK, QueryOK

(* The state a query takes: a fresh one, or the stored one with its mask    *)
(* (take_enum_state).                                                       *)
FreshOrStored(h, d, m, r, st) ==
    \/ ~Resumes(h, d, r) /\ st = FreshState(d, m)
    \/ /\ Resumes(h, d, r) /\ ~r
       /\ \E i \in Stored(h), was \in EnumState :
             /\ states[i].st = was /\ d \in {NoDir, was.dir}
             /\ st.dir = was.dir /\ st.mask = (IF m = NoMask THEN was.mask ELSE m)
             /\ st.real_done = was.real_done /\ st.overlay_done = was.overlay_done
             /\ st.delivered = was.delivered
             /\ st.has_extras = was.has_extras /\ st.extras = was.extras

(* It is one of the two (take_enum_state).                                  *)
LEMMA TakenIs ==
    ASSUME ListingShapes, NEW h, NEW d \in Dir \cup {NoDir}, NEW m \in Masks, NEW r \in BOOLEAN
    PROVE  FreshOrStored(h, d, m, r, TakenState(h, d, m, r))
  <1> PICK st : st = TakenState(h, d, m, r)
    OBVIOUS
  <1> SUFFICES FreshOrStored(h, d, m, r, st)
    OBVIOUS
  <1> USE DEF FreshOrStored
  <1>1. CASE Resumes(h, d, r)
    <2> DEFINE i == CHOOSE i \in Stored(h) : TRUE
    <2>1. i \in Stored(h)
      BY <1>1 DEF Resumes
    <2> DEFINE mask == IF m = NoMask THEN states[i].st.mask ELSE m
    <2>2. st = [states[i].st EXCEPT !.mask = mask]
      BY <1>1 DEF TakenState
    <2> HIDE DEF i
    <2>3. \A j \in Stored(h) : j = i
      BY <2>1 DEF Stored, ListingShapes, OneEach
    <2>4. ~r /\ d \in {NoDir, states[i].st.dir}
      BY <1>1, <2>3 DEF Resumes
    <2>5. states[i] \in StateEntry
      BY <2>1 DEF Stored, ListingShapes
    <2>6. PICK was \in EnumState : was = states[i].st
      BY <2>5 DEF StateEntry
    <2>7. [was EXCEPT !.mask = mask] \in EnumState
      BY <2>6 DEF EnumState
    <2> QED
      BY <1>1, <2>1, <2>2, <2>4, <2>6, <2>7 DEF EnumState
  <1>2. CASE ~Resumes(h, d, r)
    BY <1>2 DEF TakenState
  <1> QED
    BY <1>1, <1>2

(* The query takes its state and learns what is hidden: whiteouts are of    *)
(* invisible names, so nothing steady is hidden (process_dir_output).       *)
LEMMA TakeKeeps ==
    ASSUME ListingConstants, ListingInd, NEW answers \in BOOLEAN,
           NEW dir, dir \in {NoDir, object[query.h].dir}, process_dir_output(dir, answers)
    PROVE  ListingInd'
  <1>1. /\ query.pc = "completed"
        /\ UNCHANGED <<disk, index, tombs, object, buffer>>
    BY DEF process_dir_output
  <1>2. /\ query \in QueryRecord /\ query # NoQuery /\ query.h \in HandleValue
        /\ OpenPass(query.h) /\ PassOK(query.h) /\ QueryShape /\ QueryAnswer /\ QueryState
        /\ object[query.h].dir \in Dir
    BY <1>1, AtQuery
  <1> PICK h \in HandleValue : h = query.h
    BY <1>2
  <1> DEFINE heard == dir # NoDir /\ answers
             hidden == IF heard THEN whiteouts_under(dir) ELSE {}
             st == TakenState(query.h, dir, query.mask, query.restart)
             keeps == pass[query.h].kept /\ (pass[query.h].listed = {} \/ Resumes(query.h, dir, query.restart))
             new == [pass[query.h] EXCEPT !.kept = keeps]
  <1>3. /\ query' = [query EXCEPT !.pc = "real", !.taken = TRUE, !.dir = dir, !.st = st,
                                  !.hide = hidden \cup {Dot}, !.gone = hidden, !.answered = heard]
        /\ states' = Without(h)
        /\ pass' = [pass EXCEPT ![query.h] = new]
    BY DEF process_dir_output
  <1>23. /\ dir \in Dir \cup {NoDir} /\ query.mask \in Masks /\ query.restart \in BOOLEAN
         /\ ListingShapes
    BY <1>2, QueryTypes DEF ListingInd
  <1>4. st \in EnumState
    BY <1>23, TakenTypes
  <1>5. hidden \in SUBSET Names /\ Dot \in Names /\ heard \in BOOLEAN
    BY <1>2, VisibleTypes DEF ListingInd, ListingConstants
  <1>6. FreshOrStored(h, dir, query.mask, query.restart, st)
    <2>1. PICK m \in Masks : m = query.mask
      BY <1>23
    <2>2. PICK r \in BOOLEAN : r = query.restart
      BY <1>23
    <2>3. FreshOrStored(h, dir, m, r, TakenState(h, dir, m, r))
      BY <1>23, TakenIs
    <2> QED
      BY <2>1, <2>2, <2>3
  <1> HIDE DEF st
  <1>7. hidden \cap pass[h].steady = {} /\ Dot \notin pass[h].steady
    BY <1>2 DEF OpenPass, QueryShape, Visible
  <1> HIDE DEF hidden
  <1>8. /\ query' \in QueryRecord /\ query'.h = h /\ query'.pc = "real"
        /\ query'.page = query.page /\ query'.status = query.status
        /\ query'.mask = query.mask /\ query'.single = query.single
        /\ query'.restart = query.restart /\ query'.st = st /\ query'.dir = dir
        /\ query'.hide = hidden \cup {Dot} /\ query'.base = query.base /\ query'.again = query.again
        /\ query'.gone = hidden /\ query'.answered = heard
        /\ query'.taken
    BY <1>2, <1>3, <1>4, <1>5 DEF QueryRecord
  <1>9. keeps \in BOOLEAN /\ (keeps => pass[h].kept) /\ (keeps => pass[h].listed = {} \/ Resumes(h, dir, query.restart))
    BY <1>2, HandleTypes DEF ListingInd
  <1> HIDE DEF keeps, heard
  <1>10. /\ pass' \in [HandleValue -> PassRecord] /\ pass'[h].kept = keeps
         /\ pass'[h].steady = pass[h].steady /\ pass'[h].listed = pass[h].listed
         /\ pass'[h].again = pass[h].again /\ pass'[h].missed = pass[h].missed
         /\ pass'[h].over = pass[h].over
         /\ \A o \in HandleValue \ {h} : pass'[o] = pass[o]
    <2>1. pass[h] \in PassRecord
      BY HandleTypes DEF ListingInd
    <2>2. /\ new \in PassRecord /\ new.kept = keeps
          /\ new.steady = pass[h].steady /\ new.listed = pass[h].listed
          /\ new.again = pass[h].again /\ new.missed = pass[h].missed /\ new.over = pass[h].over
      BY <1>9, <2>1 DEF PassRecord
    <2> HIDE DEF new
    <2> QED
      BY <1>3, <1>23, <2>2 DEF ListingShapes
  <1>11. /\ states' \in Seq(StateEntry) /\ Len(states') <= ENUM_STATES_CAP /\ OneEach(states')
         /\ \A j \in DOMAIN states' :
               \E i \in DOMAIN states : states'[j] = states[i] /\ states[i].key # h
    BY <1>3, WithoutEntries DEF ListingInd
  <1>12. ListingShapes'
    BY <1>1, <1>8, <1>10, <1>11 DEF ListingInd, ListingShapes
  <1>13. Stored(h)' = {} /\ \A o \in HandleValue : FromBefore(o)
    BY <1>11 DEF Stored, FromBefore
  <1>14. \A o \in HandleValue \ {h} : OpenPass(o)' /\ PassOK(o)'
    BY <1>1, <1>2, <1>8, <1>10, <1>13, OthersKept DEF Apart, ListingInd
  <1>15. /\ query' # NoQuery /\ Serving(h) /\ Serving(h)' /\ query.base = {} /\ query.again = {}
         /\ ~query.taken /\ \A d : Visible(d)' = Visible(d)
    BY <1>1, <1>2, <1>8, NoQueryIsNone DEF Serving, QueryShape, Visible, whiteouts_under
  <1>16. /\ Seen(h)' = Seen(h) /\ Seen(h) = pass[h].listed /\ Reached(h)' = Reached(h)
         /\ PageOf(h)' = PageOf(h) /\ ~Ends(h) /\ Steady' = Steady /\ Steady = pass[h].steady
    BY <1>1, <1>8, <1>10, <1>15 DEF Seen, Base, Reached, PageOf, Ends, Steady
  <1>17. OpenPass(h)'
    BY <1>1, <1>2, <1>10, <1>13, <1>15, <1>16 DEF OpenPass
  <1>18. PassOK(h)'
    BY <1>2, <1>9, <1>10, <1>13, <1>16 DEF PassOK
  <1>19. QueryShape' /\ QueryAnswer'
    <2>1. Reached(query.h)' = Reached(h)
      BY <1>8, <1>16
    <2>2. QueryShape'
      BY <1>1, <1>2, <1>8, <1>10, <1>15, <1>16 DEF QueryShape
    <2>3. QueryAnswer'
      <3>1. /\ query.status \notin {"success", "error"} => query.page = {}
            /\ query.status = "error" => query.page \cap Steady \cap Reached(h) = {}
            /\ query.status \in {"no such file", "no more files"} =>
                 Steady \cap disk[object[h].dir] \subseteq Reached(h)
        BY <1>1, <1>2 DEF QueryAnswer
      <3>2. query'.page = query.page /\ query'.status = query.status /\ query'.h = h
        BY <1>8
      <3> QED
        BY <1>1, <1>16, <2>1, <3>1, <3>2 DEF QueryAnswer
    <2> QED
      BY <2>2, <2>3
  <1>20. /\ StateOK(st) /\ (dir # NoDir => st.dir = dir) /\ Continues(h, st)
         /\ (keeps => Seen(h) \subseteq st.delivered)
    <2>1. \A n \in pass[h].steady : Matches(n, query.mask)
      BY <1>1, <1>2 DEF QueryShape, Steady
    <2>2. CASE ~Resumes(h, dir, query.restart) /\ st = FreshState(dir, query.mask)
      <3>1. /\ st.dir = dir /\ st.mask = query.mask /\ ~st.real_done /\ ~st.overlay_done
            /\ ~st.has_extras /\ st.delivered = {}
        BY <1>23, <2>2, FreshTypes
      <3> QED
        BY <1>9, <1>16, <2>1, <2>2, <3>1 DEF StateOK, Continues
    <2>3. ASSUME NEW i \in Stored(h), NEW was \in EnumState, ~query.restart,
                 states[i].st = was, dir \in {NoDir, was.dir},
                 st.dir = was.dir, st.mask = (IF query.mask = NoMask THEN was.mask ELSE query.mask),
                 st.real_done = was.real_done, st.overlay_done = was.overlay_done,
                 st.delivered = was.delivered,
                 st.has_extras = was.has_extras, st.extras = was.extras
          PROVE  /\ StateOK(st) /\ (dir # NoDir => st.dir = dir) /\ Continues(h, st)
                 /\ (keeps => Seen(h) \subseteq st.delivered)
      <3>1. Continues(h, was) /\ (pass[h].kept => Seen(h) \subseteq was.delivered)
        BY <1>2, <2>3 DEF OpenPass, PassOK, QueryShape, Restarting
      <3>2. StateOK(was)
        BY <2>3 DEF ListingInd, ListingInv, Stored
      <3> QED
        BY <1>9, <2>1, <2>3, <3>1, <3>2 DEF StateOK, Continues
    <2> QED
      BY <1>6, <2>2, <2>3 DEF FreshOrStored
  <1>21. QueryState'
    <2>1. Continues(query.h, query.st)'
      BY <1>1, <1>8, <1>10, <1>16, <1>20, SMTT(30) DEF Continues
    <2>2. Seen(query.h)' = Seen(h)
      BY <1>8, <1>16
    <2>3. query'.answered => query'.dir # NoDir
      BY <1>8 DEF heard
    <2>4. StateOK(query'.st)
      BY <1>8, <1>20 DEF StateOK
    <2> QED
      BY <1>1, <1>7, <1>8, <1>10, <1>13, <1>15, <1>16, <1>20, <2>1, <2>2, <2>3, <2>4 DEF QueryState, StateOK
  <1>22. \A i \in DOMAIN states' : StateOK(states'[i].st)
    BY <1>11 DEF StateOK, ListingInd, ListingInv
  <1> QED
    BY <1>1, <1>12, <1>14, <1>17, <1>18, <1>19, <1>21, <1>22 DEF ListingInd, ListingInv, QueryOK

(* How a query of h may end.                                                *)
Ending(h, st, shown, again, heard) ==
    /\ Finish(st, shown, again, heard)
    /\ query.base \subseteq shown /\ query.hide \cap shown = {}
    /\ Ends(h) => shown = {}
    /\ StateOK(st)
    /\ st.dir = query.st.dir
    /\ pass[h].kept => again = {} /\ pass[h].listed \cup shown \subseteq st.delivered
    /\ st.dir = object[h].dir =>
         /\ \A n \in pass[h].steady : Matches(n, st.mask)
         /\ pass[h].steady \cap st.delivered \subseteq pass[h].listed \cup shown
         /\ ~pass[h].over /\ st.real_done =>
              pass[h].steady \cap disk[object[h].dir] \subseteq pass[h].listed
         /\ ~pass[h].over /\ st.has_extras =>
              pass[h].steady \ disk[object[h].dir]
                \subseteq st.extras \cup (pass[h].listed \cup shown)
    /\ shown = {} /\ query.answered /\ heard /\ ~pass[h].over =>
         pass[h].steady \subseteq pass[h].listed

(* The end of a query, whatever it shows.                                   *)
LEMMA FinishKeeps ==
    ASSUME ListingConstants, ListingInd, query.pc = "overlay",
           UNCHANGED <<disk, index, tombs, object, buffer, pass>>,
           NEW h \in HandleValue, h = query.h,
           NEW st \in EnumState, NEW shown \in SUBSET Names, NEW again \in SUBSET Names,
           NEW heard \in BOOLEAN, Ending(h, st, shown, again, heard)
    PROVE  ListingInd'
  <1> USE DEF Ending
  <1>2. /\ query \in QueryRecord /\ query # NoQuery /\ query.h \in HandleValue
        /\ OpenPass(query.h) /\ PassOK(query.h) /\ QueryShape /\ QueryAnswer /\ QueryState
        /\ object[query.h].dir \in Dir
    BY AtQuery
  <1> DEFINE status == CASE shown # {} -> "success"
                         [] shown = {} /\ query.status = "no such file" -> "no such file"
                         [] OTHER -> "no more files"
             answered == query.answered /\ heard
  <1>3. /\ query' = [query EXCEPT !.pc = "publish", !.st = st, !.base = shown, !.again = again,
                                  !.answered = answered, !.status = status]
        /\ states' = states \/ states' = store_enum_state(h, st)
    BY DEF Finish
  <1>4. /\ status \in {"success", "no such file", "no more files"}
        /\ (status \in {"no such file", "no more files"} <=> shown = {})
        /\ answered \in BOOLEAN /\ (answered => query.answered /\ heard)
    BY <1>2, QueryTypes
  <1> HIDE DEF status, answered
  <1>5. /\ query' \in QueryRecord /\ query'.h = h /\ query'.pc = "publish"
        /\ query'.page = query.page /\ query'.status = status
        /\ query'.mask = query.mask /\ query'.single = query.single
        /\ query'.restart = query.restart /\ query'.st = st /\ query'.dir = query.dir
        /\ query'.hide = query.hide /\ query'.base = shown /\ query'.again = again
        /\ query'.gone = query.gone /\ query'.answered = answered
        /\ query'.taken = query.taken
    BY <1>2, <1>3, <1>4 DEF QueryRecord
  <1>6. /\ query' # NoQuery /\ Serving(h) /\ Serving(h)' /\ query.taken /\ Stored(h) = {}
        /\ \A d : Visible(d)' = Visible(d)
    BY <1>2, <1>5, NoQueryIsNone DEF Serving, QueryShape, QueryState, Visible, whiteouts_under
  <1>7. /\ states' \in Seq(StateEntry) /\ Len(states') <= ENUM_STATES_CAP /\ OneEach(states')
        /\ \A i \in Stored(h)' : states'[i].st = st
        /\ \A i \in DOMAIN states' : StateOK(states'[i].st)
        /\ \A o \in HandleValue \ {h} : FromBefore(o)
    <2>1. CASE states' = states
      BY <1>6, <2>1 DEF ListingInd, ListingInv, ListingShapes, Stored, FromBefore
    <2>2. CASE states' = store_enum_state(h, st)
      <3>1. /\ states' \in Seq(StateEntry) /\ Len(states') <= ENUM_STATES_CAP /\ OneEach(states')
            /\ StoredLast(states', h, st)
        BY <2>2, StoredEntries DEF ListingInd
      <3>2. \A i \in Stored(h)' : states'[i].st = st
        BY <3>1 DEF Stored, StoredLast
      <3>3. \A i \in DOMAIN states' : StateOK(states'[i].st)
        BY <3>1 DEF StoredLast, StateOK, ListingInd, ListingInv
      <3>4. \A o \in HandleValue \ {h} : FromBefore(o)
        BY <3>1 DEF FromBefore, Stored, StoredLast
      <3> QED
        BY <3>1, <3>2, <3>3, <3>4
    <2> QED
      BY <1>3, <2>1, <2>2
  <1>8. ListingShapes'
    BY <1>5, <1>7 DEF ListingInd, ListingShapes
  <1>9. \A o \in HandleValue \ {h} : OpenPass(o)' /\ PassOK(o)'
    BY <1>2, <1>5, <1>7, OthersKept DEF Apart, ListingInd
  <1>10. /\ Seen(h)' = pass[h].listed \cup shown /\ Reached(h)' = Reached(h)
         /\ Seen(h) \subseteq Seen(h)' /\ Seen(query.h)' = Seen(h)'
         /\ PageOf(h) = {} /\ Steady' = pass[h].steady
         /\ (Ended' <=> shown = {}) /\ (shown = {} => Ends(h)')
    BY <1>2, <1>4, <1>5, <1>6 DEF Seen, Base, Reached, PageOf, Steady, Ended, Ends
  <1>11. Continues(h, st)'
    BY <1>5, <1>10 DEF Continues
  <1>12. OpenPass(h)'
    <2>1. (\A i \in Stored(h) : Continues(h, states[i].st))'
      BY <1>7, <1>11 DEF Continues
    <2> QED
      BY <1>2, <1>6, <1>10, <2>1 DEF OpenPass
  <1>13. PassOK(h)'
    BY <1>2, <1>7, <1>10 DEF PassOK
  <1>14. QueryShape' /\ QueryAnswer'
    BY <1>2, <1>5, <1>6, <1>10 DEF QueryShape, QueryAnswer
  <1>15. QueryState'
    <2>1. Continues(query.h, query.st)'
      BY <1>5, <1>11 DEF Continues
    <2>2. StateOK(query'.st)
      BY <1>5 DEF StateOK
    <2>3. query'.hide \cap (Steady' \cup query'.base) = {}
      BY <1>2, <1>5, <1>6, <1>10 DEF QueryState, Steady
    <2>4. /\ query'.dir \in {NoDir, object[h].dir}
          /\ query'.dir # NoDir => query'.st.dir = query'.dir
          /\ query'.answered => query'.dir # NoDir
      BY <1>2, <1>4, <1>5, <1>6 DEF QueryState
    <2> QED
      BY <1>2, <1>4, <1>5, <1>6, <1>10, <2>1, <2>2, <2>3, <2>4 DEF QueryState, StateOK
  <1> QED
    BY <1>5, <1>6, <1>7, <1>8, <1>9, <1>12, <1>13, <1>14, <1>15 DEF ListingInd, ListingInv, StateOK, QueryOK

(* The overlay phase: what is wanted and does not fit stays for the next    *)
(* query; nothing wanted is left when none is shown.                        *)
LEMMA OverlayKeeps ==
    ASSUME ListingConstants, ListingInd, NEW answers \in BOOLEAN, OverlayPhase(answers)
    PROVE  ListingInd'
  <1>1. /\ query.pc = "overlay"
        /\ UNCHANGED <<disk, index, tombs, object, buffer, pass>>
    BY DEF OverlayPhase
  <1>2. /\ query \in QueryRecord /\ query # NoQuery /\ query.h \in HandleValue
        /\ OpenPass(query.h) /\ PassOK(query.h) /\ QueryShape /\ QueryAnswer /\ QueryState
        /\ object[query.h].dir \in Dir
    BY <1>1, AtQuery
  <1> PICK h \in HandleValue : h = query.h
    BY <1>2
  <1> PICK st \in EnumState : st = query.st
    BY <1>2, QueryTypes
  <1> PICK base \in SUBSET Names : base = query.base
    BY <1>2, QueryTypes
  <1>3. /\ Serving(h) /\ query.taken /\ Seen(h) = pass[h].listed \cup base
        /\ StateOK(st) /\ Continues(h, st)
        /\ query.hide \cap (pass[h].steady \cup base) = {}
        /\ (st.real_done \/ base # {})
        /\ query.dir \in {NoDir, object[h].dir} /\ (query.dir # NoDir => st.dir = query.dir)
        /\ (query.answered => query.dir # NoDir)
        /\ (pass[h].kept => Seen(h) \subseteq st.delivered)
    BY <1>1, <1>2 DEF Serving, Seen, Base, QueryShape, QueryState, Steady
  <1> DEFINE asks == ~st.overlay_done /\ query.dir # NoDir
             fetched == IF asks /\ ~st.has_extras /\ answers
                        THEN [st EXCEPT !.has_extras = TRUE, !.extras = overlay_children(query.dir)]
                        ELSE st
             added == append_overlay_entries(fetched)
  <1>4. IF asks /\ fetched.has_extras
        THEN Finish(MergedState(fetched, added), query.base \cup added,
                    added \cap (query.base \cup pass[query.h].listed),
                    ~Cramped(Wanted(fetched), query.room))
        ELSE Finish(st, query.base, {}, st.overlay_done)
    BY DEF OverlayPhase
  <1>5. CASE asks /\ fetched.has_extras
    <2>1. /\ fetched \in EnumState /\ fetched.dir = st.dir /\ fetched.mask = st.mask
          /\ fetched.real_done = st.real_done /\ fetched.delivered = st.delivered
          /\ (fetched.extras = st.extras /\ st.has_extras) \/ fetched.extras = index[query.dir]
      <3>1. index[query.dir] \in SUBSET Names
        BY <1>2, <1>3, <1>5 DEF ListingInd, ListingShapes
      <3> QED
        BY <1>5, <3>1 DEF EnumState, overlay_children
    <2>2. st.dir = object[h].dir /\ query.dir = object[h].dir /\ query.dir # NoDir
      BY <1>3, <1>5
    <2>3. Finish(MergedState(fetched, added), base \cup added,
                 added \cap (base \cup pass[h].listed), ~Cramped(Wanted(fetched), query.room))
      BY <1>4, <1>5
    <2> HIDE DEF fetched
    <2> DEFINE wanted == Wanted(fetched)
               left == {n \in fetched.extras : \E m \in wanted \ added : m <= n}
               merged == [fetched EXCEPT !.extras = left, !.delivered = fetched.delivered \cup added,
                                         !.overlay_done = left = {}]
    <2>4. MergedState(fetched, added) = merged
      BY DEF MergedState
    <2>5. wanted \in SUBSET Names
      BY <2>1, StateTypes DEF Wanted
    <2>6. /\ wanted \cap query.hide = {} /\ wanted \cap fetched.delivered = {}
          /\ \A n \in fetched.extras :
                n \in wanted \/ ~Matches(n, fetched.mask) \/ n \in fetched.delivered \/ n \in query.hide
      BY DEF Wanted
    <2>7. added = Fitting(wanted, base, query.single, query.room)
      BY DEF append_overlay_entries
    <2>23. wanted \subseteq fetched.extras
      BY DEF Wanted
    <2> HIDE DEF wanted
    <2> PICK single \in BOOLEAN : single = query.single
      BY <1>2, QueryTypes
    <2> PICK room \in Nat : room = query.room
      BY <1>2, QueryTypes
    <2> PICK heard \in BOOLEAN : heard = ~Cramped(wanted, room)
      OBVIOUS
    <2>32. heard = ~Cramped(Wanted(fetched), query.room)
      BY DEF wanted
    <2>24. Fitting(wanted, base, single, room) \subseteq wanted
      BY <2>5, FittingIsPrefix
    <2>25. wanted # {} /\ heard => Fitting(wanted, {}, single, room) # {}
      BY <2>5, FittingFirst
    <2>8. added \subseteq wanted /\ (base = {} /\ wanted # {} /\ heard => added # {})
      BY <2>7, <2>24, <2>25
    <2> HIDE DEF added
    <2>9. /\ merged \in EnumState /\ merged.dir = st.dir /\ merged.mask = st.mask
          /\ merged.real_done = st.real_done /\ merged.delivered = st.delivered \cup added
          /\ merged.has_extras /\ merged.extras = left /\ (merged.overlay_done <=> left = {})
      <3>1. left \in SUBSET Names /\ added \in SUBSET Names
        BY <2>1, <2>5, <2>8, StateTypes
      <3>2. (left = {}) \in BOOLEAN
        OBVIOUS
      <3> HIDE DEF left
      <3> QED
        BY <1>5, <2>1, <3>1, <3>2 DEF EnumState
    <2> HIDE DEF merged
    <2>10. wanted \ added \subseteq left
      <3>1. \A n \in wanted : n <= n
        BY <2>5 DEF ListingConstants
      <3> QED
        BY <2>23, <3>1
    <2>11. wanted = {} => left = {}
      OBVIOUS
    <2> HIDE DEF left
    <2>12. ~pass[h].over => pass[h].steady \ disk[object[h].dir] \subseteq fetched.extras \cup Seen(h)
      BY <1>2, <1>3, <2>1, <2>2 DEF Continues, OpenPass, Visible, QueryShape
    <2>13. ~pass[h].over => pass[h].steady \ disk[object[h].dir]
                              \subseteq left \cup (pass[h].listed \cup (base \cup added))
      BY <1>3, <2>1, <2>2, <2>6, <2>8, <2>10, <2>12 DEF Continues
    <2>14. pass[h].steady \cap merged.delivered \subseteq pass[h].listed \cup (base \cup added)
      BY <1>3, <2>2, <2>9 DEF Continues
    <2>15. StateOK(merged)
      BY <2>9 DEF StateOK
    <2>16. ~Ends(h)
      BY <2>2, <1>1 DEF Ends
    <2>17. base \cup added = {} /\ heard =>
             (~pass[h].over => pass[h].steady \subseteq pass[h].listed)
      BY <1>3, <2>2, <2>8, <2>11, <2>13 DEF Continues
    <2>18. /\ pass[h].kept => /\ added \cap (base \cup pass[h].listed) = {}
                              /\ pass[h].listed \cup (base \cup added) \subseteq merged.delivered
      BY <1>3, <2>1, <2>6, <2>8, <2>9
    <2>19. query.hide \cap (base \cup added) = {}
      BY <1>3, <2>6, <2>8
    <2>20. /\ base \cup added \in SUBSET Names
           /\ added \cap (base \cup pass[h].listed) \in SUBSET Names
      BY <2>5, <2>8
    <2>21. /\ \A n \in pass[h].steady : Matches(n, merged.mask)
           /\ ~pass[h].over /\ merged.real_done =>
                pass[h].steady \cap disk[object[h].dir] \subseteq pass[h].listed
      BY <1>3, <2>2, <2>9 DEF Continues
    <2>22. Finish(merged, base \cup added, added \cap (base \cup pass[h].listed), heard)
      BY <2>3, <2>4, <2>32
    <2> PICK mg \in EnumState : mg = merged
      BY <2>9
    <2> PICK shown \in SUBSET Names : shown = base \cup added
      BY <2>20
    <2> PICK again \in SUBSET Names : again = added \cap (base \cup pass[h].listed)
      BY <2>20
    <2>26. Finish(mg, shown, again, heard)
      BY <2>22
    <2>27. /\ query.base \subseteq shown /\ query.hide \cap shown = {}
           /\ Ends(h) => shown = {}
           /\ StateOK(mg)
           /\ mg.dir = query.st.dir
      BY <2>9, <2>15, <2>16, <2>19
    <2>28. pass[h].kept => again = {} /\ pass[h].listed \cup shown \subseteq mg.delivered
      BY <2>18
    <2>29. mg.dir = object[h].dir =>
             /\ \A n \in pass[h].steady : Matches(n, mg.mask)
             /\ pass[h].steady \cap mg.delivered \subseteq pass[h].listed \cup shown
             /\ ~pass[h].over /\ mg.real_done =>
                  pass[h].steady \cap disk[object[h].dir] \subseteq pass[h].listed
             /\ ~pass[h].over /\ mg.has_extras =>
                  pass[h].steady \ disk[object[h].dir]
                    \subseteq mg.extras \cup (pass[h].listed \cup shown)
      BY <2>9, <2>13, <2>14, <2>21
    <2>30. shown = {} /\ query.answered /\ heard /\ ~pass[h].over =>
             pass[h].steady \subseteq pass[h].listed
      BY <2>17
    <2>31. Ending(h, mg, shown, again, heard)
      BY <2>26, <2>27, <2>28, <2>29, <2>30 DEF Ending
    <2> QED
      BY <1>1, <2>31, FinishKeeps
  <1>6. CASE ~(asks /\ fetched.has_extras)
    <2>1. Finish(st, base, {}, st.overlay_done) /\ st.overlay_done \in BOOLEAN
      BY <1>4, <1>6, StateTypes
    <2>2. Ends(h) => base = {}
      BY DEF Ends
    <2>3. base = {} /\ query.answered /\ st.overlay_done /\ ~pass[h].over =>
             pass[h].steady \subseteq pass[h].listed
      BY <1>3 DEF Continues, StateOK
    <2> HIDE DEF fetched, added, asks
    <2> PICK again \in SUBSET Names : again = {}
      OBVIOUS
    <2> PICK heard \in BOOLEAN : heard = st.overlay_done
      BY <2>1
    <2>4. Finish(st, base, again, heard)
      BY <2>1
    <2>5. /\ query.base \subseteq base /\ query.hide \cap base = {}
          /\ StateOK(st)
          /\ st.dir = query.st.dir
      BY <1>3
    <2>6. pass[h].kept => again = {} /\ pass[h].listed \cup base \subseteq st.delivered
      BY <1>3
    <2>7. st.dir = object[h].dir =>
             /\ \A n \in pass[h].steady : Matches(n, st.mask)
             /\ pass[h].steady \cap st.delivered \subseteq pass[h].listed \cup base
             /\ ~pass[h].over /\ st.real_done =>
                  pass[h].steady \cap disk[object[h].dir] \subseteq pass[h].listed
             /\ ~pass[h].over /\ st.has_extras =>
                  pass[h].steady \ disk[object[h].dir]
                    \subseteq st.extras \cup (pass[h].listed \cup base)
      BY <1>3 DEF Continues
    <2>8. base = {} /\ query.answered /\ heard /\ ~pass[h].over =>
             pass[h].steady \subseteq pass[h].listed
      BY <2>3
    <2>9. Ending(h, st, base, again, heard)
      BY <2>2, <2>4, <2>5, <2>6, <2>7, <2>8 DEF Ending
    <2> QED
      BY <1>1, <2>9, FinishKeeps
  <1> QED
    BY <1>5, <1>6

(* Every step keeps the invariant, if no closed value is used again for the *)
(* directory of a stored state.                                             *)
LEMMA ListingStep ==
    ASSUME ListingConstants, ~ReopenSame, ListingInd, [ListingNext]_listVars
    PROVE  ListingInd'
  <1>1. CASE UNCHANGED listVars
    <2>1. UNCHANGED <<disk, index, tombs, object, states, query, buffer, pass>>
      BY <1>1 DEF listVars
    <2>2. ListingShapes'
      BY <2>1 DEF ListingInd, ListingShapes, OneEach
    <2>3. \A h \in HandleValue : Apart(h)
      BY <2>1 DEF Apart
    <2>4. \A h \in HandleValue : OpenPass(h)' /\ PassOK(h)'
      BY <2>1, <2>3, Untouched DEF ListingInd, ListingInv
    <2>5. query # NoQuery => query.h \in HandleValue
      BY QueryTypes DEF ListingInd, ListingShapes
    <2>6. QueryOK'
      BY <2>1, <2>3, <2>5, QueryUntouched DEF ListingInd, ListingInv
    <2> QED
      BY <2>1, <2>2, <2>4, <2>6 DEF ListingInd, ListingInv, StateOK
  <1>2. ASSUME NEW h \in HandleValue, NEW d \in Dir, Open(h, d) PROVE ListingInd'
    BY <1>2, OpenKeeps
  <1>3. ASSUME NEW h \in HandleValue, Close(h) PROVE ListingInd'
    BY <1>3, CloseKeeps
  <1>4. ASSUME NEW h \in HandleValue, NEW q \in Query, hook_nt_query_directory_file(h, q)
        PROVE  ListingInd'
    BY <1>4, QueryStartKeeps
  <1>5. ASSUME NEW h \in HandleValue, Unsupervised(h) PROVE ListingInd'
    BY <1>5, UnsupervisedKeeps
  <1>6. CASE KernelCompletes
    BY <1>6, KernelCompletesKeeps
  <1>19. ASSUME NEW passes \in BOOLEAN, KernelCutsOff(passes) PROVE ListingInd'
    BY <1>19, KernelCutsOffKeeps
  <1>7. CASE KernelFails
    BY <1>7, KernelFailsKeeps
  <1>8. ASSUME NEW answers \in BOOLEAN, NEW dir \in {NoDir, object[query.h].dir},
               process_dir_output(dir, answers)
        PROVE  ListingInd'
    BY <1>8, TakeKeeps
  <1>9. ASSUME NEW answers \in BOOLEAN, OverlayPhase(answers) PROVE ListingInd'
    BY <1>9, OverlayKeeps
  <1>10. CASE SkipReal
    BY <1>10, SkipRealKeeps
  <1>11. CASE RealExhausted
    BY <1>11, RealExhaustedKeeps
  <1>12. CASE RealError
    BY <1>12, RealErrorKeeps
  <1>13. CASE RealPage
    BY <1>13, RealPageKeeps
  <1>14. CASE publish
    BY <1>14, PublishKeeps
  <1>15. CASE DropSupervision
    BY <1>15, DropKeeps
  <1>16. CASE OtherListing
    BY <1>16, OtherListingKeeps
  <1>17. ASSUME NEW d \in Dir, NEW n \in Names \ {Dot}, RecordOverlay(d, n) PROVE ListingInd'
    BY <1>17, RecordOverlayKeeps
  <1>18. ASSUME NEW d \in Dir, NEW n \in Names \ {Dot}, RecordWhiteout(d, n) PROVE ListingInd'
    BY <1>18, RecordWhiteoutKeeps
  <1> HIDE DEF ListingInd
  <1> QED
    BY <1>1, <1>2, <1>3, <1>4, <1>5, <1>6, <1>7, <1>8, <1>9, <1>10, <1>11, <1>12, <1>13,
       <1>14, <1>15, <1>16, <1>17, <1>18, <1>19 DEF ListingNext

(* So it always holds.                                                      *)
LEMMA ListingAlways == ASSUME ~ReopenSame PROVE ListingSpec => []ListingInd
  <1>1. ListingInit => ListingInd
    BY ListingConstants, ListingIndInit
  <1>2. ListingInd /\ [ListingNext]_listVars => ListingInd'
    BY ListingConstants, ListingStep
  <1> QED
    BY <1>1, <1>2, PTL DEF ListingSpec

(* The registry stays within its cap and has one state per value, whatever  *)
(* is opened, evicted and closed (store_enum_state).                        *)
THEOREM ListingTypes == ASSUME ~ReopenSame PROVE ListingSpec => []ListingTypeOK
  <1>1. ListingInd => ListingTypeOK
    <2> SUFFICES ASSUME ListingInd PROVE ListingTypeOK
      OBVIOUS
    <2>1. \A i \in DOMAIN states : states[i] \in StateEntry
      BY DEF ListingInd, ListingShapes
    <2>2. \A i \in DOMAIN states : states[i].st.extras \subseteq Names
      BY <2>1 DEF StateEntry, EnumState
    <2>3. \A d \in Dir : index[d] \subseteq Names /\ tombs[d] \subseteq Names
      BY DEF ListingInd, ListingShapes
    <2> QED
      BY <2>2, <2>3 DEF ListingTypeOK, ListingInd, ListingShapes, OneEach
  <1> QED
    BY <1>1, ListingAlways, PTL

(* A listing that ends has shown every name that was visible from its start *)
(* on, shows no child twice while its state is kept, and never a deleted    *)
(* name or .winrsbox (process_dir_output, append_overlay_entries,           *)
(* filter_entries), for every number of directories, names, handles and     *)
(* queries, as long as no closed value of a handle is used again for the    *)
(* directory of a state that is still stored.                               *)
THEOREM ListingStaysExact == ASSUME ~ReopenSame PROVE ListingSpec => []ListingIsExact
  <1>1. ListingInd => ListingIsExact
    <2> SUFFICES ASSUME ListingInd PROVE ListingIsExact
      OBVIOUS
    <2>1. ASSUME query # NoQuery
          PROVE  IF query.status = "error" THEN buffer \subseteq query.page
                 ELSE Dot \notin buffer /\ buffer \cap query.gone = {}
      <3>1. CASE query.pc = "return"
        <4>1. query.taken /\ buffer = IF query.status = "error" THEN query.page ELSE query.base
          BY <2>1, <3>1 DEF ListingInd, ListingInv, QueryOK, QueryShape
        <4> QED
          BY <2>1, <4>1 DEF ListingInd, ListingInv, QueryOK, QueryState
      <3>2. CASE query.pc # "return"
        BY <2>1, <3>2 DEF ListingInd, ListingInv, QueryOK, QueryShape
      <3> QED
        BY <3>1, <3>2
    <2> QED
      BY <2>1 DEF ListingIsExact, ListingInd, ListingInv, PassOK
  <1> QED
    BY <1>1, ListingAlways, PTL

-----------------------------------------------------------------------------
(* The records of one page (DirRecords).  The inductive invariant PagesInv *)
(* says of each loop where it is and what the buffer holds: the kernel's   *)
(* records (Collecting), those kept and led on from one to the next, then  *)
(* the kernel's (Filtering), a chain of the names that are left (IsChain), *)
(* and that chain with the overlay's names behind it (Extended).           *)

(* Neighbours of a set of names in their order.                            *)
FirstOf(S, i) == i \in S /\ \A m \in S : i <= m
LastOf(S, i) == i \in S /\ \A m \in S : m <= i
Neighbours(S, i, j) == i \in S /\ j \in S /\ i < j /\ \A m \in S : m <= i \/ j <= m

(* The names of a call, what the record of one takes, what a header is.    *)
NamesOf(q) == DOMAIN q.len
Taken(q, n) == NameOff + q.len[n]
Headers == [next : Nat, len : Nat, name : Nat, cased : BOOLEAN]

(* The records of the names S stand at pos in buffer b, each leads to the  *)
(* next one and none reaches into another.                                 *)
IsChain(q, b, S, pos) ==
    /\ S \subseteq NamesOf(q)
    /\ pos \in [S -> 0..q.capacity]
    /\ \A i \in S : /\ Aligned(pos[i]) = pos[i]
                    /\ b[pos[i]].name = i /\ b[pos[i]].len = q.len[i]
    /\ \A i \in S : FirstOf(S, i) => pos[i] = 0
    /\ \A i \in S : LastOf(S, i) => b[pos[i]].next = 0
    /\ \A i, j \in S : Neighbours(S, i, j) => b[pos[i]].next = pos[j] - pos[i]
    /\ \A i, j \in S : i < j => pos[i] + Taken(q, i) <= pos[j]

(* All of them end by limit.                                               *)
EndsBy(q, S, pos, limit) == \A i \in S : pos[i] + Taken(q, i) <= limit

(* Boundaries.                                                             *)
LEMMA Boundaries ==
    ASSUME NEW n \in Nat
    PROVE  /\ Aligned(n) \in Nat /\ n <= Aligned(n) /\ Aligned(n) <= n + 3
           /\ Aligned(Aligned(n)) = Aligned(n)
           /\ \A m \in Nat : Aligned(m) = m => Aligned(m + Aligned(n)) = m + Aligned(n)
  BY DEF Aligned

(* A set of names that is not empty has a first.                           *)
LEMMA LeastOf ==
    ASSUME NEW S, S \subseteq Nat, S # {}
    PROVE  \E i \in S : FirstOf(S, i)
  <1>1. PICK x \in S : \A y \in S : ~(<<y, x>> \in OpToRel(<, Nat))
    BY WFMin, NatLessThanWellFounded, Zenon
  <1>2. \A y \in S : <<y, x>> \in Nat \X Nat /\ y < x => <<y, x>> \in OpToRel(<, Nat)
    BY DEF OpToRel
  <1>3. \A y \in S : ~(y < x)
    BY <1>1, <1>2
  <1>4. \A y \in S : x \in Nat /\ y \in Nat
    OBVIOUS
  <1>5. FirstOf(S, x)
    BY <1>3, <1>4 DEF FirstOf
  <1> QED
    BY <1>5

(* A name that is not the last has a next one.                             *)
LEMMA NextOf ==
    ASSUME NEW S, S \subseteq Nat, NEW i \in S, ~LastOf(S, i)
    PROVE  \E j \in S : Neighbours(S, i, j)
  <1> DEFINE T == {m \in S : i < m}
  <1>1. T \subseteq Nat /\ T # {}
    <2>1. PICK m \in S : ~(m <= i)
      BY DEF LastOf
    <2>2. m \in Nat /\ i \in Nat
      OBVIOUS
    <2>3. m \in T
      BY <2>1, <2>2
    <2> QED
      BY <2>3
  <1>2. PICK j \in T : FirstOf(T, j)
    BY <1>1, LeastOf, Zenon
  <1> QED
    BY <1>2 DEF FirstOf, Neighbours

(* What the constants' law gives of a call.                                *)
LEMMA CallFacts ==
    ASSUME page \in Pages
    PROVE  /\ page.at \in Seq(Nat) /\ Len(page.at) \in Nat
           /\ NamesOf(page) \subseteq Nat /\ \A n \in NamesOf(page) : page.len[n] \in Nat \ {0} /\ Taken(page, n) \in Nat /\ Taken(page, n) >= 7
           /\ OnPage(page) \subseteq NamesOf(page) /\ \A n \in NamesOf(page) \ OnPage(page), m \in OnPage(page) : m < n
           /\ \A i \in OnPage(page) : page.at[i] \in Nat /\ Aligned(page.at[i]) = page.at[i]
           /\ \A i, j \in OnPage(page) : i < j => page.at[i] + Taken(page, i) <= page.at[j]
           /\ OnPage(page) # {} <=> page.at # <<>>
           /\ OnPage(page) # {} => /\ FirstOf(OnPage(page), 1) /\ page.at[1] = 0
                                   /\ LastOf(OnPage(page), Len(page.at))
                                   /\ SizeOf(page) = page.at[Len(page.at)] + Taken(page, Len(page.at))
           /\ \A i \in OnPage(page) : page.at[i] + Taken(page, i) <= SizeOf(page)
           /\ SizeOf(page) \in 0..page.capacity /\ page.capacity \in Nat
           /\ page.hide \subseteq NamesOf(page) /\ page.extras \subseteq NamesOf(page) /\ page.before \subseteq NamesOf(page)
  <1>1. IsPage(page)
    BY PagesAreCalls
  <1>2. /\ page.len \in Seq(Nat \ {0}) /\ page.at \in Seq(Nat) /\ Len(page.at) <= Len(page.len)
        /\ page.capacity \in Nat /\ SizeOf(page) <= page.capacity
        /\ page.at # <<>> => page.at[1] = 0
        /\ page.hide \subseteq DOMAIN page.len /\ page.extras \subseteq DOMAIN page.len
        /\ page.before \subseteq DOMAIN page.len
    BY <1>1 DEF IsPage
  <1>3. /\ Len(page.len) \in Nat /\ DOMAIN page.len = 1..Len(page.len)
        /\ Len(page.at) \in Nat /\ DOMAIN page.at = 1..Len(page.at)
        /\ page.at = <<>> <=> Len(page.at) = 0
    BY <1>2
  <1>4. \A n \in NamesOf(page) : page.len[n] \in Nat \ {0} /\ Taken(page, n) \in Nat /\ Taken(page, n) >= 7
    <2>1. \A n \in 1..Len(page.len) : page.len[n] \in Nat \ {0}
      BY <1>2, ElementOfSeq
    <2> QED
      BY <1>3, <2>1 DEF NamesOf, Taken, NameOff
  <1>5. \A i \in OnPage(page) : page.at[i] \in Nat /\ Aligned(page.at[i]) = page.at[i]
    BY <1>1, <1>2, <1>3 DEF IsPage, OnPage
  <1>6. \A i, j \in OnPage(page) : i < j => page.at[i] + Taken(page, i) <= page.at[j]
    <2> TAKE i, j \in OnPage(page)
    <2>1. i < j => page.at[i] + NameOff + page.len[i] <= page.at[j]
      BY <1>1 DEF IsPage
    <2>2. page.len[i] \in Nat /\ page.at[i] \in Nat /\ page.at[j] \in Nat
      <3>1. i \in NamesOf(page) /\ j \in NamesOf(page)
        <4>1. i \in 1..Len(page.at) /\ j \in 1..Len(page.at)
          BY DEF OnPage
        <4>2. i \in 1..Len(page.len) /\ j \in 1..Len(page.len)
          BY <1>2, <1>3, <4>1
        <4> QED
          BY <1>3, <4>2 DEF NamesOf
      <3> QED
        BY <1>4, <1>5, <3>1
    <2> QED
      BY <2>1, <2>2 DEF Taken, NameOff
  <1>7. OnPage(page) # {} <=> page.at # <<>>
    <2>1. Len(page.at) = 0 => OnPage(page) = {}
      BY DEF OnPage
    <2>2. Len(page.at) # 0 => 1 \in OnPage(page)
      BY <1>3 DEF OnPage
    <2> QED
      BY <1>3, <2>1, <2>2
  <1>8. OnPage(page) \subseteq NamesOf(page) /\ NamesOf(page) \subseteq Nat
        /\ \A n \in NamesOf(page) \ OnPage(page), m \in OnPage(page) : m < n
    BY <1>2, <1>3 DEF OnPage, NamesOf
  <1>9. ASSUME OnPage(page) # {}
        PROVE  /\ FirstOf(OnPage(page), 1) /\ page.at[1] = 0 /\ LastOf(OnPage(page), Len(page.at))
               /\ SizeOf(page) = page.at[Len(page.at)] + Taken(page, Len(page.at))
               /\ Len(page.at) \in OnPage(page)
    <2>1. page.at # <<>> /\ Len(page.at) \in Nat \ {0}
      BY <1>3, <1>7, <1>9
    <2>2. FirstOf(OnPage(page), 1) /\ LastOf(OnPage(page), Len(page.at)) /\ Len(page.at) \in OnPage(page)
      BY <2>1 DEF FirstOf, LastOf, OnPage
    <2>3. page.at[Len(page.at)] \in Nat /\ page.len[Len(page.at)] \in Nat
      BY <1>4, <1>5, <1>8, <2>2
    <2>4. SizeOf(page) = page.at[Len(page.at)] + NameOff + page.len[Len(page.at)]
      BY <2>1 DEF SizeOf
    <2>5. SizeOf(page) = page.at[Len(page.at)] + Taken(page, Len(page.at))
      BY <2>3, <2>4 DEF Taken, NameOff
    <2> QED
      BY <1>2, <2>1, <2>2, <2>5
  <1>10. \A i \in OnPage(page) : page.at[i] + Taken(page, i) <= SizeOf(page)
    <2> TAKE i \in OnPage(page)
    <2> DEFINE last == Len(page.at)
    <2>1. last \in OnPage(page) /\ i <= last /\ SizeOf(page) = page.at[last] + Taken(page, last)
      BY <1>9 DEF LastOf
    <2>2. page.at[i] \in Nat /\ Taken(page, i) \in Nat /\ page.at[last] \in Nat /\ Taken(page, last) \in Nat
      BY <1>4, <1>5, <1>8, <2>1
    <2> HIDE DEF last
    <2>3. CASE i = last
      BY <2>1, <2>2, <2>3
    <2>4. CASE i # last
      <3>1. i < last
        <4>1. i \in Nat /\ last \in Nat
          BY <1>8, <2>1
        <4> QED
          BY <2>1, <2>4, <4>1
      <3>2. page.at[i] + Taken(page, i) <= page.at[last]
        BY <1>6, <2>1, <3>1
      <3> QED
        BY <2>1, <2>2, <3>2
    <2> QED
      BY <2>3, <2>4
  <1>11. SizeOf(page) \in Nat
    <2>1. CASE page.at = <<>>
      BY <2>1 DEF SizeOf
    <2>2. CASE page.at # <<>>
      <3>1. /\ Len(page.at) \in OnPage(page) /\ SizeOf(page) = page.at[Len(page.at)] + Taken(page, Len(page.at))
        BY <1>7, <1>9, <2>2
      <3> QED
        BY <1>4, <1>5, <1>8, <3>1
    <2> QED
      BY <2>1, <2>2
  <1>12. SizeOf(page) \in 0..page.capacity
    BY <1>2, <1>11
  <1> QED
    BY <1>2, <1>3, <1>4, <1>5, <1>6, <1>7, <1>8, <1>9, <1>10, <1>12, Zenon DEF NamesOf

(* At the record of a name every loop finds header and name, and goes on to*)
(* the next name of the chain or ends with the last.                       *)
LEMMA AtRecord ==
    ASSUME page \in Pages, buf \in [0..page.capacity -> Headers], NEW S, NEW pos, IsChain(page, buf, S, pos),
           NEW i \in S, here = pos[i], NEW limit \in Nat, EndsBy(page, S, pos, limit)
    PROVE  /\ HeaderFits(limit) /\ NameFits(limit) /\ buf[here].name = i
           /\ here \in 0..page.capacity /\ here + Extent(buf[here]) = pos[i] + Taken(page, i)
           /\ LastOf(S, i) => AtLast(limit) /\ buf[here].next = 0
           /\ ~LastOf(S, i) => /\ ~AtLast(limit) /\ buf[here].next >= Extent(buf[here])
                               /\ buf[here].next <= limit - here
                               /\ \E j \in S : Neighbours(S, i, j) /\ here + buf[here].next = pos[j]
  <1>1. /\ pos[i] \in 0..page.capacity /\ buf[here].name = i /\ buf[here].len = page.len[i]
        /\ i \in NamesOf(page) /\ S \subseteq Nat
    BY CallFacts DEF IsChain
  <1>2. /\ pos[i] \in Nat /\ Taken(page, i) \in Nat /\ Taken(page, i) >= 7 /\ page.len[i] \in Nat \ {0}
        /\ pos[i] + Taken(page, i) <= limit /\ Extent(buf[here]) = Taken(page, i)
    BY <1>1, CallFacts DEF EndsBy, Extent, Taken
  <1>3. HeaderFits(limit) /\ NameFits(limit)
    BY <1>1, <1>2 DEF HeaderFits, NameFits, NameOff
  <1>4. ASSUME LastOf(S, i) PROVE AtLast(limit) /\ buf[here].next = 0
    BY <1>4 DEF IsChain, AtLast
  <1>5. ASSUME ~LastOf(S, i)
        PROVE  /\ ~AtLast(limit) /\ buf[here].next >= Extent(buf[here])
               /\ buf[here].next <= limit - here
               /\ \E j \in S : Neighbours(S, i, j) /\ here + buf[here].next = pos[j]
    <2>1. PICK j \in S : Neighbours(S, i, j)
      BY <1>1, <1>5, NextOf
    <2>2. buf[here].next = pos[j] - pos[i] /\ pos[i] + Taken(page, i) <= pos[j]
      BY <2>1 DEF IsChain, Neighbours
    <2>3. pos[j] \in Nat /\ Taken(page, j) \in Nat /\ Taken(page, j) >= 7 /\ pos[j] + Taken(page, j) <= limit
      BY CallFacts DEF IsChain, EndsBy
    <2> QED
      BY <1>2, <1>3, <2>1, <2>2, <2>3 DEF AtLast
  <1> QED
    BY <1>1, <1>2, <1>3, <1>4, <1>5

-----------------------------------------------------------------------------
(* The steps before the overlay's names and the caller's walk.             *)
NothingRead == remaining = page.extras /\ seen = {}

(* What the kernel left, up to the record that is looked at.               *)
Collecting(i) ==
    /\ i \in OnPage(page) /\ here = page.at[i]
    /\ buf = KernelBuffer(page)
    /\ info = SizeOf(page) /\ end = SizeOf(page) /\ prev = -1
    /\ delivered = page.before \cup {m \in OnPage(page) : m < i}
    /\ NothingRead

(* filter_entries: where the record of a name is after the shifts, and the *)
(* names kept so far.                                                      *)
Moved(q, e, i) == q.at[i] - (SizeOf(q) - e)
Below(S, k) == {i \in S : i < k}

(* The records from k on are the kernel's; those kept, K, lead to each     *)
(* other, and the last of them to k.                                       *)
Sifted(q, b, e, K, k) ==
    /\ \A i \in OnPage(q) :
          k <= i => Moved(q, e, i) >= 0 /\ b[Moved(q, e, i)] = RecordOf(q, i, Distance(q, i))
    /\ \A i \in K : Moved(q, e, i) >= 0 /\ (FirstOf(K, i) => Moved(q, e, i) = 0)
    /\ \A i \in K, j \in K \cup {k} :
          Neighbours(K \cup {k}, i, j)
             => b[Moved(q, e, i)] = RecordOf(q, i, q.at[j] - q.at[i])

(* The loop of filter_entries at the record of k.                          *)
Filtering(k) ==
    /\ k \in OnPage(page) /\ here = Moved(page, end, k)
    /\ info = SizeOf(page) /\ delivered = page.before \cup OnPage(page)
    /\ NothingRead
    /\ Sifted(page, buf, end, Below(Unhidden, k), k)
    /\ prev = -1 => Below(Unhidden, k) = {} /\ here = 0
    /\ prev # -1 => \E p \in Below(Unhidden, k) :
                       LastOf(Below(Unhidden, k), p) /\ prev = Moved(page, end, p)

(* A chain of the names that are left, and the loop at name i of it.       *)
ChainAt(S, pos, i) ==
    /\ IsChain(page, buf, S, pos) /\ EndsBy(page, S, pos, info)
    /\ i \in S /\ here = pos[i]

(* The loops of rewrite_entry_case and of buffer_live_size.                *)
Rewriting(pos, i) ==
    /\ ChainAt(Unhidden, pos, i)
    /\ \A m \in Unhidden : buf[pos[m]].cased <=> (m < i /\ m \in page.cased)
    /\ delivered = page.before \cup OnPage(page) /\ NothingRead

Measuring(pos, i) ==
    /\ ChainAt(Unhidden, pos, i)
    /\ \A m \in Unhidden : buf[pos[m]].cased <=> (m \in page.cased)
    /\ delivered = page.before \cup OnPage(page) /\ NothingRead

(* The overlay's names appended so far, and all that the chain lists.      *)
Added == Due \cap delivered
Listed == Unhidden \cup Added

(* The chain with the names added so far; the others are due or consumed.  *)
Extended(pos) ==
    /\ IsChain(page, buf, Listed, pos) /\ EndsBy(page, Listed, pos, info)
    /\ \A m \in Listed : buf[pos[m]].cased <=> (m \in page.cased \cup Due)
    /\ Listed = {} => info = 0 /\ here = 0
    /\ ~OnlyHiddenHere
    /\ page.before \cup OnPage(page) \subseteq delivered
    /\ remaining \subseteq page.extras /\ Due \subseteq delivered \cup remaining
    /\ \A m \in Added, n \in remaining : m < n

(* The search for the last record stands at one of the chain.              *)
Appending(pos) ==
    /\ Extended(pos) /\ seen = {}
    /\ Listed # {} => \E i \in Listed : here = pos[i]

(* What is left over does not fit.                                         *)
Full == \A n \in remaining : NextExtra(n) => ~Known(n) /\ ~Room(n)

(* The caller is at a name and has read those before it.                   *)
Reading(pos) ==
    /\ Extended(pos) /\ Full
    /\ Listed = {} => seen = {}
    /\ Listed # {} => \E i \in Listed : here = pos[i] /\ seen = {m \in Listed : m < i}

(* A page of hidden names only, and the end of the walk.                   *)
Emptied == OnlyHiddenHere /\ info = 0 /\ here = 0 /\ NothingRead

WasRead(pos) == Extended(pos) /\ Full /\ seen = Listed

PagesInv ==
    /\ page \in Pages /\ PageTypeOK
    /\ buf \in [0..page.capacity -> Headers]
    /\ step = "collect" => \E i \in OnPage(page) : Collecting(i)
    /\ step = "filter" => \E k \in OnPage(page) : Filtering(k)
    /\ step = "case" => \E pos, i : Rewriting(pos, i)
    /\ step = "live" => \E pos, i : Measuring(pos, i)
    /\ step = "append" => \E pos : Appending(pos)
    /\ step = "walk" => Emptied \/ \E pos : Reading(pos)
    /\ step = "done" => (OnlyHiddenHere /\ NothingRead) \/ \E pos : WasRead(pos)

-----------------------------------------------------------------------------
(* The buffer the kernel fills is a chain of the page's names.             *)
LEMMA KernelChain ==
    ASSUME page \in Pages
    PROVE  /\ KernelBuffer(page) \in [0..page.capacity -> Headers]
           /\ \A i \in OnPage(page) : KernelBuffer(page)[page.at[i]] = RecordOf(page, i, Distance(page, i))
           /\ \A i \in OnPage(page) : i # Len(page.at) => i + 1 \in OnPage(page)
           /\ \A i \in OnPage(page) : Distance(page, i) \in Nat
           /\ IsChain(page, KernelBuffer(page), OnPage(page), page.at)
           /\ EndsBy(page, OnPage(page), page.at, SizeOf(page))
  <1> DEFINE b == KernelBuffer(page)
  <1>1. /\ OnPage(page) \subseteq NamesOf(page) /\ NamesOf(page) \subseteq Nat /\ page.capacity \in Nat
        /\ \A i \in OnPage(page) : /\ page.at[i] \in Nat /\ Taken(page, i) \in Nat /\ Taken(page, i) >= 7
                                   /\ page.at[i] + Taken(page, i) <= SizeOf(page) /\ page.len[i] \in Nat
        /\ \A i, j \in OnPage(page) : i < j => page.at[i] + Taken(page, i) <= page.at[j]
        /\ SizeOf(page) \in 0..page.capacity /\ page.at \in Seq(Nat) /\ Len(page.at) \in Nat
    BY CallFacts
  <1>2. \A i, j \in OnPage(page) : page.at[i] = page.at[j] => i = j
    <2> SUFFICES ASSUME NEW i \in OnPage(page), NEW j \in OnPage(page), page.at[i] = page.at[j]
                 PROVE  i = j
      OBVIOUS
    <2>1. i \in Nat /\ j \in Nat /\ page.at[i] \in Nat /\ Taken(page, i) \in Nat /\ Taken(page, i) >= 7
          /\ Taken(page, j) \in Nat /\ Taken(page, j) >= 7
      BY <1>1
    <2>2. ~(i < j) /\ ~(j < i)
      BY <1>1, <2>1
    <2> QED
      BY <2>1, <2>2
  <1>3. \A i \in OnPage(page) : page.at[i] \in 0..page.capacity
    BY <1>1
  <1>4. \A i \in OnPage(page) : b[page.at[i]] = RecordOf(page, i, Distance(page, i))
    <2> TAKE i \in OnPage(page)
    <2>1. (CHOOSE j \in OnPage(page) : page.at[j] = page.at[i]) = i
      BY <1>2
    <2> QED
      BY <1>3, <2>1 DEF KernelBuffer
  <1>5. \A i \in OnPage(page) : i # Len(page.at) => i + 1 \in OnPage(page)
    BY <1>1 DEF OnPage
  <1>6. \A i \in OnPage(page) : Distance(page, i) \in Nat
    <2> TAKE i \in OnPage(page)
    <2>1. CASE i = Len(page.at)
      BY <2>1 DEF Distance
    <2>2. CASE i # Len(page.at)
      <3>1. i + 1 \in OnPage(page) /\ i < i + 1
        <4>1. i \in Nat
          BY <1>1
        <4> QED
          BY <1>5, <2>2, <4>1
      <3>2. page.at[i] + Taken(page, i) <= page.at[i + 1] /\ page.at[i] \in Nat /\ page.at[i + 1] \in Nat
            /\ Taken(page, i) \in Nat
        BY <1>1, <3>1
      <3> QED
        BY <2>2, <3>2 DEF Distance
    <2> QED
      BY <2>1, <2>2
  <1>7. \A i \in OnPage(page) : RecordOf(page, i, Distance(page, i)) \in Headers
    BY <1>1, <1>6 DEF RecordOf, Headers
  <1>8. b \in [0..page.capacity -> Headers]
    <2>1. Junk \in Headers
      BY DEF Junk, Headers
    <2>2. ASSUME NEW o \in 0..page.capacity
          PROVE  (IF \E i \in OnPage(page) : page.at[i] = o
                  THEN LET i == CHOOSE j \in OnPage(page) : page.at[j] = o
                       IN  RecordOf(page, i, Distance(page, i))
                  ELSE Junk) \in Headers
      BY <1>7, <2>1
    <2> QED
      BY <2>2 DEF KernelBuffer
  <1> HIDE DEF b
  <1>9. IsChain(page, b, OnPage(page), page.at)
    <2>1. page.at \in [OnPage(page) -> 0..page.capacity]
      <3>1. page.at \in [1..Len(page.at) -> Nat]
        BY <1>1
      <3> QED
        BY <1>3, <3>1 DEF OnPage
    <2>2. \A i \in OnPage(page) : /\ Aligned(page.at[i]) = page.at[i]
                                 /\ b[page.at[i]].name = i /\ b[page.at[i]].len = page.len[i]
                                 /\ b[page.at[i]].next = Distance(page, i)
      <3> TAKE i \in OnPage(page)
      <3>1. b[page.at[i]] = RecordOf(page, i, Distance(page, i))
        BY <1>4
      <3>2. Aligned(page.at[i]) = page.at[i]
        BY CallFacts
      <3> QED
        BY <3>1, <3>2 DEF RecordOf
    <2>3. \A i \in OnPage(page) : FirstOf(OnPage(page), i) => page.at[i] = 0
      <3> SUFFICES ASSUME NEW i \in OnPage(page), FirstOf(OnPage(page), i) PROVE page.at[i] = 0
        OBVIOUS
      <3>1. FirstOf(OnPage(page), 1) /\ page.at[1] = 0
        BY CallFacts
      <3>2. i <= 1 /\ 1 <= i /\ i \in Nat
        BY <1>1, <3>1 DEF FirstOf
      <3>3. i = 1
        BY <3>2
      <3> QED
        BY <3>1, <3>3
    <2>4. \A i \in OnPage(page) : LastOf(OnPage(page), i) => b[page.at[i]].next = 0
      <3> SUFFICES ASSUME NEW i \in OnPage(page), LastOf(OnPage(page), i) PROVE Distance(page, i) = 0
        BY <2>2
      <3>1. LastOf(OnPage(page), Len(page.at))
        BY CallFacts
      <3>2. i <= Len(page.at) /\ Len(page.at) <= i /\ i \in Nat
        BY <1>1, <3>1 DEF LastOf
      <3>3. i = Len(page.at)
        BY <1>1, <3>2
      <3> QED
        BY <3>3 DEF Distance
    <2>5. \A i, j \in OnPage(page) :
             Neighbours(OnPage(page), i, j) => b[page.at[i]].next = page.at[j] - page.at[i]
      <3> SUFFICES ASSUME NEW i \in OnPage(page), NEW j \in OnPage(page), Neighbours(OnPage(page), i, j)
                   PROVE  Distance(page, i) = page.at[j] - page.at[i]
        BY <2>2
      <3>1. i < j /\ i \in Nat /\ j \in Nat /\ j <= Len(page.at)
        BY <1>1 DEF Neighbours, OnPage
      <3>2. i # Len(page.at) /\ i + 1 \in OnPage(page)
        BY <1>1, <1>5, <3>1
      <3>3. j = i + 1
        BY <3>1, <3>2 DEF Neighbours
      <3> QED
        BY <3>2, <3>3 DEF Distance
    <2> QED
      BY <1>1, <2>1, <2>2, <2>3, <2>4, <2>5 DEF IsChain
  <1> QED
    BY <1>1, <1>4, <1>5, <1>6, <1>8, <1>9 DEF b, EndsBy

(* The call finds the page the kernel left, or an empty one.               *)
LEMMA PageStarts == PageInit => PagesInv
  <1> SUFFICES ASSUME PageInit PROVE PagesInv
    OBVIOUS
  <1>1. /\ page \in Pages /\ buf = KernelBuffer(page) /\ info = SizeOf(page) /\ end = SizeOf(page)
        /\ here = 0 /\ prev = -1 /\ delivered = page.before /\ NothingRead
    BY DEF PageInit, NothingRead
  <1>2. buf \in [0..page.capacity -> Headers] /\ SizeOf(page) \in 0..page.capacity /\ page.capacity \in Nat
    BY <1>1, KernelChain, CallFacts
  <1>3. PageTypeOK
    BY <1>1, <1>2 DEF PageInit, PageTypeOK
  <1>4. CASE page.at # <<>>
    <2>1. step = "collect"
      BY <1>4 DEF PageInit
    <2>2. 1 \in OnPage(page) /\ page.at[1] = 0 /\ FirstOf(OnPage(page), 1) /\ OnPage(page) \subseteq Nat
      BY <1>1, <1>4, CallFacts DEF FirstOf
    <2>3. {m \in OnPage(page) : m < 1} = {}
      BY <2>2 DEF FirstOf
    <2>4. Collecting(1)
      BY <1>1, <2>2, <2>3 DEF Collecting
    <2> QED
      BY <1>1, <1>2, <1>3, <2>1, <2>2, <2>4 DEF PagesInv
  <1>5. CASE page.at = <<>>
    <2>1. step = "append" /\ OnPage(page) = {} /\ info = 0
      <3>1. OnPage(page) = {}
        BY <1>1, <1>5, CallFacts
      <3> QED
        BY <1>1, <1>5, <3>1 DEF PageInit, SizeOf
    <2>2. Unhidden = {} /\ Added = {} /\ Listed = {} /\ ~OnlyHiddenHere
      BY <1>1, <1>5, <2>1 DEF Unhidden, Added, Listed, Due, OnlyHiddenHere
    <2> DEFINE none == [i \in {} |-> 0]
    <2>3. IsChain(page, buf, {}, none) /\ EndsBy(page, {}, none, info)
      BY DEF IsChain, EndsBy
    <2>4. Appending(none)
      <3>1. remaining = page.extras /\ seen = {} /\ delivered = page.before
        BY <1>1 DEF NothingRead
      <3>2. Due \subseteq page.extras
        BY DEF Due
      <3> HIDE DEF none
      <3> QED
        BY <1>1, <2>1, <2>2, <2>3, <3>1, <3>2 DEF Appending, Extended
    <2> QED
      BY <1>1, <1>2, <1>3, <2>1, <2>4 DEF PagesInv
  <1> QED
    BY <1>4, <1>5

-----------------------------------------------------------------------------
(* The steps change neither the call nor, so, what it asks.                *)
LEMMA SameCall ==
    ASSUME page' = page
    PROVE  Unhidden' = Unhidden /\ Due' = Due /\ OnlyHiddenHere' = OnlyHiddenHere
  BY DEF Unhidden, Due, OnlyHiddenHere

(* At the last record every name of the page is collected.                 *)
LEMMA CollectStep ==
    ASSUME PagesInv, collect_present_names_lower
    PROVE  PagesInv'
  <1> DEFINE S == OnPage(page)
  <1>1. /\ step = "collect" /\ UNCHANGED <<page, buf, info, prev, end, remaining, seen>>
        /\ delivered' = delivered \cup (IF NameFits(info) THEN {buf[here].name} ELSE {})
        /\ Onward(info, "filter")
    BY DEF collect_present_names_lower
  <1>2. page \in Pages /\ buf \in [0..page.capacity -> Headers] /\ PageTypeOK
    BY DEF PagesInv
  <1>3. PICK i \in S : Collecting(i)
    BY <1>1 DEF PagesInv
  <1>4. /\ here = page.at[i] /\ buf = KernelBuffer(page) /\ info = SizeOf(page) /\ end = SizeOf(page)
        /\ prev = -1 /\ delivered = page.before \cup {m \in S : m < i} /\ NothingRead
    BY <1>3 DEF Collecting
  <1>5. IsChain(page, buf, S, page.at) /\ EndsBy(page, S, page.at, info)
    BY <1>2, <1>4, KernelChain
  <1>6. S \subseteq Nat /\ SizeOf(page) \in Nat /\ \A m \in S : page.at[m] \in Nat
    BY <1>2, CallFacts
  <1>7. /\ NameFits(info) /\ buf[here].name = i
        /\ LastOf(S, i) => AtLast(info)
        /\ ~LastOf(S, i) => ~AtLast(info) /\ \E j \in S : Neighbours(S, i, j) /\ here + buf[here].next = page.at[j]
    BY <1>2, <1>4, <1>5, <1>6, AtRecord
  <1>8. delivered' = page.before \cup {m \in S : m < i} \cup {i} /\ NothingRead'
    BY <1>1, <1>4, <1>7 DEF NothingRead
  <1> HIDE DEF S
  <1>9. CASE LastOf(S, i)
    <2>1. here' = 0 /\ step' = "filter"
      BY <1>1, <1>7, <1>9 DEF Onward
    <2>2. FirstOf(S, 1) /\ page.at[1] = 0 /\ 1 \in S
      BY <1>2, <1>3, CallFacts DEF S, FirstOf
    <2>3. delivered' = page.before \cup S
      <3>1. \A m \in S : m < i \/ m = i
        <4>1. \A m \in S : m \in Nat /\ i \in Nat /\ m <= i
          BY <1>6, <1>9 DEF LastOf
        <4> QED
          BY <4>1
      <3> QED
        BY <1>8, <3>1
    <2>4. Below(Unhidden, 1) = {}
      <3>1. \A m \in Unhidden : m \in S
        BY DEF Unhidden, S
      <3>2. \A m \in Unhidden : m \in Nat /\ 1 <= m
        BY <1>6, <2>2, <3>1 DEF FirstOf
      <3> QED
        BY <3>2 DEF Below
    <2>5. \A m \in S : Moved(page, end, m) = page.at[m]
      BY <1>4, <1>6 DEF Moved
    <2>6. Sifted(page, buf, end, {}, 1)
      <3>1. \A m \in S : Moved(page, end, m) >= 0
                         /\ buf[Moved(page, end, m)] = RecordOf(page, m, Distance(page, m))
        BY <1>2, <1>4, <1>6, <2>5, KernelChain DEF S
      <3> QED
        BY <3>1 DEF Sifted, S
    <2>7. Filtering(1)'
      <3>1. 1 \in OnPage(page)' /\ here' = Moved(page, end, 1)' /\ info' = SizeOf(page)'
            /\ delivered' = page'.before \cup OnPage(page)' /\ prev' = -1
        BY <1>1, <1>4, <2>1, <2>2, <2>3, <2>5 DEF S
      <3>2. Below(Unhidden, 1)' = {}
        BY <1>1, <2>4, SameCall DEF Below
      <3>3. Sifted(page, buf, end, Below(Unhidden, 1), 1)'
        BY <1>1, <2>6, <3>2
      <3> QED
        BY <1>8, <2>1, <3>1, <3>2, <3>3 DEF Filtering
    <2>8. PageTypeOK'
      BY <1>1, <1>2, <2>1, CallFacts DEF PageTypeOK
    <2> QED
      BY <1>1, <1>2, <2>1, <2>2, <2>7, <2>8 DEF PagesInv, S
  <1>10. CASE ~LastOf(S, i)
    <2>1. PICK j \in S : Neighbours(S, i, j) /\ here + buf[here].next = page.at[j]
      BY <1>7, <1>10
    <2>2. here' = page.at[j] /\ step' = "collect"
      BY <1>1, <1>7, <1>10, <2>1 DEF Onward
    <2>3. delivered' = page.before \cup {m \in S : m < j}
      <3>1. \A m \in S : m \in Nat /\ i \in Nat /\ j \in Nat /\ i < j /\ (m <= i \/ j <= m)
        BY <1>6, <2>1 DEF Neighbours
      <3>2. \A m \in S : m < j <=> (m < i \/ m = i)
        BY <3>1
      <3>3. {m \in S : m < i} \cup {i} = {m \in S : m < j}
        BY <3>2, <1>3
      <3> QED
        BY <1>8, <3>3
    <2>4. Collecting(j)'
      BY <1>1, <1>4, <1>8, <2>1, <2>2, <2>3 DEF Collecting, S
    <2>5. PageTypeOK'
      <3>1. page.at[j] \in 0..page.capacity
        BY <1>5 DEF IsChain
      <3> QED
        BY <1>1, <1>2, <2>2, <3>1 DEF PageTypeOK
    <2> QED
      BY <1>1, <1>2, <2>2, <2>4, <2>5 DEF PagesInv, S
  <1> QED
    BY <1>9, <1>10

-----------------------------------------------------------------------------
(* Distances that are multiples of 4 keep their sum and difference so.     *)
LEMMA AlignedDifference ==
    ASSUME NEW a \in Nat, NEW b \in Nat, b <= a, Aligned(a) = a, Aligned(b) = b
    PROVE  Aligned(a - b) = a - b
  BY DEF Aligned

(* The record filter_entries is at, and where it goes from there.          *)
LEMMA FilterRecord ==
    ASSUME PagesInv, NEW k \in OnPage(page), Filtering(k)
    PROVE  /\ here \in 0..page.capacity /\ buf[here] = RecordOf(page, k, Distance(page, k))
           /\ HeaderFits(end) /\ buf[here].name = k /\ (Hidden <=> k \in page.hide)
           /\ k = Len(page.at) => buf[here].next = 0 /\ AtLast(end) /\ LastOf(OnPage(page), k)
           /\ k # Len(page.at) => /\ k + 1 \in OnPage(page) /\ ~AtLast(end)
                                  /\ buf[here].next = page.at[k + 1] - page.at[k]
                                  /\ buf[here].next > 0 /\ buf[here].next <= end - here
                                  /\ here + buf[here].next = Moved(page, end, k + 1)
           /\ \A m \in OnPage(page) : m \in Nat /\ (m < k + 1 <=> m < k \/ m = k)
  <1> DEFINE S == OnPage(page)
             size == SizeOf(page)
             next == Distance(page, k)
  <1>1. page \in Pages /\ end \in 0..size
    BY DEF PagesInv, PageTypeOK
  <1>2. /\ S \subseteq Nat /\ \A m \in S : page.at[m] \in Nat /\ page.len[m] \in Nat \ {0} /\ Taken(page, m) \in Nat
                                           /\ Taken(page, m) >= 7 /\ page.at[m] + Taken(page, m) <= size
        /\ size \in 0..page.capacity /\ page.capacity \in Nat /\ Len(page.at) \in Nat
        /\ \A i, j \in S : i < j => page.at[i] + Taken(page, i) <= page.at[j]
        /\ LastOf(S, Len(page.at))
    BY <1>1, CallFacts
  <1>3. /\ \A m \in S : m # Len(page.at) => m + 1 \in S
        /\ next \in Nat
    BY <1>1, KernelChain
  <1>4. Moved(page, end, k) >= 0 /\ here = Moved(page, end, k) /\ buf[here] = RecordOf(page, k, next)
    <2>1. k <= k
      BY <1>2
    <2> QED
      BY <2>1 DEF Filtering, Sifted
  <1>5. \A m \in S : Moved(page, end, m) = page.at[m] - (size - end)
    BY DEF Moved
  <1> HIDE DEF S, size, next
  <1>6. buf[here].name = k /\ buf[here].len = page.len[k] /\ buf[here].next = next
    BY <1>4 DEF RecordOf
  <1>7. Extent(buf[here]) = Taken(page, k)
    BY <1>6 DEF Extent, Taken
  <1>8. /\ k \in S /\ k \in Nat /\ page.at[k] \in Nat /\ page.len[k] \in Nat \ {0} /\ Taken(page, k) \in Nat
        /\ Taken(page, k) >= 7 /\ page.at[k] + Taken(page, k) <= size /\ size \in Nat /\ end \in Nat /\ end <= size
        /\ here = page.at[k] - (size - end) /\ here >= 0 /\ size <= page.capacity
    BY <1>1, <1>2, <1>4, <1>5 DEF S
  <1>9. here \in 0..page.capacity /\ HeaderFits(end) /\ NameFits(end)
    <2>1. here + Taken(page, k) <= end
      BY <1>8
    <2>2. Extent(buf[here]) <= end - here /\ buf[here].len >= 1
      BY <1>6, <1>7, <1>8, <2>1
    <2>3. page.capacity \in Nat
      BY <1>2
    <2>4. here \in Nat /\ here <= page.capacity
      BY <1>8, <2>3
    <2>5. here < end /\ 6 <= end - here
      BY <1>8, <2>1, <2>4
    <2> QED
      BY <2>2, <2>3, <2>4, <2>5 DEF HeaderFits, NameFits, NameOff
  <1>10. Hidden <=> k \in page.hide
    BY <1>6, <1>9 DEF Hidden
  <1>11. ASSUME k = Len(page.at) PROVE buf[here].next = 0 /\ AtLast(end) /\ LastOf(S, k)
    BY <1>2, <1>6, <1>11 DEF AtLast, Distance, next
  <1>12. ASSUME k # Len(page.at)
         PROVE  /\ k + 1 \in S /\ ~AtLast(end) /\ buf[here].next = page.at[k + 1] - page.at[k]
                /\ buf[here].next > 0 /\ buf[here].next <= end - here
                /\ here + buf[here].next = Moved(page, end, k + 1)
    <2>1. k + 1 \in S /\ k < k + 1
      BY <1>3, <1>8, <1>12
    <2>2. /\ page.at[k + 1] \in Nat /\ Taken(page, k + 1) \in Nat /\ Taken(page, k + 1) >= 7
          /\ page.at[k + 1] + Taken(page, k + 1) <= size
          /\ page.at[k] + Taken(page, k) <= page.at[k + 1]
      BY <1>2, <1>8, <2>1
    <2>3. next = page.at[k + 1] - page.at[k]
      BY <1>12 DEF Distance, next
    <2>4. Moved(page, end, k + 1) = page.at[k + 1] - (size - end)
      BY <1>5, <2>1
    <2> QED
      BY <1>6, <1>8, <1>9, <2>1, <2>2, <2>3, <2>4 DEF AtLast
  <1>13. \A m \in S : m \in Nat /\ (m < k + 1 <=> m < k \/ m = k)
    <2>1. \A m \in S : m \in Nat
      BY <1>2
    <2> QED
      BY <1>8, <2>1
  <1> QED
    BY <1>4, <1>6, <1>9, <1>10, <1>11, <1>12, <1>13 DEF S, next

(* What filter_entries leaves is a chain of the names that are not hidden. *)
LEMMA FilterDone ==
    ASSUME page \in Pages, NEW b, NEW e \in 0..SizeOf(page), Unhidden # {},
           \A i \in Unhidden : /\ Moved(page, e, i) >= 0
                               /\ FirstOf(Unhidden, i) => Moved(page, e, i) = 0
                               /\ LastOf(Unhidden, i) => b[Moved(page, e, i)] = RecordOf(page, i, 0),
           \A i, j \in Unhidden : Neighbours(Unhidden, i, j)
                                     => b[Moved(page, e, i)] = RecordOf(page, i, page.at[j] - page.at[i])
    PROVE  \E pos : /\ IsChain(page, b, Unhidden, pos) /\ EndsBy(page, Unhidden, pos, SizeOf(page))
                    /\ \A m \in Unhidden : ~b[pos[m]].cased
                    /\ \E i \in Unhidden : FirstOf(Unhidden, i) /\ pos[i] = 0
  <1> DEFINE U == Unhidden
             size == SizeOf(page)
             pos == [i \in U |-> Moved(page, e, i)]
  <1>1. /\ U \subseteq OnPage(page) /\ U \subseteq NamesOf(page) /\ U \subseteq Nat
        /\ \A m \in U : /\ page.at[m] \in Nat /\ Taken(page, m) \in Nat
                        /\ page.at[m] + Taken(page, m) <= size /\ Aligned(page.at[m]) = page.at[m]
        /\ \A i, j \in U : i < j => page.at[i] + Taken(page, i) <= page.at[j]
        /\ size \in 0..page.capacity /\ size \in Nat /\ page.capacity \in Nat
    <2>1. U \subseteq OnPage(page)
      BY DEF Unhidden
    <2> QED
      BY <2>1, CallFacts
  <1>2. PICK f \in U : FirstOf(U, f)
    BY <1>1, LeastOf
  <1>3. page.at[f] = size - e /\ e \in Nat
    <2>1. Moved(page, e, f) = 0
      BY <1>2
    <2> QED
      BY <1>1, <2>1 DEF Moved
  <1>4. \A i \in U : /\ pos[i] = page.at[i] - page.at[f] /\ pos[i] = Moved(page, e, i)
                     /\ pos[i] \in Nat /\ pos[i] + Taken(page, i) <= e
    <2> TAKE i \in U
    <2>1. pos[i] = Moved(page, e, i) /\ Moved(page, e, i) = page.at[i] - (size - e)
      BY DEF Moved
    <2>2. Moved(page, e, i) >= 0 /\ page.at[i] \in Nat /\ page.at[f] \in Nat /\ Taken(page, i) \in Nat
          /\ page.at[i] + Taken(page, i) <= size
      BY <1>1, <1>2
    <2> HIDE DEF pos, size, U
    <2> QED
      BY <1>1, <1>3, <2>1, <2>2
  <1>5. \A i \in U : Aligned(pos[i]) = pos[i]
    <2> TAKE i \in U
    <2>1. /\ page.at[i] \in Nat /\ page.at[f] \in Nat /\ Aligned(page.at[i]) = page.at[i]
          /\ Aligned(page.at[f]) = page.at[f] /\ pos[i] = page.at[i] - page.at[f] /\ pos[i] \in Nat
      BY <1>1, <1>2, <1>4
    <2> HIDE DEF pos, U
    <2>2. page.at[f] <= page.at[i]
      BY <2>1
    <2> QED
      BY <2>1, <2>2, AlignedDifference
  <1>6. pos \in [U -> 0..page.capacity]
    <2>1. \A i \in U : Moved(page, e, i) \in 0..page.capacity
      <3> TAKE i \in U
      <3>1. /\ Moved(page, e, i) \in Nat /\ Moved(page, e, i) + Taken(page, i) <= e /\ Taken(page, i) \in Nat
            /\ e \in Nat /\ e <= size /\ size <= page.capacity
        BY <1>1, <1>4
      <3> QED
        BY <1>1, <3>1
    <2> QED
      BY <2>1
  <1>7. \A i \in U : FirstOf(U, i) => pos[i] = 0
    BY <1>4
  <1>8. \A i \in U : LastOf(U, i) => b[pos[i]] = RecordOf(page, i, 0)
    BY <1>4
  <1>9. \A i, j \in U : Neighbours(U, i, j) => b[pos[i]] = RecordOf(page, i, pos[j] - pos[i])
    <2> SUFFICES ASSUME NEW i \in U, NEW j \in U, Neighbours(U, i, j)
                 PROVE  b[pos[i]] = RecordOf(page, i, pos[j] - pos[i])
      OBVIOUS
    <2>1. b[pos[i]] = RecordOf(page, i, page.at[j] - page.at[i])
      BY <1>4
    <2>2. pos[j] - pos[i] = page.at[j] - page.at[i]
      <3>1. /\ pos[j] = page.at[j] - page.at[f] /\ pos[i] = page.at[i] - page.at[f]
            /\ page.at[i] \in Nat /\ page.at[j] \in Nat /\ page.at[f] \in Nat
        BY <1>1, <1>2, <1>4
      <3> HIDE DEF pos
      <3> QED
        BY <3>1
    <2> QED
      BY <2>1, <2>2
  <1> HIDE DEF pos
  <1>10. \A i \in U : b[pos[i]].name = i /\ b[pos[i]].len = page.len[i] /\ ~b[pos[i]].cased
    <2> TAKE i \in U
    <2>1. CASE LastOf(U, i)
      <3>1. b[pos[i]] = RecordOf(page, i, 0)
        BY <1>8, <2>1
      <3> QED
        BY <3>1 DEF RecordOf
    <2>2. CASE ~LastOf(U, i)
      <3>1. PICK j \in U : Neighbours(U, i, j)
        BY <1>1, <2>2, NextOf
      <3>2. b[pos[i]] = RecordOf(page, i, pos[j] - pos[i])
        BY <1>9, <3>1
      <3> QED
        BY <3>2 DEF RecordOf
    <2> QED
      BY <2>1, <2>2
  <1>11. \A i, j \in U : i < j => pos[i] + Taken(page, i) <= pos[j]
    <2> SUFFICES ASSUME NEW i \in U, NEW j \in U, i < j PROVE pos[i] + Taken(page, i) <= pos[j]
      OBVIOUS
    <2>1. /\ page.at[i] + Taken(page, i) <= page.at[j] /\ Taken(page, i) \in Nat
          /\ pos[j] = page.at[j] - page.at[f] /\ pos[i] = page.at[i] - page.at[f]
          /\ page.at[i] \in Nat /\ page.at[j] \in Nat /\ page.at[f] \in Nat
      BY <1>1, <1>2, <1>4
    <2> QED
      BY <2>1
  <1>12. IsChain(page, b, U, pos)
    <2>1. /\ \A i \in U : LastOf(U, i) => b[pos[i]].next = 0
          /\ \A i, j \in U : Neighbours(U, i, j) => b[pos[i]].next = pos[j] - pos[i]
      <3>1. ASSUME NEW i \in U, LastOf(U, i) PROVE b[pos[i]].next = 0
        <4>1. b[pos[i]] = RecordOf(page, i, 0)
          BY <1>8, <3>1
        <4> QED
          BY <4>1 DEF RecordOf
      <3>2. ASSUME NEW i \in U, NEW j \in U, Neighbours(U, i, j) PROVE b[pos[i]].next = pos[j] - pos[i]
        <4>1. b[pos[i]] = RecordOf(page, i, pos[j] - pos[i])
          BY <1>9, <3>2
        <4> QED
          BY <4>1 DEF RecordOf
      <3> QED
        BY <3>1, <3>2
    <2> HIDE DEF U
    <2> QED
      BY <1>1, <1>5, <1>6, <1>7, <1>10, <1>11, <2>1 DEF IsChain
  <1>13. EndsBy(page, U, pos, size)
    <2> SUFFICES ASSUME NEW i \in U PROVE pos[i] + Taken(page, i) <= size
      BY DEF EndsBy
    <2>1. pos[i] \in Nat /\ pos[i] + Taken(page, i) <= e /\ Taken(page, i) \in Nat /\ e <= size /\ e \in Nat
      BY <1>1, <1>3, <1>4
    <2> QED
      BY <1>1, <2>1
  <1> QED
    BY <1>2, <1>7, <1>10, <1>12, <1>13

(* filter_entries is done: the chain is that of the names not hidden.      *)
LEMMA RewriteStarts ==
    ASSUME page' = page, info' = SizeOf(page), here' = 0,
           delivered' = page.before \cup OnPage(page), remaining' = page.extras, seen' = {},
           NEW pos, IsChain(page, buf', Unhidden, pos), EndsBy(page, Unhidden, pos, SizeOf(page)),
           \A m \in Unhidden : ~buf'[pos[m]].cased,
           NEW i \in Unhidden, FirstOf(Unhidden, i), pos[i] = 0, Unhidden \subseteq Nat
    PROVE  Rewriting(pos, i)'
  <1>1. Unhidden' = Unhidden
    BY SameCall
  <1>2. ChainAt(Unhidden, pos, i)'
    BY <1>1 DEF ChainAt
  <1>3. \A m \in Unhidden : buf'[pos[m]].cased <=> (m < i /\ m \in page.cased)
    <2>1. \A m \in Unhidden : m \in Nat /\ i \in Nat /\ i <= m
      BY DEF FirstOf
    <2>2. \A m \in Unhidden : ~(m < i)
      BY <2>1
    <2> QED
      BY <2>2
  <1> QED
    BY <1>1, <1>2, <1>3 DEF Rewriting, NothingRead

(* Facts of the step at record k that do not depend on what is done there. *)
LEMMA FilterFacts ==
    ASSUME PagesInv, step = "filter"
    PROVE  /\ page \in Pages /\ buf \in [0..page.capacity -> Headers] /\ PageTypeOK
           /\ end \in 0..SizeOf(page) /\ info = SizeOf(page)
           /\ delivered = page.before \cup OnPage(page) /\ remaining = page.extras /\ seen = {}
           /\ OnPage(page) \subseteq Nat /\ Unhidden \subseteq OnPage(page)
           /\ \A i \in OnPage(page) : page.at[i] \in Nat /\ page.at[i] <= SizeOf(page)
           /\ \A i, j \in OnPage(page) : i < j => page.at[i] < page.at[j]
           /\ LastOf(OnPage(page), Len(page.at)) \/ OnPage(page) = {}
           /\ SizeOf(page) \in 0..page.capacity /\ page.capacity \in Nat
           /\ \A e, i : Moved(page, e, i) = page.at[i] - (SizeOf(page) - e)
  <1>1. page \in Pages /\ buf \in [0..page.capacity -> Headers] /\ PageTypeOK /\ end \in 0..SizeOf(page)
    BY DEF PagesInv, PageTypeOK
  <1>2. /\ OnPage(page) \subseteq Nat /\ \A i \in OnPage(page) : page.at[i] \in Nat
        /\ LastOf(OnPage(page), Len(page.at)) \/ OnPage(page) = {}
        /\ SizeOf(page) \in 0..page.capacity /\ page.capacity \in Nat
    BY <1>1, CallFacts
  <1>6. \A i \in OnPage(page) : page.at[i] <= SizeOf(page)
    <2> TAKE i \in OnPage(page)
    <2>1. /\ page.at[i] \in Nat /\ Taken(page, i) \in Nat /\ page.at[i] + Taken(page, i) <= SizeOf(page)
          /\ SizeOf(page) \in Nat
      BY <1>1, CallFacts
    <2> QED
      BY <2>1
  <1>3. \A i, j \in OnPage(page) : i < j => page.at[i] < page.at[j]
    <2> SUFFICES ASSUME NEW i \in OnPage(page), NEW j \in OnPage(page), i < j PROVE page.at[i] < page.at[j]
      OBVIOUS
    <2>1. /\ page.at[i] \in Nat /\ page.at[j] \in Nat /\ Taken(page, i) \in Nat /\ Taken(page, i) >= 7
          /\ page.at[i] + Taken(page, i) <= page.at[j]
      BY <1>1, CallFacts
    <2> QED
      BY <2>1
  <1>4. PICK k \in OnPage(page) : Filtering(k)
    BY DEF PagesInv
  <1>5. info = SizeOf(page) /\ delivered = page.before \cup OnPage(page) /\ remaining = page.extras /\ seen = {}
    BY <1>4 DEF Filtering, NothingRead
  <1> QED
    BY <1>1, <1>2, <1>3, <1>5, <1>6 DEF Unhidden, Moved

(* A record that stays becomes the one before the next.                    *)
LEMMA KeepStep ==
    ASSUME PagesInv, Keep
    PROVE  PagesInv'
  <1> DEFINE S == OnPage(page)
             U == Unhidden
  <1>1. /\ step = "filter" /\ ~Hidden /\ prev' = here /\ Onward(end, "case")
        /\ UNCHANGED <<page, buf, info, end, delivered, remaining, seen>>
    BY DEF Keep
  <1>2. PICK k \in S : Filtering(k)
    BY <1>1 DEF PagesInv
  <1> DEFINE K == Below(U, k)
  <1>3. /\ here = Moved(page, end, k) /\ Sifted(page, buf, end, K, k)
        /\ prev = -1 => K = {} /\ here = 0
        /\ prev # -1 => \E p \in K : LastOf(K, p) /\ prev = Moved(page, end, p)
    BY <1>2 DEF Filtering
  <1>4. /\ here \in 0..page.capacity /\ buf[here] = RecordOf(page, k, Distance(page, k))
        /\ k \notin page.hide
        /\ k = Len(page.at) => AtLast(end) /\ LastOf(S, k)
        /\ k # Len(page.at) => /\ k + 1 \in S /\ ~AtLast(end)
                               /\ here + buf[here].next = Moved(page, end, k + 1)
        /\ \A m \in S : m \in Nat /\ (m < k + 1 <=> m < k \/ m = k)
    BY <1>1, <1>2, FilterRecord
  <1>5. /\ page \in Pages /\ buf \in [0..page.capacity -> Headers] /\ PageTypeOK
        /\ end \in 0..SizeOf(page) /\ info = SizeOf(page) /\ S \subseteq Nat /\ U \subseteq S
        /\ delivered = page.before \cup S /\ remaining = page.extras /\ seen = {}
        /\ \A i \in S : page.at[i] \in Nat /\ page.at[i] <= SizeOf(page)
        /\ SizeOf(page) \in 0..page.capacity /\ page.capacity \in Nat
        /\ \A e, i : Moved(page, e, i) = page.at[i] - (SizeOf(page) - e)
    BY <1>1, FilterFacts
  <1>6. k \in U /\ here \in Nat
    BY <1>4, <1>5 DEF Unhidden
  <1>7. \A i \in K : i \in U /\ i \in S /\ i \in Nat /\ i < k
    BY <1>5 DEF Below
  <1>8. Below(U, k + 1) = K \cup {k}
    BY <1>4, <1>5, <1>6 DEF Below
  <1>9. \A i \in K \cup {k} : Moved(page, end, i) >= 0 /\ (FirstOf(K \cup {k}, i) => Moved(page, end, i) = 0)
    <2> SUFFICES ASSUME NEW i \in K \cup {k}
                 PROVE  Moved(page, end, i) >= 0 /\ (FirstOf(K \cup {k}, i) => Moved(page, end, i) = 0)
      OBVIOUS
    <2>1. CASE i \in K
      <3>1. Moved(page, end, i) >= 0 /\ (FirstOf(K, i) => Moved(page, end, i) = 0)
        BY <1>3, <2>1 DEF Sifted
      <3>2. FirstOf(K \cup {k}, i) => FirstOf(K, i)
        BY <2>1 DEF FirstOf
      <3> QED
        BY <3>1, <3>2
    <2>2. CASE i = k
      <3>1. Moved(page, end, k) >= 0
        BY <1>3, <1>4
      <3>2. ASSUME FirstOf(K \cup {k}, k) PROVE here = 0
        <4>1. \A p \in K : p < k /\ k <= p /\ p \in Nat /\ k \in Nat
          BY <1>4, <1>7, <3>2 DEF FirstOf
        <4>2. K = {}
          BY <4>1
        <4> QED
          BY <1>3, <4>2
      <3> QED
        BY <1>3, <2>2, <3>1, <3>2
    <2> QED
      BY <2>1, <2>2
  <1>10. \A i \in K, j \in K \cup {k} :
            Neighbours(K \cup {k}, i, j) => buf[Moved(page, end, i)] = RecordOf(page, i, page.at[j] - page.at[i])
    BY <1>3 DEF Sifted
  <1> HIDE DEF K
  <1>11. CASE k = Len(page.at)
    <2>1. here' = 0 /\ step' = "case"
      BY <1>1, <1>4, <1>11 DEF Onward
    <2>2. U = K \cup {k}
      <3>1. \A m \in U : m \in S /\ m \in Nat /\ k \in Nat /\ m <= k
        BY <1>4, <1>5, <1>11 DEF LastOf
      <3>2. \A m \in U : m < k \/ m = k
        BY <3>1
      <3>3. \A m \in U : m < k => m \in K
        BY DEF K, Below
      <3> QED
        BY <1>6, <1>7, <3>2, <3>3
    <2>3. \A i \in U : LastOf(U, i) => buf[Moved(page, end, i)] = RecordOf(page, i, 0)
      <3> SUFFICES ASSUME NEW i \in U, LastOf(U, i) PROVE buf[Moved(page, end, i)] = RecordOf(page, i, 0)
        OBVIOUS
      <3>1. k <= i /\ i \in Nat /\ k \in Nat /\ (i < k \/ i = k)
        BY <1>4, <1>5, <1>6, <1>7, <2>2 DEF LastOf
      <3>2. i = k
        BY <3>1
      <3>3. Distance(page, k) = 0
        BY <1>11 DEF Distance
      <3> QED
        BY <1>3, <1>4, <3>2, <3>3
    <2>4. \A i, j \in U : Neighbours(U, i, j)
                             => buf[Moved(page, end, i)] = RecordOf(page, i, page.at[j] - page.at[i])
      <3> SUFFICES ASSUME NEW i \in U, NEW j \in U, Neighbours(U, i, j)
                   PROVE  buf[Moved(page, end, i)] = RecordOf(page, i, page.at[j] - page.at[i])
        OBVIOUS
      <3>1. i < j /\ i \in Nat /\ j \in Nat /\ k \in Nat /\ (j < k \/ j = k)
        BY <1>4, <1>5, <1>7, <2>2 DEF Neighbours
      <3>2. i \in K
        <4>1. i # k
          BY <3>1
        <4> QED
          BY <2>2, <4>1
      <3> QED
        BY <1>10, <2>2, <3>2
    <2>5. PICK pos : /\ IsChain(page, buf, U, pos) /\ EndsBy(page, U, pos, SizeOf(page))
                     /\ \A m \in U : ~buf[pos[m]].cased
                     /\ \E i \in U : FirstOf(U, i) /\ pos[i] = 0
      <3>1. \A i \in U : /\ Moved(page, end, i) >= 0
                         /\ FirstOf(U, i) => Moved(page, end, i) = 0
                         /\ LastOf(U, i) => buf[Moved(page, end, i)] = RecordOf(page, i, 0)
        BY <1>9, <2>2, <2>3
      <3>2. U # {}
        BY <1>6
      <3> QED
        BY <1>5, <2>4, <3>1, <3>2, FilterDone
    <2>6. PICK i \in U : FirstOf(U, i) /\ pos[i] = 0
      BY <2>5
    <2>7. Rewriting(pos, i)'
      <3>1. U \subseteq Nat
        BY <1>5
      <3> QED
        BY <1>1, <1>5, <2>1, <2>5, <2>6, <3>1, RewriteStarts
    <2>8. PageTypeOK'
      <3>1. prev' \in -1..page.capacity /\ here' \in 0..page.capacity
        BY <1>1, <1>4, <1>5, <2>1
      <3> QED
        BY <1>1, <1>5, <2>1, <3>1 DEF PageTypeOK
    <2> QED
      BY <1>1, <1>5, <2>1, <2>7, <2>8 DEF PagesInv
  <1>12. CASE k # Len(page.at)
    <2>1. here' = Moved(page, end, k + 1) /\ step' = "filter" /\ k + 1 \in S
      BY <1>1, <1>4, <1>12 DEF Onward
    <2>2. Sifted(page, buf, end, K \cup {k}, k + 1)
      <3>1. ASSUME NEW i \in S, k + 1 <= i
            PROVE  Moved(page, end, i) >= 0 /\ buf[Moved(page, end, i)] = RecordOf(page, i, Distance(page, i))
        <4>1. k <= i
          BY <1>4, <3>1
        <4> QED
          BY <1>3, <4>1 DEF Sifted
      <3>2. ASSUME NEW i \in K \cup {k}, NEW j \in (K \cup {k}) \cup {k + 1},
                   Neighbours((K \cup {k}) \cup {k + 1}, i, j)
            PROVE  buf[Moved(page, end, i)] = RecordOf(page, i, page.at[j] - page.at[i])
        <4>1. i \in Nat /\ k \in Nat /\ j \in Nat /\ i < j /\ (k <= i \/ j <= k) /\ i <= k
          BY <1>4, <1>7, <3>2 DEF Neighbours
        <4>2. CASE i = k
          <5>1. j = k + 1
            <6>1. j # k /\ j \notin K
              BY <1>7, <4>1, <4>2
            <6> QED
              BY <6>1
          <5>2. Distance(page, k) = page.at[k + 1] - page.at[k]
            BY <1>12 DEF Distance
          <5> QED
            BY <1>3, <1>4, <4>2, <5>1, <5>2
        <4>3. CASE i # k
          <5>1. i \in K /\ j <= k
            BY <4>1, <4>3
          <5>2. j \in K \cup {k}
            BY <4>1, <5>1
          <5>3. Neighbours(K \cup {k}, i, j)
            BY <3>2, <5>1, <5>2 DEF Neighbours
          <5> QED
            BY <1>10, <5>1, <5>2, <5>3
        <4> QED
          BY <4>2, <4>3
      <3> QED
        BY <1>9, <3>1, <3>2 DEF Sifted, S
    <2>3. LastOf(K \cup {k}, k)
      <3>1. \A m \in K : m \in Nat /\ k \in Nat /\ m < k
        BY <1>4, <1>7
      <3>2. \A m \in K \cup {k} : m <= k
        BY <1>4, <3>1
      <3> QED
        BY <3>2 DEF LastOf
    <2>4. Filtering(k + 1)'
      <3>1. Below(Unhidden, k + 1)' = K \cup {k}
        BY <1>1, <1>8, SameCall DEF Below
      <3>2. prev' # -1 /\ prev' = Moved(page, end, k)
        BY <1>1, <1>3, <1>6
      <3> QED
        BY <1>1, <1>5, <2>1, <2>2, <2>3, <3>1, <3>2 DEF Filtering, NothingRead
    <2>5. PageTypeOK'
      <3>1. Moved(page, end, k + 1) \in 0..page.capacity
        <4>1. Moved(page, end, k + 1) >= 0
          <5>1. k + 1 \in Nat /\ k + 1 <= k + 1
            BY <1>4
          <5> QED
            BY <2>1, <2>2, <5>1 DEF Sifted
        <4>2. page.at[k + 1] \in Nat /\ page.at[k + 1] <= SizeOf(page)
          BY <1>5, <2>1
        <4>3. Moved(page, end, k + 1) = page.at[k + 1] - (SizeOf(page) - end)
          BY <1>5
        <4> QED
          BY <1>5, <4>1, <4>2, <4>3
      <3> QED
        BY <1>1, <1>4, <1>5, <2>1, <3>1 DEF PageTypeOK
    <2> QED
      BY <1>1, <1>5, <2>1, <2>4, <2>5 DEF PagesInv
  <1> QED
    BY <1>11, <1>12

(* A record whose distance is written is otherwise the same.               *)
LEMMA SetNext ==
    ASSUME NEW q, NEW n, NEW d, NEW e
    PROVE  [RecordOf(q, n, d) EXCEPT !.next = e] = RecordOf(q, n, e)
  <1> DEFINE no == FALSE
  <1>1. RecordOf(q, n, d) = [next |-> d, len |-> q.len[n], name |-> n, cased |-> no]
    BY DEF RecordOf
  <1>2. RecordOf(q, n, e) = [next |-> e, len |-> q.len[n], name |-> n, cased |-> no]
    BY DEF RecordOf
  <1> HIDE DEF no
  <1> QED
    BY <1>1, <1>2

(* A hidden record behind others: the last one kept now leads behind it.   *)
LEMMA StepOverStep ==
    ASSUME PagesInv, StepOver
    PROVE  PagesInv'
  <1> DEFINE S == OnPage(page)
             U == Unhidden
  <1>1. /\ step = "filter" /\ Hidden /\ prev # -1 /\ Onward(end, "case")
        /\ buf' = [buf EXCEPT ![prev].next = IF buf[here].next = 0 THEN 0 ELSE @ + buf[here].next]
        /\ UNCHANGED <<page, info, prev, end, delivered, remaining, seen>>
    BY DEF StepOver
  <1>2. PICK k \in S : Filtering(k)
    BY <1>1 DEF PagesInv
  <1> DEFINE K == Below(U, k)
  <1>3. /\ here = Moved(page, end, k) /\ Sifted(page, buf, end, K, k)
        /\ \E p \in K : LastOf(K, p) /\ prev = Moved(page, end, p)
    BY <1>1, <1>2 DEF Filtering
  <1>4. /\ here \in 0..page.capacity /\ buf[here] = RecordOf(page, k, Distance(page, k))
        /\ k \in page.hide
        /\ k = Len(page.at) => AtLast(end) /\ LastOf(S, k) /\ buf[here].next = 0
        /\ k # Len(page.at) => /\ k + 1 \in S /\ ~AtLast(end) /\ buf[here].next > 0
                               /\ buf[here].next = page.at[k + 1] - page.at[k]
                               /\ here + buf[here].next = Moved(page, end, k + 1)
        /\ \A m \in S : m \in Nat /\ (m < k + 1 <=> m < k \/ m = k)
    <2>1. Hidden <=> k \in page.hide
      BY <1>2, FilterRecord
    <2>2. here \in 0..page.capacity /\ buf[here] = RecordOf(page, k, Distance(page, k))
      BY <1>2, FilterRecord
    <2>5. \A m \in S : m \in Nat /\ (m < k + 1 <=> m < k \/ m = k)
      BY <1>2, FilterRecord
    <2>3. k = Len(page.at) => AtLast(end) /\ LastOf(S, k) /\ buf[here].next = 0
      BY <1>2, FilterRecord
    <2>4. k # Len(page.at) => /\ k + 1 \in S /\ ~AtLast(end) /\ buf[here].next > 0
                              /\ buf[here].next = page.at[k + 1] - page.at[k]
                              /\ here + buf[here].next = Moved(page, end, k + 1)
      BY <1>2, FilterRecord
    <2> QED
      BY <1>1, <2>1, <2>2, <2>3, <2>4, <2>5
  <1>5. /\ page \in Pages /\ buf \in [0..page.capacity -> Headers] /\ PageTypeOK
        /\ end \in 0..SizeOf(page) /\ info = SizeOf(page) /\ S \subseteq Nat /\ U \subseteq S
        /\ delivered = page.before \cup S /\ remaining = page.extras /\ seen = {}
        /\ \A i \in S : page.at[i] \in Nat /\ page.at[i] <= SizeOf(page)
        /\ SizeOf(page) \in 0..page.capacity /\ page.capacity \in Nat
        /\ \A e, i : Moved(page, e, i) = page.at[i] - (SizeOf(page) - e)
        /\ \A i, j \in S : i < j => page.at[i] < page.at[j]
    BY <1>1, FilterFacts
  <1>6. PICK p \in K : LastOf(K, p) /\ prev = Moved(page, end, p)
    BY <1>3
  <1>7. \A i \in K : i \in U /\ i \in S /\ i \in Nat /\ i < k /\ i <= p
    BY <1>5, <1>6 DEF Below, LastOf
  <1>8. Below(U, k + 1) = K
    <2>1. k \notin U
      BY <1>4 DEF Unhidden
    <2> QED
      BY <1>4, <1>5, <2>1 DEF Below
  <1>9. \A i \in K : Moved(page, end, i) >= 0 /\ (FirstOf(K, i) => Moved(page, end, i) = 0)
    BY <1>3 DEF Sifted
  <1>10. \A i \in K, j \in K \cup {k} :
            Neighbours(K \cup {k}, i, j) => buf[Moved(page, end, i)] = RecordOf(page, i, page.at[j] - page.at[i])
    BY <1>3 DEF Sifted
  <1> DEFINE dist == IF buf[here].next = 0 THEN 0 ELSE page.at[k + 1] - page.at[p]
  <1>11. buf[prev] = RecordOf(page, p, page.at[k] - page.at[p]) /\ prev \in 0..page.capacity
    <2>1. p \in K \cup {k} /\ k \in K \cup {k} /\ p < k /\ \A m \in K \cup {k} : m <= p \/ k <= m
      BY <1>4, <1>7
    <2>2. Neighbours(K \cup {k}, p, k)
      BY <2>1 DEF Neighbours
    <2>3. prev \in -1..page.capacity
      BY <1>5 DEF PageTypeOK
    <2> QED
      BY <1>1, <1>5, <1>6, <1>10, <2>2, <2>3
  <1>12. buf'[prev] = RecordOf(page, p, dist) /\ dist \in Nat
    <2>1. CASE buf[here].next = 0
      <3>1. buf' = [buf EXCEPT ![prev].next = 0]
        BY <1>1, <2>1
      <3>2. buf'[prev] = [buf[prev] EXCEPT !.next = 0]
        BY <1>5, <1>11, <3>1
      <3>3. buf'[prev] = RecordOf(page, p, 0)
        BY <1>11, <3>2, SetNext
      <3> QED
        BY <2>1, <3>3
    <2>2. CASE buf[here].next # 0
      <3>1. k # Len(page.at) /\ buf[here].next = page.at[k + 1] - page.at[k] /\ k + 1 \in S
        BY <1>4, <2>2
      <3>2. buf' = [buf EXCEPT ![prev].next = @ + (page.at[k + 1] - page.at[k])]
        BY <1>1, <2>2, <3>1
      <3>3. buf[prev].next = page.at[k] - page.at[p]
        BY <1>11 DEF RecordOf
      <3>4. /\ page.at[k] \in Nat /\ page.at[k + 1] \in Nat /\ page.at[p] \in Nat
            /\ page.at[p] < page.at[k] /\ page.at[k] < page.at[k + 1]
        <4>1. p \in S /\ k \in S /\ p < k /\ k < k + 1
          BY <1>4, <1>7
        <4> QED
          BY <1>5, <3>1, <4>1
      <3>5. buf[prev].next + (page.at[k + 1] - page.at[k]) = page.at[k + 1] - page.at[p]
            /\ page.at[k + 1] - page.at[p] \in Nat
        BY <3>3, <3>4
      <3>6. buf'[prev] = [buf[prev] EXCEPT !.next = page.at[k + 1] - page.at[p]]
        BY <1>5, <1>11, <3>2, <3>5
      <3>7. buf'[prev] = RecordOf(page, p, page.at[k + 1] - page.at[p])
        BY <1>11, <3>6, SetNext
      <3> QED
        BY <2>2, <3>5, <3>7
    <2> QED
      BY <2>1, <2>2
  <1>13. buf' \in [0..page.capacity -> Headers]
    <2>1. RecordOf(page, p, dist) \in Headers
      <3>1. page.len[p] \in Nat /\ p \in Nat
        <4>1. p \in NamesOf(page) /\ p \in Nat
          BY <1>5, <1>7, CallFacts
        <4> QED
          BY <1>5, <4>1, CallFacts
      <3> QED
        BY <1>12, <3>1 DEF RecordOf, Headers
    <2> HIDE DEF dist
    <2>2. buf' = [buf EXCEPT ![prev] = RecordOf(page, p, dist)]
      BY <1>1, <1>5, <1>11, <1>12
    <2> QED
      BY <1>5, <1>11, <2>1, <2>2
  <1>14. \A i \in S : i # p => buf'[Moved(page, end, i)] = buf[Moved(page, end, i)]
    <2> SUFFICES ASSUME NEW i \in S, i # p PROVE Moved(page, end, i) # prev
      BY <1>1
    <2>1. p \in S /\ i \in Nat /\ p \in Nat /\ page.at[i] \in Nat /\ page.at[p] \in Nat
      BY <1>5, <1>7
    <2>2. page.at[i] # page.at[p]
      <3>1. i < p \/ p < i
        BY <2>1
      <3>2. page.at[i] < page.at[p] \/ page.at[p] < page.at[i]
        BY <1>5, <2>1, <3>1
      <3> QED
        BY <2>1, <3>2
    <2>3. /\ Moved(page, end, i) = page.at[i] - (SizeOf(page) - end)
          /\ prev = page.at[p] - (SizeOf(page) - end)
          /\ SizeOf(page) \in Nat /\ end \in Nat
      BY <1>5, <1>6
    <2> QED
      BY <2>1, <2>2, <2>3
  <1> HIDE DEF K, dist
  <1>15. CASE k = Len(page.at)
    <2>1. here' = 0 /\ step' = "case" /\ dist = 0
      BY <1>1, <1>4, <1>15 DEF Onward, dist
    <2>2. U = K
      <3>1. \A m \in U : m \in S /\ m \in Nat /\ k \in Nat /\ m <= k /\ m # k
        BY <1>4, <1>5, <1>15 DEF LastOf, Unhidden
      <3>2. \A m \in U : m < k
        BY <3>1
      <3>3. \A m \in U : m < k => m \in K
        BY DEF K, Below
      <3> QED
        BY <1>7, <3>2, <3>3
    <2>3. \A i \in U : LastOf(U, i) => buf'[Moved(page, end, i)] = RecordOf(page, i, 0)
      <3> SUFFICES ASSUME NEW i \in U, LastOf(U, i) PROVE buf'[Moved(page, end, i)] = RecordOf(page, i, 0)
        OBVIOUS
      <3>1. p <= i /\ i <= p /\ i \in Nat /\ p \in Nat
        BY <1>7, <2>2 DEF LastOf
      <3>2. i = p
        BY <3>1
      <3> QED
        BY <1>6, <1>12, <2>1, <3>2
    <2>4. \A i, j \in U : Neighbours(U, i, j)
                             => buf'[Moved(page, end, i)] = RecordOf(page, i, page.at[j] - page.at[i])
      <3> SUFFICES ASSUME NEW i \in U, NEW j \in U, Neighbours(U, i, j)
                   PROVE  buf'[Moved(page, end, i)] = RecordOf(page, i, page.at[j] - page.at[i])
        OBVIOUS
      <3>1. i < j /\ i \in Nat /\ j \in Nat /\ p \in Nat /\ j <= p /\ i \in S /\ i \in K /\ j \in K /\ j < k /\ k \in Nat
        BY <1>4, <1>5, <1>7, <2>2 DEF Neighbours
      <3>2. i # p /\ j <= k
        BY <3>1
      <3>3. Neighbours(K \cup {k}, i, j)
        BY <2>2, <3>1, <3>2 DEF Neighbours
      <3> QED
        BY <1>10, <1>14, <3>1, <3>2, <3>3
    <2>5. PICK pos : /\ IsChain(page, buf', U, pos) /\ EndsBy(page, U, pos, SizeOf(page))
                     /\ \A m \in U : ~buf'[pos[m]].cased
                     /\ \E i \in U : FirstOf(U, i) /\ pos[i] = 0
      <3>1. \A i \in U : /\ Moved(page, end, i) >= 0
                         /\ FirstOf(U, i) => Moved(page, end, i) = 0
                         /\ LastOf(U, i) => buf'[Moved(page, end, i)] = RecordOf(page, i, 0)
        BY <1>9, <2>2, <2>3
      <3>2. U # {}
        BY <2>2
      <3> QED
        BY <1>5, <2>4, <3>1, <3>2, FilterDone
    <2>6. PICK i \in U : FirstOf(U, i) /\ pos[i] = 0
      BY <2>5
    <2>7. Rewriting(pos, i)'
      <3>1. U \subseteq Nat
        BY <1>5
      <3> QED
        BY <1>1, <1>5, <2>1, <2>5, <2>6, <3>1, RewriteStarts
    <2>8. PageTypeOK'
      <3>1. prev' \in -1..page.capacity /\ here' \in 0..page.capacity
        BY <1>1, <1>5, <2>1 DEF PageTypeOK
      <3> QED
        BY <1>1, <1>5, <2>1, <3>1 DEF PageTypeOK
    <2> QED
      BY <1>1, <1>5, <1>13, <2>1, <2>7, <2>8 DEF PagesInv
  <1>16. CASE k # Len(page.at)
    <2>1. here' = Moved(page, end, k + 1) /\ step' = "filter" /\ k + 1 \in S /\ dist = page.at[k + 1] - page.at[p]
      BY <1>1, <1>4, <1>16 DEF Onward, dist
    <2>2. Sifted(page, buf', end, K, k + 1)
      <3>1. ASSUME NEW i \in S, k + 1 <= i
            PROVE  Moved(page, end, i) >= 0 /\ buf'[Moved(page, end, i)] = RecordOf(page, i, Distance(page, i))
        <4>1. k <= i /\ i # p
          <5>1. k \in Nat /\ i \in Nat /\ p < k /\ p \in Nat
            BY <1>4, <1>7
          <5> QED
            BY <3>1, <5>1
        <4> QED
          BY <1>3, <1>14, <4>1 DEF Sifted
      <3>2. ASSUME NEW i \in K, NEW j \in K \cup {k + 1}, Neighbours(K \cup {k + 1}, i, j)
            PROVE  buf'[Moved(page, end, i)] = RecordOf(page, i, page.at[j] - page.at[i])
        <4>1. /\ i \in Nat /\ k \in Nat /\ j \in Nat /\ p \in Nat /\ i < j /\ (p <= i \/ j <= p)
              /\ i <= p /\ p < k /\ i \in S
          BY <1>4, <1>7, <3>2 DEF Neighbours
        <4>2. CASE i = p
          <5>1. j = k + 1
            <6>1. j \notin K
              BY <1>7, <4>1, <4>2
            <6> QED
              BY <6>1
          <5> QED
            BY <1>6, <1>12, <2>1, <4>2, <5>1
        <4>3. CASE i # p
          <5>1. j <= p /\ j # k + 1
            BY <4>1, <4>3
          <5>2. j \in K /\ j <= k
            BY <4>1, <5>1
          <5>3. Neighbours(K \cup {k}, i, j)
            BY <3>2, <5>2 DEF Neighbours
          <5> QED
            BY <1>10, <1>14, <4>1, <4>3, <5>2, <5>3
        <4> QED
          BY <4>2, <4>3
      <3> QED
        BY <1>9, <3>1, <3>2 DEF Sifted, S
    <2>3. Filtering(k + 1)'
      <3>1. Below(Unhidden, k + 1)' = K
        BY <1>1, <1>8, SameCall DEF Below
      <3>2. prev' # -1 /\ prev' = Moved(page, end, p) /\ LastOf(K, p)
        BY <1>1, <1>6
      <3> QED
        BY <1>1, <1>5, <2>1, <2>2, <3>1, <3>2 DEF Filtering, NothingRead
    <2>4. PageTypeOK'
      <3>1. Moved(page, end, k + 1) \in 0..page.capacity
        <4>1. Moved(page, end, k + 1) >= 0
          <5>1. k + 1 \in Nat /\ k + 1 <= k + 1
            BY <1>4
          <5> QED
            BY <2>1, <2>2, <5>1 DEF Sifted
        <4>2. page.at[k + 1] \in Nat /\ page.at[k + 1] <= SizeOf(page)
          BY <1>5, <2>1
        <4>3. Moved(page, end, k + 1) = page.at[k + 1] - (SizeOf(page) - end)
          BY <1>5
        <4> QED
          BY <1>5, <4>1, <4>2, <4>3
      <3> QED
        BY <1>1, <1>5, <2>1, <3>1 DEF PageTypeOK
    <2> QED
      BY <1>1, <1>5, <1>13, <2>1, <2>3, <2>4 DEF PagesInv
  <1> QED
    BY <1>15, <1>16

(* A hidden record at the front: everything behind it moves to the front.  *)
LEMMA ShiftStep ==
    ASSUME PagesInv, ShiftLeft
    PROVE  PagesInv'
  <1> DEFINE S == OnPage(page)
             U == Unhidden
             next == buf[here].next
             remain == end - here - next
  <1>1. /\ step = "filter" /\ Hidden /\ prev = -1 /\ next # 0
        /\ UNCHANGED <<page, info, prev, delivered, remaining, seen>>
    BY DEF ShiftLeft
  <1>2. PICK k \in S : Filtering(k)
    BY <1>1 DEF PagesInv
  <1>3. /\ here = Moved(page, end, k) /\ here = 0 /\ Below(U, k) = {}
        /\ \A i \in S : k <= i => /\ Moved(page, end, i) >= 0
                                  /\ buf[Moved(page, end, i)] = RecordOf(page, i, Distance(page, i))
    BY <1>1, <1>2 DEF Filtering, Sifted
  <1>4. k \in page.hide
    <2>1. Hidden <=> k \in page.hide
      BY <1>2, FilterRecord
    <2> QED
      BY <1>1, <2>1
  <1>5. k # Len(page.at) /\ k + 1 \in S /\ next > 0 /\ next = page.at[k + 1] - page.at[k] /\ next <= end - here
        /\ here + next = Moved(page, end, k + 1)
    <2>1. k = Len(page.at) => next = 0
      BY <1>2, FilterRecord
    <2> QED
      BY <1>1, <1>2, <2>1, FilterRecord
  <1>6. \A m \in S : m \in Nat /\ (m < k + 1 <=> m < k \/ m = k)
    BY <1>2, FilterRecord
  <1>7. /\ page \in Pages /\ buf \in [0..page.capacity -> Headers] /\ PageTypeOK
        /\ end \in 0..SizeOf(page) /\ info = SizeOf(page) /\ S \subseteq Nat /\ U \subseteq S
        /\ delivered = page.before \cup S /\ remaining = page.extras /\ seen = {}
        /\ SizeOf(page) \in 0..page.capacity /\ page.capacity \in Nat
        /\ \A e, i : Moved(page, e, i) = page.at[i] - (SizeOf(page) - e)
        /\ \A i, j \in S : i < j => page.at[i] < page.at[j]
    BY <1>1, FilterFacts
  <1>8. \A i \in S : /\ page.at[i] \in Nat /\ Taken(page, i) \in Nat /\ Taken(page, i) >= 7
                     /\ page.at[i] + Taken(page, i) <= SizeOf(page)
    BY <1>7, CallFacts
  <1>9. next \in Nat /\ end \in Nat /\ SizeOf(page) \in Nat /\ remain \in Nat /\ remain = end - next
    <2>1. next \in Int
      BY <1>5, <1>8
    <2> QED
      BY <1>3, <1>5, <1>7, <2>1
  <1>10. /\ buf' = [o \in DOMAIN buf |-> IF here <= o /\ o < here + remain THEN buf[o + next] ELSE buf[o]]
         /\ end' = here + remain /\ here' = here /\ step' = step
    <2>1. ~(remain < 0)
      BY <1>9
    <2> QED
      BY <2>1 DEF ShiftLeft
  <1> HIDE DEF next, remain
  <1>11. end' = end - next /\ here' = 0 /\ step' = "filter" /\ end' \in 0..SizeOf(page)
    BY <1>1, <1>3, <1>7, <1>9, <1>10
  <1>12. buf' \in [0..page.capacity -> Headers]
    <2>1. \A o \in 0..page.capacity : here <= o /\ o < here + remain => buf[o + next] \in Headers
      <3> SUFFICES ASSUME NEW o \in 0..page.capacity, here <= o, o < here + remain
                   PROVE  o + next \in 0..page.capacity
        BY <1>7
      <3> QED
        BY <1>3, <1>7, <1>9
    <2> QED
      BY <1>7, <1>10, <2>1
  <1>13. \A i \in S : k + 1 <= i => /\ Moved(page, end', i) = Moved(page, end, i) - next
                                    /\ Moved(page, end', i) \in 0..page.capacity
                                    /\ Moved(page, end', i) < remain
    <2> SUFFICES ASSUME NEW i \in S, k + 1 <= i
                 PROVE  /\ Moved(page, end', i) = Moved(page, end, i) - next
                        /\ Moved(page, end', i) \in 0..page.capacity
                        /\ Moved(page, end', i) < remain
      OBVIOUS
    <2>1. /\ Moved(page, end, i) = page.at[i] - (SizeOf(page) - end)
          /\ Moved(page, end', i) = page.at[i] - (SizeOf(page) - end')
          /\ Moved(page, end, k + 1) = page.at[k + 1] - (SizeOf(page) - end)
      BY <1>7
    <2>2. page.at[k + 1] <= page.at[i]
      <3>1. i \in Nat /\ k + 1 \in Nat /\ page.at[i] \in Nat /\ page.at[k + 1] \in Nat
        BY <1>5, <1>6, <1>8
      <3>2. CASE i = k + 1
        BY <3>1, <3>2
      <3>3. CASE i # k + 1
        <4>1. k + 1 < i
          BY <3>1, <3>3
        <4>2. page.at[k + 1] < page.at[i]
          BY <1>5, <1>7, <4>1
        <4> QED
          BY <3>1, <4>2
      <3> QED
        BY <3>2, <3>3
    <2>3. /\ page.at[i] \in Nat /\ page.at[k + 1] \in Nat /\ Taken(page, i) \in Nat /\ Taken(page, i) >= 7
          /\ page.at[i] + Taken(page, i) <= SizeOf(page) /\ Moved(page, end, k + 1) = next
      <3>1. /\ page.at[i] \in Nat /\ Taken(page, i) \in Nat /\ Taken(page, i) >= 7
            /\ page.at[i] + Taken(page, i) <= SizeOf(page)
        BY <1>8
      <3>2. page.at[k + 1] \in Nat
        BY <1>5, <1>8
      <3>3. Moved(page, end, k + 1) = next
        BY <1>3, <1>5, <1>9
      <3> QED
        BY <3>1, <3>2, <3>3
    <2>4. SizeOf(page) <= page.capacity /\ page.capacity \in Nat /\ end' = end - next /\ end' \in Nat
      BY <1>7, <1>11
    <2> QED
      BY <1>9, <2>1, <2>2, <2>3, <2>4
  <1>14. Sifted(page, buf', end', {}, k + 1)
    <2>1. ASSUME NEW i \in S, k + 1 <= i
          PROVE  Moved(page, end', i) >= 0 /\ buf'[Moved(page, end', i)] = RecordOf(page, i, Distance(page, i))
      <3> DEFINE to == Moved(page, end', i)
      <3>1. to = Moved(page, end, i) - next /\ to \in 0..page.capacity /\ to < remain
        BY <1>13, <2>1
      <3>2. k <= i
        BY <1>6, <2>1
      <3>3. buf[Moved(page, end, i)] = RecordOf(page, i, Distance(page, i))
        BY <1>3, <3>2
      <3> HIDE DEF to
      <3>4. buf'[to] = buf[to + next]
        BY <1>3, <1>7, <1>9, <1>10, <3>1
      <3>5. to + next = Moved(page, end, i)
        <4>1. Moved(page, end, i) \in Int
          <5>1. Moved(page, end, i) = page.at[i] - (SizeOf(page) - end)
            BY <1>7
          <5> QED
            BY <1>8, <1>9, <5>1
        <4> QED
          BY <1>9, <3>1, <4>1
      <3> QED
        BY <3>1, <3>3, <3>4, <3>5 DEF to
    <2> QED
      BY <2>1 DEF Sifted, S
  <1>15. Below(U, k + 1) = {}
    <2>1. k \notin U
      BY <1>4 DEF Unhidden
    <2> QED
      BY <1>3, <1>6, <1>7, <2>1 DEF Below
  <1>16. Filtering(k + 1)'
    <2>1. Below(Unhidden, k + 1)' = {}
      BY <1>1, <1>15, SameCall DEF Below
    <2>2. here' = Moved(page, end', k + 1)
      <3>1. /\ Moved(page, end', k + 1) = Moved(page, end, k + 1) - next
        <4>1. k + 1 \in S /\ k + 1 <= k + 1
          BY <1>5, <1>6
        <4> QED
          BY <1>13, <4>1
      <3> QED
        BY <1>3, <1>5, <1>9, <1>11, <3>1
    <2> QED
      BY <1>1, <1>5, <1>7, <1>11, <1>14, <2>1, <2>2 DEF Filtering, NothingRead
  <1>17. PageTypeOK'
    BY <1>1, <1>7, <1>11 DEF PageTypeOK
  <1> QED
    BY <1>1, <1>5, <1>7, <1>11, <1>12, <1>16, <1>17 DEF PagesInv

(* Nothing but hidden names was on the page.                               *)
LEMMA OnlyHiddenStep ==
    ASSUME PagesInv, OnlyHidden
    PROVE  PagesInv'
  <1> DEFINE S == OnPage(page)
             U == Unhidden
  <1>1. /\ step = "filter" /\ Hidden /\ prev = -1 /\ buf[here].next = 0
        /\ info' = 0 /\ here' = 0 /\ step' = "walk"
        /\ UNCHANGED <<page, buf, prev, end, delivered, remaining, seen>>
    BY DEF OnlyHidden
  <1>2. PICK k \in S : Filtering(k)
    BY <1>1 DEF PagesInv
  <1>3. Below(U, k) = {} /\ remaining = page.extras /\ seen = {}
    BY <1>1, <1>2 DEF Filtering, NothingRead
  <1>4. k \in page.hide
    <2>1. Hidden <=> k \in page.hide
      BY <1>2, FilterRecord
    <2> QED
      BY <1>1, <2>1
  <1>5. LastOf(S, k)
    <2>1. k # Len(page.at) => buf[here].next > 0
      BY <1>2, FilterRecord
    <2>2. k = Len(page.at)
      BY <1>1, <2>1
    <2> QED
      BY <1>2, <2>2, FilterRecord
  <1>6. /\ page \in Pages /\ buf \in [0..page.capacity -> Headers] /\ PageTypeOK /\ page.capacity \in Nat
        /\ S \subseteq Nat /\ U \subseteq S
    BY <1>1, FilterFacts
  <1>7. U = {}
    <2>1. \A m \in U : m \in Nat /\ k \in Nat /\ m <= k /\ m # k
      BY <1>4, <1>5, <1>6 DEF LastOf, Unhidden
    <2>2. \A m \in U : m < k
      BY <2>1
    <2>3. \A m \in U : m \in Below(U, k)
      BY <2>2 DEF Below
    <2> QED
      BY <1>3, <2>3
  <1>8. page.at # <<>>
    BY <1>2, <1>6, CallFacts
  <1>9. Emptied'
    BY <1>1, <1>3, <1>7, <1>8, SameCall DEF Emptied, OnlyHiddenHere, NothingRead
  <1>10. PageTypeOK'
    BY <1>1, <1>6 DEF PageTypeOK
  <1> QED
    BY <1>1, <1>6, <1>9, <1>10 DEF PagesInv

-----------------------------------------------------------------------------
(* What the later loops know of the call and of the chain.                 *)
LEMMA ChainFacts ==
    ASSUME page \in Pages, NEW S, NEW pos, NEW b, IsChain(page, b, S, pos)
    PROVE  /\ S \subseteq Nat /\ page.capacity \in Nat
           /\ \A i \in S : /\ pos[i] \in 0..page.capacity /\ Taken(page, i) \in Nat /\ Taken(page, i) >= 7
                           /\ b[pos[i]].name = i
           /\ \A i, j \in S : i # j => pos[i] # pos[j]
           /\ S # {} => \E i \in S : FirstOf(S, i) /\ pos[i] = 0
  <1>1. S \subseteq NamesOf(page) /\ S \subseteq Nat /\ page.capacity \in Nat
    BY CallFacts DEF IsChain
  <1>2. \A i \in S : pos[i] \in 0..page.capacity /\ b[pos[i]].name = i
    BY DEF IsChain
  <1>3. \A i \in S : Taken(page, i) \in Nat /\ Taken(page, i) >= 7
    BY <1>1, CallFacts
  <1>4. \A i, j \in S : i # j => pos[i] # pos[j]
    BY <1>2
  <1>5. S # {} => \E i \in S : FirstOf(S, i) /\ pos[i] = 0
    <2> SUFFICES ASSUME S # {} PROVE \E i \in S : FirstOf(S, i) /\ pos[i] = 0
      OBVIOUS
    <2>1. PICK i \in S : FirstOf(S, i)
      BY <1>1, LeastOf
    <2>2. pos[i] = 0
      BY <2>1 DEF IsChain
    <2> QED
      BY <2>1, <2>2
  <1> QED
    BY <1>1, <1>2, <1>3, <1>4, <1>5

(* A chain stays one when only the case of names changes.                  *)
LEMMA SameChain ==
    ASSUME NEW q, NEW S, NEW pos, NEW b, NEW c, IsChain(q, b, S, pos),
           \A i \in S : /\ c[pos[i]].name = b[pos[i]].name /\ c[pos[i]].len = b[pos[i]].len
                        /\ c[pos[i]].next = b[pos[i]].next
    PROVE  IsChain(q, c, S, pos)
  <1>1. /\ S \subseteq NamesOf(q) /\ pos \in [S -> 0..q.capacity]
        /\ \A i \in S : Aligned(pos[i]) = pos[i] /\ b[pos[i]].name = i /\ b[pos[i]].len = q.len[i]
        /\ \A i \in S : FirstOf(S, i) => pos[i] = 0
        /\ \A i, j \in S : i < j => pos[i] + Taken(q, i) <= pos[j]
    BY Zenon DEF IsChain
  <1>2. /\ \A i \in S : LastOf(S, i) => b[pos[i]].next = 0
        /\ \A i, j \in S : Neighbours(S, i, j) => b[pos[i]].next = pos[j] - pos[i]
    BY Zenon DEF IsChain
  <1>3. \A i \in S : Aligned(pos[i]) = pos[i] /\ c[pos[i]].name = i /\ c[pos[i]].len = q.len[i]
    BY <1>1, Zenon
  <1>4. /\ \A i \in S : LastOf(S, i) => c[pos[i]].next = 0
        /\ \A i, j \in S : Neighbours(S, i, j) => c[pos[i]].next = pos[j] - pos[i]
    BY <1>2, Zenon
  <1> QED
    BY <1>1, <1>3, <1>4, Zenon DEF IsChain

(* The name gets its original case; the chain stays.                       *)
LEMMA RewriteStep ==
    ASSUME PagesInv, rewrite_entry_case
    PROVE  PagesInv'
  <1> DEFINE U == Unhidden
  <1>1. /\ step = "case" /\ Onward(info, "live")
        /\ buf' = IF NameFits(info) /\ buf[here].name \in page.cased
                  THEN [buf EXCEPT ![here].cased = TRUE] ELSE buf
        /\ UNCHANGED <<page, info, prev, end, delivered, remaining, seen>>
    BY DEF rewrite_entry_case
  <1>2. page \in Pages /\ buf \in [0..page.capacity -> Headers] /\ PageTypeOK
    BY DEF PagesInv
  <1>3. PICK pos, i : Rewriting(pos, i)
    BY <1>1 DEF PagesInv
  <1>4. /\ IsChain(page, buf, U, pos) /\ EndsBy(page, U, pos, info) /\ i \in U /\ here = pos[i]
        /\ \A m \in U : buf[pos[m]].cased <=> (m < i /\ m \in page.cased)
        /\ delivered = page.before \cup OnPage(page) /\ remaining = page.extras /\ seen = {}
    BY <1>3 DEF Rewriting, ChainAt, NothingRead
  <1>5. info \in Nat
    BY <1>2, CallFacts DEF PageTypeOK
  <1>6. /\ NameFits(info) /\ buf[here].name = i /\ here \in 0..page.capacity
        /\ LastOf(U, i) => AtLast(info)
        /\ ~LastOf(U, i) => ~AtLast(info) /\ \E j \in U : Neighbours(U, i, j) /\ here + buf[here].next = pos[j]
    BY <1>2, <1>4, <1>5, AtRecord
  <1>7. /\ U \subseteq Nat /\ page.capacity \in Nat
        /\ \A m \in U : pos[m] \in 0..page.capacity /\ buf[pos[m]].name = m
        /\ \A m \in U : m # i => pos[m] # here
        /\ \E f \in U : FirstOf(U, f) /\ pos[f] = 0
    BY <1>2, <1>4, ChainFacts
  <1>8. buf' = IF i \in page.cased THEN [buf EXCEPT ![here].cased = TRUE] ELSE buf
    BY <1>1, <1>6
  <1>9. buf' \in [0..page.capacity -> Headers]
    <2>1. [buf[here] EXCEPT !.cased = TRUE] \in Headers
      BY <1>2, <1>6 DEF Headers
    <2> QED
      BY <1>2, <1>6, <1>8, <2>1
  <1>10. \A m \in U : /\ buf'[pos[m]].name = buf[pos[m]].name /\ buf'[pos[m]].len = buf[pos[m]].len
                      /\ buf'[pos[m]].next = buf[pos[m]].next
                      /\ buf'[pos[m]].cased <=> (buf[pos[m]].cased \/ (m = i /\ i \in page.cased))
    <2> TAKE m \in U
    <2>1. buf[pos[m]] \in Headers
      BY <1>2, <1>7
    <2>2. CASE m = i /\ i \in page.cased
      <3>1. buf'[pos[m]] = [buf[pos[m]] EXCEPT !.cased = TRUE]
        BY <1>2, <1>4, <1>6, <1>8, <2>2
      <3> QED
        BY <2>1, <2>2, <3>1 DEF Headers
    <2>3. CASE ~(m = i /\ i \in page.cased)
      <3>1. buf'[pos[m]] = buf[pos[m]]
        BY <1>2, <1>7, <1>8, <2>3
      <3> QED
        BY <2>3, <3>1
    <2> QED
      BY <2>2, <2>3
  <1>11. IsChain(page, buf', U, pos)
    BY <1>4, <1>10, SameChain
  <1>12. U' = U
    BY <1>1, SameCall
  <1> HIDE DEF U
  <1>13. CASE LastOf(U, i)
    <2>1. here' = 0 /\ step' = "live"
      BY <1>1, <1>6, <1>13 DEF Onward
    <2>2. PICK f \in U : FirstOf(U, f) /\ pos[f] = 0
      BY <1>7
    <2>3. \A m \in U : buf'[pos[m]].cased <=> (m \in page.cased)
      <3> TAKE m \in U
      <3>1. m \in Nat /\ i \in Nat /\ m <= i
        BY <1>4, <1>7, <1>13 DEF LastOf
      <3>2. m < i \/ m = i
        BY <3>1
      <3>3. CASE m = i
        <4>1. ~(m < i)
          BY <3>1, <3>3
        <4> QED
          BY <1>4, <1>10, <3>3, <4>1
      <3>4. CASE m # i
        BY <1>4, <1>10, <3>2, <3>4
      <3> QED
        BY <3>3, <3>4
    <2>4. Measuring(pos, f)'
      BY <1>1, <1>4, <1>11, <1>12, <2>1, <2>2, <2>3 DEF Measuring, ChainAt, NothingRead, U
    <2>5. PageTypeOK'
      BY <1>1, <1>2, <1>7, <2>1 DEF PageTypeOK
    <2> QED
      BY <1>1, <1>2, <1>9, <2>1, <2>4, <2>5 DEF PagesInv
  <1>14. CASE ~LastOf(U, i)
    <2>1. PICK j \in U : Neighbours(U, i, j) /\ here + buf[here].next = pos[j]
      BY <1>6, <1>14
    <2>2. here' = pos[j] /\ step' = "case"
      BY <1>1, <1>6, <1>14, <2>1 DEF Onward
    <2>3. \A m \in U : buf'[pos[m]].cased <=> (m < j /\ m \in page.cased)
      <3> TAKE m \in U
      <3>1. m \in Nat /\ i \in Nat /\ j \in Nat /\ i < j /\ (m <= i \/ j <= m)
        BY <1>4, <1>7, <2>1 DEF Neighbours
      <3>2. CASE m = i
        <4>1. ~(m < i) /\ m < j
          BY <3>1, <3>2
        <4> QED
          BY <1>4, <1>10, <3>2, <4>1
      <3>3. CASE m # i
        <4>1. m < i <=> m < j
          BY <3>1, <3>3
        <4> QED
          BY <1>4, <1>10, <3>3, <4>1
      <3> QED
        BY <3>2, <3>3
    <2>4. Rewriting(pos, j)'
      <3>1. ChainAt(Unhidden, pos, j)'
        BY <1>1, <1>4, <1>11, <1>12, <2>1, <2>2 DEF ChainAt, U
      <3>2. (\A m \in Unhidden : buf[pos[m]].cased <=> (m < j /\ m \in page.cased))'
        BY <1>1, <1>12, <2>3 DEF U
      <3>3. (delivered = page.before \cup OnPage(page) /\ NothingRead)'
        BY <1>1, <1>4 DEF NothingRead
      <3> QED
        BY <3>1, <3>2, <3>3, Zenon DEF Rewriting
    <2>5. PageTypeOK'
      BY <1>1, <1>2, <1>7, <2>1, <2>2 DEF PageTypeOK
    <2> QED
      BY <1>1, <1>2, <1>9, <2>2, <2>4, <2>5 DEF PagesInv
  <1> QED
    BY <1>13, <1>14

(* The page ends where its last record does.                               *)
LEMMA MeasureStep ==
    ASSUME PagesInv, buffer_live_size
    PROVE  PagesInv'
  <1> DEFINE U == Unhidden
  <1>1. /\ step = "live" /\ Onward(info, "append")
        /\ info' = IF ~AtLast(info) THEN info
                   ELSE IF NameFits(info) /\ buf[here].next = 0 THEN here + Extent(buf[here])
                   ELSE here
        /\ UNCHANGED <<page, buf, prev, end, delivered, remaining, seen>>
    BY DEF buffer_live_size
  <1>2. page \in Pages /\ buf \in [0..page.capacity -> Headers] /\ PageTypeOK
    BY DEF PagesInv
  <1>3. PICK pos, i : Measuring(pos, i)
    BY <1>1 DEF PagesInv
  <1>4. /\ IsChain(page, buf, U, pos) /\ EndsBy(page, U, pos, info) /\ i \in U /\ here = pos[i]
        /\ \A m \in U : buf[pos[m]].cased <=> (m \in page.cased)
        /\ delivered = page.before \cup OnPage(page) /\ remaining = page.extras /\ seen = {}
    BY <1>3 DEF Measuring, ChainAt, NothingRead
  <1>5. info \in Nat /\ info <= page.capacity /\ page.capacity \in Nat
    BY <1>2, CallFacts DEF PageTypeOK
  <1>6. /\ NameFits(info) /\ here + Extent(buf[here]) = pos[i] + Taken(page, i)
        /\ LastOf(U, i) => AtLast(info) /\ buf[here].next = 0
        /\ ~LastOf(U, i) => ~AtLast(info) /\ \E j \in U : Neighbours(U, i, j) /\ here + buf[here].next = pos[j]
    BY <1>2, <1>4, <1>5, AtRecord
  <1>7. /\ U \subseteq Nat
        /\ \A m \in U : pos[m] \in 0..page.capacity /\ Taken(page, m) \in Nat /\ Taken(page, m) >= 7
        /\ \E f \in U : FirstOf(U, f) /\ pos[f] = 0
    BY <1>2, <1>4, ChainFacts
  <1>8. U' = U /\ Due' = Due /\ OnlyHiddenHere' = OnlyHiddenHere
    BY <1>1, SameCall
  <1>9. CASE LastOf(U, i)
    <2>1. here' = 0 /\ step' = "append" /\ info' = pos[i] + Taken(page, i)
      BY <1>1, <1>6, <1>9 DEF Onward
    <2>2. info' \in 0..page.capacity
      <3>1. pos[i] + Taken(page, i) <= info
        BY <1>4 DEF EndsBy
      <3> QED
        BY <1>4, <1>5, <1>7, <2>1, <3>1
    <2>3. EndsBy(page, U, pos, info')
      <3> SUFFICES ASSUME NEW m \in U PROVE pos[m] + Taken(page, m) <= info'
        BY DEF EndsBy
      <3>1. m \in Nat /\ i \in Nat /\ m <= i
        BY <1>4, <1>7, <1>9 DEF LastOf
      <3>2. CASE m = i
        BY <1>7, <2>1, <2>2, <3>2
      <3>3. CASE m # i
        <4>1. m < i
          BY <3>1, <3>3
        <4>2. pos[m] + Taken(page, m) <= pos[i]
          BY <1>4, <4>1 DEF IsChain
        <4>3. pos[m] \in Nat /\ Taken(page, m) \in Nat
          BY <1>7
        <4>4. pos[i] \in Nat /\ Taken(page, i) \in Nat
          BY <1>4, <1>7
        <4> QED
          BY <2>1, <4>2, <4>3, <4>4
      <3> QED
        BY <3>2, <3>3
    <2>4. Added' = {} /\ Listed' = U
      <3>1. Due \cap (page.before \cup OnPage(page)) = {}
        BY DEF Due
      <3>2. Added' = Due \cap (page.before \cup OnPage(page))
        BY <1>1, <1>4, <1>8 DEF Added
      <3>3. Added' = {}
        BY <3>1, <3>2
      <3> QED
        BY <1>8, <3>3 DEF Listed
    <2>5. \A m \in U : buf[pos[m]].cased <=> (m \in page.cased \cup Due)
      <3>1. \A m \in U : m \notin Due
        BY DEF Due, Unhidden
      <3> QED
        BY <1>4, <3>1
    <2>6. ~OnlyHiddenHere
      BY <1>4 DEF OnlyHiddenHere
    <2>7. Due \subseteq page.extras
      BY DEF Due
    <2>8. PICK f \in U : pos[f] = 0
      BY <1>7
    <2> HIDE DEF U
    <2>9. IsChain(page, buf, Listed, pos)'
      BY <1>1, <1>4, <2>4
    <2>10. EndsBy(page, Listed, pos, info)'
      BY <1>1, <2>3, <2>4
    <2>11. (\A m \in Listed : buf[pos[m]].cased <=> (m \in page.cased \cup Due))'
      BY <1>1, <1>8, <2>4, <2>5
    <2>12. /\ (Listed # {})' /\ (~OnlyHiddenHere)'
           /\ (page.before \cup OnPage(page) \subseteq delivered)'
           /\ (remaining \subseteq page.extras)' /\ (Due \subseteq delivered \cup remaining)'
           /\ (\A m \in Added, n \in remaining : m < n)'
      BY <1>1, <1>4, <1>8, <2>4, <2>6, <2>7
    <2>13. Extended(pos)'
      BY <2>9, <2>10, <2>11, <2>12 DEF Extended
    <2>14. Appending(pos)'
      BY <1>1, <1>4, <2>1, <2>4, <2>8, <2>13 DEF Appending
    <2>15. PageTypeOK'
      BY <1>1, <1>2, <1>5, <2>1, <2>2 DEF PageTypeOK
    <2> QED
      BY <1>1, <1>2, <2>1, <2>14, <2>15 DEF PagesInv
  <1>10. CASE ~LastOf(U, i)
    <2>1. PICK j \in U : Neighbours(U, i, j) /\ here + buf[here].next = pos[j]
      BY <1>6, <1>10
    <2>2. here' = pos[j] /\ step' = "live" /\ info' = info
      BY <1>1, <1>6, <1>10, <2>1 DEF Onward
    <2>3. Measuring(pos, j)'
      BY <1>1, <1>4, <1>8, <2>1, <2>2 DEF Measuring, ChainAt, NothingRead
    <2>4. PageTypeOK'
      BY <1>1, <1>2, <1>7, <2>1, <2>2 DEF PageTypeOK
    <2> QED
      BY <1>1, <1>2, <2>2, <2>3, <2>4 DEF PagesInv
  <1> QED
    BY <1>9, <1>10

-----------------------------------------------------------------------------
(* The loop over the overlay's names.                                      *)
LEMMA AppendFacts ==
    ASSUME PagesInv, step = "append"
    PROVE  /\ page \in Pages /\ buf \in [0..page.capacity -> Headers] /\ PageTypeOK
           /\ info \in 0..page.capacity /\ page.capacity \in Nat
           /\ \E pos : Appending(pos)
           /\ remaining \subseteq Nat /\ Due \cap page.hide = {}
  <1>1. page \in Pages /\ buf \in [0..page.capacity -> Headers] /\ PageTypeOK /\ info \in 0..page.capacity
    BY DEF PagesInv, PageTypeOK
  <1>2. PICK pos : Appending(pos)
    BY DEF PagesInv
  <1>3. remaining \subseteq page.extras
    BY <1>2 DEF Appending, Extended
  <1>4. remaining \subseteq Nat /\ page.capacity \in Nat
    BY <1>1, <1>3, CallFacts
  <1> QED
    BY <1>1, <1>2, <1>4 DEF Due

(* A name that the caller knows is consumed.                               *)
LEMMA SkipStep ==
    ASSUME PagesInv, NEW n, SkipExtra(n)
    PROVE  PagesInv'
  <1>1. /\ step = "append" /\ Known(n) /\ remaining' = remaining \ {n}
        /\ UNCHANGED <<page, buf, info, step, here, prev, end, delivered, seen>>
    BY DEF SkipExtra
  <1>2. /\ page \in Pages /\ buf \in [0..page.capacity -> Headers] /\ PageTypeOK /\ Due \cap page.hide = {}
    BY <1>1, AppendFacts
  <1>3. PICK pos : Appending(pos)
    BY <1>1, AppendFacts
  <1>4. /\ Unhidden' = Unhidden /\ Due' = Due /\ OnlyHiddenHere' = OnlyHiddenHere
        /\ Added' = Added /\ Listed' = Listed
    BY <1>1, SameCall DEF Added, Listed
  <1>5. Extended(pos)'
    <2>1. /\ IsChain(page, buf, Listed, pos) /\ EndsBy(page, Listed, pos, info)
          /\ \A m \in Listed : buf[pos[m]].cased <=> (m \in page.cased \cup Due)
          /\ Listed = {} => info = 0 /\ here = 0
          /\ ~OnlyHiddenHere
          /\ page.before \cup OnPage(page) \subseteq delivered
      BY <1>3 DEF Appending, Extended
    <2>2. /\ remaining' \subseteq page.extras /\ Due \subseteq delivered \cup remaining'
          /\ \A m \in Added, x \in remaining' : m < x
      <3>1. /\ remaining \subseteq page.extras /\ Due \subseteq delivered \cup remaining
            /\ \A m \in Added, x \in remaining : m < x
        BY <1>3 DEF Appending, Extended
      <3>2. n \in Due => n \in delivered
        BY <1>1, <1>2 DEF Known
      <3> QED
        BY <1>1, <3>1, <3>2
    <2> QED
      BY <1>1, <1>4, <2>1, <2>2 DEF Extended
  <1>6. Appending(pos)'
    BY <1>1, <1>3, <1>4, <1>5 DEF Appending
  <1>7. PageTypeOK'
    BY <1>1, <1>2 DEF PageTypeOK
  <1> QED
    BY <1>1, <1>2, <1>6, <1>7 DEF PagesInv

(* At the last record of the chain a name can be written behind it.        *)
LEMMA TailFacts ==
    ASSUME PagesInv, step = "append", NEW pos, Appending(pos)
    PROVE  /\ Listed = {} => NoTail /\ AtTail /\ info = 0
           /\ Listed # {} => \E i \in Listed :
                 /\ here = pos[i] /\ here \in 0..page.capacity /\ ~NoTail
                 /\ AtTail <=> LastOf(Listed, i)
                 /\ ~AtTail => \E j \in Listed : here + buf[here].next = pos[j]
  <1>1. /\ page \in Pages /\ buf \in [0..page.capacity -> Headers] /\ info \in Nat
    BY AppendFacts
  <1>2. /\ IsChain(page, buf, Listed, pos) /\ EndsBy(page, Listed, pos, info)
        /\ Listed = {} => info = 0 /\ here = 0
        /\ Listed # {} => \E i \in Listed : here = pos[i]
    BY DEF Appending, Extended
  <1>3. CASE Listed = {}
    BY <1>2, <1>3 DEF NoTail, AtTail
  <1>4. CASE Listed # {}
    <2>1. PICK i \in Listed : here = pos[i]
      BY <1>2, <1>4
    <2>2. pos[i] \in Nat /\ Taken(page, i) \in Nat /\ Taken(page, i) >= 7 /\ pos[i] + Taken(page, i) <= info
          /\ pos[i] \in 0..page.capacity
      BY <1>1, <1>2, ChainFacts DEF EndsBy
    <2>3. ~NoTail
      BY <1>1, <2>1, <2>2 DEF NoTail
    <2>4. LastOf(Listed, i) => AtTail
      BY <1>2 , <2>1 DEF AtTail, IsChain
    <2>5. ASSUME ~LastOf(Listed, i)
          PROVE  ~AtTail /\ \E j \in Listed : here + buf[here].next = pos[j]
      <3>1. /\ buf[here].next >= Extent(buf[here]) /\ buf[here].next <= info - here
            /\ \E j \in Listed : Neighbours(Listed, i, j) /\ here + buf[here].next = pos[j]
            /\ here + Extent(buf[here]) = pos[i] + Taken(page, i)
        BY <1>1, <1>2, <2>1, <2>5, AtRecord
      <3>2. buf[here].next \in Nat /\ Extent(buf[here]) \in Nat
        <4>1. buf[here] \in Headers
          BY <1>1, <2>1, <2>2
        <4> QED
          BY <4>1 DEF Headers, Extent, NameOff
      <3>3. buf[here].next # 0
        BY <2>1, <2>2, <3>1, <3>2
      <3>4. ~(buf[here].next > info - here)
        BY <1>1, <2>1, <2>2, <3>1, <3>2
      <3> QED
        BY <2>3, <3>1, <3>3, <3>4 DEF AtTail
    <2>6. AtTail <=> LastOf(Listed, i)
      BY <2>4, <2>5
    <2> QED
      BY <1>4, <2>1, <2>2, <2>3, <2>5, <2>6
  <1> QED
    BY <1>3, <1>4

(* append_overlay_entries goes on to the next record.                      *)
LEMMA SeekStep ==
    ASSUME PagesInv, NEW n, SeekTail(n)
    PROVE  PagesInv'
  <1>1. /\ step = "append" /\ ~AtTail /\ here' = here + buf[here].next
        /\ UNCHANGED <<page, buf, info, step, prev, end, delivered, remaining, seen>>
    BY DEF SeekTail
  <1>2. /\ page \in Pages /\ buf \in [0..page.capacity -> Headers] /\ PageTypeOK
    BY <1>1, AppendFacts
  <1>3. PICK pos : Appending(pos)
    BY <1>1, AppendFacts
  <1>4. Listed # {} /\ \E j \in Listed : here' = pos[j]
    BY <1>1, <1>3, TailFacts
  <1>5. /\ Unhidden' = Unhidden /\ Due' = Due /\ OnlyHiddenHere' = OnlyHiddenHere
        /\ Added' = Added /\ Listed' = Listed
    BY <1>1, SameCall DEF Added, Listed
  <1>6. Extended(pos)'
    BY <1>1, <1>3, <1>4, <1>5 DEF Extended, Appending
  <1>7. Appending(pos)'
    BY <1>1, <1>3, <1>4, <1>5, <1>6 DEF Appending
  <1>8. PageTypeOK'
    <2>1. here' \in 0..page.capacity
      <3>1. IsChain(page, buf, Listed, pos)
        BY <1>3 DEF Appending, Extended
      <3> QED
        BY <1>4, <3>1 DEF IsChain
    <2> QED
      BY <1>1, <1>2, <2>1 DEF PageTypeOK
  <1> QED
    BY <1>1, <1>2, <1>7, <1>8 DEF PagesInv

(* Buffer c is b with a record for n at a, which the last of L leads to.   *)
WrittenBehind(q, b, c, L, pos, n, a) ==
    /\ c[a].name = n /\ c[a].len = q.len[n] /\ c[a].next = 0
    /\ \A m \in L : /\ c[pos[m]].name = b[pos[m]].name /\ c[pos[m]].len = b[pos[m]].len
                    /\ LastOf(L, m) => c[pos[m]].next = a - pos[m]
                    /\ ~LastOf(L, m) => c[pos[m]].next = b[pos[m]].next

(* The offsets with that of the new name.                                  *)
Longer(L, pos, n, a) == [m \in L \cup {n} |-> IF m = n THEN a ELSE pos[m]]

(* A record written behind a chain makes it longer by one name.            *)
LEMMA ChainGrows ==
    ASSUME page \in Pages, info \in Nat, Aligned(info) \in 0..page.capacity,
           NEW pos, IsChain(page, buf, Listed, pos), EndsBy(page, Listed, pos, info),
           NEW n \in NamesOf(page), \A m \in Listed : m < n,
           WrittenBehind(page, buf, buf', Listed, pos, n, Aligned(info)),
           Listed = {} => info = 0
    PROVE  /\ IsChain(page, buf', Listed \cup {n}, Longer(Listed, pos, n, Aligned(info)))
           /\ Longer(Listed, pos, n, Aligned(info))[n] = Aligned(info)
           /\ \A m \in Listed : Longer(Listed, pos, n, Aligned(info))[m] = pos[m]
  <1> DEFINE b == buf
             c == buf'
             L == Listed
             lim == info
             a == Aligned(lim)
             M == L \cup {n}
             to == Longer(L, pos, n, a)
  <1>a. /\ IsChain(page, b, L, pos) /\ EndsBy(page, L, pos, lim) /\ lim \in Nat /\ (L = {} => lim = 0)
        /\ a \in 0..page.capacity /\ WrittenBehind(page, b, c, L, pos, n, a) /\ \A m \in L : m < n
    OBVIOUS
  <1> HIDE DEF b, c, L, lim
  <1>b. /\ c[a].name = n /\ c[a].len = page.len[n] /\ c[a].next = 0
        /\ \A m \in L : /\ c[pos[m]].name = b[pos[m]].name /\ c[pos[m]].len = b[pos[m]].len
                        /\ LastOf(L, m) => c[pos[m]].next = a - pos[m]
                        /\ ~LastOf(L, m) => c[pos[m]].next = b[pos[m]].next
    BY <1>a DEF WrittenBehind
  <1>1. /\ L \subseteq Nat /\ page.capacity \in Nat
        /\ \A i \in L : pos[i] \in 0..page.capacity /\ Taken(page, i) \in Nat /\ b[pos[i]].name = i
    BY <1>a, ChainFacts
  <1>2. /\ L \subseteq NamesOf(page) /\ NamesOf(page) \subseteq Nat /\ n \in Nat
        /\ \A i \in L : Aligned(pos[i]) = pos[i] /\ b[pos[i]].len = page.len[i]
        /\ \A i \in L : FirstOf(L, i) => pos[i] = 0
        /\ \A i, j \in L : i < j => pos[i] + Taken(page, i) <= pos[j]
        /\ \A i, j \in L : Neighbours(L, i, j) => b[pos[i]].next = pos[j] - pos[i]
    <2>1. NamesOf(page) \subseteq Nat
      BY CallFacts
    <2> QED
      BY <1>a, <2>1 DEF IsChain
  <1>3. \A m \in L : m \in Nat /\ m < n /\ m # n /\ ~(n < m) /\ ~(n <= m) /\ m <= n
    <2> TAKE m \in L
    <2>1. m \in Nat /\ m < n
      BY <1>a, <1>1
    <2> QED
      BY <1>2, <2>1
  <1>4. a \in Nat /\ lim <= a /\ Aligned(a) = a
    BY <1>a, Boundaries
  <1>5. \A i \in L : to[i] = pos[i] /\ pos[i] + Taken(page, i) <= a
    <2> TAKE i \in L
    <2>1. to[i] = pos[i]
      BY <1>3 DEF Longer
    <2>2. pos[i] \in Nat /\ Taken(page, i) \in Nat /\ pos[i] + Taken(page, i) <= lim
      BY <1>a, <1>1 DEF EndsBy
    <2> QED
      BY <1>4, <1>a, <2>1, <2>2
  <1>6. to[n] = a
    BY DEF Longer
  <1>7. to \in [M -> 0..page.capacity]
    BY <1>a, <1>1 DEF Longer
  <1> HIDE DEF to, a
  <1>8. \A i \in M : Aligned(to[i]) = to[i] /\ c[to[i]].name = i /\ c[to[i]].len = page.len[i]
    <2> TAKE i \in M
    <2>1. CASE i = n
      BY <1>b, <1>4, <1>6, <2>1
    <2>2. CASE i \in L
      BY <1>b, <1>1, <1>2, <1>5, <2>2
    <2> QED
      BY <2>1, <2>2
  <1>9. \A i \in M : FirstOf(M, i) => to[i] = 0
    <2> SUFFICES ASSUME NEW i \in M, FirstOf(M, i) PROVE to[i] = 0
      OBVIOUS
    <2>1. CASE i \in L
      <3>1. FirstOf(L, i)
        BY <2>1 DEF FirstOf
      <3> QED
        BY <1>2, <1>5, <2>1, <3>1
    <2>2. CASE i = n
      <3>1. L = {}
        BY <1>3, <2>2 DEF FirstOf
      <3>2. a = 0
        BY <1>a, <3>1 DEF Aligned, a
      <3> QED
        BY <1>6, <2>2, <3>2
    <2> QED
      BY <2>1, <2>2
  <1>10. \A i \in M : LastOf(M, i) => c[to[i]].next = 0
    <2> SUFFICES ASSUME NEW i \in M, LastOf(M, i) PROVE c[to[i]].next = 0
      OBVIOUS
    <2>1. i = n
      <3>1. n <= i
        BY DEF LastOf
      <3> QED
        BY <1>3, <3>1
    <2> QED
      BY <1>b, <1>6, <2>1
  <1>11. \A i, j \in M : Neighbours(M, i, j) => c[to[i]].next = to[j] - to[i]
    <2> SUFFICES ASSUME NEW i \in M, NEW j \in M, Neighbours(M, i, j) PROVE c[to[i]].next = to[j] - to[i]
      OBVIOUS
    <2>1. i < j /\ \A m \in M : m <= i \/ j <= m
      BY DEF Neighbours
    <2>2. i \in L
      <3>1. CASE i = n
        <4>1. ~(n < j)
          <5>1. CASE j = n
            BY <1>2, <5>1
          <5>2. CASE j \in L
            BY <1>3, <5>2
          <5> QED
            BY <5>1, <5>2
        <4> QED
          BY <2>1, <3>1, <4>1
      <3> QED
        BY <3>1
    <2>3. CASE j = n
      <3>1. LastOf(L, i)
        <4>1. \A m \in L : m <= i
          BY <1>3, <2>1, <2>3
        <4> QED
          BY <2>2, <4>1 DEF LastOf
      <3> QED
        BY <1>b, <1>5, <1>6, <2>2, <2>3, <3>1
    <2>4. CASE j \in L
      <3>1. Neighbours(L, i, j)
        BY <2>1, <2>2, <2>4 DEF Neighbours
      <3>2. ~LastOf(L, i)
        <4>1. i \in Nat /\ j \in Nat
          BY <1>1, <2>2, <2>4
        <4>2. ~(j <= i)
          BY <2>1, <4>1
        <4> QED
          BY <2>4, <4>2 DEF LastOf
      <3> QED
        BY <1>b, <1>2, <1>5, <2>2, <2>4, <3>1, <3>2
    <2> QED
      BY <2>3, <2>4
  <1>12. \A i, j \in M : i < j => to[i] + Taken(page, i) <= to[j]
    <2> SUFFICES ASSUME NEW i \in M, NEW j \in M, i < j PROVE to[i] + Taken(page, i) <= to[j]
      OBVIOUS
    <2>1. i \in L
      <3>1. CASE i = n
        <4>1. ~(n < j)
          <5>1. CASE j = n
            BY <1>2, <5>1
          <5>2. CASE j \in L
            BY <1>3, <5>2
          <5> QED
            BY <5>1, <5>2
        <4> QED
          BY <3>1, <4>1
      <3> QED
        BY <3>1
    <2>2. CASE j = n
      BY <1>5, <1>6, <2>1, <2>2
    <2>3. CASE j \in L
      BY <1>2, <1>5, <2>1, <2>3
    <2> QED
      BY <2>2, <2>3
  <1>13. M \subseteq NamesOf(page)
    BY <1>2
  <1> HIDE DEF M
  <1>14. IsChain(page, c, M, to)
    BY <1>7, <1>8, <1>9, <1>10, <1>11, <1>12, <1>13 DEF IsChain
  <1> QED
    BY <1>5, <1>6, <1>14 DEF M, to, a, b, c, L, lim

(* A name of the overlay that is due is written behind the chain.          *)
LEMMA AppendStep ==
    ASSUME PagesInv, NEW n, AppendExtra(n)
    PROVE  PagesInv'
  <1> DEFINE a == Aligned(info)
             rec == [RecordOf(page, n, 0) EXCEPT !.cased = TRUE]
             L == Listed
  <1>1. /\ step = "append" /\ NextExtra(n) /\ ~Known(n) /\ AtTail /\ Room(n)
        /\ buf' = [o \in DOMAIN buf |->
                      IF o = a THEN rec
                      ELSE IF o = here /\ ~NoTail THEN [buf[o] EXCEPT !.next = a - here]
                      ELSE buf[o]]
        /\ info' = a + Aligned(NameOff + page.len[n]) /\ here' = 0
        /\ remaining' = remaining \ {n} /\ delivered' = delivered \cup {n}
        /\ UNCHANGED <<page, step, prev, end, seen>>
    BY DEF AppendExtra
  <1>2. /\ page \in Pages /\ buf \in [0..page.capacity -> Headers] /\ PageTypeOK
        /\ info \in Nat /\ page.capacity \in Nat /\ remaining \subseteq Nat
    BY <1>1, AppendFacts
  <1>3. PICK pos : Appending(pos)
    BY <1>1, AppendFacts
  <1>4. /\ IsChain(page, buf, L, pos) /\ EndsBy(page, L, pos, info)
        /\ L = {} => info = 0
        /\ ~OnlyHiddenHere /\ page.before \cup OnPage(page) \subseteq delivered
        /\ remaining \subseteq page.extras /\ Due \subseteq delivered \cup remaining
        /\ seen = {}
    BY <1>3 DEF Appending, Extended
  <1>5. /\ \A m \in L : buf[pos[m]].cased <=> (m \in page.cased \cup Due)
        /\ \A m \in Added, x \in remaining : m < x
    BY <1>3 DEF Appending, Extended
  <1>6. /\ n \in remaining /\ \A x \in remaining : n <= x
        /\ n \notin delivered /\ n \notin page.hide
    BY <1>1 DEF NextExtra, Known
  <1>7. n \in Due /\ n \in NamesOf(page) /\ n \notin OnPage(page) /\ n \in Nat
    BY <1>2, <1>4, <1>6, CallFacts DEF Due
  <1>8. \A m \in L : m < n
    <2> SUFFICES ASSUME NEW m \in L PROVE m < n
      OBVIOUS
    <2>1. CASE m \in Unhidden
      <3>1. m \in OnPage(page)
        BY <2>1 DEF Unhidden
      <3> QED
        BY <1>2, <1>7, <3>1, CallFacts
    <2>2. CASE m \in Added
      BY <1>5, <1>6, <2>2
    <2> QED
      BY <2>1, <2>2 DEF Listed
  <1>9. page.len[n] \in Nat \ {0} /\ Taken(page, n) \in Nat /\ Taken(page, n) = NameOff + page.len[n]
    BY <1>2, <1>7, CallFacts DEF Taken
  <1>10. a \in Nat /\ info <= a /\ Aligned(Taken(page, n)) \in Nat /\ Taken(page, n) <= Aligned(Taken(page, n))
    BY <1>2, <1>9, Boundaries
  <1>11. info' = a + Aligned(Taken(page, n)) /\ info' \in 0..page.capacity /\ a \in 0..page.capacity
    <2>1. a + Aligned(Taken(page, n)) <= page.capacity
      BY <1>1, <1>9 DEF Room
    <2> QED
      BY <1>1, <1>2, <1>9, <1>10, <2>1
  <1>12. /\ \A i \in L : /\ pos[i] \in 0..page.capacity /\ Taken(page, i) \in Nat /\ Taken(page, i) >= 7
                         /\ pos[i] + Taken(page, i) <= info /\ pos[i] # a
         /\ \A i, j \in L : i # j => pos[i] # pos[j]
         /\ L \subseteq Nat
    <2>1. /\ \A i \in L : pos[i] \in 0..page.capacity /\ Taken(page, i) \in Nat /\ Taken(page, i) >= 7
          /\ \A i, j \in L : i # j => pos[i] # pos[j]
          /\ L \subseteq Nat
      BY <1>2, <1>4, ChainFacts
    <2>2. \A i \in L : pos[i] + Taken(page, i) <= info
      BY <1>4 DEF EndsBy
    <2>3. \A i \in L : pos[i] # a
      BY <1>2, <1>10, <2>1, <2>2
    <2> QED
      BY <2>1, <2>2, <2>3
  <1>13. L = {} => NoTail /\ info = 0
    BY <1>1, <1>3, TailFacts
  <1>14. L # {} => ~NoTail /\ \E i \in L : here = pos[i] /\ LastOf(L, i)
    BY <1>1, <1>3, TailFacts
  <1> HIDE DEF a, L
  <1>15. rec.next = 0 /\ rec.len = page.len[n] /\ rec.name = n /\ rec.cased /\ rec \in Headers
    BY <1>7, <1>9 DEF RecordOf, Headers
  <1> HIDE DEF rec
  <1>16. \A m \in L : buf'[pos[m]] = IF LastOf(L, m) THEN [buf[pos[m]] EXCEPT !.next = a - pos[m]]
                                    ELSE buf[pos[m]]
    <2> SUFFICES ASSUME NEW m \in L
                 PROVE  buf'[pos[m]] = IF LastOf(L, m) THEN [buf[pos[m]] EXCEPT !.next = a - pos[m]]
                                       ELSE buf[pos[m]]
      OBVIOUS
    <2>1. PICK i \in L : here = pos[i] /\ LastOf(L, i) /\ ~NoTail
      BY <1>14
    <2>2. pos[m] \in DOMAIN buf /\ pos[m] # a
      BY <1>2, <1>12
    <2>3. m = i <=> LastOf(L, m)
      <3>1. m \in Nat /\ i \in Nat
        BY <1>12
      <3>2. LastOf(L, m) => m <= i /\ i <= m
        BY <2>1 DEF LastOf
      <3> QED
        BY <2>1, <3>1, <3>2
    <2>4. m # i => pos[m] # here
      BY <1>12, <2>1
    <2> QED
      BY <1>1, <2>1, <2>2, <2>3, <2>4
  <1>17. \A m \in L : /\ buf'[pos[m]].name = buf[pos[m]].name /\ buf'[pos[m]].len = buf[pos[m]].len
                      /\ LastOf(L, m) => buf'[pos[m]].next = a - pos[m]
                      /\ ~LastOf(L, m) => buf'[pos[m]].next = buf[pos[m]].next
                      /\ buf'[pos[m]].cased <=> buf[pos[m]].cased
    <2> TAKE m \in L
    <2>1. buf[pos[m]] \in Headers
      BY <1>2, <1>12
    <2>2. CASE LastOf(L, m)
      <3>1. buf'[pos[m]] = [buf[pos[m]] EXCEPT !.next = a - pos[m]]
        BY <1>16, <2>2
      <3> QED
        BY <2>1, <2>2, <3>1 DEF Headers
    <2>3. CASE ~LastOf(L, m)
      <3>1. buf'[pos[m]] = buf[pos[m]]
        BY <1>16, <2>3
      <3> QED
        BY <2>3, <3>1
    <2> QED
      BY <2>2, <2>3
  <1>18. buf'[a] = rec
    BY <1>1, <1>2, <1>11
  <1>19. buf' \in [0..page.capacity -> Headers]
    <2>1. ASSUME NEW o \in 0..page.capacity, o = here, ~NoTail
          PROVE  [buf[o] EXCEPT !.next = a - here] \in Headers
      <3>1. PICK i \in L : here = pos[i]
        BY <1>13, <1>14, <2>1
      <3>2. pos[i] + Taken(page, i) <= info /\ pos[i] \in Nat /\ Taken(page, i) \in Nat
        BY <1>12
      <3>3. a - here \in Nat
        BY <1>2, <1>10, <3>1, <3>2
      <3>4. buf[o] \in Headers
        BY <1>2
      <3> QED
        BY <3>3, <3>4 DEF Headers
    <2>2. \A o \in 0..page.capacity : buf[o] \in Headers
      BY <1>2
    <2> QED
      BY <1>1, <1>2, <1>15, <2>1, <2>2
  <1>20. PICK to : /\ IsChain(page, buf', L \cup {n}, to) /\ to[n] = a
                   /\ \A m \in L : to[m] = pos[m]
    <2>1. buf'[a].name = n /\ buf'[a].len = page.len[n] /\ buf'[a].next = 0
      BY <1>15, <1>18
    <2>2. WrittenBehind(page, buf, buf', L, pos, n, a)
      BY <1>17, <2>1 DEF WrittenBehind
    <2>4. page \in Pages /\ IsChain(page, buf, L, pos) /\ n \in NamesOf(page)
      BY <1>2, <1>4, <1>7
    <2>5. info \in Nat /\ EndsBy(page, L, pos, info) /\ (L = {} => info = 0) /\ a \in 0..page.capacity
      BY <1>2, <1>4, <1>11
    <2>6. /\ IsChain(page, buf', Listed \cup {n}, Longer(Listed, pos, n, Aligned(info)))
          /\ Longer(Listed, pos, n, Aligned(info))[n] = Aligned(info)
          /\ \A m \in Listed : Longer(Listed, pos, n, Aligned(info))[m] = pos[m]
      BY <1>8, <2>2, <2>4, <2>5, ChainGrows DEF a, L
    <2> QED
      BY <2>6 DEF a, L
  <1>21. Listed' = L \cup {n} /\ Added' = Added \cup {n} /\ Due' = Due /\ OnlyHiddenHere' = OnlyHiddenHere
    <2>1. Unhidden' = Unhidden /\ Due' = Due /\ OnlyHiddenHere' = OnlyHiddenHere
      BY <1>1, SameCall
    <2>2. Added' = Added \cup {n}
      BY <1>1, <1>7, <2>1 DEF Added
    <2> QED
      BY <2>1, <2>2 DEF Listed, L
  <1>22. (\A m \in Listed : buf[to[m]].cased <=> (m \in page.cased \cup Due))'
    <2> SUFFICES ASSUME NEW m \in L \cup {n}
                 PROVE  buf'[to[m]].cased <=> (m \in page.cased \cup Due)
      BY <1>1, <1>21
    <2>1. CASE m \in L
      <3>1. to[m] = pos[m] /\ (buf[pos[m]].cased <=> (m \in page.cased \cup Due))
        BY <1>5, <1>20, <2>1 DEF L
      <3>2. buf'[pos[m]].cased <=> buf[pos[m]].cased
        BY <1>17, <2>1
      <3> QED
        BY <3>1, <3>2
    <2>2. CASE m = n
      <3>1. buf'[to[m]] = rec
        BY <1>18, <1>20, <2>2
      <3>2. buf'[to[m]].cased
        BY <1>15, <3>1
      <3>3. m \in page.cased \cup Due
        BY <1>7, <2>2
      <3> QED
        BY <3>2, <3>3
    <2> QED
      BY <2>1, <2>2
  <1>23. EndsBy(page, L \cup {n}, to, info')
    <2> SUFFICES ASSUME NEW m \in L \cup {n} PROVE to[m] + Taken(page, m) <= info'
      BY DEF EndsBy
    <2>1. CASE m \in L
      <3>1. pos[m] \in Nat /\ Taken(page, m) \in Nat /\ pos[m] + Taken(page, m) <= info /\ to[m] = pos[m]
        BY <1>12, <1>20, <2>1
      <3> QED
        BY <1>2, <1>10, <1>11, <3>1
    <2>2. CASE m = n
      BY <1>9, <1>10, <1>11, <1>20, <2>2
    <2> QED
      BY <2>1, <2>2
  <1>24. Extended(to)'
    <2>1. IsChain(page, buf, Listed, to)' /\ EndsBy(page, Listed, to, info)'
      BY <1>1, <1>20, <1>21, <1>23
    <2>2. /\ (Listed # {})' /\ (~OnlyHiddenHere)'
          /\ (page.before \cup OnPage(page) \subseteq delivered)'
          /\ (remaining \subseteq page.extras)' /\ (Due \subseteq delivered \cup remaining)'
      BY <1>1, <1>4, <1>21
    <2>3. (\A m \in Added, x \in remaining : m < x)'
      <3> SUFFICES ASSUME NEW m \in Added \cup {n}, NEW x \in remaining \ {n} PROVE m < x
        BY <1>1, <1>21
      <3>1. CASE m \in Added
        BY <1>5, <3>1
      <3>2. CASE m = n
        <4>1. n <= x /\ x # n /\ n \in Nat /\ x \in Nat
          BY <1>2, <1>6, <1>7
        <4> QED
          BY <3>2, <4>1
      <3> QED
        BY <3>1, <3>2
    <2> QED
      BY <1>22, <2>1, <2>2, <2>3 DEF Extended
  <1>25. Appending(to)'
    <2>1. \E i \in L \cup {n} : here' = to[i]
      <3>1. \E i \in L \cup {n} : FirstOf(L \cup {n}, i) /\ to[i] = 0
        BY <1>2, <1>20, ChainFacts
      <3> QED
        BY <1>1, <3>1
    <2> QED
      BY <1>1, <1>4, <1>21, <1>24, <2>1 DEF Appending
  <1>26. PageTypeOK'
    BY <1>1, <1>2, <1>11 DEF PageTypeOK
  <1> QED
    BY <1>1, <1>2, <1>19, <1>25, <1>26 DEF PagesInv

(* What is left over does not fit any more: the page is handed over.       *)
LEMMA EndStep ==
    ASSUME PagesInv, EndOfPage
    PROVE  PagesInv'
  <1>1. /\ step = "append" /\ here' = 0 /\ step' = "walk"
        /\ \A n \in remaining : NextExtra(n) => ~Known(n) /\ AtTail /\ ~Room(n)
        /\ UNCHANGED <<page, buf, info, prev, end, delivered, remaining, seen>>
    BY DEF EndOfPage
  <1>2. page \in Pages /\ buf \in [0..page.capacity -> Headers] /\ PageTypeOK /\ page.capacity \in Nat
    BY <1>1, AppendFacts
  <1>3. PICK pos : Appending(pos)
    BY <1>1, AppendFacts
  <1>4. /\ Unhidden' = Unhidden /\ Due' = Due /\ OnlyHiddenHere' = OnlyHiddenHere
        /\ Added' = Added /\ Listed' = Listed
    BY <1>1, SameCall DEF Added, Listed
  <1>5. Extended(pos)'
    BY <1>1, <1>3, <1>4 DEF Extended, Appending
  <1>6. Full'
    BY <1>1 DEF Full, NextExtra, Known, Room
  <1>7. Reading(pos)'
    <2>1. seen' = {}
      BY <1>1, <1>3 DEF Appending
    <2>2. ASSUME Listed # {}
          PROVE  \E i \in Listed : here' = pos[i] /\ seen' = {m \in Listed : m < i}
      <3>1. IsChain(page, buf, Listed, pos)
        BY <1>3 DEF Appending, Extended
      <3>2. Listed \subseteq Nat
        BY <1>2, <3>1, ChainFacts
      <3>3. PICK i \in Listed : FirstOf(Listed, i) /\ pos[i] = 0
        BY <1>2, <2>2, <3>1, ChainFacts
      <3>4. \A m \in Listed : m \in Nat /\ i \in Nat /\ i <= m
        BY <3>2, <3>3 DEF FirstOf
      <3>5. \A m \in Listed : ~(m < i)
        BY <3>4
      <3>6. {m \in Listed : m < i} = {}
        BY <3>5
      <3> QED
        BY <1>1, <2>1, <3>3, <3>6
    <2> QED
      BY <1>4, <1>5, <1>6, <2>1, <2>2 DEF Reading
  <1>8. PageTypeOK'
    BY <1>1, <1>2 DEF PageTypeOK
  <1> QED
    BY <1>1, <1>2, <1>7, <1>8 DEF PagesInv

(* The caller goes from name to name.                                      *)
LEMMA ReadStep ==
    ASSUME PagesInv, CallerReads
    PROVE  PagesInv'
  <1>1. /\ step = "walk" /\ Onward(info, "done")
        /\ seen' = seen \cup (IF HeaderFits(info) THEN {buf[here].name} ELSE {})
        /\ UNCHANGED <<page, buf, info, prev, end, delivered, remaining>>
    BY DEF CallerReads
  <1>2. /\ page \in Pages /\ buf \in [0..page.capacity -> Headers] /\ PageTypeOK
        /\ info \in Nat /\ page.capacity \in Nat
    BY CallFacts DEF PagesInv, PageTypeOK
  <1>3. /\ Unhidden' = Unhidden /\ Due' = Due /\ OnlyHiddenHere' = OnlyHiddenHere
        /\ Added' = Added /\ Listed' = Listed
    BY <1>1, SameCall DEF Added, Listed
  <1>4. ASSUME info = 0, here = 0 PROVE here' = 0 /\ step' = "done" /\ seen' = seen /\ PageTypeOK'
    <2>1. ~HeaderFits(info) /\ AtLast(info)
      BY <1>4 DEF HeaderFits, AtLast
    <2>2. here' = 0 /\ step' = "done" /\ seen' = seen
      BY <1>1, <2>1 DEF Onward
    <2> QED
      BY <1>1, <1>2, <2>2 DEF PageTypeOK
  <1>5. Full => Full'
    BY <1>1 DEF Full, NextExtra, Known, Room
  <1>6. CASE Emptied
    <2>1. OnlyHiddenHere' /\ NothingRead' /\ step' = "done" /\ PageTypeOK'
      BY <1>1, <1>3, <1>4, <1>6 DEF Emptied, NothingRead
    <2> QED
      BY <1>1, <1>2, <2>1 DEF PagesInv
  <1>7. ASSUME NEW pos, Reading(pos)
        PROVE  PagesInv'
    <2>1. /\ IsChain(page, buf, Listed, pos) /\ EndsBy(page, Listed, pos, info) /\ Extended(pos) /\ Full
          /\ Listed = {} => info = 0 /\ here = 0 /\ seen = {}
      BY <1>7 DEF Reading, Extended
    <2>2. ASSUME Listed = {} => here' = 0 PROVE Extended(pos)'
      BY <1>1, <1>3, <2>1, <2>2 DEF Extended
    <2>3. CASE Listed = {}
      <3>1. step' = "done" /\ here' = 0 /\ seen' = {} /\ PageTypeOK'
        BY <1>4, <2>1, <2>3
      <3>2. WasRead(pos)'
        BY <1>3, <1>5, <2>1, <2>2, <2>3, <3>1 DEF WasRead
      <3> QED
        BY <1>1, <1>2, <3>1, <3>2 DEF PagesInv
    <2>4. CASE Listed # {}
      <3>1. PICK i \in Listed : here = pos[i] /\ seen = {m \in Listed : m < i}
        BY <1>7, <2>4 DEF Reading
      <3>2. /\ HeaderFits(info) /\ buf[here].name = i
            /\ LastOf(Listed, i) => AtLast(info)
            /\ ~LastOf(Listed, i) => /\ ~AtLast(info)
                                     /\ \E j \in Listed : Neighbours(Listed, i, j) /\ here + buf[here].next = pos[j]
        BY <1>2, <2>1, <3>1, AtRecord
      <3>3. seen' = {m \in Listed : m < i} \cup {i}
        BY <1>1, <3>1, <3>2
      <3>4. Listed \subseteq Nat /\ \A m \in Listed : pos[m] \in 0..page.capacity
        BY <1>2, <2>1, ChainFacts
      <3>5. CASE LastOf(Listed, i)
        <4>1. here' = 0 /\ step' = "done"
          BY <1>1, <3>2, <3>5 DEF Onward
        <4>2. seen' = Listed
          <5>1. \A m \in Listed : m \in Nat /\ i \in Nat /\ m <= i
            BY <3>4, <3>5 DEF LastOf
          <5>2. \A m \in Listed : m < i \/ m = i
            BY <5>1
          <5> QED
            BY <3>3, <5>2
        <4>3. WasRead(pos)'
          BY <1>3, <1>5, <2>1, <2>2, <2>4, <4>2 DEF WasRead
        <4>4. PageTypeOK'
          BY <1>1, <1>2, <4>1 DEF PageTypeOK
        <4> QED
          BY <1>1, <1>2, <4>1, <4>3, <4>4 DEF PagesInv
      <3>6. CASE ~LastOf(Listed, i)
        <4>1. PICK j \in Listed : Neighbours(Listed, i, j) /\ here + buf[here].next = pos[j]
          BY <3>2, <3>6
        <4>2. here' = pos[j] /\ step' = "walk"
          BY <1>1, <3>2, <3>6, <4>1 DEF Onward
        <4>3. seen' = {m \in Listed : m < j}
          <5>1. \A m \in Listed : m \in Nat /\ i \in Nat /\ j \in Nat /\ i < j /\ (m <= i \/ j <= m)
            BY <3>4, <4>1 DEF Neighbours
          <5>2. \A m \in Listed : m < j <=> (m < i \/ m = i)
            BY <5>1
          <5> QED
            BY <3>3, <5>2
        <4>4. Reading(pos)'
          BY <1>3, <1>5, <2>1, <2>2, <2>4, <4>1, <4>2, <4>3 DEF Reading
        <4>5. PageTypeOK'
          BY <1>1, <1>2, <3>4, <4>2 DEF PageTypeOK
        <4> QED
          BY <1>1, <1>2, <4>2, <4>4, <4>5 DEF PagesInv
      <3> QED
        BY <3>5, <3>6
    <2> QED
      BY <2>3, <2>4
  <1> QED
    BY <1>1, <1>6, <1>7 DEF PagesInv

(* Every step of the hook and of the caller keeps it.                      *)
LEMMA PagesInvariant == PageSpec => []PagesInv
  <1>1. PagesInv /\ [PageNext]_pageVars => PagesInv'
    <2> SUFFICES ASSUME PagesInv, [PageNext]_pageVars PROVE PagesInv'
      OBVIOUS
    <2>1. CASE collect_present_names_lower
      BY <2>1, CollectStep
    <2>2. CASE Keep
      BY <2>2, KeepStep
    <2>3. CASE StepOver
      BY <2>3, StepOverStep
    <2>4. CASE ShiftLeft
      BY <2>4, ShiftStep
    <2>5. CASE OnlyHidden
      BY <2>5, OnlyHiddenStep
    <2>6. CASE rewrite_entry_case
      BY <2>6, RewriteStep
    <2>7. CASE buffer_live_size
      BY <2>7, MeasureStep
    <2>8. ASSUME NEW n \in remaining, SkipExtra(n) \/ SeekTail(n) \/ AppendExtra(n) PROVE PagesInv'
      BY <2>8, SkipStep, SeekStep, AppendStep
    <2>9. CASE EndOfPage
      BY <2>9, EndStep
    <2>10. CASE CallerReads
      BY <2>10, ReadStep
    <2>11. CASE UNCHANGED pageVars
      <3>1. /\ page' = page /\ buf' = buf /\ info' = info /\ step' = step /\ here' = here /\ prev' = prev
            /\ end' = end /\ delivered' = delivered /\ remaining' = remaining /\ seen' = seen
        BY <2>11 DEF pageVars
      <3>2. /\ Unhidden' = Unhidden /\ Due' = Due /\ OnlyHiddenHere' = OnlyHiddenHere
            /\ Added' = Added /\ Listed' = Listed
        BY <3>1, SameCall DEF Added, Listed
      <3>3. NothingRead => NothingRead'
        BY <3>1 DEF NothingRead
      <3>4. Full => Full'
        BY <3>1 DEF Full, NextExtra, Known, Room
      <3>5. ASSUME NEW pos, Extended(pos) PROVE Extended(pos)'
        BY <3>1, <3>2, <3>5 DEF Extended
      <3>6. ASSUME step = "collect" PROVE PagesInv'
        BY <3>1, <3>3, <3>6 DEF PagesInv, PageTypeOK, Collecting
      <3>7. ASSUME step = "filter" PROVE PagesInv'
        BY <3>1, <3>2, <3>3, <3>7 DEF PagesInv, PageTypeOK, Filtering, Below
      <3>8. ASSUME step = "case" PROVE PagesInv'
        BY <3>1, <3>2, <3>3, <3>8 DEF PagesInv, PageTypeOK, Rewriting, ChainAt
      <3>9. ASSUME step = "live" PROVE PagesInv'
        BY <3>1, <3>2, <3>3, <3>9 DEF PagesInv, PageTypeOK, Measuring, ChainAt
      <3>10. ASSUME step = "append" PROVE PagesInv'
        BY <3>1, <3>2, <3>5, <3>10 DEF PagesInv, PageTypeOK, Appending
      <3>11. ASSUME step = "walk" PROVE PagesInv'
        BY <3>1, <3>2, <3>3, <3>4, <3>5, <3>11 DEF PagesInv, PageTypeOK, Reading, Emptied
      <3>12. ASSUME step = "done" PROVE PagesInv'
        BY <3>1, <3>2, <3>3, <3>4, <3>5, <3>12 DEF PagesInv, PageTypeOK, WasRead
      <3> QED
        BY <3>6, <3>7, <3>8, <3>9, <3>10, <3>11, <3>12 DEF PagesInv, PageTypeOK
    <2> QED
      BY <2>1, <2>2, <2>3, <2>4, <2>5, <2>6, <2>7, <2>8, <2>9, <2>10, <2>11 DEF PageNext
  <1> QED
    BY <1>1, PageStarts, PTL DEF PageSpec

(* Whatever is hidden of a page, the caller walks in order over every other*)
(* name of it and the names of the overlay that fit, and no further        *)
(* (ChainShowsVisible).                                                    *)
THEOREM PagesShowVisible == PageSpec => []ChainShowsVisible
  <1>1. PagesInv => ReadsInOrder
    <2> SUFFICES ASSUME PagesInv, step = "walk", info > 0 PROVE ReadsInOrder
      BY DEF ReadsInOrder
    <2>1. /\ page \in Pages /\ buf \in [0..page.capacity -> Headers] /\ info \in Nat
      BY CallFacts DEF PagesInv, PageTypeOK
    <2>2. PICK pos : Reading(pos)
      BY DEF PagesInv, Emptied
    <2>3. /\ IsChain(page, buf, Listed, pos) /\ EndsBy(page, Listed, pos, info)
          /\ \A m \in Listed : buf[pos[m]].cased <=> (m \in page.cased \cup Due)
          /\ Due \subseteq delivered \cup remaining
          /\ \A m \in Added, n \in remaining : m < n
          /\ Listed # {}
      BY <2>2 DEF Reading, Extended
    <2>4. PICK i \in Listed : here = pos[i] /\ seen = {m \in Listed : m < i}
      BY <2>2, <2>3 DEF Reading
    <2>5. /\ buf[here].name = i /\ here + Extent(buf[here]) = pos[i] + Taken(page, i)
          /\ LastOf(Listed, i) => buf[here].next = 0
          /\ ~LastOf(Listed, i) => buf[here].next >= Extent(buf[here])
      BY <2>1, <2>3, <2>4, AtRecord
    <2>6. here = Aligned(here) /\ here + Extent(buf[here]) <= info
      BY <2>3, <2>4, <2>5 DEF IsChain, EndsBy
    <2>7. buf[here].next = 0 \/ Extent(buf[here]) <= buf[here].next
      <3>1. CASE LastOf(Listed, i)
        BY <2>5, <3>1
      <3>2. CASE ~LastOf(Listed, i)
        <4>1. buf[here] \in Headers
          BY <2>1, <2>3, <2>4 DEF IsChain
        <4>2. buf[here].next \in Nat /\ Extent(buf[here]) \in Nat
          BY <4>1 DEF Headers, Extent, NameOff
        <4> QED
          BY <2>5, <3>2, <4>2
      <3> QED
        BY <3>1, <3>2
    <2>8. i \in Unhidden \cup Due
      BY DEF Listed, Added
    <2>9. seen = {m \in Unhidden \cup Due : m < i}
      <3>1. ASSUME NEW m \in Due, m < i PROVE m \in Listed
        <4>1. CASE m \in delivered
          BY <4>1 DEF Listed, Added
        <4>2. CASE m \in remaining
          <5>1. m \in Nat /\ i \in Nat /\ m \notin OnPage(page) /\ m \in NamesOf(page)
            <6>1. Listed \subseteq Nat
              BY <2>1, <2>3, ChainFacts
            <6>2. m \in page.extras /\ m \notin OnPage(page)
              BY DEF Due
            <6> QED
              BY <2>1, <6>1, <6>2, CallFacts
          <5>2. i < m
            <6>1. CASE i \in Unhidden
              <7>1. i \in OnPage(page)
                BY <6>1 DEF Unhidden
              <7> QED
                BY <2>1, <5>1, <7>1, CallFacts
            <6>2. CASE i \in Added
              BY <2>3, <4>2, <6>2
            <6> QED
              BY <6>1, <6>2 DEF Listed
          <5> QED
            BY <3>1, <5>1, <5>2
        <4> QED
          BY <2>3, <4>1, <4>2
      <3>2. Listed \subseteq Unhidden \cup Due /\ Unhidden \subseteq Listed
        BY DEF Listed, Added
      <3> QED
        BY <2>4, <3>1, <3>2
    <2>10. buf[here].cased <=> i \in page.cased \cup Due
      BY <2>3, <2>4
    <2> QED
      BY <2>5, <2>6, <2>7, <2>8, <2>9, <2>10 DEF ReadsInOrder
  <1>2. PagesInv => ReadsAll
    <2> SUFFICES ASSUME PagesInv, step = "done" PROVE ReadsAll
      BY DEF ReadsAll
    <2>1. page \in Pages
      BY DEF PagesInv
    <2>2. CASE OnlyHiddenHere /\ NothingRead
      <3>1. Unhidden = {} /\ seen = {} /\ remaining = page.extras
        BY <2>2 DEF OnlyHiddenHere, NothingRead
      <3>2. Due \subseteq page.extras
        BY DEF Due
      <3> QED
        BY <2>2, <3>1, <3>2 DEF ReadsAll
    <2>3. ASSUME NEW pos, WasRead(pos) PROVE ReadsAll
      <3>1. /\ seen = Listed /\ Full /\ ~OnlyHiddenHere
            /\ remaining \subseteq page.extras /\ Due \subseteq delivered \cup remaining
        BY <2>3 DEF WasRead, Extended
      <3>2. Unhidden \subseteq seen /\ seen \subseteq Unhidden \cup Due
        BY <3>1 DEF Listed, Added
      <3>3. Due \ seen \subseteq remaining
        BY <3>1 DEF Listed, Added
      <3>4. ASSUME NEW m \in Due \ seen
            PROVE  \E n \in Due \ seen : n <= m /\ ~Room(n)
        <4>1. remaining \subseteq Nat /\ remaining # {} /\ m \in remaining
          BY <2>1, <3>1, <3>3, CallFacts
        <4>2. PICK n \in remaining : FirstOf(remaining, n)
          BY <4>1, LeastOf
        <4>3. ~Known(n) /\ ~Room(n)
          BY <3>1, <4>2 DEF Full, NextExtra, FirstOf
        <4>4. n \in Due /\ n \notin seen
          <5>1. page.before \cup OnPage(page) \subseteq delivered
            BY <2>3 DEF WasRead, Extended
          <5>2. n \in page.extras /\ n \notin delivered /\ n \notin page.hide
            BY <3>1, <4>3 DEF Known
          <5> QED
            BY <3>1, <5>1, <5>2 DEF Due, Listed, Added, Unhidden
        <4> QED
          BY <4>1, <4>2, <4>3, <4>4 DEF FirstOf
      <3> QED
        BY <3>1, <3>2, <3>3, <3>4 DEF ReadsAll
    <2> QED
      BY <2>2, <2>3 DEF PagesInv
  <1> QED
    BY <1>1, <1>2, PagesInvariant, PTL DEF ChainShowsVisible

(* The loops keep to the buffer and to the data in it.                     *)
THEOREM PagesTypeOK == PageSpec => []PageTypeOK
  <1>1. PagesInv => PageTypeOK
    BY DEF PagesInv
  <1> QED
    BY <1>1, PagesInvariant, PTL
=============================================================================
