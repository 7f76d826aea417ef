------------------------------ MODULE Registry ------------------------------
(***************************************************************************)
(* The registry: the guest's hooks (winrsbox-hook/src/system/reg_hooks/),  *)
(* the broker's answer to RegDecide, RegWrite and RegDelete...             *)
(* (pipe_server/records.rs), and the copy-on-write store under workreg/    *)
(* (winrsbox-policy/src/registry/).                                        *)
(*                                                                         *)
(* Only the writing calls of a guest are hooked; each asks the broker for  *)
(* the mode of the key or value.  The store is a map in memory, changed    *)
(* under one mutex and flushed key by key through a temporary file; a new  *)
(* broker loads it from the disk.  Rules and mocks stand still here: the   *)
(* snapshot, its cache and their refresh are PolicyStore's.                *)
(***************************************************************************)
EXTENDS Naturals, FiniteSets

CONSTANTS
    Key,         \* registry keys, in friendly form
    Name,        \* value names
    Caller,      \* guest threads
    NoKey, NoName, NoCaller,
    Raw,         \* what guests pass to NtSetValueKey: kinds of (type, bytes)
    Persistence, \* the keys is_persistence_denied matches
    Environment, \* those of them that end in \environment
    EnvNames,    \* the names on ENV_VALUE_NAME_ALLOWLIST
    friendly_to_overlay, \* the key whose friendly form spells the directory of a key
    MaxCalls     \* bound: hooked calls in a behaviour

ASSUME RegistryConstants ==
    /\ NoKey \notin Key /\ NoName \notin Name /\ NoCaller \notin Caller
    /\ Environment \subseteq Persistence
    /\ Persistence \subseteq Key
    /\ EnvNames \subseteq Name
    /\ friendly_to_overlay \in [Key -> Key]
    /\ \A k \in Key : friendly_to_overlay[friendly_to_overlay[k]] = friendly_to_overlay[k]
    /\ Raw \subseteq {"dword", "short_dword", "string", "binary"}
    /\ MaxCalls \in Nat

VARIABLES
    hive,      \* the host's registry: hive[k] is whether key k is there, and its value names
    regRules,  \* regRules[k]: the write mode of the best matching rule
    mocks,     \* mocked <<key, name>>s
    values,    \* RegOverlay.values in memory
    deleted,   \* RegOverlay.deleted_keys in memory
    workreg,   \* values.json and _deleted of every directory, on disk, by the key it spells
    owner,     \* the caller whose request holds the overlay mutex
    regUp,     \* the broker: "up", "down", or "failed" to load the overlay
    call,      \* call[t]: the hooked call thread t is in
    calls,     \* number of calls so far
    meant,     \* meant[k][n]: history, what the overlay may hold of a value
    mixed,     \* history: the directories whose values.json another key was flushed to
    reloaded   \* history: a broker has loaded the overlay from the disk

regHistory == <<mixed, reloaded>>
regVars == <<hive, regRules, mocks, values, deleted, workreg, owner, regUp, call, calls, meant,
             regHistory>>

Absent == [typ |-> "none", data |-> "none"]
Deleted == [typ |-> "DELETED", data |-> "none"]

(***************************************************************************)
(* The codec.  reg_value_from_raw keeps the type and decodes the bytes; a  *)
(* DWORD of fewer than four bytes keeps them raw.                          *)
(***************************************************************************)
reg_value_from_raw(raw) ==
    CASE raw = "dword"       -> [typ |-> "Dword", data |-> "U32"]
      [] raw = "short_dword" -> [typ |-> "Dword", data |-> "Bytes"]
      [] raw = "string"      -> [typ |-> "Sz", data |-> "String"]
      [] OTHER               -> [typ |-> "Binary", data |-> "Bytes"]

RegEntry == {reg_value_from_raw(r) : r \in Raw} \cup {Deleted}

(* to_json_value: a number stays one, all else is a string (bytes base64).  *)
to_json(v) ==
    [type |-> v.typ,
     json |-> CASE v.data = "none" -> "none" [] v.data = "U32" -> "number" [] OTHER -> "string"]

(* from_json_value: what the type asks for, or nothing.                     *)
Parses(j) == j.type \in {"none", "DELETED"} \/ (j.type = "Dword" <=> j.json = "number")

from_json(j) ==
    [typ |-> j.type,
     data |-> CASE j.json = "none" -> "none" [] j.type = "Dword" -> "U32"
                [] j.type = "Sz" -> "String" [] OTHER -> "Bytes"]

Json == {to_json(v) : v \in RegEntry \cup {Absent}}

(***************************************************************************)
(* The broker's decisions.  A name is absent when the key itself is meant. *)
(***************************************************************************)
(* reads default to Passthrough, writes to Cow                              *)
RuleMode(k, write) ==
    CASE regRules[k] = "none" -> IF write THEN "Cow" ELSE "Passthrough"
      [] OTHER -> regRules[k]

compute_reg(k, n, write) ==
    LET entry == IF n = NoName THEN Absent ELSE values[k][n]
    IN  CASE <<k, n>> \in mocks                  -> "Mock"
          [] ~write /\ k \in deleted             -> "Deny"
          [] ~write /\ entry = Deleted           -> "Deny"
          [] ~write /\ entry # Absent           -> "Cow"
          [] OTHER                               -> RuleMode(k, write)

resp_reg_decide(k, n, write) ==
    IF write /\ k \in Persistence /\ ~(k \in Environment /\ n \in EnvNames)
    THEN "Deny"
    ELSE compute_reg(k, n, write)

(* check_write_mode: a request that is not answered is a Deny.              *)
check_write_mode(k, n) ==
    IF regUp = "up" THEN {resp_reg_decide(k, n, TRUE), "Deny"} ELSE {"Deny"}

(* NtQueryKey and nt_to_friendly name the key, or fail.                     *)
resolve_friendly == BOOLEAN

(***************************************************************************)
(* NtCreateKey.  The access masks that the code tells apart: reading,      *)
(* an explicit right to write, MAXIMUM_ALLOWED alone.                      *)
(***************************************************************************)
Access == {"read", "write", "maximum"}

nt_create_key_effective_access(acc, m) ==
    CASE m = "Cow"                      -> "read"
      [] m = "Deny" /\ acc = "maximum"  -> "read"
      [] OTHER                          -> acc

(* A variant that lets a read-only open of a copy-on-write key reach the    *)
(* creating call.                                                           *)
nt_create_key_action_ReadOnlyProceeds(acc, m) ==
    CASE m \in {"Deny", "Cow"} /\ acc # "read" -> "Deny"
      [] m = "Deny"                            -> "OpenExistingOnly"
      [] OTHER                                 -> "Proceed"

nt_create_key_action(acc, m) ==
    CASE m \in {"Deny", "Cow"} /\ acc # "read" -> "Deny"
      [] m \in {"Deny", "Cow"}                 -> "OpenExistingOnly"
      [] OTHER                                 -> "Proceed"

Begin(t, k) ==
    /\ call[t].pc = "idle"
    /\ calls < MaxCalls
    /\ calls' = calls + 1

(* The syscall itself: the kernel's hive changes only here.                 *)
NtCreateKey(k) == hive' = [hive EXCEPT ![k].present = TRUE]
NtOpenKey(k)   == hive' = hive
NtSetValueKey(k, n) == hive' = [hive EXCEPT ![k].names = IF hive[k].present THEN @ \cup {n} ELSE @]
NtDeleteValueKey(k, n) == hive' = [hive EXCEPT ![k].names = @ \ {n}]
NtDeleteKey(k) == hive' = [hive EXCEPT ![k] = [present |-> FALSE, names |-> {}]]

regStore == <<values, deleted, workreg, owner, regUp, meant, regHistory>>
regPolicy == <<regRules, mocks>>

hook_nt_create_key(t, k, desired) ==
    /\ Begin(t, k)
    /\ UNCHANGED <<call, regStore, regPolicy>>
    /\ \E named \in resolve_friendly : IF ~named
       THEN UNCHANGED hive
       ELSE \E m \in check_write_mode(k, NoName) :
              LET acc == nt_create_key_effective_access(desired, m)
              IN  CASE nt_create_key_action(acc, m) = "Proceed" -> NtCreateKey(k)
                    [] nt_create_key_action(acc, m) = "OpenExistingOnly" -> NtOpenKey(k)
                    [] OTHER -> UNCHANGED hive

(* Cow: the value goes to the broker, and the guest waits for the answer.   *)
hook_nt_set_value_key(t, k, n, raw) ==
    /\ Begin(t, k)
    /\ UNCHANGED <<regStore, regPolicy>>
    /\ \E named \in resolve_friendly : IF ~named
       THEN UNCHANGED <<hive, call>>
       ELSE \E m \in check_write_mode(k, n) :
              CASE m = "Deny" -> UNCHANGED <<hive, call>>
                [] m = "Cow"  -> /\ call' = [call EXCEPT ![t] = [pc |-> "send", key |-> k, name |-> n,
                                                                 entry |-> reg_value_from_raw(raw)]]
                                 /\ UNCHANGED hive
                [] OTHER      -> NtSetValueKey(k, n) /\ UNCHANGED call

hook_nt_delete_value_key(t, k, n) ==
    /\ Begin(t, k)
    /\ UNCHANGED <<call, regStore, regPolicy>>
    /\ \E named \in resolve_friendly : IF ~named
       THEN UNCHANGED hive
       ELSE \E m \in check_write_mode(k, n) :
              IF m \in {"Deny", "Cow"} THEN UNCHANGED hive ELSE NtDeleteValueKey(k, n)

hook_nt_delete_key(t, k) ==
    /\ Begin(t, k)
    /\ UNCHANGED <<call, regStore, regPolicy>>
    /\ \E named \in resolve_friendly : IF ~named
       THEN UNCHANGED hive
       ELSE \E m \in check_write_mode(k, NoName) :
              IF m \in {"Deny", "Cow"} THEN UNCHANGED hive ELSE NtDeleteKey(k)

(* NtRenameKey, NtSaveKey(Ex), NtRestoreKey                                 *)
move_key_refused(t, k) ==
    /\ Begin(t, k)
    /\ UNCHANGED <<hive, call, regStore, regPolicy>>

(* NtLoadKey(Ex), NtUnloadKey(2, Ex), NtReplaceKey                          *)
hive_file_refused(t, k) ==
    /\ Begin(t, k)
    /\ UNCHANGED <<hive, call, regStore, regPolicy>>

(* NtCreateKeyTransacted, NtOpenKeyTransacted(Ex): STATUS_NOT_SUPPORTED     *)
transacted_refused(t, k) ==
    /\ Begin(t, k)
    /\ UNCHANGED <<hive, call, regStore, regPolicy>>

(***************************************************************************)
(* The store.  set and delete_value change the map and flush the key while *)
(* the mutex is held; an error leaves the changed map behind.              *)
(***************************************************************************)
regRest == <<hive, regPolicy, calls>>

(* RegDeleteValue and RegDeleteKey are served like RegWrite; no hook sends  *)
(* them, a client of the protocol may.                                      *)
RequestDelete(t, k, n) ==
    /\ Begin(t, k)
    /\ call' = [call EXCEPT ![t] = [pc |-> "send", key |-> k, name |-> n, entry |-> Deleted]]
    /\ UNCHANGED <<hive, regPolicy, regStore>>

set(t) ==
    /\ call[t].pc = "send"
    /\ regUp = "up"
    /\ owner = NoCaller
    /\ owner' = t
    /\ LET c == call[t]
       IN IF c.name = NoName
          THEN /\ deleted' = deleted \cup {c.key}
               /\ UNCHANGED <<values, meant>>
          ELSE /\ values' = [values EXCEPT ![c.key][c.name] = c.entry]
               /\ meant' = [meant EXCEPT ![c.key][c.name] = @ \cup {c.entry}]
               /\ UNCHANGED deleted
    /\ call' = [call EXCEPT ![t].pc = "flush"]
    /\ UNCHANGED <<regRest, workreg, regUp, regHistory>>

(* A variant that answers before the temporary file is renamed.             *)
flush_key_NoRename(t) ==
    /\ call[t].pc = "flush"
    /\ call' = [call EXCEPT ![t].pc = "flushed"]
    /\ UNCHANGED <<regRest, values, deleted, workreg, owner, regUp, meant, regHistory>>

(* The contents of values.json are computed from the map of the key and     *)
(* renamed into place.  The directory is not the key's own: '/' becomes     *)
(* '\', and of the components only the plain ones are kept, so several keys *)
(* may share one, and the file of one replaces that of another.             *)
flush_key(t) ==
    /\ call[t].pc = "flush"
    /\ LET c   == call[t]
           dir == friendly_to_overlay[c.key]
       IN IF c.name = NoName
          THEN workreg' = [workreg EXCEPT ![dir].deleted = TRUE] /\ UNCHANGED mixed
          ELSE /\ workreg' = [workreg EXCEPT ![dir].values =
                                [n \in Name |-> to_json(values[c.key][n])]]
               /\ mixed' = IF dir = c.key THEN mixed ELSE mixed \cup {dir}
    /\ call' = [call EXCEPT ![t].pc = "flushed"]
    /\ UNCHANGED <<regRest, values, deleted, owner, regUp, meant, reloaded>>

idle == [pc |-> "idle", key |-> NoKey, name |-> NoName, entry |-> Absent]

(* Resp::Ok: the hook returns STATUS_SUCCESS.                               *)
RegWriteOk(t) ==
    /\ call[t].pc = "flushed"
    /\ owner' = NoCaller
    /\ meant' = IF call[t].name = NoName THEN meant
                ELSE [meant EXCEPT ![call[t].key][call[t].name] = {call[t].entry}]
    /\ call' = [call EXCEPT ![t] = idle]
    /\ UNCHANGED <<regRest, values, deleted, workreg, regUp, regHistory>>

(* A failed mkdir, write or rename: Resp::Err, STATUS_ACCESS_DENIED.        *)
RegWriteErr(t) ==
    /\ call[t].pc = "flush"
    /\ owner' = NoCaller
    /\ call' = [call EXCEPT ![t] = idle]
    /\ UNCHANGED <<regRest, values, deleted, workreg, regUp, meant, regHistory>>

(* No answer: the request was not sent, or the broker ended.                *)
RegWriteLost(t) ==
    /\ call[t].pc = "send"
    /\ regUp # "up"
    /\ call' = [call EXCEPT ![t] = idle]
    /\ UNCHANGED <<regRest, values, deleted, workreg, owner, regUp, meant, regHistory>>

RegCrash ==
    /\ regUp = "up"
    /\ regUp' = "down"
    /\ owner' = NoCaller
    /\ call' = [t \in Caller |-> idle]
    /\ UNCHANGED <<regRest, values, deleted, workreg, meant, regHistory>>

(* RegistryPolicy::open in the next broker: one values.json that does not   *)
(* parse fails the whole load, and with it the launch.  The walk names each *)
(* directory by its own path, whichever key was flushed to it.              *)
load_from_disk ==
    /\ regUp = "down"
    /\ reloaded' = TRUE
    /\ UNCHANGED <<regRest, workreg, owner, call, meant, mixed>>
    /\ IF \A k \in Key, n \in Name : Parses(workreg[k].values[n])
       THEN /\ regUp' = "up"
            /\ values' = [k \in Key |-> [n \in Name |->
                             IF friendly_to_overlay[k] = k THEN from_json(workreg[k].values[n])
                             ELSE Absent]]
            /\ deleted' = {k \in Key : friendly_to_overlay[k] = k /\ workreg[k].deleted}
       ELSE regUp' = "failed" /\ UNCHANGED <<values, deleted>>

RegInit ==
    /\ hive \in [Key -> [present : BOOLEAN, names : {{}}]]
    /\ regRules \in [Key -> {"none", "Deny", "Passthrough", "Cow"}]
    /\ mocks \in {{}, Key \X Name}
    /\ values = [k \in Key |-> [n \in Name |-> Absent]]
    /\ deleted = {}
    /\ workreg = [k \in Key |-> [values |-> [n \in Name |-> to_json(Absent)], deleted |-> FALSE]]
    /\ owner = NoCaller
    /\ regUp = "up"
    /\ call = [t \in Caller |-> idle]
    /\ calls = 0
    /\ meant = [k \in Key |-> [n \in Name |-> {Absent}]]
    /\ mixed = {}
    /\ reloaded = FALSE

RegNext ==
    \/ \E t \in Caller, k \in Key :
         \/ \E acc \in Access : hook_nt_create_key(t, k, acc)
         \/ \E n \in Name, raw \in Raw : hook_nt_set_value_key(t, k, n, raw)
         \/ \E n \in Name : hook_nt_delete_value_key(t, k, n)
         \/ hook_nt_delete_key(t, k)
         \/ move_key_refused(t, k) \/ hive_file_refused(t, k) \/ transacted_refused(t, k)
         \/ \E n \in Name \cup {NoName} : RequestDelete(t, k, n)
    \/ \E t \in Caller :
         set(t) \/ flush_key(t) \/ RegWriteOk(t) \/ RegWriteErr(t) \/ RegWriteLost(t)
    \/ RegCrash
    \/ load_from_disk

RegSpec == RegInit /\ [][RegNext]_regVars

-----------------------------------------------------------------------------
(* The stored entries are of the codec's types, and the mutex is held by a  *)
(* caller that is inside the store.                                         *)
RegTypeOK ==
    /\ hive \in [Key -> [present : BOOLEAN, names : SUBSET Name]]
    /\ values \in [Key -> [Name -> RegEntry \cup {Absent}]]
    /\ deleted \subseteq Key
    /\ workreg \in [Key -> [values : [Name -> Json], deleted : BOOLEAN]]
    /\ owner \in Caller \cup {NoCaller}
    /\ regUp \in {"up", "down", "failed"}
    /\ calls \in 0..MaxCalls
    /\ mixed \subseteq Key
    /\ reloaded \in BOOLEAN
    /\ \A t \in Caller : (owner = t) <=> (call[t].pc \in {"flush", "flushed"})

(* No hooked call changes the host's registry under a key whose writes are  *)
(* denied or copied: not by creating the key through a read-only            *)
(* NtCreateKey, not by writing or deleting a value, not while the broker is *)
(* down (reg_hooks/mod.rs).                                                 *)
HostGuarded ==
    [][\A k \in Key : hive[k] # hive'[k] =>
          LET n == (hive[k].names \ hive'[k].names) \cup (hive'[k].names \ hive[k].names)
          IN  /\ k \in Persistence => k \in Environment /\ n # {} /\ n \subseteq EnvNames
              /\ regRules[k] # "Passthrough" => n # {} /\ \A m \in n : <<k, m>> \in mocks]_regVars

(* A key whose directory spells it, and to whose directory no other key has *)
(* been flushed.                                                            *)
OwnDirectory(k) == friendly_to_overlay[k] = k /\ k \notin mixed

(* An answered write is durable.  The disk holds the last acknowledged      *)
(* entry of a value, or one of a write begun since, whatever crashed in     *)
(* between, for each key that has its directory to itself; so does the map  *)
(* of a broker that has loaded it, and the first broker's map for every key.*)
(* A key spelled with '/', or with a component that friendly_to_overlay     *)
(* drops, is kept under another key's name: a restart loses it, and its     *)
(* flush replaces what that key was answered (reg_overlay.rs, flush_key).   *)
AnsweredIsDurable ==
    \A k \in Key, n \in Name :
        /\ OwnDirectory(k) => \E v \in meant[k][n] : workreg[k].values[n] = to_json(v)
        /\ regUp = "up" /\ (OwnDirectory(k) \/ ~reloaded) => values[k][n] \in meant[k][n]
=============================================================================
