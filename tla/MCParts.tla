------------------------------ MODULE MCParts -------------------------------
(***************************************************************************)
(* Parts of the system that share no state, for TLC: of the broker its     *)
(* pipe server (PipeServer), the byte budget of its handlers (ByteBudget), *)
(* the rules and their snapshots (PolicyStore), the registry (Registry),   *)
(* the log (EventLog) and the move of an old overlay (Migration); the      *)
(* loops over the rules (RuleQuestions), over a path's ancestors           *)
(* (PathAliases) and over the records of a listing (DirRecords), with the  *)
(* calls of MCInputs.  A behaviour is one of one part, chosen at the start;*)
(* the others stand still.                                                 *)
(***************************************************************************)
EXTENDS ByteBudget, PolicyStore, Registry, PipeServer, Migration, EventLog, MCInputs

(* Two keys of the registry share a directory: "a/b" is flushed where "a\b" *)
(* belongs.                                                                 *)
CONSTANTS PlainKey, SlashKey

Directories == [k \in Key |-> IF k = SlashKey THEN PlainKey ELSE k]

partVars == <<questionVars, budgetVars, storeVars, regVars, serverVars,
              migrationVars, logVars, aliasVars, pageVars>>

Part == {"budget", "store", "registry", "server", "migration", "log",
         "scan", "rules", "net", "why", "paths", "pages"}

(* A part that stands still has a single initial state.                    *)
RegStart ==
    IF kind = "registry"
    THEN /\ RegInit
         /\ \A k \in Environment : hive[k].present   \* it always exists
         /\ ~hive[SlashKey].present /\ regRules[SlashKey] = "Cow"
         /\ regRules[PlainKey] # "none"                     \* writes default to Cow
         /\ \A k \in Environment : regRules[k] # "Cow"
    ELSE /\ regRules = [k \in Key |-> "none"] /\ mocks = {}
         /\ hive = [k \in Key |-> [present |-> FALSE, names |-> {}]]
         /\ RegInit
MigrationStart ==
    IF kind = "migration" THEN MigrationInit
    ELSE /\ rows = [e \in Entry |-> "none"] /\ legacy = [e \in Entry |-> "absent"]
         /\ files = [e \in Entry |-> "absent"] /\ odd = FALSE
         /\ MigrationInit
LogStart == LogInit /\ (torn => kind = "log")
AliasStart ==
    IF kind = "paths" THEN AliasInit ELSE alias = None /\ upto = 0 /\ answer = None
PageStart ==
    IF kind = "pages" THEN PageInit
    ELSE /\ page = None /\ buf = <<>> /\ info = 0 /\ step = None /\ here = 0 /\ prev = 0
         /\ end = 0 /\ delivered = {} /\ remaining = {} /\ seen = {}

Init ==
    /\ kind \in Part
    /\ BudgetInit
    /\ StoreInit
    /\ RegStart
    /\ ServerInit
    /\ MigrationStart
    /\ LogStart
    /\ QuestionInit
    /\ AliasStart
    /\ PageStart

PartNext ==
    \/ /\ kind = "budget" /\ BudgetNext
       /\ UNCHANGED <<storeVars, regVars, serverVars, migrationVars, logVars>>
    \/ /\ kind = "store" /\ StoreNext
       /\ UNCHANGED <<budgetVars, regVars, serverVars, migrationVars, logVars>>
    \/ /\ kind = "registry" /\ RegNext
       /\ UNCHANGED <<budgetVars, storeVars, serverVars, migrationVars, logVars>>
    \/ /\ kind = "server" /\ ServerNext
       /\ UNCHANGED <<budgetVars, storeVars, regVars, migrationVars, logVars>>
    \/ /\ kind = "migration" /\ MigrationNext
       /\ UNCHANGED <<budgetVars, storeVars, regVars, serverVars, logVars>>
    \/ /\ kind = "log" /\ LogNext
       /\ UNCHANGED <<budgetVars, storeVars, regVars, serverVars, migrationVars>>

stateVars == <<budgetVars, storeVars, regVars, serverVars, migrationVars, logVars>>

Next ==
    /\ UNCHANGED kind
    /\ \/ PartNext /\ UNCHANGED <<scanVars, choiceVars, aliasVars, pageVars>>
       \/ QuestionNext /\ UNCHANGED <<stateVars, aliasVars, pageVars>>
       \/ kind = "paths" /\ AliasNext /\ UNCHANGED <<stateVars, scanVars, choiceVars, pageVars>>
       \/ kind = "pages" /\ PageNext /\ UNCHANGED <<stateVars, scanVars, choiceVars, aliasVars>>

Spec == Init /\ [][Next]_partVars

(* The types of the modules; in Registry also that the overlay's mutex is  *)
(* held by the caller that is inside the store.                            *)
TypeOK ==
    CASE kind = "budget"    -> BudgetTypeOK
      [] kind = "store"     -> StoreTypeOK
      [] kind = "registry"  -> RegTypeOK
      [] kind = "server"    -> ServerTypeOK
      [] kind = "migration" -> MigrationTypeOK
      [] kind = "log"       -> LogTypeOK
      [] kind = "scan"      -> ScanTypeOK
      [] kind = "paths"     -> AliasTypeOK
      [] kind = "pages"     -> PageTypeOK
      [] OTHER              -> TRUE
=============================================================================
