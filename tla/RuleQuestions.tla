---------------------------- MODULE RuleQuestions ----------------------------
(***************************************************************************)
(* The loops of the rules' algorithms side by side: the scan of a pattern  *)
(* (WildcardScan), the choice of a rule and the decision of a connection   *)
(* (RuleMatching), and the trace that explains a decision (DecisionTrace). *)
(* They share no state; a behaviour is one call of one of them, named by   *)
(* kind, and the others stand still.                                       *)
(***************************************************************************)
EXTENDS DecisionTrace

VARIABLE kind

questionVars == <<kind, scanVars, choiceVars>>

ScanStill == glob = None /\ cur = None
ChoiceStill == asked = None /\ todo = {} /\ best = NoRule

QuestionInit ==
    CASE kind = "scan"  -> ScanInit /\ ChoiceStill
      [] kind = "rules" -> RuleInit /\ ScanStill
      [] kind = "net"   -> NetInit /\ ScanStill
      [] kind = "why"   -> TraceInit /\ ScanStill
      [] OTHER          -> ScanStill /\ ChoiceStill

QuestionNext ==
    /\ UNCHANGED kind
    /\ \/ kind = "scan" /\ ScanNext /\ UNCHANGED choiceVars
       \/ kind = "rules" /\ RuleNext /\ UNCHANGED scanVars
       \/ kind = "net" /\ NetNext /\ UNCHANGED scanVars
       \/ kind = "why" /\ TraceNext /\ UNCHANGED scanVars

QuestionSpec == QuestionInit /\ [][QuestionNext]_questionVars

(* The rules mean what they say: a scan finds a match iff there is one; the*)
(* rule that speaks for a path is the one a scan of the table in order     *)
(* would choose; a connection is refused iff a rule that denies covers it; *)
(* and `why` tells what the engine does.                                   *)
RulesMeanWhatTheySay ==
    /\ kind = "scan" => ScanMeansMatch
    /\ kind = "rules" => ChoiceIsInOrder
    /\ kind = "net" => DenyingRuleWins
    /\ kind = "why" => TraceExplains
=============================================================================
