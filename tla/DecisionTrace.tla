---------------------------- MODULE DecisionTrace ----------------------------
(***************************************************************************)
(* The decision for a path and what `why` says of it                       *)
(* (winrsbox-policy/src/decide/overlay.rs: compute and decide_traced).     *)
(*                                                                         *)
(* compute reads the snapshot, decide_traced the tables themselves, with   *)
(* the order of the checks, the scan of the rules and the fall-backs       *)
(* written a second time.  An operator who asks why an open was refused or *)
(* redirected is told what the second one finds.                           *)
(*                                                                         *)
(* A question q is [path, write, depth, exe, area, whiteout, index,        *)
(* physical, rules, default, mocks, mockdirs]: the folded path, the depth  *)
(* and the executable of the process; area is "outside" the project, in    *)
(* it, or an "alias" in it that leads out; index is the overlay file recorded for    *)
(* the path: None, or the "overlay" or the "mock_dirs" mirror of the path, *)
(* the two that validate_record_overlay accepts; physical says that the    *)
(* first of them exists.  A rule has the modes read and write besides what *)
(* RuleMatching gives it; the tables are in the order of their keys.       *)
(***************************************************************************)
EXTENDS RuleMatching

CONSTANT WhyQuestions

AccessMode == {"Passthrough", "Cow", "Redirect", "Deny"}
IsKeys(s) == s \in Seq(Path)
IsWhyQuestion(q) ==
    /\ IsRuleQuestion(q)
    /\ q.write \in BOOLEAN
    /\ q.index \in {None, "overlay", "mock_dirs"}
    /\ \A r \in {q.rules[i] : i \in DOMAIN q.rules} \cup ({q.default} \ {None}) :
          r.read \in AccessMode /\ r.write \in AccessMode
    /\ IsKeys(q.mocks) /\ q.path # None

ASSUME TraceQuestions == \A q \in WhyQuestions : IsWhyQuestion(q)

Wildcarded(pat) == \E i \in DOMAIN pat : HasWildcard(pat[i])
ModeOf(row, write) == IF write THEN row.write ELSE row.read

(* project_root is real, except for a write through an alias.              *)
InProject(q) == q.area = "project" \/ (q.area = "alias" /\ ~q.write)
(* Deleted, and not made again in the overlay.                             *)
Gone(q) == q.whiteout /\ q.index = None /\ ~q.physical

(* Snapshot::find_mock_payload: literal keys, then those with wildcards; a *)
(* payload is named by its key.                                            *)
FirstOf(keys, hits) ==
    IF hits = {} THEN None ELSE keys[CHOOSE i \in hits : \A j \in hits : i <= j]
find_mock_payload(q) ==
    IF \E i \in DOMAIN q.mocks : q.mocks[i] = q.path /\ ~Wildcarded(q.mocks[i]) THEN q.path
    ELSE FirstOf(q.mocks, {i \in DOMAIN q.mocks : Wildcarded(q.mocks[i]) /\ exact_match(q.mocks[i], q.path)})

(* db::find_mock_payload: the key, then every key as a pattern.            *)
db_find_mock_payload(q) ==
    IF \E i \in DOMAIN q.mocks : q.mocks[i] = q.path THEN q.path
    ELSE FirstOf(q.mocks, {i \in DOMAIN q.mocks : exact_match(q.mocks[i], q.path)})

(* The most specific, among equals the first.                              *)
matched_mock_dir(q) ==
    LET chosen[n \in 0..Len(q.mockdirs)] ==
            IF n = 0 THEN None
            ELSE IF /\ prefix_match(Filtered(q.mockdirs[n]), Filtered(q.path))
                    /\ \/ chosen[n - 1] = None
                       \/ pattern_specificity(q.mockdirs[n]) > pattern_specificity(chosen[n - 1])
            THEN q.mockdirs[n] ELSE chosen[n - 1]
    IN  chosen[Len(q.mockdirs)]

-----------------------------------------------------------------------------
(* compute: a Decision without cow_from, which module Overlay has.         *)
Decided(mode, overlay) == [mode |-> mode, overlay |-> overlay]

(* Snapshot::best_rule_match and the modes of a path that no rule covers.  *)
effective_mode(q) ==
    LET i == best_explicit_rule_match(q.rules, q.path, q.depth, q.exe)
    IN  IF i # 0 THEN ModeOf(q.rules[i], q.write)
        ELSE IF q.default # None THEN ModeOf(q.default, q.write)
        ELSE IF q.write THEN "Cow" ELSE "Passthrough"

ByMode(mode, q) ==
    LET existing == IF q.index # None THEN q.index ELSE "overlay"
    IN  CASE mode = "Deny" -> Decided("Deny", None)
          [] mode = "Passthrough" ->
               IF q.write \/ (q.index = None /\ ~q.physical) THEN Decided("Passthrough", None)
               ELSE Decided("Cow", existing)
          [] OTHER -> Decided("Cow", existing)

compute(q) ==
    IF InProject(q) THEN Decided("Passthrough", None)
    ELSE IF Gone(q) THEN Decided("Hidden", None)
    ELSE IF find_mock_payload(q) # None THEN Decided("Mock", "overlay")
    ELSE IF matched_mock_dir(q) # None THEN Decided("Cow", "mock_dirs")
    ELSE ByMode(effective_mode(q), q)

-----------------------------------------------------------------------------
(* decide_traced: what the rule_id names, the prefix of the rule, the path *)
(* where a mock matched it, whichever did, and the key of the mock         *)
(* directory.                                                              *)
Trace(decision, target, by, prefix) ==
    [decision |-> decision, target |-> target, by |-> by, prefix |-> prefix,
     mock |-> None, mockdir |-> None]

(* The loop over the rules in the order of the table, which puts a verdict *)
(* on each into the chain and keeps the first of the most specific.        *)
TraceInit ==
    /\ asked \in WhyQuestions
    /\ todo = DOMAIN asked.rules
    /\ best = NoRule

(* A variant that keeps the last of the most specific.                     *)
Outdoes_OrEquals(spec, b) == b.idx = 0 \/ spec >= b.spec
Outdoes(spec, b) == b.idx = 0 \/ spec > b.spec

TraceLookAt(i) ==
    LET cr == CompiledRule(asked.rules[i])
    IN  /\ \A j \in todo : i <= j
        /\ todo' = todo \ {i}
        /\ best' = IF /\ Applies(asked.rules[i], asked.path, asked.depth, asked.exe)
                      /\ Outdoes(cr.spec, best)
                   THEN [spec |-> cr.spec, idx |-> i] ELSE best
        /\ UNCHANGED asked

TraceNext == \E i \in todo : TraceLookAt(i)

TraceSpec == TraceInit /\ [][TraceNext]_choiceVars

TracedRule(i, q) ==
    IF i # 0
    THEN [mode |-> ModeOf(q.rules[i], q.write), by |-> "rule", prefix |-> q.rules[i].pattern]
    ELSE IF q.default # None
    THEN [mode |-> ModeOf(q.default, q.write), by |-> "default", prefix |-> <<>>]
    ELSE [mode |-> IF q.write THEN "Cow" ELSE "Passthrough", by |-> "none", prefix |-> None]

(* The mode of the rule, and the read that is served from the overlay.     *)
TracedByRule(t, q) ==
    IF t.mode = "Passthrough" /\ ~q.write /\ (q.index # None \/ q.physical)
    THEN Trace("Cow", IF q.index # None THEN q.index ELSE "overlay", t.by, t.prefix)
    ELSE Trace(t.mode, IF t.mode \in {"Cow", "Redirect"} THEN "overlay" ELSE None, t.by, t.prefix)

(* By is the rule of the table that the loop ends with.                    *)
decide_traced(q, by) ==
    IF InProject(q) THEN Trace("Passthrough", None, "none", None)
    ELSE IF Gone(q) THEN Trace("Passthrough", None, "whiteout", None)
    ELSE IF db_find_mock_payload(q) # None
         THEN [Trace("Cow", "overlay", "none", None) EXCEPT !.mock = q.path]
    ELSE IF matched_mock_dir(q) # None
         THEN [Trace("Cow", "mock_dirs", "none", None) EXCEPT !.mockdir = matched_mock_dir(q)]
    ELSE TracedByRule(TracedRule(by, q), q)

(* The decision a trace tells of: a rule of kind redirect copies on write, *)
(* a mock is a file of the overlay, and "whiteout" names what has no mode  *)
(* of a rule.                                                              *)
Told(t) ==
    IF t.by = "whiteout" THEN "Hidden"
    ELSE IF t.mock # None THEN "Mock"
    ELSE IF t.decision = "Redirect" THEN "Cow" ELSE t.decision

Explains(told, does, q) ==
    /\ Told(told) = does.mode
    /\ \/ told.target = does.overlay
       \/ q.index = "mock_dirs" /\ told.target = "overlay"
    /\ told.mock = IF does.mode = "Mock" THEN q.path ELSE None
    /\ told.by = "rule" =>
         told.prefix = q.rules[best_explicit_rule_match(q.rules, q.path, q.depth, q.exe)].pattern

(* What `why` tells is what the engine does: the decision of compute and   *)
(* the file it leads to, except where the index names the mirror of a mock *)
(* directory that is one no longer; it tells of a mock, though not of      *)
(* which, where the engine serves one; and the rule it names is the one    *)
(* that decides.                                                           *)
TraceExplains == todo = {} => Explains(decide_traced(asked, best.idx), compute(asked), asked)
=============================================================================
