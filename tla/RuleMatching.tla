---------------------------- MODULE RuleMatching ----------------------------
(***************************************************************************)
(* Which rule of the policy speaks for a path, and for a host              *)
(* (winrsbox-policy/src/decide/mod.rs, decide/rule_index.rs,               *)
(* domains/net.rs).                                                        *)
(*                                                                         *)
(* A snapshot compiles its rules once: patterns are split, scored and, if  *)
(* they are literal, put into a trie; a decision walks the trie along the  *)
(* path, takes every rule with a wildcard besides, and goes over these     *)
(* candidates in a loop.  A connection is decided in a loop over all rules *)
(* for the network.  What the patterns mean is the matter of WildcardScan; *)
(* the reference definitions say which rule should be chosen.              *)
(***************************************************************************)
EXTENDS WildcardScan, Integers, FiniteSets

CONSTANTS
    None,           \* no depth, no executable, no port
    Char,           \* characters of names and patterns
    PathQuestions,  \* [rules, path, depth, exe]: a path, who asks for it, and the table
    NetQuestions    \* [rules, host, port]

VARIABLES
    asked,    \* the question
    todo,     \* the rules the loop has not looked at yet
    best      \* what it has found so far; rule 0: none

choiceVars == <<asked, todo, best>>

Path == Seq(Seq(Char))
IsTable(rules) == rules \in Seq({rules[i] : i \in DOMAIN rules})

(* Empty segments are dropped for the prefix, and kept for an executable.  *)
Filtered(segs) == SelectSeq(segs, LAMBDA s : s # <<>>)

(* A path is a file's: no name in it holds a wildcard.                     *)
IsRuleQuestion(q) ==
    /\ IsTable(q.rules)
    /\ \A i \in DOMAIN q.rules :
          LET r == q.rules[i]
          IN  /\ r.pattern \in Path /\ Filtered(r.pattern) \in Path
              /\ r.when \in BOOLEAN
              /\ r.exe # None => r.exe \in Path
    /\ q.path \in Path /\ Filtered(q.path) \in Path
    /\ \A i \in DOMAIN q.path : ~HasWildcard(q.path[i])
    /\ q.exe # None => q.exe \in Path

(* cidr are the hosts whose address lies in the network, none for a        *)
(* pattern that is no CIDR.                                                *)
NetMode == {"Allow", "Deny", "Log"}
IsNetQuestion(q) ==
    /\ IsTable(q.rules)
    /\ \A i \in DOMAIN q.rules : q.rules[i].pattern \in Seq(Char) /\ q.rules[i].mode \in NetMode
    /\ q.host \in Seq(Char)
    /\ ~HasWildcard(q.host)

ASSUME ChoiceQuestions ==
    /\ \A q \in PathQuestions : IsRuleQuestion(q)
    /\ \A q \in NetQuestions : IsNetQuestion(q)

-----------------------------------------------------------------------------
(* Literal characters, the backslashes between the segments among them.    *)
Literals(pat) ==
    UNION {{i} \X {j \in 1..Len(pat[i]) : pat[i][j] \notin Wild} : i \in 1..Len(pat)}
pattern_specificity(pat) == Cardinality(Literals(pat)) + Len(pat) - 1

(* A rule is [pattern, when, depth, exe]: depth and exe are conditions of  *)
(* when, each of them may be absent.                                       *)
CompiledRule(r) ==
    [segs |-> Filtered(r.pattern),
     spec |-> pattern_specificity(r.pattern) + (IF r.when THEN 1 ELSE 0)
                + (IF r.exe # None THEN pattern_specificity(r.exe) ELSE 0),
     when_min_depth |-> r.depth,
     when_exe_segs |-> r.exe,
     wildcard |-> \E i \in DOMAIN Filtered(r.pattern) : HasWildcard(Filtered(r.pattern)[i])]

(* RuleIndex::build: the trie's nodes are the prefixes of literal patterns.*)
build(compiled) ==
    LET literal == {i \in DOMAIN compiled : ~compiled[i].wildcard}
        Beginnings(segs) == {SubSeq(segs, 1, n) : n \in 0..Len(segs)}
        nodes == {<<>>} \cup UNION {Beginnings(compiled[i].segs) : i \in literal}
    IN  [compiled |-> compiled,
         trie |-> [n \in nodes |-> {i \in literal : compiled[i].segs = n}],
         wildcards |-> DOMAIN compiled \ literal]
RuleIndex(rules) == build([i \in DOMAIN rules |-> CompiledRule(rules[i])])

(* The nodes along the path, up to the first that is missing, then every   *)
(* rule with a wildcard.                                                   *)
Along(trie, path) == {n \in 0..Len(path) : \A m \in 0..n : SubSeq(path, 1, m) \in DOMAIN trie}
candidate_indices(index, path) ==
    {i \in DOMAIN index.compiled : \/ i \in index.wildcards
                                   \/ \E n \in Along(index.trie, path) : i \in index.trie[SubSeq(path, 1, n)]}

(* A candidate is skipped for its wildcards, the depth or the executable;  *)
(* an unknown depth skips nothing, an unknown executable every rule that   *)
(* asks for one.                                                           *)
Filters(cr, depth, exe) ==
    /\ depth # None /\ cr.when_min_depth # None => depth >= cr.when_min_depth
    /\ cr.when_exe_segs # None => exe # None /\ exact_match(cr.when_exe_segs, exe)
Skipped(cr, path, depth, exe) ==
    \/ cr.wildcard /\ ~prefix_match(cr.segs, path)
    \/ ~Filters(cr, depth, exe)

(* A variant of the comparison for candidates in table order.              *)
Better_InOrder(spec, i, b) == b.idx = 0 \/ spec > b.spec
(* The most specific, among equals the first of the table, whatever order  *)
(* the candidates come in.                                                 *)
Better(spec, i, b) ==
    \/ b.idx = 0
    \/ spec > b.spec
    \/ spec = b.spec /\ i < b.idx

NoRule == [spec |-> 0, idx |-> 0]

(* best_explicit_rule_match: the candidates come in the order of the trie, *)
(* which says nothing of the table's; here in any order.                   *)
RuleInit ==
    /\ asked \in PathQuestions
    /\ todo = candidate_indices(RuleIndex(asked.rules), Filtered(asked.path))
    /\ best = NoRule

LookAt(i) ==
    LET cr == CompiledRule(asked.rules[i])
    IN  /\ todo' = todo \ {i}
        /\ best' = IF /\ ~Skipped(cr, Filtered(asked.path), asked.depth, asked.exe)
                      /\ Better(cr.spec, i, best)
                   THEN [spec |-> cr.spec, idx |-> i] ELSE best
        /\ UNCHANGED asked

RuleNext == \E i \in todo : LookAt(i)

RuleSpec == RuleInit /\ [][RuleNext]_choiceVars

(* The rule of the table that speaks for a path: one that covers it and    *)
(* whose conditions hold, the most specific, among equals the first.       *)
Applies(r, path, depth, exe) ==
    /\ prefix_match(Filtered(r.pattern), Filtered(path))
    /\ Filters(CompiledRule(r), depth, exe)

best_explicit_rule_match(rules, path, depth, exe) ==
    LET hits == {i \in DOMAIN rules : Applies(rules[i], path, depth, exe)}
        spec == [i \in DOMAIN rules |-> CompiledRule(rules[i]).spec]
    IN  IF hits = {} THEN 0
        ELSE CHOOSE i \in hits : \A j \in hits \ {i} :
                 spec[i] > spec[j] \/ (spec[i] = spec[j] /\ i < j)

(* The trie, the scores compiled beforehand and the order of the candidates*)
(* make no difference: the loop ends with the rule that a scan in table    *)
(* order would choose (decide/mod.rs: "order-independent and identical to  *)
(* the old in-order strict-> scan").                                       *)
ChoiceIsInOrder ==
    todo = {} => best.idx = best_explicit_rule_match(asked.rules, asked.path, asked.depth, asked.exe)

-----------------------------------------------------------------------------
(* A network rule is [pattern, cidr, port, mode]; a host is a sequence of  *)
(* characters.                                                             *)
EndsWith(t, s) == Len(t) >= Len(s) /\ SubSeq(t, Len(t) - Len(s) + 1, Len(t)) = s

(* CompiledNetRule::compile: *, then *.suffix, then a glob.                *)
HostKind(p) ==
    IF p = <<"*">> THEN "star"
    ELSE IF Len(p) >= 2 /\ SubSeq(p, 1, 2) = <<"*", ".">> THEN "suffix" ELSE "glob"

(* A variant that leaves the host itself out of *.host.                    *)
NetRuleMatches_BelowOnly(r, host) ==
    \/ r.pattern = host
    \/ HostKind(r.pattern) = "star"
    \/ HostKind(r.pattern) = "suffix" /\ EndsWith(host, Tail(r.pattern))
    \/ HostKind(r.pattern) = "glob" /\ segment_match(r.pattern, host)
    \/ host \in r.cidr
NetRuleMatches(r, host) ==
    \/ r.pattern = host
    \/ HostKind(r.pattern) = "star"
    \/ /\ HostKind(r.pattern) = "suffix"
       /\ host = SubSeq(r.pattern, 3, Len(r.pattern)) \/ EndsWith(host, Tail(r.pattern))
    \/ HostKind(r.pattern) = "glob" /\ segment_match(r.pattern, host)
    \/ host \in r.cidr

(* NetSnapshot::decide: the first rule that denies, else the first that    *)
(* allows; a rule that logs decides nothing.                               *)
NetInit ==
    /\ asked \in NetQuestions
    /\ todo = DOMAIN asked.rules
    /\ best = [Deny |-> 0, Allow |-> 0]

NetLookAt(i) ==
    LET r == asked.rules[i]
    IN  /\ \A j \in todo : i <= j
        /\ todo' = todo \ {i}
        /\ best' = IF /\ r.port \in {None, asked.port}
                      /\ NetRuleMatches(r, asked.host)
                      /\ r.mode # "Log"
                      /\ best[r.mode] = 0
                   THEN [best EXCEPT ![r.mode] = i] ELSE best
        /\ UNCHANGED asked

NetNext == \E i \in todo : NetLookAt(i)

NetSpec == NetInit /\ [][NetNext]_choiceVars

NetDecision == [allow |-> best.Deny = 0, rule |-> IF best.Deny # 0 THEN best.Deny ELSE best.Allow]

(* What the rules say (netrule add --help): *.suffix is the suffix and     *)
(* what is below it, any other pattern a glob.                             *)
HostMeans(p, host) ==
    \/ p = host
    \/ IF HostKind(p) = "suffix"
       THEN \E n \in 0..Len(host) : /\ SubSeq(host, n + 1, Len(host)) = SubSeq(p, 3, Len(p))
                                    /\ n > 0 => host[n] = "."
       ELSE Covers(SegmentGlob(p, host))
Covering(q, mode) ==
    {i \in DOMAIN q.rules : /\ q.rules[i].mode = mode
                            /\ q.rules[i].port \in {None, q.port}
                            /\ HostMeans(q.rules[i].pattern, q.host) \/ q.host \in q.rules[i].cidr}

(* A connection is refused iff a rule that denies covers it, whatever else *)
(* allows it; it is put down to the first rule that does so, or that       *)
(* allows it.                                                              *)
DenyingRuleWins ==
    todo = {} =>
        LET decisive == IF NetDecision.allow THEN Covering(asked, "Allow") ELSE Covering(asked, "Deny")
        IN  /\ NetDecision.allow <=> Covering(asked, "Deny") = {}
            /\ IF decisive = {} THEN NetDecision.rule = 0
               ELSE NetDecision.rule \in decisive /\ \A i \in decisive : NetDecision.rule <= i
=============================================================================
