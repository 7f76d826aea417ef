------------------------------ MODULE MCInputs ------------------------------
(***************************************************************************)
(* Small calls of the loops of RuleQuestions, PathAliases and DirRecords.  *)
(***************************************************************************)
EXTENDS RuleQuestions, PathAliases, DirRecords, TLC

-----------------------------------------------------------------------------
(* Segments of up to three characters, literal patterns among them, and    *)
(* paths of up to three segments.                                          *)
Words(S, n) == UNION {[1..k -> S] : k \in 0..n}
ScanCalls ==
    {SegmentGlob(p, t) : p \in Words({"a", "b", "*", "?"}, 3), t \in Words({"a", "b"}, 4)}
    \cup {PathGlob(c, p, t) : c \in {"prefix", "exact"},
                              p \in Words({<<"a">>, Globstar, <<"*">>, <<"a", "?">>}, 3),
                              t \in Words({<<"a">>, <<"b">>, <<"a", "b">>}, 3)}
Characters == {"a", "b", "7", ".", "*", "?"}

(* Tables of one to three rules, in the order of their patterns' bytes; the*)
(* patterns overlap, nest and tie in specificity.                          *)
Sa == <<"a">>
Sb == <<"b">>
Sab == <<"a", "b">>
Star == <<"*">>
Patterns ==
    << <<Globstar, Sb>>, <<Star, Sb>>, <<Sa>>, <<<<"a", "*">>, Sb>>, <<<<"a", "?">>>>,
       <<Sa, Globstar, Sb>>, <<Sa, Star, Sb>>, <<Sa, Sb>>, <<Sab>>, <<Sb, Globstar>> >>
Always == [when |-> FALSE, depth |-> None, exe |-> None]
Conditions == {Always, [Always EXCEPT !.when = TRUE, !.depth = 1],
               [Always EXCEPT !.when = TRUE, !.exe = <<Globstar, Sb>>]}
RuleOf(i, c) == [pattern |-> Patterns[i], when |-> c.when, depth |-> c.depth, exe |-> c.exe]
PatternNo == DOMAIN Patterns
RuleTables ==
    {<<RuleOf(i, c)>> : i \in PatternNo, c \in Conditions}
    \cup UNION {{<<RuleOf(i, c), RuleOf(j, d)>> :
                    j \in {k \in PatternNo : k > i}, c, d \in Conditions} : i \in PatternNo}
    \cup {<<RuleOf(t[1], Always), RuleOf(t[2], Always), RuleOf(t[3], Always)>> :
             t \in {s \in PatternNo \X PatternNo \X PatternNo : s[1] < s[2] /\ s[2] < s[3]}}
Paths == UNION {[1..n -> {Sa, Sb, Sab}] : n \in 1..2}
         \cup {<<Sa, Sb, Sb>>, <<Sa, Sa, Sb>>, <<Sab, Sa, Sb>>, <<Sb, Sa, Sb>>}
Unknown == [depth |-> None, exe |-> None]
Contexts == {Unknown, [depth |-> 0, exe |-> <<Sb>>],
             [depth |-> 2, exe |-> <<Sa, Sb>>]}
Asked ==
    {[rules |-> t, path |-> p, depth |-> c.depth, exe |-> c.exe] :
        t \in RuleTables, p \in Paths, c \in Contexts}

HostPatterns == {Star, Sa, <<"*", ".", "a">>, <<"a", ".", "?">>, <<"*", "a">>}
Hosts == {Sa, <<".", "a">>, <<"b", ".", "a">>, Sab, <<"a", ".", "b">>, <<"b", "a">>, <<"7">>}
NetRules == {[pattern |-> p, cidr |-> {}, port |-> q, mode |-> m] :
                p \in HostPatterns, q \in {None, 1}, m \in {"Allow", "Deny", "Log"}}
            \cup {[pattern |-> Sb, cidr |-> {<<"7">>}, port |-> None, mode |-> "Deny"]}
Connections == {[rules |-> <<r, s>>, host |-> h, port |-> q] :
                r \in NetRules, s \in NetRules, h \in Hosts, q \in {1, 2}}

(* Up to two of three rules, which tie or miss the path; mocks only beside *)
(* tables of one rule.                                                     *)
ModePairs == {<<"Passthrough", "Cow">>, <<"Deny", "Deny">>, <<"Cow", "Redirect">>,
              <<"Redirect", "Passthrough">>}
Modes(m) == [read |-> m[1], write |-> m[2]]
ModedRule(i, c, m) == [pattern |-> Patterns[i], when |-> c.when, depth |-> c.depth, exe |-> c.exe,
                       read |-> m[1], write |-> m[2]]
WhyRule(i, m) == ModedRule(i, Always, m)
WhyTables ==
    {<<>>} \cup {<<WhyRule(i, m)>> : i \in {3, 8, 10}, m \in ModePairs}
    \cup UNION {{<<WhyRule(1, m), WhyRule(2, n)>>, <<WhyRule(4, m), WhyRule(8, n)>>} :
                   m, n \in ModePairs}
FilteredTables ==
    {<<ModedRule(1, c, <<"Deny", "Deny">>), WhyRule(2, m)>> : c \in Conditions, m \in ModePairs}
NoMocks == [mocks |-> <<>>, mockdirs |-> <<>>]
Mocked == {[NoMocks EXCEPT !.mocks = << <<Star, Sb>>, <<Sa, Star>> >>],
           [NoMocks EXCEPT !.mocks = << <<Sa, Star>>, <<Sa, Sb>> >>],
           [mocks |-> << <<Sb>> >>, mockdirs |-> << <<Star>>, <<Sa>> >>]}
Mirror(i, p) == [index |-> i, physical |-> p]
Mirrors == {Mirror(None, FALSE), Mirror(None, TRUE), Mirror("overlay", TRUE), Mirror("mock_dirs", FALSE)}
Questions(tables, defaults, mocked, contexts) ==
    {[path |-> <<Sa, Sb>>, write |-> w, area |-> a, whiteout |-> t, index |-> i.index,
      physical |-> i.physical, rules |-> r, default |-> d, mocks |-> m.mocks,
      mockdirs |-> m.mockdirs, depth |-> c.depth, exe |-> c.exe] :
        w, t \in BOOLEAN, a \in {"outside", "project", "alias"}, i \in Mirrors,
        r \in tables, d \in defaults, m \in mocked, c \in contexts}
DefaultModes == {None, Modes(<<"Passthrough", "Cow">>), Modes(<<"Redirect", "Deny">>)}
Explained ==
    Questions(WhyTables, DefaultModes, {NoMocks}, {Unknown})
    \cup Questions({t \in WhyTables : Len(t) <= 1}, {None}, Mocked, {Unknown})
    \cup Questions(FilteredTables, {None}, {NoMocks}, Contexts)

-----------------------------------------------------------------------------
(* Windows follows links: the place a path leads to when n links at most   *)
(* are followed, which also ends a circle, or Nowhere.                     *)
RECURSIVE Resolve(_, _, _)
Resolve(fs, path, n) ==
    IF path = <<>> THEN IF Kind(fs, path) = "dir" THEN path ELSE Nowhere
    ELSE LET dir == Resolve(fs, Above(path), n)
             place == dir \o <<path[Len(path)]>>
         IN  IF dir = Nowhere \/ Kind(fs, dir) # "dir" THEN Nowhere
             ELSE CASE Kind(fs, place) = "none" -> Nowhere
                    [] Kind(fs, place) = "link" ->
                         IF n = 0 THEN Nowhere ELSE Resolve(fs, fs[place].to, n - 1)
                    [] OTHER -> place
MaxLinks == 3
Resolved(fs, path) == Resolve(fs, path, MaxLinks)

(* Trees with the project at r, possibly itself a link, and o outside; one *)
(* of a drive that is not there.                                           *)
Plain(what) == [kind |-> what, to |-> <<>>]
Link(to) == [kind |-> "link", to |-> to]
Things == {Nothing, Plain("dir"), Plain("file"), Plain("shared file"),
           Link(<<"o">>), Link(<<"r">>), Link(<<"o", "b">>), Link(<<"r", "a">>)}
Tree(r, a, ab, b) ==
    <<>> :> Plain("dir") @@ <<"r">> :> r @@ <<"r", "a">> :> a @@ <<"r", "a", "b">> :> ab
    @@ <<"o">> :> Plain("dir") @@ <<"o", "b">> :> b
Trees ==
    {Tree(t[1], t[2], t[3], t[4]) :
        t \in {s \in {Plain("dir"), Link(<<"o">>)} \X Things \X Things \X Things :
                  /\ s[1].kind # "dir" => s[2] = Nothing
                  /\ s[2].kind # "dir" => s[3] = Nothing}}
    \cup {<<>> :> Nothing}
RawPaths == {<<"r">> \o t : t \in UNION {[1..n -> {"a", "b", ".."}] : n \in 0..3}}
AliasCalls == {[fs |-> t, raw |-> p, root |-> <<"r">>] : t \in Trees, p \in RawPaths}

-----------------------------------------------------------------------------
(* Pages of up to three names and buffers with room behind them for none,  *)
(* one or both of the overlay's; names 4 and 5 are never on the page.      *)
Lengths == {<<2, 3, 2, 3, 3>>, <<3, 2, 3, 3, 2>>, <<2, 2, 3, 2, 3>>, <<3, 3, 2, 2, 2>>, <<1, 5, 2, 3, 1>>}
RECURSIVE Offsets(_, _)
Offsets(len, n) ==
    IF n < 2 THEN SubSeq(<<0>>, 1, n)
    ELSE LET before == Offsets(len, n - 1)
         IN  Append(before, before[n - 1] + Aligned(NameOff + len[n - 1]))
PageOf(len, n, hide, extras, before, room) ==
    LET q == [len |-> len, at |-> Offsets(len, n), hide |-> hide, cased |-> {1, 3},
              extras |-> extras, before |-> before, capacity |-> 0]
    IN  [q EXCEPT !.capacity = SizeOf(q) + room]
PageCalls ==
    UNION {{PageOf(l, n, h, x, b, r) :
               l \in Lengths, h \in SUBSET (1..n \cup {5}), x \in {{}, {4}, {4, 5}, {1, 4, 5}},
               b \in {{}, {4}}, r \in {0, 8, 11, 24}} : n \in 0..3}
=============================================================================
