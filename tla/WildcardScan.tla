---------------------------- MODULE WildcardScan ----------------------------
(***************************************************************************)
(* Matching a pattern with wildcards                                       *)
(* (winrsbox-policy/src/path/mod.rs: segment_match, prefix_match,          *)
(* exact_match; winrsbox-hook/src/fs/dir_filter/match.rs:                  *)
(* filename_matches_pattern).                                              *)
(*                                                                         *)
(* Each of them is a loop with two cursors and one place to go back to: of *)
(* the characters of a segment, where * stands for any number of them and  *)
(* ? for one, and again of the segments of a path, where ** stands for any *)
(* number of segments.  A segment is a sequence of characters, a path or   *)
(* pattern a sequence of segments as split at the backslash.               *)
(*                                                                         *)
(* A call g is [call, n, m, star, fits]: which of the loops it is, the     *)
(* lengths of the pattern and of the text, the places of the pattern that  *)
(* stand for any number of tokens, and for each place the tokens of the    *)
(* text that fit it.                                                       *)
(***************************************************************************)
EXTENDS Naturals, Sequences

CONSTANT Globs       \* the calls that are made

(* A name of the text holds no *, which segment_match would take for a     *)
(* token of the pattern.                                                   *)
IsCall(g) ==
    /\ g.call \in {"segment", "prefix", "exact"}
    /\ g.n \in Nat /\ g.m \in Nat
    /\ g.star \subseteq 1..g.n
    /\ g.fits \in [1..g.n -> SUBSET (1..g.m)]
    /\ g.call = "segment" => \A i \in g.star : g.fits[i] = {}

ASSUME GlobsAreCalls == \A g \in Globs : IsCall(g)

VARIABLES
    glob,     \* the call
    cur       \* its cursors pi and ti, the last star sp (0: none) and the place st
              \* of the text it was tried at; found: "open" until the loop is left

scanVars == <<glob, cur>>

-----------------------------------------------------------------------------
(* What a pattern means: its tokens are laid along the text, token i from  *)
(* a[i] on, the last entry being where the match ends.                     *)
Takes(g, a, i) ==
    IF i \in g.star THEN a[i] <= a[i + 1]
    ELSE a[i + 1] = a[i] + 1 /\ a[i] \in g.fits[i]

Alignment(g, a) ==
    /\ a[1] = 1
    /\ g.call # "prefix" => a[g.n + 1] = g.m + 1
    /\ \A i \in 1..g.n : Takes(g, a, i)

Covers(g) == \E a \in [1..(g.n + 1) -> 1..(g.m + 1)] : Alignment(g, a)

-----------------------------------------------------------------------------
(* The calls.  A pattern without wildcards is compared.                    *)
Wild == {"*", "?"}
HasWildcard(seg) == \E i \in DOMAIN seg : seg[i] \in Wild
Globstar == <<"*", "*">>

SegmentGlob(p, t) ==
    [call |-> "segment", n |-> Len(p), m |-> Len(t),
     star |-> {i \in 1..Len(p) : p[i] = "*"},
     fits |-> [i \in 1..Len(p) |-> {j \in 1..Len(t) : p[i] \in {"?", t[j]}}]]

segment_match(p, t) == IF HasWildcard(p) THEN Covers(SegmentGlob(p, t)) ELSE p = t

PathGlob(call, pat, path) ==
    [call |-> call, n |-> Len(pat), m |-> Len(path),
     star |-> {i \in 1..Len(pat) : pat[i] = Globstar},
     fits |-> [i \in 1..Len(pat) |-> {j \in 1..Len(path) : segment_match(pat[i], path[j])}]]

prefix_match(pat, path) == Covers(PathGlob("prefix", pat, path))
exact_match(pat, path) == Covers(PathGlob("exact", pat, path))

-----------------------------------------------------------------------------
(* The loops.                                                              *)
PatternDone == cur.pi > glob.n
TextDone == cur.ti > glob.m
OnStar == cur.pi \in glob.star
Fitting == ~PatternDone /\ ~TextDone /\ cur.ti \in glob.fits[cur.pi]
Open == cur.found = "open"

Leave(found) == cur' = [cur EXCEPT !.found = found]

(* A token of the text; segment_match looks for it before the star, the    *)
(* loops over a path after it.                                             *)
TakeToken ==
    /\ Open
    /\ Fitting
    /\ glob.call # "segment" => ~OnStar
    /\ cur' = [cur EXCEPT !.pi = @ + 1, !.ti = @ + 1]

(* A star is remembered, and stands for nothing yet.                       *)
TakeStar ==
    /\ Open
    /\ OnStar
    /\ glob.call = "segment" => ~TextDone /\ ~Fitting
    /\ cur' = [cur EXCEPT !.pi = @ + 1, !.sp = cur.pi, !.st = cur.ti]

(* segment_match passes over the stars that are left.                      *)
SkipStar ==
    /\ Open
    /\ glob.call = "segment"
    /\ TextDone
    /\ OnStar
    /\ cur' = [cur EXCEPT !.pi = @ + 1]

(* A token that nothing fits; a pattern used up is a match of the prefix.  *)
Stuck ==
    /\ ~TextDone /\ ~OnStar /\ ~Fitting
    /\ glob.call = "prefix" => ~PatternDone

(* A variant that forgets where the star was tried.                        *)
BackTo_Here == [cur EXCEPT !.pi = cur.sp + 1, !.ti = cur.ti + 1, !.st = cur.ti + 1]
(* Behind the last star, which takes one token more than before.           *)
BackTo == [cur EXCEPT !.pi = cur.sp + 1, !.ti = cur.st + 1, !.st = cur.st + 1]

GoBack ==
    /\ Open
    /\ Stuck
    /\ cur.sp > 0
    /\ cur' = BackTo

GiveUp ==
    /\ Open
    /\ (Stuck /\ cur.sp = 0) \/ (TextDone /\ ~OnStar /\ ~PatternDone)
    /\ Leave("no")

Succeed ==
    /\ Open
    /\ PatternDone
    /\ glob.call # "prefix" => TextDone
    /\ Leave("yes")

ScanInit ==
    /\ glob \in Globs
    /\ cur = [pi |-> 1, ti |-> 1, sp |-> 0, st |-> 1, found |-> "open"]

ScanNext ==
    /\ TakeToken \/ TakeStar \/ SkipStar \/ GoBack \/ GiveUp \/ Succeed
    /\ UNCHANGED glob

ScanSpec == ScanInit /\ [][ScanNext]_scanVars

-----------------------------------------------------------------------------
(* The values the variables range over.                                    *)
ScanTypeOK ==
    /\ IsCall(glob)
    /\ cur \in [pi : 1..(glob.n + 1), ti : 1..(glob.m + 1), sp : 0..glob.n, st : 1..(glob.m + 1),
               found : {"open", "yes", "no"}]

(* The loop with a single place to go back to finds a match iff there is   *)
(* one (segment_match: "standard glob algorithm"): to forget all stars but *)
(* the last loses nothing.                                                 *)
ScanMeansMatch == cur.found # "open" => ((cur.found = "yes") <=> Covers(glob))

(* Every step leaves the loop, tries the last star further on, or goes on  *)
(* in the pattern: the loop ends.                                          *)
ScanAdvances ==
    \/ cur'.found # "open"
    \/ cur'.st > cur.st
    \/ cur'.st = cur.st /\ cur'.pi > cur.pi
=============================================================================
