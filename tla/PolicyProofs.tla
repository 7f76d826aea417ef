---------------------------- MODULE PolicyProofs -----------------------------
(***************************************************************************)
(* Proofs about RuleQuestions: the scan of a pattern with one place to go  *)
(* back to finds a match iff there is one; the trie and the loop over its  *)
(* candidates choose the rule that a scan of the whole table would; a      *)
(* connection is refused iff a rule that denies covers it; and `why` tells *)
(* what the engine does.  And about PathAliases: a path that is said to    *)
(* stay in the project does.  They hold for patterns, paths, tables and    *)
(* trees of any size.                                                      *)
(***************************************************************************)
EXTENDS RuleQuestions, PathAliases, SequenceTheorems, FiniteSetTheorems, TLAPS

(* The places a call's tokens may be laid at.                              *)
Layouts(g) == [1..(g.n + 1) -> 1..(g.m + 1)]

(* A layout of the tokens before the cursor that ends at it, the last star *)
(* standing for what it was tried with.                                    *)
LaidSoFar(b) ==
    /\ b[1] = 1
    /\ \A i \in 1..(cur.pi - 1) : Takes(glob, b, i)
    /\ b[cur.pi] = cur.ti
    /\ cur.sp > 0 => b[cur.sp + 1] = cur.st

(* No alignment lies before the cursors; behind the last star it can only  *)
(* be shifted.                                                             *)
NotPassed(a) ==
    /\ a[cur.sp + 1] >= cur.st
    /\ a[cur.pi] >= cur.ti
    /\ ~TextDone => a[cur.pi] = a[cur.sp + 1] + (cur.ti - cur.st)

(* The loop invariant of the three loops.                                  *)
ScanInv ==
    /\ ScanTypeOK
    /\ cur.sp < cur.pi
    /\ cur.st <= cur.ti
    /\ cur.sp = 0 => cur.st = 1
    /\ cur.sp > 0 => cur.sp \in glob.star
    /\ Open => \E b \in Layouts(glob) : LaidSoFar(b)
    /\ Open => \A a \in Layouts(glob) : Alignment(glob, a) => NotPassed(a)
    /\ ScanMeansMatch

(* The fields of a call and of the cursors.                                *)
LEMMA Cursors ==
  ASSUME ScanTypeOK
  PROVE  /\ glob.n \in Nat /\ glob.m \in Nat /\ glob.star \subseteq 1..glob.n
         /\ glob.call \in {"segment", "prefix", "exact"}
         /\ glob.call = "segment" => \A i \in glob.star : glob.fits[i] = {}
         /\ \A i \in 1..glob.n : glob.fits[i] \subseteq 1..glob.m
         /\ cur.pi \in Nat /\ cur.ti \in Nat /\ cur.sp \in Nat /\ cur.st \in Nat
         /\ 1 <= cur.pi /\ cur.pi <= glob.n + 1 /\ 1 <= cur.ti /\ cur.ti <= glob.m + 1
         /\ cur.sp <= glob.n /\ 1 <= cur.st /\ cur.st <= glob.m + 1
  <1>1. /\ glob.n \in Nat /\ glob.m \in Nat /\ glob.star \subseteq 1..glob.n
        /\ glob.call \in {"segment", "prefix", "exact"}
        /\ glob.call = "segment" => \A i \in glob.star : glob.fits[i] = {}
        /\ glob.fits \in [1..glob.n -> SUBSET (1..glob.m)]
    BY DEF ScanTypeOK, IsCall
  <1>2. cur.pi \in 1..(glob.n + 1) /\ cur.ti \in 1..(glob.m + 1) /\ cur.sp \in 0..glob.n /\ cur.st \in 1..(glob.m + 1)
    BY DEF ScanTypeOK
  <1> QED
    BY <1>1, <1>2

(* A layout gives every place of the pattern a place of the text.          *)
LEMMA Laid ==
  ASSUME NEW g, g.n \in Nat, g.m \in Nat, NEW a \in Layouts(g), NEW i \in Nat, 1 <= i, i <= g.n + 1
  PROVE  a[i] \in Nat /\ 1 <= a[i] /\ a[i] <= g.m + 1
  <1>1. a[i] \in 1..(g.m + 1)
    BY DEF Layouts
  <1> QED
    BY <1>1

(* A step of the loop to cursors c that leaves it open.                    *)
LEMMA ScanMoves ==
  ASSUME ScanInv, Open, UNCHANGED glob, NEW c, cur' = c, c.found = "open",
         c \in [pi : 1..(glob.n + 1), ti : 1..(glob.m + 1), sp : 0..glob.n, st : 1..(glob.m + 1),
                found : {"open", "yes", "no"}],
         c.sp < c.pi, c.st <= c.ti, c.sp = 0 => c.st = 1, c.sp > 0 => c.sp \in glob.star,
         \E b \in Layouts(glob) : /\ b[1] = 1
                                  /\ \A i \in 1..(c.pi - 1) : Takes(glob, b, i)
                                  /\ b[c.pi] = c.ti
                                  /\ c.sp > 0 => b[c.sp + 1] = c.st,
         \A a \in Layouts(glob) : Alignment(glob, a) =>
             /\ a[c.sp + 1] >= c.st
             /\ a[c.pi] >= c.ti
             /\ ~(c.ti > glob.m) => a[c.pi] = a[c.sp + 1] + (c.ti - c.st)
  PROVE  ScanInv'
  <1>1. ScanTypeOK'
    BY DEF ScanInv, ScanTypeOK
  <1>2. (Open => \E b \in Layouts(glob) : LaidSoFar(b))'
    BY DEF LaidSoFar
  <1>3. (Open => \A a \in Layouts(glob) : Alignment(glob, a) => NotPassed(a))'
    BY DEF NotPassed, TextDone
  <1>4. ScanMeansMatch'
    BY DEF ScanMeansMatch
  <1> QED
    BY <1>1, <1>2, <1>3, <1>4 DEF ScanInv

(* A token of the text that fits moves both cursors.                       *)
LEMMA TokenMoves ==
  ASSUME ScanInv, TakeToken, UNCHANGED glob
  PROVE  ScanInv'
  <1> DEFINE c == [cur EXCEPT !.pi = cur.pi + 1, !.ti = cur.ti + 1]
  <1>1. Open /\ cur' = c /\ cur.pi <= glob.n /\ cur.ti <= glob.m /\ cur.ti \in glob.fits[cur.pi] /\ cur.pi \notin glob.star
    BY Cursors DEF ScanInv, TakeToken, Fitting, PatternDone, TextDone, OnStar
  <1>2. /\ c.pi = cur.pi + 1 /\ c.ti = cur.ti + 1 /\ c.sp = cur.sp /\ c.st = cur.st /\ c.found = "open"
        /\ c \in [pi : 1..(glob.n + 1), ti : 1..(glob.m + 1), sp : 0..glob.n, st : 1..(glob.m + 1),
                  found : {"open", "yes", "no"}]
    <2>1. cur \in [pi : 1..(glob.n + 1), ti : 1..(glob.m + 1), sp : 0..glob.n, st : 1..(glob.m + 1),
                  found : {"open", "yes", "no"}]
      BY DEF ScanInv, ScanTypeOK
    <2>2. cur.pi + 1 \in 1..(glob.n + 1) /\ cur.ti + 1 \in 1..(glob.m + 1) /\ cur.found = "open"
      BY <1>1, Cursors DEF ScanInv, Open
    <2> QED
      BY <2>1, <2>2
  <1> HIDE DEF c
  <1>3. \E b \in Layouts(glob) : /\ b[1] = 1
                                 /\ \A i \in 1..(c.pi - 1) : Takes(glob, b, i)
                                 /\ b[c.pi] = c.ti
                                 /\ c.sp > 0 => b[c.sp + 1] = c.st
    <2>1. PICK b \in Layouts(glob) : LaidSoFar(b)
      BY <1>1 DEF ScanInv
    <2> DEFINE d == [b EXCEPT ![cur.pi + 1] = cur.ti + 1]
    <2>2. d \in Layouts(glob) /\ d[cur.pi + 1] = cur.ti + 1
          /\ \A i \in 1..(glob.n + 1) : i # cur.pi + 1 => d[i] = b[i]
      <3>1. cur.ti + 1 \in 1..(glob.m + 1) /\ cur.pi + 1 \in 1..(glob.n + 1)
        BY <1>1, Cursors DEF ScanInv
      <3> QED
        BY <3>1 DEF Layouts
    <2> HIDE DEF d
    <2>3. ASSUME NEW i \in 1..(c.pi - 1) PROVE Takes(glob, d, i)
      <3>1. CASE i = cur.pi
        BY <1>1, <2>1, <2>2, <3>1, Cursors DEF ScanInv, Takes, LaidSoFar
      <3>2. CASE i # cur.pi
        BY <1>1, <1>2, <2>1, <2>2, <3>2, Cursors DEF ScanInv, Takes, LaidSoFar
      <3> QED
        BY <3>1, <3>2
    <2>4. d[1] = 1 /\ d[c.pi] = c.ti /\ (c.sp > 0 => d[c.sp + 1] = c.st)
      BY <1>1, <1>2, <2>1, <2>2, Cursors DEF ScanInv, LaidSoFar
    <2> QED
      BY <2>2, <2>3, <2>4
  <1>4. ASSUME NEW a \in Layouts(glob), Alignment(glob, a)
        PROVE  /\ a[c.sp + 1] >= c.st
               /\ a[c.pi] >= c.ti
               /\ ~(c.ti > glob.m) => a[c.pi] = a[c.sp + 1] + (c.ti - c.st)
    <2>1. NotPassed(a) /\ Takes(glob, a, cur.pi)
      BY <1>1, <1>4, Cursors DEF ScanInv, Alignment
    <2>2. a[cur.pi] \in Nat /\ a[cur.pi + 1] \in Nat /\ a[cur.sp + 1] \in Nat
      BY <1>1, Laid, Cursors DEF ScanInv
    <2>3. a[cur.pi + 1] = a[cur.pi] + 1 /\ a[cur.pi] = a[cur.sp + 1] + (cur.ti - cur.st) /\ a[cur.sp + 1] >= cur.st
      BY <1>1, <2>1, Cursors DEF ScanInv, Takes, NotPassed, TextDone
    <2> QED
      BY <1>2, <2>2, <2>3, Cursors DEF ScanInv
  <1>5. c.sp < c.pi /\ c.st <= c.ti /\ (c.sp = 0 => c.st = 1) /\ (c.sp > 0 => c.sp \in glob.star)
    BY <1>2, Cursors DEF ScanInv
  <1> QED
    BY <1>1, <1>2, <1>3, <1>4, <1>5, ScanMoves

(* A star stands for nothing at first.                                     *)
LEMMA StarMoves ==
  ASSUME ScanInv, TakeStar, UNCHANGED glob
  PROVE  ScanInv'
  <1> DEFINE c == [cur EXCEPT !.pi = cur.pi + 1, !.sp = cur.pi, !.st = cur.ti]
  <1>1. Open /\ cur' = c /\ cur.pi <= glob.n /\ cur.pi \in glob.star
    BY Cursors DEF ScanInv, TakeStar, OnStar
  <1>2. /\ c.pi = cur.pi + 1 /\ c.ti = cur.ti /\ c.sp = cur.pi /\ c.st = cur.ti /\ c.found = "open"
        /\ c \in [pi : 1..(glob.n + 1), ti : 1..(glob.m + 1), sp : 0..glob.n, st : 1..(glob.m + 1),
                  found : {"open", "yes", "no"}]
    <2>1. cur \in [pi : 1..(glob.n + 1), ti : 1..(glob.m + 1), sp : 0..glob.n, st : 1..(glob.m + 1),
                  found : {"open", "yes", "no"}]
      BY DEF ScanInv, ScanTypeOK
    <2>2. cur.pi + 1 \in 1..(glob.n + 1) /\ cur.pi \in 0..glob.n /\ cur.ti \in 1..(glob.m + 1) /\ cur.found = "open"
      BY <1>1, Cursors DEF ScanInv, Open
    <2> QED
      BY <2>1, <2>2
  <1> HIDE DEF c
  <1>3. \E b \in Layouts(glob) : /\ b[1] = 1
                                 /\ \A i \in 1..(c.pi - 1) : Takes(glob, b, i)
                                 /\ b[c.pi] = c.ti
                                 /\ c.sp > 0 => b[c.sp + 1] = c.st
    <2>1. PICK b \in Layouts(glob) : LaidSoFar(b)
      BY <1>1 DEF ScanInv
    <2> DEFINE d == [b EXCEPT ![cur.pi + 1] = cur.ti]
    <2>2. d \in Layouts(glob) /\ d[cur.pi + 1] = cur.ti
          /\ \A i \in 1..(glob.n + 1) : i # cur.pi + 1 => d[i] = b[i]
      <3>1. cur.ti \in 1..(glob.m + 1) /\ cur.pi + 1 \in 1..(glob.n + 1)
        BY <1>1, Cursors DEF ScanInv
      <3> QED
        BY <3>1 DEF Layouts
    <2> HIDE DEF d
    <2>3. ASSUME NEW i \in 1..(c.pi - 1) PROVE Takes(glob, d, i)
      <3>1. CASE i = cur.pi
        BY <1>1, <2>1, <2>2, <3>1, Cursors DEF ScanInv, Takes, LaidSoFar
      <3>2. CASE i # cur.pi
        BY <1>1, <1>2, <2>1, <2>2, <3>2, Cursors DEF ScanInv, Takes, LaidSoFar
      <3> QED
        BY <3>1, <3>2
    <2>4. d[1] = 1 /\ d[c.pi] = c.ti /\ (c.sp > 0 => d[c.sp + 1] = c.st)
      BY <1>1, <1>2, <2>1, <2>2, Cursors DEF ScanInv, LaidSoFar
    <2> QED
      BY <2>2, <2>3, <2>4
  <1>4. ASSUME NEW a \in Layouts(glob), Alignment(glob, a)
        PROVE  /\ a[c.sp + 1] >= c.st
               /\ a[c.pi] >= c.ti
               /\ ~(c.ti > glob.m) => a[c.pi] = a[c.sp + 1] + (c.ti - c.st)
    <2>1. NotPassed(a) /\ Takes(glob, a, cur.pi)
      BY <1>1, <1>4, Cursors DEF ScanInv, Alignment
    <2>2. a[cur.pi] \in Nat /\ a[cur.pi + 1] \in Nat
      BY <1>1, Laid, Cursors DEF ScanInv
    <2>3. a[cur.pi] <= a[cur.pi + 1] /\ a[cur.pi] >= cur.ti
      BY <1>1, <2>1, Cursors DEF ScanInv, Takes, NotPassed
    <2> QED
      BY <1>2, <2>2, <2>3, Cursors DEF ScanInv
  <1>5. c.sp < c.pi /\ c.st <= c.ti /\ (c.sp = 0 => c.st = 1) /\ (c.sp > 0 => c.sp \in glob.star)
    BY <1>1, <1>2, Cursors DEF ScanInv
  <1> QED
    BY <1>1, <1>2, <1>3, <1>4, <1>5, ScanMoves

(* The stars that are left stand for nothing.                              *)
LEMMA StarSkips ==
  ASSUME ScanInv, SkipStar, UNCHANGED glob
  PROVE  ScanInv'
  <1> DEFINE c == [cur EXCEPT !.pi = cur.pi + 1]
  <1>1. Open /\ cur' = c /\ cur.pi <= glob.n /\ cur.pi \in glob.star /\ cur.ti > glob.m
    BY Cursors DEF ScanInv, SkipStar, OnStar, TextDone
  <1>2. /\ c.pi = cur.pi + 1 /\ c.ti = cur.ti /\ c.sp = cur.sp /\ c.st = cur.st /\ c.found = "open"
        /\ c \in [pi : 1..(glob.n + 1), ti : 1..(glob.m + 1), sp : 0..glob.n, st : 1..(glob.m + 1),
                  found : {"open", "yes", "no"}]
    <2>1. cur \in [pi : 1..(glob.n + 1), ti : 1..(glob.m + 1), sp : 0..glob.n, st : 1..(glob.m + 1),
                  found : {"open", "yes", "no"}]
      BY DEF ScanInv, ScanTypeOK
    <2>2. cur.pi + 1 \in 1..(glob.n + 1) /\ cur.found = "open"
      BY <1>1, Cursors DEF ScanInv, Open
    <2> QED
      BY <2>1, <2>2
  <1> HIDE DEF c
  <1>3. \E b \in Layouts(glob) : /\ b[1] = 1
                                 /\ \A i \in 1..(c.pi - 1) : Takes(glob, b, i)
                                 /\ b[c.pi] = c.ti
                                 /\ c.sp > 0 => b[c.sp + 1] = c.st
    <2>1. PICK b \in Layouts(glob) : LaidSoFar(b)
      BY <1>1 DEF ScanInv
    <2> DEFINE d == [b EXCEPT ![cur.pi + 1] = cur.ti]
    <2>2. d \in Layouts(glob) /\ d[cur.pi + 1] = cur.ti
          /\ \A i \in 1..(glob.n + 1) : i # cur.pi + 1 => d[i] = b[i]
      <3>1. cur.ti \in 1..(glob.m + 1) /\ cur.pi + 1 \in 1..(glob.n + 1)
        BY <1>1, Cursors DEF ScanInv
      <3> QED
        BY <3>1 DEF Layouts
    <2> HIDE DEF d
    <2>3. ASSUME NEW i \in 1..(c.pi - 1) PROVE Takes(glob, d, i)
      <3>1. CASE i = cur.pi
        BY <1>1, <2>1, <2>2, <3>1, Cursors DEF ScanInv, Takes, LaidSoFar
      <3>2. CASE i # cur.pi
        BY <1>1, <1>2, <2>1, <2>2, <3>2, Cursors DEF ScanInv, Takes, LaidSoFar
      <3> QED
        BY <3>1, <3>2
    <2>4. d[1] = 1 /\ d[c.pi] = c.ti /\ (c.sp > 0 => d[c.sp + 1] = c.st)
      BY <1>1, <1>2, <2>1, <2>2, Cursors DEF ScanInv, LaidSoFar
    <2> QED
      BY <2>2, <2>3, <2>4
  <1>4. ASSUME NEW a \in Layouts(glob), Alignment(glob, a)
        PROVE  /\ a[c.sp + 1] >= c.st
               /\ a[c.pi] >= c.ti
               /\ ~(c.ti > glob.m) => a[c.pi] = a[c.sp + 1] + (c.ti - c.st)
    <2>1. NotPassed(a) /\ Takes(glob, a, cur.pi)
      BY <1>1, <1>4, Cursors DEF ScanInv, Alignment
    <2>2. a[cur.pi] \in Nat /\ a[cur.pi + 1] \in Nat
      BY <1>1, Laid, Cursors DEF ScanInv
    <2>3. a[cur.pi] <= a[cur.pi + 1] /\ a[cur.pi] >= cur.ti /\ a[cur.sp + 1] >= cur.st
      BY <1>1, <2>1, Cursors DEF ScanInv, Takes, NotPassed
    <2> QED
      BY <1>1, <1>2, <2>2, <2>3, Cursors DEF ScanInv
  <1>5. c.sp < c.pi /\ c.st <= c.ti /\ (c.sp = 0 => c.st = 1) /\ (c.sp > 0 => c.sp \in glob.star)
    BY <1>2, Cursors DEF ScanInv
  <1> QED
    BY <1>1, <1>2, <1>3, <1>4, <1>5, ScanMoves

(* Where the loop is stuck, what stands behind the last star does not begin*)
(* where it was tried.                                                     *)
LEMMA StuckHere ==
  ASSUME ScanInv, Open, Stuck, NEW a \in Layouts(glob), Alignment(glob, a)
  PROVE  a[cur.sp + 1] > cur.st
  <1>1. cur.ti <= glob.m /\ cur.pi \notin glob.star /\ (cur.pi <= glob.n => cur.ti \notin glob.fits[cur.pi])
        /\ (glob.call = "prefix" => cur.pi <= glob.n)
    BY Cursors DEF ScanInv, Stuck, TextDone, OnStar, Fitting, PatternDone
  <1>2. a[cur.sp + 1] >= cur.st /\ a[cur.pi] = a[cur.sp + 1] + (cur.ti - cur.st)
    BY <1>1, Cursors DEF ScanInv, NotPassed, TextDone
  <1>3. a[cur.sp + 1] \in Nat /\ a[cur.pi] \in Nat
    BY Laid, Cursors DEF ScanInv
  <1>4. a[cur.pi] # cur.ti
    <2>1. CASE cur.pi <= glob.n
      <3>1. cur.pi \in 1..glob.n
        BY <2>1, Cursors DEF ScanInv
      <3> QED
        BY <1>1, <2>1, <3>1 DEF Alignment, Takes
    <2>2. CASE ~(cur.pi <= glob.n)
      <3>1. cur.pi = glob.n + 1 /\ glob.call # "prefix"
        BY <1>1, <2>2, Cursors DEF ScanInv
      <3>2. a[cur.pi] = glob.m + 1
        BY <3>1 DEF Alignment
      <3> QED
        BY <1>1, <3>2, Cursors DEF ScanInv
    <2> QED
      BY <2>1, <2>2
  <1> QED
    BY <1>2, <1>3, <1>4, Cursors DEF ScanInv

(* The last star takes one token more.                                     *)
LEMMA BackMoves ==
  ASSUME ScanInv, GoBack, UNCHANGED glob
  PROVE  ScanInv'
  <1> DEFINE c == [cur EXCEPT !.pi = cur.sp + 1, !.ti = cur.st + 1, !.st = cur.st + 1]
  <1>1. Open /\ Stuck /\ cur' = c /\ cur.ti <= glob.m /\ cur.sp > 0 /\ cur.st <= cur.ti /\ cur.sp \in glob.star
    BY Cursors DEF ScanInv, GoBack, BackTo, Stuck, TextDone
  <1>2. /\ c.pi = cur.sp + 1 /\ c.ti = cur.st + 1 /\ c.sp = cur.sp /\ c.st = cur.st + 1 /\ c.found = "open"
        /\ c \in [pi : 1..(glob.n + 1), ti : 1..(glob.m + 1), sp : 0..glob.n, st : 1..(glob.m + 1),
                  found : {"open", "yes", "no"}]
    <2>1. cur \in [pi : 1..(glob.n + 1), ti : 1..(glob.m + 1), sp : 0..glob.n, st : 1..(glob.m + 1),
                  found : {"open", "yes", "no"}]
      BY DEF ScanInv, ScanTypeOK
    <2>2. cur.sp + 1 \in 1..(glob.n + 1) /\ cur.st + 1 \in 1..(glob.m + 1) /\ cur.found = "open"
      BY <1>1, Cursors DEF ScanInv, Open
    <2> QED
      BY <2>1, <2>2
  <1> HIDE DEF c
  <1>3. \E b \in Layouts(glob) : /\ b[1] = 1
                                 /\ \A i \in 1..(c.pi - 1) : Takes(glob, b, i)
                                 /\ b[c.pi] = c.ti
                                 /\ c.sp > 0 => b[c.sp + 1] = c.st
    <2>1. PICK b \in Layouts(glob) : LaidSoFar(b)
      BY <1>1 DEF ScanInv
    <2> DEFINE d == [b EXCEPT ![cur.sp + 1] = cur.st + 1]
    <2>2. d \in Layouts(glob) /\ d[cur.sp + 1] = cur.st + 1
          /\ \A i \in 1..(glob.n + 1) : i # cur.sp + 1 => d[i] = b[i]
      <3>1. cur.st + 1 \in 1..(glob.m + 1) /\ cur.sp + 1 \in 1..(glob.n + 1)
        BY <1>1, Cursors DEF ScanInv
      <3> QED
        BY <3>1 DEF Layouts
    <2> HIDE DEF d
    <2>3. ASSUME NEW i \in 1..(c.pi - 1) PROVE Takes(glob, d, i)
      <3>1. i \in 1..(cur.pi - 1) /\ i \in Nat /\ 1 <= i /\ i <= cur.sp /\ Takes(glob, b, i)
        BY <1>2, <2>1, Cursors DEF ScanInv, LaidSoFar
      <3>2. CASE i = cur.sp
        <4>1. b[cur.sp] <= cur.st /\ b[cur.sp] \in Nat
          BY <1>1, <2>1, <3>1, <3>2, Laid, Cursors DEF ScanInv, Takes, LaidSoFar
        <4>2. d[cur.sp] = b[cur.sp] /\ d[cur.sp + 1] = cur.st + 1
          BY <1>1, <2>2, Cursors DEF ScanInv
        <4> QED
          BY <1>1, <3>2, <4>1, <4>2, Cursors DEF ScanInv, Takes
      <3>3. CASE i # cur.sp
        <4>1. d[i] = b[i] /\ d[i + 1] = b[i + 1]
          BY <2>2, <3>1, <3>3, Cursors DEF ScanInv
        <4> QED
          BY <3>1, <4>1 DEF Takes
      <3> QED
        BY <3>2, <3>3
    <2>4. d[1] = 1 /\ d[c.pi] = c.ti /\ (c.sp > 0 => d[c.sp + 1] = c.st)
      BY <1>1, <1>2, <2>1, <2>2, Cursors DEF ScanInv, LaidSoFar
    <2> QED
      BY <2>2, <2>3, <2>4
  <1>4. ASSUME NEW a \in Layouts(glob), Alignment(glob, a)
        PROVE  /\ a[c.sp + 1] >= c.st
               /\ a[c.pi] >= c.ti
               /\ ~(c.ti > glob.m) => a[c.pi] = a[c.sp + 1] + (c.ti - c.st)
    <2>1. a[cur.sp + 1] > cur.st
      BY <1>1, <1>4, StuckHere
    <2>2. a[cur.sp + 1] \in Nat
      BY Laid, Cursors DEF ScanInv
    <2> QED
      BY <1>2, <2>1, <2>2, Cursors DEF ScanInv
  <1>5. c.sp < c.pi /\ c.st <= c.ti /\ (c.sp = 0 => c.st = 1) /\ (c.sp > 0 => c.sp \in glob.star)
    BY <1>1, <1>2, Cursors DEF ScanInv
  <1> QED
    BY <1>1, <1>2, <1>3, <1>4, <1>5, ScanMoves

(* The loop is left with what a match is.                                  *)
LEMMA ScanEnds ==
  ASSUME ScanInv, GiveUp \/ Succeed, UNCHANGED glob
  PROVE  ScanInv'
  <1>1. Open
    BY DEF GiveUp, Succeed
  <1>2. CASE GiveUp
    <2>1. ~Covers(glob)
      <3> SUFFICES ASSUME NEW a \in Layouts(glob), Alignment(glob, a) PROVE FALSE
        BY DEF Covers, Layouts
      <3>1. CASE Stuck /\ cur.sp = 0
        <4>1. a[1] > 1
          BY <1>1, <3>1, StuckHere DEF ScanInv
        <4> QED
          BY <4>1 DEF Alignment
      <3>2. CASE TextDone /\ ~OnStar /\ ~PatternDone
        <4>1. cur.ti > glob.m /\ cur.pi \notin glob.star /\ cur.pi \in 1..glob.n
          BY <3>2, Cursors DEF ScanInv, TextDone, OnStar, PatternDone
        <4>2. a[cur.pi + 1] = a[cur.pi] + 1 /\ a[cur.pi] >= cur.ti
          BY <1>1, <4>1 DEF Alignment, Takes, ScanInv, NotPassed
        <4>3. a[cur.pi] \in Nat /\ a[cur.pi + 1] \in Nat /\ a[cur.pi + 1] <= glob.m + 1
          BY <4>1, Laid, Cursors DEF ScanInv
        <4> QED
          BY <4>1, <4>2, <4>3, Cursors DEF ScanInv
      <3> QED
        BY <1>2, <3>1, <3>2 DEF GiveUp
    <2>2. cur' = [cur EXCEPT !.found = "no"]
      BY <1>2 DEF GiveUp, Leave
    <2> QED
      BY <2>1, <2>2 DEF ScanInv, ScanTypeOK, ScanMeansMatch, Open
  <1>3. CASE Succeed
    <2>1. Covers(glob)
      <3>1. PICK b \in Layouts(glob) : LaidSoFar(b)
        BY <1>1 DEF ScanInv
      <3>2. cur.pi = glob.n + 1 /\ (glob.call # "prefix" => cur.ti = glob.m + 1)
        BY <1>3, Cursors DEF ScanInv, Succeed, PatternDone, TextDone
      <3>3. \A i \in 1..glob.n : Takes(glob, b, i)
        BY <3>1, <3>2, Cursors DEF ScanInv, LaidSoFar
      <3> QED
        BY <3>1, <3>2, <3>3 DEF Covers, Layouts, Alignment, LaidSoFar
    <2>2. cur' = [cur EXCEPT !.found = "yes"]
      BY <1>3 DEF Succeed, Leave
    <2> QED
      BY <2>1, <2>2 DEF ScanInv, ScanTypeOK, ScanMeansMatch, Open
  <1> QED
    BY <1>2, <1>3

(* The loop invariant holds where a loop begins.                           *)
LEMMA ScanStarts == ScanInit => ScanInv
  <1> SUFFICES ASSUME ScanInit PROVE ScanInv
    OBVIOUS
  <1>1. IsCall(glob)
    BY GlobsAreCalls DEF ScanInit
  <1>2. glob.n \in Nat /\ glob.m \in Nat
    BY <1>1 DEF IsCall
  <1>3. cur.pi = 1 /\ cur.ti = 1 /\ cur.sp = 0 /\ cur.st = 1 /\ cur.found = "open"
    BY DEF ScanInit
  <1>4. ScanTypeOK
    BY <1>1, <1>2 DEF ScanInit, ScanTypeOK
  <1>5. \E b \in Layouts(glob) : LaidSoFar(b)
    <2> DEFINE b == [i \in 1..(glob.n + 1) |-> 1]
    <2>1. b \in Layouts(glob) /\ b[1] = 1
      BY <1>2 DEF Layouts
    <2> QED
      BY <1>2, <1>3, <2>1 DEF LaidSoFar
  <1>6. \A a \in Layouts(glob) : Alignment(glob, a) => NotPassed(a)
    BY <1>3 DEF Alignment, NotPassed
  <1> QED
    BY <1>3, <1>4, <1>5, <1>6 DEF ScanInv, ScanMeansMatch

(* Every step of a loop keeps it.                                          *)
LEMMA ScanKeeps == ScanInv /\ [ScanNext]_scanVars => ScanInv'
  <1> SUFFICES ASSUME ScanInv, [ScanNext]_scanVars PROVE ScanInv'
    OBVIOUS
  <1>1. CASE ScanNext
    BY <1>1, TokenMoves, StarMoves, StarSkips, BackMoves, ScanEnds DEF ScanNext
  <1>2. CASE UNCHANGED scanVars
    BY <1>2 DEF scanVars, ScanInv, ScanTypeOK, LaidSoFar, NotPassed, TextDone, Open, ScanMeansMatch
  <1> QED
    BY <1>1, <1>2

(* The single place to go back to, for every pattern and every text.       *)
THEOREM ScanFindsMatches == ScanSpec => [](ScanTypeOK /\ ScanMeansMatch)
  <1>1. ScanInv => ScanTypeOK /\ ScanMeansMatch
    BY DEF ScanInv
  <1> QED
    BY <1>1, ScanStarts, ScanKeeps, PTL DEF ScanSpec

(* The loops end.                                                          *)
THEOREM ScanGoesOn == ScanSpec => [][ScanAdvances]_scanVars
  <1>1. ScanInv /\ [ScanNext]_scanVars => [ScanAdvances]_scanVars
    <2> SUFFICES ASSUME ScanInv, ScanNext PROVE ScanAdvances
      BY DEF scanVars
    <2>0. cur \in [pi : 1..(glob.n + 1), ti : 1..(glob.m + 1), sp : 0..glob.n, st : 1..(glob.m + 1),
                  found : {"open", "yes", "no"}]
      BY DEF ScanInv, ScanTypeOK
    <2>1. CASE TakeToken \/ SkipStar
      <3>1. cur'.pi = cur.pi + 1 /\ cur'.st = cur.st
        BY <2>0, <2>1 DEF TakeToken, SkipStar
      <3> QED
        BY <3>1, Cursors DEF ScanInv, ScanAdvances
    <2>2. CASE TakeStar
      <3>1. cur'.pi = cur.pi + 1 /\ cur'.st = cur.ti
        BY <2>0, <2>2 DEF TakeStar
      <3> QED
        BY <3>1, Cursors DEF ScanInv, ScanAdvances
    <2>3. CASE GoBack
      <3>1. cur'.st = cur.st + 1
        BY <2>0, <2>3 DEF GoBack, BackTo
      <3> QED
        BY <3>1, Cursors DEF ScanInv, ScanAdvances
    <2>4. CASE GiveUp \/ Succeed
      BY <2>0, <2>4 DEF GiveUp, Succeed, Leave, ScanAdvances
    <2> QED
      BY <2>1, <2>2, <2>3, <2>4 DEF ScanNext
  <1> QED
    BY <1>1, ScanStarts, ScanKeeps, PTL DEF ScanSpec

-----------------------------------------------------------------------------
(* A set of numbers that has one has a least one.                          *)
LEMMA LeastNumber ==
  ASSUME NEW S \in SUBSET Nat, S # {}
  PROVE  \E m \in S : \A k \in S : m <= k
  <1>0. S \subseteq Nat
    OBVIOUS
  <1>1. PICK x \in S : \A y \in S : ~(<<y, x>> \in OpToRel(<, Nat))
    BY <1>0, WFMin, NatLessThanWellFounded, Zenon
  <1>2. \A y \in S : <<y, x>> \in Nat \X Nat /\ y < x => <<y, x>> \in OpToRel(<, Nat)
    BY DEF OpToRel
  <1>3. \A y \in S : ~(y < x)
    BY <1>1, <1>2
  <1>4. \A y \in S : x <= y
    BY <1>0, <1>3
  <1> QED
    BY <1>4

(* Without stars the tokens of an alignment lie one behind the other.      *)
LEMMA LiteralLayout ==
  ASSUME NEW g, g.n \in Nat, g.m \in Nat, g.star = {}, NEW a \in Layouts(g), Alignment(g, a)
  PROVE  \A i \in 1..(g.n + 1) : a[i] = i
  <1> DEFINE S == {i \in 1..(g.n + 1) : a[i] # i}
  <1>1. SUFFICES ASSUME S # {} PROVE FALSE
    OBVIOUS
  <1>2. PICK x \in S : \A k \in S : x <= k
    BY <1>1, LeastNumber, S \subseteq Nat, Zenon
  <1>3. x \in 1..(g.n + 1) /\ a[x] # x
    BY <1>2
  <1>4. CASE x = 1
    BY <1>3, <1>4 DEF Alignment
  <1>5. CASE x # 1
    <2>1. x - 1 \in 1..g.n /\ x - 1 \in 1..(g.n + 1) /\ x - 1 \notin S /\ (x - 1) + 1 = x
      BY <1>2, <1>3, <1>5
    <2>2. Takes(g, a, x - 1) /\ a[x - 1] = x - 1
      BY <2>1 DEF Alignment
    <2>3. a[(x - 1) + 1] = a[x - 1] + 1
      BY <2>2 DEF Takes
    <2> QED
      BY <1>3, <2>1, <2>2, <2>3
  <1> QED
    BY <1>4, <1>5

(* A pattern without stars covers what fits it place by place.             *)
LEMMA LiteralCovers ==
  ASSUME NEW g, g.n \in Nat, g.m \in Nat, g.star = {}
  PROVE  Covers(g) <=> /\ g.n <= g.m
                       /\ g.call # "prefix" => g.n = g.m
                       /\ \A i \in 1..g.n : i \in g.fits[i]
  <1>1. ASSUME Covers(g)
        PROVE  g.n <= g.m /\ (g.call # "prefix" => g.n = g.m) /\ \A i \in 1..g.n : i \in g.fits[i]
    <2>1. PICK a \in Layouts(g) : Alignment(g, a)
      BY <1>1 DEF Covers, Layouts
    <2>2. \A i \in 1..(g.n + 1) : a[i] = i
      BY <2>1, LiteralLayout
    <2>3. a[g.n + 1] = g.n + 1 /\ a[g.n + 1] \in 1..(g.m + 1)
      BY <2>2 DEF Layouts
    <2>4. ASSUME NEW i \in 1..g.n PROVE i \in g.fits[i]
      <3>1. Takes(g, a, i) /\ a[i] = i
        BY <2>1, <2>2 DEF Alignment
      <3> QED
        BY <3>1 DEF Takes
    <2> QED
      BY <2>1, <2>3, <2>4 DEF Alignment
  <1>2. ASSUME g.n <= g.m, g.call # "prefix" => g.n = g.m, \A i \in 1..g.n : i \in g.fits[i]
        PROVE  Covers(g)
    <2> DEFINE a == [i \in 1..(g.n + 1) |-> i]
    <2>1. a \in Layouts(g)
      BY <1>2 DEF Layouts
    <2>2. ASSUME NEW i \in 1..g.n PROVE Takes(g, a, i)
      BY <1>2 DEF Takes
    <2>3. Alignment(g, a)
      BY <1>2, <2>2 DEF Alignment
    <2> QED
      BY <2>1, <2>3 DEF Covers, Layouts
  <1> QED
    BY <1>1, <1>2

(* A segment without wildcards covers itself only.                         *)
LEMMA LiteralSegment ==
  ASSUME NEW p \in Seq(Char), NEW t \in Seq(Char), ~HasWildcard(p)
  PROVE  Covers(SegmentGlob(p, t)) <=> p = t
  <1> DEFINE g == SegmentGlob(p, t)
  <1>1. /\ Len(p) \in Nat /\ DOMAIN p = 1..Len(p)
        /\ Len(t) \in Nat /\ DOMAIN t = 1..Len(t)
    BY LenProperties
  <1>2. \A i \in 1..Len(p) : p[i] # "*" /\ p[i] # "?"
    BY <1>1 DEF HasWildcard, Wild
  <1>3. /\ g.n = Len(p) /\ g.m = Len(t) /\ g.star = {} /\ g.call = "segment"
        /\ \A i \in 1..Len(p) : g.fits[i] = {j \in 1..Len(t) : p[i] \in {"?", t[j]}}
    BY <1>2 DEF SegmentGlob
  <1> HIDE DEF g
  <1>4. Covers(g) <=> /\ g.n <= g.m
                      /\ g.call # "prefix" => g.n = g.m
                      /\ \A i \in 1..g.n : i \in g.fits[i]
    BY <1>1, <1>3, LiteralCovers
  <1>5. ASSUME Covers(g) PROVE p = t
    <2>1. Len(p) = Len(t) /\ \A i \in 1..Len(p) : p[i] = t[i]
      BY <1>1, <1>2, <1>3, <1>4, <1>5
    <2> QED
      BY <2>1, SeqEqual, Zenon
  <1>6. ASSUME p = t PROVE Covers(g)
    BY <1>1, <1>3, <1>4, <1>6
  <1> QED
    BY <1>5, <1>6 DEF g

(* A path without wildcards covers what begins with it, or itself.         *)
LEMMA LiteralPath ==
  ASSUME NEW call \in {"prefix", "exact"}, NEW pat \in Path, NEW path \in Path,
         \A i \in DOMAIN pat : ~HasWildcard(pat[i])
  PROVE  Covers(PathGlob(call, pat, path)) <=> /\ Len(pat) <= Len(path)
                                               /\ call = "exact" => Len(pat) = Len(path)
                                               /\ \A i \in 1..Len(pat) : pat[i] = path[i]
  <1> DEFINE g == PathGlob(call, pat, path)
  <1>1. /\ Len(pat) \in Nat /\ DOMAIN pat = 1..Len(pat)
        /\ Len(path) \in Nat /\ DOMAIN path = 1..Len(path)
    BY LenProperties DEF Path
  <1>2. \A i \in 1..Len(pat) : pat[i] # Globstar
    <2>1. HasWildcard(Globstar)
      BY DEF HasWildcard, Globstar, Wild
    <2> QED
      BY <1>1, <2>1
  <1>3. \A i \in 1..Len(pat) : \A j \in 1..Len(path) : segment_match(pat[i], path[j]) <=> pat[i] = path[j]
    BY <1>1 DEF segment_match
  <1>4. /\ g.n = Len(pat) /\ g.m = Len(path) /\ g.star = {} /\ g.call = call
        /\ \A i \in 1..Len(pat) : g.fits[i] = {j \in 1..Len(path) : segment_match(pat[i], path[j])}
    BY <1>2 DEF PathGlob
  <1> HIDE DEF g
  <1>5. Covers(g) <=> /\ g.n <= g.m
                      /\ g.call # "prefix" => g.n = g.m
                      /\ \A i \in 1..g.n : i \in g.fits[i]
    BY <1>1, <1>4, LiteralCovers
  <1>6. Covers(g) <=> /\ Len(pat) <= Len(path)
                      /\ call = "exact" => Len(pat) = Len(path)
                      /\ \A i \in 1..Len(pat) : i \in g.fits[i]
    BY <1>4, <1>5
  <1>7. ASSUME Len(pat) <= Len(path), NEW i \in 1..Len(pat)
        PROVE  i \in g.fits[i] <=> pat[i] = path[i]
    BY <1>1, <1>3, <1>4, <1>7
  <1> QED
    BY <1>6, <1>7 DEF g

-----------------------------------------------------------------------------
(* What a question says of its rules: their scores are numbers, and a rule *)
(* applies to the path or does not.                                        *)
Specificity(q, i) == CompiledRule(q.rules[i]).spec
Hit(q, i) == Applies(q.rules[i], q.path, q.depth, q.exe)
Hits(q) == {i \in DOMAIN q.rules : Hit(q, i)}
Outranks(q, i, j) ==
    \/ Specificity(q, i) > Specificity(q, j)
    \/ Specificity(q, i) = Specificity(q, j) /\ i < j

(* B is the best of the rules the loop has seen.                           *)
BestOf(q, seen, b) ==
    /\ b \in [spec : Int, idx : Nat]
    /\ b.idx = 0 => seen \cap Hits(q) = {}
    /\ b.idx # 0 => /\ b.idx \in seen \cap Hits(q)
                    /\ b.spec = Specificity(q, b.idx)
                    /\ \A j \in seen \cap Hits(q) : j # b.idx => Outranks(q, b.idx, j)

(* The number of literal characters is a number (pattern_specificity).     *)
LEMMA SpecificityIsNumber ==
  ASSUME NEW pat \in Path
  PROVE  pattern_specificity(pat) \in Int
  <1> DEFINE row == [i \in 1..Len(pat) |-> {i} \X {j \in 1..Len(pat[i]) : pat[i][j] \notin Wild}]
             rows == {row[i] : i \in 1..Len(pat)}
  <1>1. Len(pat) \in Nat /\ \A i \in 1..Len(pat) : pat[i] \in Seq(Char) /\ Len(pat[i]) \in Nat
    BY LenProperties, ElementOfSeq DEF Path
  <1>2. ASSUME NEW i \in 1..Len(pat) PROVE IsFiniteSet(row[i])
    <2> DEFINE J == {j \in 1..Len(pat[i]) : pat[i][j] \notin Wild}
    <2>0. 1 \in Int /\ Len(pat[i]) \in Int
      BY <1>1
    <2>1. IsFiniteSet(1..Len(pat[i]))
      BY <2>0, FS_Interval, Zenon
    <2>2. IsFiniteSet(J)
      BY <2>1, FS_Subset, J \in SUBSET (1..Len(pat[i])), Zenon
    <2>3. IsFiniteSet({i})
      BY FS_Singleton
    <2>4. IsFiniteSet({i} \X J)
      BY <2>2, <2>3, FS_Product, Zenon
    <2> QED
      BY <2>4
  <1>3. IsFiniteSet(rows)
    <2>1. row \in Surjection(1..Len(pat), rows)
      BY DEF Surjection
    <2>2. IsFiniteSet(1..Len(pat))
      BY <1>1, FS_Interval
    <2> HIDE DEF row, rows
    <2> QED
      BY <2>1, <2>2, FS_Surjection, Zenon
  <1>4. IsFiniteSet(UNION rows)
    <2>1. \A T \in rows : IsFiniteSet(T)
      BY <1>2
    <2> HIDE DEF rows
    <2> QED
      BY <1>3, <2>1, FS_UNION, Zenon
  <1>5. UNION rows = Literals(pat)
    BY DEF Literals
  <1>6. Cardinality(Literals(pat)) \in Nat
    BY <1>4, <1>5, FS_CardinalityType
  <1> QED
    BY <1>1, <1>6 DEF pattern_specificity

(* The rules of a question and their scores.                               *)
LEMMA RulesOf ==
  ASSUME NEW q, IsRuleQuestion(q)
  PROVE  /\ DOMAIN q.rules = 1..Len(q.rules) /\ Len(q.rules) \in Nat
         /\ \A i \in DOMAIN q.rules : Specificity(q, i) \in Int /\ i \in Nat /\ i # 0
         /\ Hits(q) \subseteq DOMAIN q.rules
  <1>1. DOMAIN q.rules = 1..Len(q.rules) /\ Len(q.rules) \in Nat
    BY LenProperties DEF IsRuleQuestion, IsTable
  <1>2. ASSUME NEW i \in DOMAIN q.rules PROVE Specificity(q, i) \in Int
    <2> DEFINE r == q.rules[i]
    <2>1. r.pattern \in Path /\ (r.exe # None => r.exe \in Path)
      BY DEF IsRuleQuestion
    <2>2. pattern_specificity(r.pattern) \in Int
      BY <2>1, SpecificityIsNumber
    <2>3. (IF r.exe # None THEN pattern_specificity(r.exe) ELSE 0) \in Int
      BY <2>1, SpecificityIsNumber
    <2>4. (IF r.when THEN 1 ELSE 0) \in Int
      OBVIOUS
    <2>5. Specificity(q, i) = pattern_specificity(r.pattern) + (IF r.when THEN 1 ELSE 0)
                                + (IF r.exe # None THEN pattern_specificity(r.exe) ELSE 0)
      BY DEF Specificity, CompiledRule
    <2> QED
      BY <2>2, <2>3, <2>4, <2>5
  <1> QED
    BY <1>1, <1>2 DEF Hits

(* A rule more: it takes the place of the best if it is better.            *)
LEMMA OneMore ==
  ASSUME NEW q, IsRuleQuestion(q), NEW seen, NEW b, BestOf(q, seen, b), 0 \notin seen,
         NEW i \in DOMAIN q.rules, i \notin seen, NEW c,
         c = IF Hit(q, i) /\ Better(Specificity(q, i), i, b)
             THEN [spec |-> Specificity(q, i), idx |-> i] ELSE b
  PROVE  BestOf(q, seen \cup {i}, c)
  <1>1. /\ i \in Nat /\ i # 0 /\ Specificity(q, i) \in Int
        /\ \A j \in Hits(q) : j \in Nat /\ Specificity(q, j) \in Int
        /\ (Hit(q, i) <=> i \in Hits(q))
    BY RulesOf DEF Hits
  <1>2. b.spec \in Int /\ b.idx \in Nat /\ b.idx # i
    BY <1>1 DEF BestOf
  <1>3. CASE Hit(q, i) /\ Better(Specificity(q, i), i, b)
    <2>1. c = [spec |-> Specificity(q, i), idx |-> i]
      BY <1>3
    <2>2. c \in [spec : Int, idx : Nat] /\ c.spec = Specificity(q, i) /\ c.idx = i
      BY <1>1, <2>1
    <2>3. ASSUME NEW j \in (seen \cup {i}) \cap Hits(q), j # i PROVE Outranks(q, i, j)
      <3>1. CASE b.idx = 0
        BY <2>3, <3>1 DEF BestOf
      <3>2. CASE b.idx # 0 /\ j = b.idx
        BY <1>1, <1>2, <1>3, <3>2 DEF BestOf, Better, Outranks
      <3>3. CASE b.idx # 0 /\ j # b.idx
        <4>1. Outranks(q, b.idx, j) /\ b.spec = Specificity(q, b.idx)
          BY <2>3, <3>3 DEF BestOf
        <4>2. j \in Nat /\ Specificity(q, j) \in Int
          BY <1>1, <2>3
        <4> QED
          BY <1>1, <1>2, <1>3, <3>3, <4>1, <4>2 DEF Better, Outranks
      <3> QED
        BY <3>1, <3>2, <3>3
    <2> QED
      BY <1>1, <1>3, <2>2, <2>3 DEF BestOf
  <1>4. CASE ~(Hit(q, i) /\ Better(Specificity(q, i), i, b))
    <2>1. c = b
      BY <1>4
    <2>2. CASE ~Hit(q, i)
      BY <1>1, <2>1, <2>2 DEF BestOf
    <2>3. CASE Hit(q, i)
      <3>1. b.idx # 0 /\ Outranks(q, b.idx, i)
        BY <1>1, <1>2, <1>4, <2>3 DEF Better, Outranks, BestOf
      <3> QED
        BY <2>1, <3>1 DEF BestOf
    <2> QED
      BY <2>2, <2>3
  <1> QED
    BY <1>3, <1>4

(* The best of all rules that apply is the one the table order chooses.    *)
LEMMA BestIsChosen ==
  ASSUME NEW q, IsRuleQuestion(q), NEW seen, Hits(q) \subseteq seen, NEW b, BestOf(q, seen, b)
  PROVE  b.idx = best_explicit_rule_match(q.rules, q.path, q.depth, q.exe)
  <1> DEFINE spec == [i \in DOMAIN q.rules |-> CompiledRule(q.rules[i]).spec]
             First(i) == \A j \in Hits(q) \ {i} : spec[i] > spec[j] \/ (spec[i] = spec[j] /\ i < j)
  <1>1. best_explicit_rule_match(q.rules, q.path, q.depth, q.exe)
          = IF Hits(q) = {} THEN 0 ELSE CHOOSE i \in Hits(q) : First(i)
    BY DEF best_explicit_rule_match, Hits, Hit
  <1>2. /\ Hits(q) \subseteq DOMAIN q.rules
        /\ \A i \in Hits(q) : i \in Nat /\ i # 0 /\ spec[i] \in Int /\ spec[i] = Specificity(q, i)
    BY RulesOf DEF Specificity
  <1> HIDE DEF spec
  <1>3. CASE Hits(q) = {}
    BY <1>1, <1>3 DEF BestOf
  <1>4. CASE Hits(q) # {}
    <2>1. b.idx \in Hits(q) /\ First(b.idx)
      BY <1>2, <1>4 DEF BestOf, Outranks
    <2>2. ASSUME NEW k \in Hits(q), First(k) PROVE k = b.idx
      BY <1>2, <2>1, <2>2
    <2> HIDE DEF First
    <2>3. (CHOOSE i \in Hits(q) : First(i)) = b.idx
      BY <2>1, <2>2
    <2> QED
      BY <1>1, <1>4, <2>3
  <1> QED
    BY <1>3, <1>4

-----------------------------------------------------------------------------
(* The candidates of a question.                                           *)
Candidates(q) == candidate_indices(RuleIndex(q.rules), Filtered(q.path))
Passed(q, i) == ~Skipped(CompiledRule(q.rules[i]), Filtered(q.path), q.depth, q.exe)
Segs(q, i) == Filtered(q.rules[i].pattern)
WildRule(q, i) == \E k \in DOMAIN Segs(q, i) : HasWildcard(Segs(q, i)[k])

(* Along the path the trie has the nodes of a literal pattern iff the path *)
(* begins with it (candidate_indices).                                     *)
LEMMA TrieWalk ==
  ASSUME NEW segs \in Path, NEW path \in Path, NEW Nodes,
         \A n \in 0..Len(segs) : SubSeq(segs, 1, n) \in Nodes
  PROVE  (\E n \in 0..Len(path) : /\ \A m \in 0..n : SubSeq(path, 1, m) \in Nodes
                                  /\ segs = SubSeq(path, 1, n))
         <=> (Len(segs) <= Len(path) /\ \A k \in 1..Len(segs) : segs[k] = path[k])
  <1>1. Len(segs) \in Nat /\ Len(path) \in Nat
    BY LenProperties DEF Path
  <1>2. ASSUME NEW s \in Path, NEW n \in 0..Len(s)
        PROVE  /\ SubSeq(s, 1, n) \in Path /\ Len(SubSeq(s, 1, n)) = n
               /\ \A k \in 1..n : SubSeq(s, 1, n)[k] = s[k]
    <2>1. Len(s) \in Nat /\ n \in Nat /\ n \in Int /\ 1 \in Int /\ \A k \in 1..n : s[k] \in Seq(Char)
      BY LenProperties, ElementOfSeq DEF Path
    <2>2. /\ SubSeq(s, 1, n) \in Seq(Seq(Char))
          /\ Len(SubSeq(s, 1, n)) = IF 1 <= n THEN n - 1 + 1 ELSE 0
          /\ \A k \in 1..(n - 1 + 1) : SubSeq(s, 1, n)[k] = s[1 + k - 1]
      BY <2>1, SubSeqProperties
    <2>3. n - 1 + 1 = n /\ \A k \in 1..n : 1 + k - 1 = k
      BY <2>1
    <2> QED
      BY <2>1, <2>2, <2>3 DEF Path
  <1>3. ASSUME NEW n \in 0..Len(path), segs = SubSeq(path, 1, n)
        PROVE  Len(segs) <= Len(path) /\ \A k \in 1..Len(segs) : segs[k] = path[k]
    BY <1>1, <1>2, <1>3
  <1>4. ASSUME Len(segs) <= Len(path), \A k \in 1..Len(segs) : segs[k] = path[k]
        PROVE  \E n \in 0..Len(path) : /\ \A m \in 0..n : SubSeq(path, 1, m) \in Nodes
                                       /\ segs = SubSeq(path, 1, n)
    <2>1. ASSUME NEW m \in 0..Len(segs) PROVE SubSeq(path, 1, m) = SubSeq(segs, 1, m)
      <3>1. m \in 0..Len(path)
        BY <1>1, <1>4
      <3>2. /\ SubSeq(path, 1, m) \in Path /\ Len(SubSeq(path, 1, m)) = m
            /\ \A k \in 1..m : SubSeq(path, 1, m)[k] = path[k]
        BY <1>2, <3>1
      <3>3. /\ SubSeq(segs, 1, m) \in Path /\ Len(SubSeq(segs, 1, m)) = m
            /\ \A k \in 1..m : SubSeq(segs, 1, m)[k] = segs[k]
        BY <1>2
      <3>4. \A k \in 1..m : SubSeq(path, 1, m)[k] = SubSeq(segs, 1, m)[k]
        BY <1>1, <1>4, <3>2, <3>3
      <3> QED
        BY <3>2, <3>3, <3>4, SeqEqual, Zenon DEF Path
    <2>2. segs = SubSeq(segs, 1, Len(segs))
      BY SubSeqFull, Zenon DEF Path
    <2>3. Len(segs) \in 0..Len(path) /\ Len(segs) \in 0..Len(segs)
      BY <1>1, <1>4
    <2> QED
      BY <2>1, <2>2, <2>3
  <1> QED
    BY <1>3, <1>4

(* The candidates are rules of the table, and those the loop does not skip *)
(* are the ones that apply: the trie finds every literal rule that covers  *)
(* the path and no other, the rules with wildcards are all tried.          *)
LEMMA CandidatesAreHits ==
  ASSUME NEW q, IsRuleQuestion(q)
  PROVE  /\ Candidates(q) \subseteq DOMAIN q.rules
         /\ \A i \in DOMAIN q.rules : Hit(q, i) <=> i \in Candidates(q) /\ Passed(q, i)
  <1>7. PICK path : path = Filtered(q.path)
    OBVIOUS
  <1>8. PICK index : index = RuleIndex(q.rules)
    OBVIOUS
  <1> DEFINE literal == {i \in DOMAIN q.rules : ~WildRule(q, i)}
             nodes == {<<>>} \cup UNION {{SubSeq(Segs(q, i), 1, n) : n \in 0..Len(Segs(q, i))} : i \in literal}
             Walked(n) == \A m \in 0..n : SubSeq(path, 1, m) \in nodes
  <1>1. /\ path \in Path
        /\ \A i \in DOMAIN q.rules : Segs(q, i) \in Path
    BY <1>7 DEF IsRuleQuestion, Segs
  <1>2. \A i \in DOMAIN q.rules : /\ CompiledRule(q.rules[i]).segs = Segs(q, i)
                                  /\ CompiledRule(q.rules[i]).wildcard = WildRule(q, i)
    BY DEF CompiledRule, Segs, WildRule
  <1>3. /\ index.trie = [n \in nodes |-> {i \in literal : Segs(q, i) = n}]
        /\ index.wildcards = DOMAIN q.rules \ literal
    <2> DEFINE compiled == [i \in DOMAIN q.rules |-> CompiledRule(q.rules[i])]
    <2>1. DOMAIN compiled = DOMAIN q.rules
      OBVIOUS
    <2>2. \A i \in DOMAIN q.rules : compiled[i].segs = Segs(q, i) /\ compiled[i].wildcard = WildRule(q, i)
      BY <1>2
    <2>3. index = build(compiled)
      BY <1>8 DEF RuleIndex
    <2> HIDE DEF compiled
    <2>4. {i \in DOMAIN compiled : ~compiled[i].wildcard} = literal
      BY <2>1, <2>2
    <2>5. UNION {{SubSeq(compiled[i].segs, 1, n) : n \in 0..Len(compiled[i].segs)} : i \in literal}
            = UNION {{SubSeq(Segs(q, i), 1, n) : n \in 0..Len(Segs(q, i))} : i \in literal}
      BY <2>2
    <2>6. \A n : {i \in literal : compiled[i].segs = n} = {i \in literal : Segs(q, i) = n}
      BY <2>2
    <2>7. [n \in nodes |-> {i \in literal : compiled[i].segs = n}]
            = [n \in nodes |-> {i \in literal : Segs(q, i) = n}]
      BY <2>6
    <2>8. /\ build(compiled).trie = [n \in nodes |-> {i \in literal : compiled[i].segs = n}]
          /\ build(compiled).wildcards = DOMAIN compiled \ literal
      BY <2>4, <2>5 DEF build
    <2> QED
      BY <2>1, <2>3, <2>7, <2>8
  <1>4. \A i : i \in Candidates(q) <=>
               \/ i \in DOMAIN q.rules \ literal
               \/ i \in literal /\ \E n \in 0..Len(path) : Walked(n) /\ Segs(q, i) = SubSeq(path, 1, n)
    <2>1. \A n \in 0..Len(path) : n \in 0..n
      BY <1>1, LenProperties DEF Path
    <2>2. ASSUME NEW n \in 0..Len(path), Walked(n)
          PROVE  index.trie[SubSeq(path, 1, n)] = {i \in literal : Segs(q, i) = SubSeq(path, 1, n)}
      <3>1. SubSeq(path, 1, n) \in nodes
        BY <2>1, <2>2
      <3> HIDE DEF nodes, literal
      <3> QED
        BY <1>3, <3>1
    <2>3. DOMAIN index.trie = nodes
      <3> HIDE DEF nodes, literal
      <3> QED
        BY <1>3
    <2>4. \A n : n \in Along(index.trie, path) <=> n \in 0..Len(path) /\ Walked(n)
      <3> HIDE DEF nodes, literal
      <3> QED
        BY <2>3 DEF Along
    <2>5. \A i : i \in Candidates(q) <=>
                 /\ i \in DOMAIN index.compiled
                 /\ \/ i \in index.wildcards
                    \/ \E n \in Along(index.trie, path) : i \in index.trie[SubSeq(path, 1, n)]
      BY <1>7, <1>8 DEF Candidates, candidate_indices
    <2>6. DOMAIN index.compiled = DOMAIN q.rules /\ literal \subseteq DOMAIN q.rules
      BY <1>8 DEF RuleIndex, build
    <2> DEFINE Reached(i) == \E n \in 0..Len(path) : Walked(n) /\ Segs(q, i) = SubSeq(path, 1, n)
    <2> HIDE DEF nodes, literal, Walked
    <2>7. ASSUME NEW i
          PROVE  (\E n \in Along(index.trie, path) : i \in index.trie[SubSeq(path, 1, n)])
                   <=> i \in literal /\ Reached(i)
      <3>1. ASSUME NEW n \in Along(index.trie, path), i \in index.trie[SubSeq(path, 1, n)]
            PROVE  i \in literal /\ Reached(i)
        <4>1. n \in 0..Len(path) /\ Walked(n)
          BY <2>4
        <4> QED
          BY <2>2, <3>1, <4>1
      <3>2. ASSUME i \in literal, NEW n \in 0..Len(path), Walked(n), Segs(q, i) = SubSeq(path, 1, n)
            PROVE  n \in Along(index.trie, path) /\ i \in index.trie[SubSeq(path, 1, n)]
        BY <2>2, <2>4, <3>2
      <3> QED
        BY <3>1, <3>2
    <2>8. index.wildcards = DOMAIN q.rules \ literal
      BY <1>3
    <2> HIDE DEF Reached
    <2>9. ASSUME NEW i
          PROVE  i \in Candidates(q) <=> i \in DOMAIN q.rules \ literal \/ (i \in literal /\ Reached(i))
      BY <2>5, <2>6, <2>7, <2>8
    <2> QED
      BY <2>9 DEF Reached
  <1>5. ASSUME NEW i \in DOMAIN q.rules
        PROVE  Hit(q, i) <=> i \in Candidates(q) /\ Passed(q, i)
    <2>1. /\ Hit(q, i) <=> prefix_match(Segs(q, i), path) /\ Filters(CompiledRule(q.rules[i]), q.depth, q.exe)
          /\ Passed(q, i) <=> /\ WildRule(q, i) => prefix_match(Segs(q, i), path)
                             /\ Filters(CompiledRule(q.rules[i]), q.depth, q.exe)
      BY <1>2, <1>7 DEF Hit, Passed, Applies, Skipped, Segs
    <2>2. CASE WildRule(q, i)
      BY <1>4, <2>1, <2>2
    <2>3. CASE ~WildRule(q, i)
      <3>1. i \in literal /\ i \notin DOMAIN q.rules \ literal
        BY <2>3
      <3>2. \A n \in 0..Len(Segs(q, i)) : SubSeq(Segs(q, i), 1, n) \in nodes
        BY <3>1
      <3>3. \A k \in DOMAIN Segs(q, i) : ~HasWildcard(Segs(q, i)[k])
        BY <2>3 DEF WildRule
      <3> HIDE DEF nodes, literal
      <3>4. (\E n \in 0..Len(path) : Walked(n) /\ Segs(q, i) = SubSeq(path, 1, n))
              <=> (Len(Segs(q, i)) <= Len(path) /\ \A k \in 1..Len(Segs(q, i)) : Segs(q, i)[k] = path[k])
        BY <1>1, <3>2, TrieWalk
      <3>5. prefix_match(Segs(q, i), path)
              <=> (Len(Segs(q, i)) <= Len(path) /\ \A k \in 1..Len(Segs(q, i)) : Segs(q, i)[k] = path[k])
        BY <1>1, <3>3, LiteralPath DEF prefix_match
      <3> HIDE DEF Walked
      <3> QED
        BY <1>4, <2>1, <2>3, <3>1, <3>4, <3>5
    <2> QED
      BY <2>2, <2>3
  <1>6. Candidates(q) \subseteq DOMAIN q.rules
    BY <1>4
  <1> QED
    BY <1>5, <1>6

-----------------------------------------------------------------------------
(* The loop over the candidates: the best of those it has looked at.       *)
RuleInv ==
    /\ asked \in PathQuestions
    /\ todo \subseteq Candidates(asked)
    /\ BestOf(asked, Candidates(asked) \ todo, best)

(* At first the loop has looked at no candidate.                           *)
LEMMA RuleStarts == RuleInit => RuleInv
  <1> SUFFICES ASSUME RuleInit PROVE RuleInv
    OBVIOUS
  <1>1. asked \in PathQuestions /\ todo = Candidates(asked) /\ best = [spec |-> 0, idx |-> 0]
    BY DEF RuleInit, Candidates, NoRule
  <1>2. best \in [spec : Int, idx : Nat] /\ best.idx = 0
    BY <1>1
  <1> QED
    BY <1>1, <1>2 DEF RuleInv, BestOf

(* A candidate more: its turn may come before or behind the best one in    *)
(* the table (best_explicit_rule_match).                                   *)
LEMMA RuleKeeps == RuleInv /\ RuleNext => RuleInv'
  <1> SUFFICES ASSUME RuleInv, NEW i \in todo, LookAt(i) PROVE RuleInv'
    BY DEF RuleNext
  <1>1. PICK q \in PathQuestions : q = asked /\ asked' = q
    BY DEF RuleInv, LookAt
  <1>2. IsRuleQuestion(q)
    BY ChoiceQuestions
  <1>3. i \in Candidates(q) /\ i \in DOMAIN q.rules /\ todo \subseteq Candidates(q) /\ todo' = todo \ {i}
    BY <1>1, <1>2, CandidatesAreHits DEF RuleInv, LookAt
  <1>4. best' = IF Passed(q, i) /\ Better(Specificity(q, i), i, best)
                THEN [spec |-> Specificity(q, i), idx |-> i] ELSE best
    BY <1>1 DEF LookAt, Passed, Specificity
  <1>5. Passed(q, i) <=> Hit(q, i)
    BY <1>2, <1>3, CandidatesAreHits
  <1>6. best' = IF Hit(q, i) /\ Better(Specificity(q, i), i, best)
                THEN [spec |-> Specificity(q, i), idx |-> i] ELSE best
    BY <1>4, <1>5
  <1>7. 0 \notin Candidates(q)
    BY <1>2, CandidatesAreHits, RulesOf
  <1>8. PICK seen : seen = Candidates(q) \ todo
    OBVIOUS
  <1>9. BestOf(q, seen, best)
    BY <1>1, <1>8 DEF RuleInv
  <1>10. i \notin seen /\ 0 \notin seen
    BY <1>3, <1>7, <1>8
  <1>11. BestOf(q, seen \cup {i}, best')
    BY <1>2, <1>3, <1>6, <1>9, <1>10, OneMore
  <1>12. seen \cup {i} = Candidates(q) \ todo'
    BY <1>3, <1>8
  <1> QED
    BY <1>1, <1>3, <1>11, <1>12 DEF RuleInv

(* With no candidate left the best is the rule of the table.               *)
LEMMA RuleChoiceIsInOrder == RuleInv => ChoiceIsInOrder
  <1> SUFFICES ASSUME RuleInv, todo = {}
               PROVE  best.idx = best_explicit_rule_match(asked.rules, asked.path, asked.depth, asked.exe)
    BY DEF ChoiceIsInOrder
  <1>1. IsRuleQuestion(asked)
    BY ChoiceQuestions DEF RuleInv
  <1>2. Hits(asked) \subseteq Candidates(asked)
    BY <1>1, CandidatesAreHits DEF Hits
  <1>3. BestOf(asked, Candidates(asked), best)
    BY DEF RuleInv
  <1> QED
    BY <1>1, <1>2, <1>3, BestIsChosen

-----------------------------------------------------------------------------
(* The loop of the trace: the best of the rules of the table so far.       *)
TraceInv ==
    /\ asked \in WhyQuestions
    /\ todo \subseteq DOMAIN asked.rules
    /\ \A i \in DOMAIN asked.rules \ todo : \A j \in todo : i < j
    /\ BestOf(asked, DOMAIN asked.rules \ todo, best)

(* The trace begins with the first rule.                                   *)
LEMMA TraceStarts == TraceInit => TraceInv
  <1> SUFFICES ASSUME TraceInit PROVE TraceInv
    OBVIOUS
  <1>1. asked \in WhyQuestions /\ todo = DOMAIN asked.rules /\ best = [spec |-> 0, idx |-> 0]
    BY DEF TraceInit, NoRule
  <1>2. best \in [spec : Int, idx : Nat] /\ best.idx = 0
    BY <1>1
  <1> QED
    BY <1>1, <1>2 DEF TraceInv, BestOf

(* In table order only a better score outranks (decide_traced).            *)
LEMMA TraceKeeps == TraceInv /\ TraceNext => TraceInv'
  <1> SUFFICES ASSUME TraceInv, NEW i \in todo, TraceLookAt(i) PROVE TraceInv'
    BY DEF TraceNext
  <1>1. PICK q \in WhyQuestions : q = asked /\ asked' = q
    BY DEF TraceInv, TraceLookAt
  <1>2. IsRuleQuestion(q)
    BY TraceQuestions DEF IsWhyQuestion
  <1>3. i \in DOMAIN q.rules /\ todo \subseteq DOMAIN q.rules /\ todo' = todo \ {i} /\ \A j \in todo : i <= j
    BY <1>1 DEF TraceInv, TraceLookAt
  <1>4. best' = IF Hit(q, i) /\ Outdoes(Specificity(q, i), best)
                THEN [spec |-> Specificity(q, i), idx |-> i] ELSE best
    BY <1>1 DEF TraceLookAt, Hit, Specificity
  <1>5. PICK seen : seen = DOMAIN q.rules \ todo
    OBVIOUS
  <1>6. BestOf(q, seen, best) /\ \A k \in seen : k < i
    BY <1>1, <1>5 DEF TraceInv
  <1>7. /\ \A j \in DOMAIN q.rules : j \in Nat /\ j # 0
        /\ Specificity(q, i) \in Int
    BY <1>2, <1>3, RulesOf
  <1>8. Outdoes(Specificity(q, i), best) <=> Better(Specificity(q, i), i, best)
    BY <1>3, <1>6, <1>7 DEF Outdoes, Better, BestOf
  <1>9. best' = IF Hit(q, i) /\ Better(Specificity(q, i), i, best)
                THEN [spec |-> Specificity(q, i), idx |-> i] ELSE best
    BY <1>4, <1>8
  <1>10. i \notin seen /\ 0 \notin seen
    BY <1>5, <1>7
  <1>11. BestOf(q, seen \cup {i}, best')
    BY <1>2, <1>3, <1>6, <1>9, <1>10, OneMore
  <1>12. seen \cup {i} = DOMAIN q.rules \ todo'
    BY <1>3, <1>5
  <1>13. ASSUME NEW k \in DOMAIN q.rules \ todo', NEW j \in todo' PROVE k < j
    <2>1. i \in Nat /\ j \in Nat /\ k \in Nat /\ i < j
      BY <1>3, <1>7
    <2> QED
      BY <1>3, <1>5, <1>6, <1>12, <2>1
  <1> QED
    BY <1>1, <1>3, <1>11, <1>12, <1>13 DEF TraceInv

(* The rule that the trace ends with is the one that decides.              *)
LEMMA TracedRuleDecides ==
  TraceInv /\ todo = {}
    => best.idx = best_explicit_rule_match(asked.rules, asked.path, asked.depth, asked.exe)
  <1> SUFFICES ASSUME TraceInv, todo = {}
               PROVE  best.idx = best_explicit_rule_match(asked.rules, asked.path, asked.depth, asked.exe)
    OBVIOUS
  <1>1. IsRuleQuestion(asked)
    BY TraceQuestions DEF TraceInv, IsWhyQuestion
  <1>2. Hits(asked) \subseteq DOMAIN asked.rules
    BY DEF Hits
  <1>3. BestOf(asked, DOMAIN asked.rules, best)
    BY DEF TraceInv
  <1> QED
    BY <1>1, <1>2, <1>3, BestIsChosen

-----------------------------------------------------------------------------
(* A path holds no wildcard: a key that covers it without one is the path, *)
(* so the mock found by the engine, which tells literal keys from patterns,*)
(* is the one found by the trace, which does not (find_mock_payload).      *)
LEMMA SameMock ==
  ASSUME NEW q, IsWhyQuestion(q)
  PROVE  find_mock_payload(q) = db_find_mock_payload(q)
  <1>1. q.path \in Path /\ \A k \in DOMAIN q.path : ~HasWildcard(q.path[k])
    BY DEF IsWhyQuestion, IsRuleQuestion
  <1>2. \A i \in DOMAIN q.mocks : q.mocks[i] \in Path
    <2>1. DOMAIN q.mocks = 1..Len(q.mocks)
      BY LenProperties DEF IsWhyQuestion, IsKeys
    <2> QED
      BY <2>1, ElementOfSeq DEF IsWhyQuestion, IsKeys
  <1>3. \A i \in DOMAIN q.mocks : q.mocks[i] = q.path => ~Wildcarded(q.mocks[i])
    BY <1>1 DEF Wildcarded
  <1>4. ASSUME NEW i \in DOMAIN q.mocks, ~Wildcarded(q.mocks[i]), exact_match(q.mocks[i], q.path)
        PROVE  q.mocks[i] = q.path
    <2>1. q.mocks[i] \in Path /\ \A k \in DOMAIN q.mocks[i] : ~HasWildcard(q.mocks[i][k])
      BY <1>2, <1>4 DEF Wildcarded
    <2>2. /\ Len(q.mocks[i]) = Len(q.path)
          /\ \A k \in 1..Len(q.mocks[i]) : q.mocks[i][k] = q.path[k]
      BY <1>1, <1>4, <2>1, LiteralPath DEF exact_match
    <2> QED
      BY <1>1, <2>1, <2>2, SeqEqual, Zenon DEF Path
  <1>5. CASE \E i \in DOMAIN q.mocks : q.mocks[i] = q.path
    BY <1>3, <1>5 DEF find_mock_payload, db_find_mock_payload
  <1>6. CASE ~\E i \in DOMAIN q.mocks : q.mocks[i] = q.path
    <2>1. {i \in DOMAIN q.mocks : Wildcarded(q.mocks[i]) /\ exact_match(q.mocks[i], q.path)}
            = {i \in DOMAIN q.mocks : exact_match(q.mocks[i], q.path)}
      BY <1>4, <1>6
    <2> QED
      BY <1>6, <2>1 DEF find_mock_payload, db_find_mock_payload
  <1> QED
    BY <1>5, <1>6

(* What the trace tells of a mode that a rule or a default gives is what   *)
(* the engine makes of that mode.                                          *)
LEMMA ModeIsTold ==
  ASSUME NEW q, IsWhyQuestion(q), NEW t, t.mode \in AccessMode,
         t.by \in {"rule", "default", "none"}
  PROVE  LET told == TracedByRule(t, q)
             does == ByMode(t.mode, q)
         IN  /\ Told(told) = does.mode
             /\ told.target = does.overlay \/ (q.index = "mock_dirs" /\ told.target = "overlay")
             /\ told.mock = None
             /\ does.mode # "Mock"
             /\ told.by = t.by /\ told.prefix = t.prefix
  <1>1. q.write \in BOOLEAN /\ q.index \in {None, "overlay", "mock_dirs"}
    BY DEF IsWhyQuestion
  <1>2. CASE t.mode = "Passthrough" /\ ~q.write /\ (q.index # None \/ q.physical)
    BY <1>1, <1>2 DEF TracedByRule, ByMode, Trace, Decided, Told
  <1>3. CASE t.mode = "Passthrough" /\ ~(~q.write /\ (q.index # None \/ q.physical))
    BY <1>1, <1>3 DEF TracedByRule, ByMode, Trace, Decided, Told
  <1>4. CASE t.mode = "Deny"
    BY <1>1, <1>4 DEF TracedByRule, ByMode, Trace, Decided, Told
  <1>5. CASE t.mode \in {"Cow", "Redirect"}
    BY <1>1, <1>5 DEF TracedByRule, ByMode, Trace, Decided, Told
  <1> QED
    BY <1>2, <1>3, <1>4, <1>5 DEF AccessMode

(* The trace tells what the engine does, given the rule that decides       *)
(* (decide_traced and compute).                                            *)
LEMMA TraceTells ==
  ASSUME NEW q, IsWhyQuestion(q), NEW by,
         by = best_explicit_rule_match(q.rules, q.path, q.depth, q.exe),
         by # 0 => by \in DOMAIN q.rules
  PROVE  Explains(decide_traced(q, by), compute(q), q)
  <1>1. find_mock_payload(q) = db_find_mock_payload(q)
    BY SameMock
  <1>2. CASE InProject(q)
    BY <1>2 DEF Explains, decide_traced, compute, Trace, Decided, Told
  <1>3. CASE ~InProject(q) /\ Gone(q)
    BY <1>3 DEF Explains, decide_traced, compute, Trace, Decided, Told
  <1>4. CASE ~InProject(q) /\ ~Gone(q) /\ find_mock_payload(q) # None
    <2>1. decide_traced(q, by) = [Trace("Cow", "overlay", "none", None) EXCEPT !.mock = q.path]
      BY <1>1, <1>4 DEF decide_traced
    <2>2. /\ decide_traced(q, by).decision = "Cow" /\ decide_traced(q, by).target = "overlay"
          /\ decide_traced(q, by).by = "none" /\ decide_traced(q, by).mock = q.path
          /\ q.path # None
      BY <2>1 DEF Trace, IsWhyQuestion
    <2>3. compute(q) = [mode |-> "Mock", overlay |-> "overlay"]
      BY <1>4 DEF compute, Decided
    <2> QED
      BY <1>4, <2>2, <2>3 DEF Explains, Told
  <1>5. CASE /\ ~InProject(q) /\ ~Gone(q) /\ find_mock_payload(q) = None
             /\ matched_mock_dir(q) # None
    <2>1. decide_traced(q, by) = [Trace("Cow", "mock_dirs", "none", None) EXCEPT !.mockdir = matched_mock_dir(q)]
      BY <1>1, <1>5 DEF decide_traced
    <2>2. /\ decide_traced(q, by).decision = "Cow" /\ decide_traced(q, by).target = "mock_dirs"
          /\ decide_traced(q, by).by = "none" /\ decide_traced(q, by).mock = None
      BY <2>1 DEF Trace
    <2>3. compute(q) = [mode |-> "Cow", overlay |-> "mock_dirs"]
      BY <1>5 DEF compute, Decided
    <2> QED
      BY <1>5, <2>2, <2>3 DEF Explains, Told
  <1>6. CASE /\ ~InProject(q) /\ ~Gone(q) /\ find_mock_payload(q) = None
             /\ matched_mock_dir(q) = None
    <2>1. PICK t : t = TracedRule(by, q)
      OBVIOUS
    <2>2. /\ t.mode = effective_mode(q)
          /\ t.by \in {"rule", "default", "none"}
          /\ t.by = "rule" => by # 0 /\ t.prefix = q.rules[by].pattern
      BY <2>1 DEF TracedRule, effective_mode
    <2>3. effective_mode(q) \in AccessMode
      <3>1. CASE by # 0
        <4>1. q.rules[by].read \in AccessMode /\ q.rules[by].write \in AccessMode
          BY <3>1 DEF IsWhyQuestion
        <4> QED
          BY <3>1, <4>1 DEF effective_mode, ModeOf
      <3>2. CASE by = 0 /\ q.default # None
        <4>1. q.default.read \in AccessMode /\ q.default.write \in AccessMode
          BY <3>2 DEF IsWhyQuestion
        <4> QED
          BY <3>2, <4>1 DEF effective_mode, ModeOf
      <3>3. CASE by = 0 /\ q.default = None
        BY <3>3 DEF effective_mode, AccessMode
      <3> QED
        BY <3>1, <3>2, <3>3
    <2>4. decide_traced(q, by) = TracedByRule(t, q) /\ compute(q) = ByMode(t.mode, q)
      BY <1>1, <1>6, <2>1, <2>2 DEF decide_traced, compute
    <2>5. /\ Told(decide_traced(q, by)) = compute(q).mode
          /\ \/ decide_traced(q, by).target = compute(q).overlay
             \/ q.index = "mock_dirs" /\ decide_traced(q, by).target = "overlay"
          /\ decide_traced(q, by).mock = None
          /\ compute(q).mode # "Mock"
          /\ decide_traced(q, by).by = t.by /\ decide_traced(q, by).prefix = t.prefix
      BY <2>2, <2>3, <2>4, ModeIsTold
    <2> QED
      BY <2>2, <2>5 DEF Explains
  <1> QED
    BY <1>2, <1>3, <1>4, <1>5, <1>6

(* What the trace ends with is what the engine does.                       *)
LEMMA TraceAlwaysExplains == TraceInv => TraceExplains
  <1> SUFFICES ASSUME TraceInv, todo = {}
               PROVE  Explains(decide_traced(asked, best.idx), compute(asked), asked)
    BY DEF TraceExplains
  <1>1. IsWhyQuestion(asked)
    BY TraceQuestions DEF TraceInv
  <1>2. best.idx # 0 => best.idx \in DOMAIN asked.rules
    BY DEF TraceInv, BestOf, Hits
  <1> QED
    BY <1>1, <1>2, TracedRuleDecides, TraceTells

-----------------------------------------------------------------------------
(* A part of a sequence.                                                   *)
LEMMA PartOf ==
  ASSUME NEW S, NEW s \in Seq(S), NEW m \in Nat, NEW n \in Nat, 1 <= m, n <= Len(s), m <= n + 1
  PROVE  /\ SubSeq(s, m, n) \in Seq(S)
         /\ Len(SubSeq(s, m, n)) = n - m + 1
         /\ \A k \in 1..(n - m + 1) : SubSeq(s, m, n)[k] = s[m + k - 1]
  <1>1. m \in Int /\ n \in Int /\ \A i \in m..n : s[i] \in S
    BY LenProperties, ElementOfSeq
  <1>2. /\ SubSeq(s, m, n) \in Seq(S)
        /\ Len(SubSeq(s, m, n)) = IF m <= n THEN n - m + 1 ELSE 0
        /\ \A k \in 1..(n - m + 1) : SubSeq(s, m, n)[k] = s[m + k - 1]
    BY <1>1, SubSeqProperties
  <1> QED
    BY <1>2

(* The end of a host that *.suffix asks for, with its dot or whole, is the *)
(* suffix behind a dot or at the front (CompiledNetRule::compile).         *)
LEMMA SuffixIsMeant ==
  ASSUME NEW p \in Seq(Char), NEW host \in Seq(Char), Len(p) >= 2, p[2] = "."
  PROVE  (host = SubSeq(p, 3, Len(p)) \/ EndsWith(host, Tail(p)))
         <=> \E n \in 0..Len(host) : /\ SubSeq(host, n + 1, Len(host)) = SubSeq(p, 3, Len(p))
                                     /\ n > 0 => host[n] = "."
  <1>1. Len(p) \in Nat /\ Len(host) \in Nat
    BY LenProperties
  <1>2. PICK s : s = SubSeq(p, 3, Len(p))
    OBVIOUS
  <1>3. s \in Seq(Char) /\ Len(s) = Len(p) - 2 /\ \A k \in 1..Len(s) : s[k] = p[k + 2]
    <2>1. /\ s \in Seq(Char) /\ Len(s) = Len(p) - 3 + 1
          /\ \A k \in 1..(Len(p) - 3 + 1) : s[k] = p[3 + k - 1]
      <3>1. 3 \in Nat /\ 1 <= 3 /\ Len(p) <= Len(p) /\ 3 <= Len(p) + 1
        BY <1>1
      <3>2. /\ SubSeq(p, 3, Len(p)) \in Seq(Char)
            /\ Len(SubSeq(p, 3, Len(p))) = Len(p) - 3 + 1
            /\ \A k \in 1..(Len(p) - 3 + 1) : SubSeq(p, 3, Len(p))[k] = p[3 + k - 1]
        BY <1>1, <3>1, PartOf
      <3> QED
        BY <1>2, <3>2
    <2> QED
      BY <1>1, <2>1
  <1>4. PICK t : t = Tail(p)
    OBVIOUS
  <1>5. t \in Seq(Char) /\ Len(t) = Len(p) - 1 /\ \A k \in 1..Len(t) : t[k] = p[k + 1]
    <2>1. p # <<>>
      BY <1>1
    <2> QED
      BY <1>4, <2>1, HeadTailProperties
  <1>6. ASSUME NEW n \in 0..Len(host)
        PROVE  /\ SubSeq(host, n + 1, Len(host)) \in Seq(Char)
               /\ Len(SubSeq(host, n + 1, Len(host))) = Len(host) - n
               /\ \A k \in 1..(Len(host) - n) : SubSeq(host, n + 1, Len(host))[k] = host[n + k]
    <2>1. /\ SubSeq(host, n + 1, Len(host)) \in Seq(Char)
          /\ Len(SubSeq(host, n + 1, Len(host))) = Len(host) - (n + 1) + 1
          /\ \A k \in 1..(Len(host) - (n + 1) + 1) : SubSeq(host, n + 1, Len(host))[k] = host[n + 1 + k - 1]
      BY <1>1, PartOf
    <2> QED
      BY <1>1, <2>1
  <1>7. ASSUME host = s
        PROVE  \E n \in 0..Len(host) : SubSeq(host, n + 1, Len(host)) = s /\ (n > 0 => host[n] = ".")
    <2>1. SubSeq(host, 0 + 1, Len(host)) = host
      BY SubSeqFull
    <2> QED
      BY <1>1, <1>7, <2>1
  <1>8. ASSUME EndsWith(host, t)
        PROVE  \E n \in 0..Len(host) : SubSeq(host, n + 1, Len(host)) = s /\ (n > 0 => host[n] = ".")
    <2>1. PICK n : n = Len(host) - Len(t) + 1
      OBVIOUS
    <2>2. Len(host) >= Len(t) /\ SubSeq(host, n, Len(host)) = t
      BY <1>8, <2>1 DEF EndsWith
    <2>3. n \in Nat /\ n >= 1 /\ n <= Len(host) /\ n = Len(host) - Len(s) /\ n - 1 \in 0..Len(host) /\ n \in 0..Len(host)
      BY <1>1, <1>3, <1>5, <2>1, <2>2
    <2>4. \A k \in 1..Len(t) : t[k] = host[n - 1 + k]
      <3>1. n - 1 + 1 = n /\ Len(host) - (n - 1) = Len(t)
        BY <1>1, <1>5, <2>1, <2>3
      <3>2. \A k \in 1..(Len(host) - (n - 1)) : SubSeq(host, n - 1 + 1, Len(host))[k] = host[n - 1 + k]
        BY <1>6, <2>3
      <3> QED
        BY <2>2, <3>1, <3>2
    <2>5. host[n] = "."
      <3>1. t[1] = p[2] /\ t[1] = host[n - 1 + 1] /\ n - 1 + 1 = n
        BY <1>1, <1>5, <2>3, <2>4
      <3> QED
        BY <3>1
    <2>6. \A k \in 1..Len(s) : s[k] = host[n + k]
      <3>1. ASSUME NEW k \in 1..Len(s) PROVE s[k] = host[n + k]
        <4>1. k + 1 \in 1..Len(t) /\ n - 1 + (k + 1) = n + k /\ (k + 1) + 1 = k + 2
          BY <1>1, <1>3, <1>5, <2>3
        <4> QED
          BY <1>3, <1>5, <2>4, <4>1
      <3> QED
        BY <3>1
    <2>7. /\ SubSeq(host, n + 1, Len(host)) \in Seq(Char)
          /\ Len(SubSeq(host, n + 1, Len(host))) = Len(s)
          /\ \A k \in 1..Len(s) : SubSeq(host, n + 1, Len(host))[k] = s[k]
      BY <1>1, <1>3, <1>6, <2>3, <2>6
    <2>8. SubSeq(host, n + 1, Len(host)) = s
      BY <1>3, <2>7, SeqEqual
    <2> QED
      BY <2>3, <2>5, <2>8
  <1>9. ASSUME NEW n \in 0..Len(host), SubSeq(host, n + 1, Len(host)) = s, n > 0 => host[n] = "."
        PROVE  host = s \/ EndsWith(host, t)
    <2>1. CASE n = 0
      <3>1. SubSeq(host, 0 + 1, Len(host)) = host
        BY SubSeqFull
      <3> QED
        BY <1>9, <2>1, <3>1
    <2>2. CASE n > 0
      <3>0. Len(SubSeq(host, n + 1, Len(host))) = Len(host) - n
        BY <1>6
      <3>5. Len(host) - n = Len(s) /\ n \in Nat /\ n <= Len(host)
        BY <1>1, <1>9, <3>0
      <3>1. /\ Len(host) - n = Len(s) /\ n \in Nat /\ n - 1 \in 0..Len(host) /\ n - 1 + 1 = n
            /\ Len(host) - Len(t) + 1 = n /\ Len(host) >= Len(t) /\ Len(host) - (n - 1) = Len(t)
        BY <1>1, <1>3, <1>5, <2>2, <3>5
      <3>2. /\ SubSeq(host, n, Len(host)) \in Seq(Char)
            /\ Len(SubSeq(host, n, Len(host))) = Len(t)
            /\ \A k \in 1..Len(t) : SubSeq(host, n, Len(host))[k] = host[n - 1 + k]
        BY <1>6, <3>1
      <3>3. ASSUME NEW k \in 1..Len(t) PROVE t[k] = host[n - 1 + k]
        <4>1. CASE k = 1
          BY <1>5, <1>9, <2>2, <3>1, <4>1
        <4>2. CASE k # 1
          <5>1. k - 1 \in 1..Len(s) /\ k - 1 \in 1..(Len(host) - n) /\ (k - 1) + 2 = k + 1 /\ n + (k - 1) = n - 1 + k
            BY <1>1, <1>3, <1>5, <3>1, <4>2
          <5>2. s[k - 1] = p[k + 1] /\ s[k - 1] = host[n - 1 + k]
            BY <1>3, <1>6, <1>9, <5>1
          <5> QED
            BY <1>5, <5>2
        <4> QED
          BY <4>1, <4>2
      <3>4. SubSeq(host, n, Len(host)) = t
        BY <1>5, <3>2, <3>3, SeqEqual
      <3> QED
        BY <3>1, <3>4 DEF EndsWith
    <2> QED
      BY <1>1, <2>1, <2>2
  <1> QED
    BY <1>2, <1>4, <1>7, <1>8, <1>9

(* A compiled host pattern matches what the pattern means.                 *)
LEMMA HostIsMeant ==
  ASSUME NEW p \in Seq(Char), NEW host \in Seq(Char), NEW cidr,
         NEW r, r.pattern = p, r.cidr = cidr
  PROVE  NetRuleMatches(r, host) <=> HostMeans(p, host) \/ host \in cidr
  <1>1. Len(p) \in Nat /\ Len(host) \in Nat
    BY LenProperties
  <1>2. CASE HostKind(p) = "star"
    <2>1. p = <<"*">>
      BY <1>2 DEF HostKind
    <2>2. PICK g : g = SegmentGlob(p, host)
      OBVIOUS
    <2>3. g.n = 1 /\ g.m = Len(host) /\ g.star = {1} /\ g.call = "segment"
      BY <2>1, <2>2 DEF SegmentGlob
    <2> DEFINE a == [i \in 1..(g.n + 1) |-> IF i = 1 THEN 1 ELSE Len(host) + 1]
    <2>4. a \in [1..(g.n + 1) -> 1..(g.m + 1)] /\ a[1] = 1 /\ a[g.n + 1] = g.m + 1 /\ a[2] = Len(host) + 1
      BY <1>1, <2>3
    <2> HIDE DEF a
    <2>5. \A i \in 1..g.n : Takes(g, a, i)
      BY <1>1, <2>3, <2>4 DEF Takes
    <2>6. Covers(g)
      BY <2>4, <2>5 DEF Covers, Alignment
    <2> QED
      BY <1>2, <2>2, <2>6 DEF NetRuleMatches, HostMeans
  <1>3. CASE HostKind(p) = "suffix"
    <2>1. Len(p) >= 2 /\ SubSeq(p, 1, 2) = <<"*", ".">>
      BY <1>3 DEF HostKind
    <2>2. SubSeq(p, 1, 2)[2] = p[2]
      <3>1. \A k \in 1..(2 - 1 + 1) : SubSeq(p, 1, 2)[k] = p[1 + k - 1]
        BY <1>1, <2>1, PartOf
      <3> QED
        BY <3>1
    <2>3. <<"*", ".">>[2] = "."
      OBVIOUS
    <2>4. p[2] = "."
      BY <2>1, <2>2, <2>3, Zenon
    <2> QED
      BY <1>3, <2>1, <2>4, SuffixIsMeant DEF NetRuleMatches, HostMeans
  <1>4. CASE HostKind(p) = "glob"
    <2>1. segment_match(p, host) \/ p = host <=> Covers(SegmentGlob(p, host)) \/ p = host
      BY LiteralSegment DEF segment_match
    <2> QED
      BY <1>4, <2>1 DEF NetRuleMatches, HostMeans
  <1> QED
    BY <1>2, <1>3, <1>4 DEF HostKind

-----------------------------------------------------------------------------
(* B is the first of the rules of a mode that cover the host, of those that*)
(* the loop has seen.                                                      *)
FirstCovering(q, mode, seen, b) ==
    /\ b = 0 => seen \cap Covering(q, mode) = {}
    /\ b # 0 => b \in seen \cap Covering(q, mode) /\ \A j \in seen \cap Covering(q, mode) : b <= j

NetInv ==
    /\ asked \in NetQuestions
    /\ todo \subseteq DOMAIN asked.rules
    /\ \A i \in DOMAIN asked.rules \ todo : \A j \in todo : i < j
    /\ best \in [Deny : Nat, Allow : Nat]
    /\ FirstCovering(asked, "Deny", DOMAIN asked.rules \ todo, best.Deny)
    /\ FirstCovering(asked, "Allow", DOMAIN asked.rules \ todo, best.Allow)

(* At first no rule for the network has been seen.                         *)
LEMMA NetStarts == NetInit => NetInv
  <1> SUFFICES ASSUME NetInit PROVE NetInv
    OBVIOUS
  <1>1. asked \in NetQuestions /\ todo = DOMAIN asked.rules /\ best = [Deny |-> 0, Allow |-> 0]
    BY DEF NetInit
  <1>2. best \in [Deny : Nat, Allow : Nat] /\ best.Deny = 0 /\ best.Allow = 0
    BY <1>1
  <1> QED
    BY <1>1, <1>2 DEF NetInv, FirstCovering

(* A rule more of the table (NetSnapshot::decide).                         *)
LEMMA NetKeeps == NetInv /\ NetNext => NetInv'
  <1> SUFFICES ASSUME NetInv, NEW i \in todo, NetLookAt(i) PROVE NetInv'
    BY DEF NetNext
  <1>1. PICK q \in NetQuestions : q = asked /\ asked' = q
    BY DEF NetInv, NetLookAt
  <1>2. IsNetQuestion(q)
    BY ChoiceQuestions
  <1>3. DOMAIN q.rules = 1..Len(q.rules) /\ Len(q.rules) \in Nat
    BY <1>2, LenProperties DEF IsNetQuestion, IsTable
  <1>4. i \in DOMAIN q.rules /\ todo \subseteq DOMAIN q.rules /\ todo' = todo \ {i} /\ \A j \in todo : i <= j
    BY <1>1 DEF NetInv, NetLookAt
  <1>5. PICK seen : seen = DOMAIN q.rules \ todo
    OBVIOUS
  <1>6. /\ \A k \in seen : k < i /\ k \in Nat
        /\ i \in Nat /\ i # 0 /\ i \notin seen
        /\ seen \cup {i} = DOMAIN q.rules \ todo'
    BY <1>1, <1>3, <1>4, <1>5 DEF NetInv
  <1>7. PICK r : r = q.rules[i]
    OBVIOUS
  <1>8. /\ r.mode \in {"Allow", "Deny", "Log"}
        /\ NetRuleMatches(r, q.host) <=> HostMeans(r.pattern, q.host) \/ q.host \in r.cidr
    BY <1>2, <1>4, <1>7, HostIsMeant DEF IsNetQuestion, NetMode
  <1>9. \A mode : i \in Covering(q, mode) <=>
                   r.mode = mode /\ r.port \in {None, q.port} /\ NetRuleMatches(r, q.host)
    BY <1>4, <1>7, <1>8 DEF Covering
  <1>10. best' = IF /\ r.port \in {None, q.port}
                    /\ NetRuleMatches(r, q.host)
                    /\ r.mode # "Log"
                    /\ best[r.mode] = 0
                 THEN [best EXCEPT ![r.mode] = i] ELSE best
    BY <1>1, <1>7 DEF NetLookAt
  <1>11. /\ best \in [Deny : Nat, Allow : Nat]
         /\ FirstCovering(q, "Deny", seen, best.Deny)
         /\ FirstCovering(q, "Allow", seen, best.Allow)
    BY <1>1, <1>5 DEF NetInv
  <1>12. ASSUME NEW mode, NEW b \in Nat, FirstCovering(q, mode, seen, b), NEW c,
                c = IF i \in Covering(q, mode) /\ b = 0 THEN i ELSE b
         PROVE  FirstCovering(q, mode, seen \cup {i}, c)
    BY <1>6, <1>12 DEF FirstCovering
  <1>13. /\ best' \in [Deny : Nat, Allow : Nat]
         /\ best'.Deny = IF i \in Covering(q, "Deny") /\ best.Deny = 0 THEN i ELSE best.Deny
         /\ best'.Allow = IF i \in Covering(q, "Allow") /\ best.Allow = 0 THEN i ELSE best.Allow
    <2>1. CASE r.mode = "Deny"
      BY <1>6, <1>9, <1>10, <1>11, <2>1
    <2>2. CASE r.mode = "Allow"
      BY <1>6, <1>9, <1>10, <1>11, <2>2
    <2>3. CASE r.mode = "Log"
      BY <1>6, <1>9, <1>10, <1>11, <2>3
    <2> QED
      BY <1>8, <2>1, <2>2, <2>3
  <1>14. best.Deny \in Nat /\ best.Allow \in Nat
    BY <1>11
  <1>15. /\ FirstCovering(q, "Deny", seen \cup {i}, best'.Deny)
         /\ FirstCovering(q, "Allow", seen \cup {i}, best'.Allow)
    BY <1>11, <1>12, <1>13, <1>14
  <1>16. ASSUME NEW k \in DOMAIN q.rules \ todo', NEW j \in todo' PROVE k < j
    <2>1. i \in Nat /\ j \in Nat /\ k \in Nat /\ i < j
      BY <1>3, <1>4, <1>6
    <2> QED
      BY <1>6, <2>1
  <1> QED
    BY <1>1, <1>4, <1>6, <1>13, <1>15, <1>16 DEF NetInv

(* With no rule left the first one that denies decides.                    *)
LEMMA DenyingRuleDecides == NetInv => DenyingRuleWins
  <1> SUFFICES ASSUME NetInv, todo = {}
               PROVE  DenyingRuleWins
    BY DEF DenyingRuleWins
  <1>1. /\ FirstCovering(asked, "Deny", DOMAIN asked.rules, best.Deny)
        /\ FirstCovering(asked, "Allow", DOMAIN asked.rules, best.Allow)
    BY DEF NetInv
  <1>2. /\ Covering(asked, "Deny") \subseteq DOMAIN asked.rules
        /\ Covering(asked, "Allow") \subseteq DOMAIN asked.rules
    BY DEF Covering
  <1> QED
    BY <1>1, <1>2 DEF DenyingRuleWins, NetDecision, FirstCovering

-----------------------------------------------------------------------------
(* The invariant of the loop that runs.                                    *)
QuestionInv ==
    /\ kind = "scan" => ScanInv
    /\ kind = "rules" => RuleInv
    /\ kind = "net" => NetInv
    /\ kind = "why" => TraceInv

(* The loop that runs begins in its invariant.                             *)
LEMMA QuestionStarts == QuestionInit => QuestionInv
  <1> SUFFICES ASSUME QuestionInit PROVE QuestionInv
    OBVIOUS
  <1>1. ASSUME kind = "scan" PROVE ScanInv
    BY <1>1, ScanStarts DEF QuestionInit
  <1>2. ASSUME kind = "rules" PROVE RuleInv
    BY <1>2, RuleStarts DEF QuestionInit
  <1>3. ASSUME kind = "net" PROVE NetInv
    BY <1>3, NetStarts DEF QuestionInit
  <1>4. ASSUME kind = "why" PROVE TraceInv
    BY <1>4, TraceStarts DEF QuestionInit
  <1> QED
    BY <1>1, <1>2, <1>3, <1>4 DEF QuestionInv

(* A loop that stands still keeps what it has found.                       *)
LEMMA ChoicesStandStill ==
  ASSUME UNCHANGED choiceVars
  PROVE  (RuleInv => RuleInv') /\ (NetInv => NetInv') /\ (TraceInv => TraceInv')
  BY DEF choiceVars, RuleInv, NetInv, TraceInv

(* Its steps keep it, and the others stand still.                          *)
LEMMA QuestionKeeps == QuestionInv /\ [QuestionNext]_questionVars => QuestionInv'
  <1> SUFFICES ASSUME QuestionInv, [QuestionNext]_questionVars PROVE QuestionInv'
    OBVIOUS
  <1>1. kind' = kind
    BY DEF QuestionNext, questionVars
  <1>2. ASSUME kind = "scan" PROVE ScanInv'
    <2>1. ScanInv /\ [ScanNext]_scanVars
      BY <1>2 DEF QuestionInv, QuestionNext, questionVars
    <2> QED
      BY <2>1, ScanKeeps
  <1>3. ASSUME kind = "rules" PROVE RuleInv'
    <2>1. RuleInv /\ (RuleNext \/ UNCHANGED choiceVars)
      BY <1>3 DEF QuestionInv, QuestionNext, questionVars
    <2> QED
      BY <2>1, RuleKeeps, ChoicesStandStill
  <1>4. ASSUME kind = "net" PROVE NetInv'
    <2>1. NetInv /\ (NetNext \/ UNCHANGED choiceVars)
      BY <1>4 DEF QuestionInv, QuestionNext, questionVars
    <2> QED
      BY <2>1, NetKeeps, ChoicesStandStill
  <1>5. ASSUME kind = "why" PROVE TraceInv'
    <2>1. TraceInv /\ (TraceNext \/ UNCHANGED choiceVars)
      BY <1>5 DEF QuestionInv, QuestionNext, questionVars
    <2> QED
      BY <2>1, TraceKeeps, ChoicesStandStill
  <1> QED
    BY <1>1, <1>2, <1>3, <1>4, <1>5 DEF QuestionInv

(* The rules mean what they say: the scan of a pattern, the rule of a path,*)
(* the decision of a connection and the trace of a decision are what the   *)
(* patterns and the table say, whatever they are.                          *)
THEOREM PolicyMeansWhatItSays == QuestionSpec => []RulesMeanWhatTheySay
  <1>1. QuestionInv => RulesMeanWhatTheySay
    BY RuleChoiceIsInOrder, DenyingRuleDecides, TraceAlwaysExplains
       DEF QuestionInv, RulesMeanWhatTheySay, ScanInv
  <1> QED
    BY <1>1, QuestionStarts, QuestionKeeps, PTL DEF QuestionSpec

-----------------------------------------------------------------------------
(* PathAliases.                                                            *)

(* Nothing of the path was found below where the loop is.                  *)
MissingBelow ==
    answer = "open" => \A n \in (upto + 1)..Len(Folded) : ~Found(alias.fs, Upto(Folded, n))

AliasInv ==
    /\ alias \in AliasQuestions
    /\ AliasTypeOK
    /\ Folded # <<>>
    /\ MissingBelow
    /\ InRootStaysInside

(* A path is its own beginning, and ends with its last name.               *)
LEMMA PathParts ==
    ASSUME NEW T, NEW path \in Seq(T), path # <<>>
    PROVE  /\ Len(path) \in Nat \ {0}
           /\ Upto(path, Len(path)) = path
           /\ SubSeq(path, Len(path), Len(path)) = <<path[Len(path)]>>
  <1>1. Len(path) \in Nat \ {0}
    BY EmptySeq
  <1>2. Upto(path, Len(path)) = path
    <2>1. Upto(path, Len(path)) \in Seq(T) /\ Len(Upto(path, Len(path))) = Len(path)
      BY <1>1, SubSeqProperties DEF Upto
    <2>2. \A i \in 1..Len(path) : Upto(path, Len(path))[i] = path[i]
      BY <1>1, SubSeqProperties DEF Upto
    <2> QED
      BY <2>1, <2>2, SeqEqual, Zenon
  <1>3. SubSeq(path, Len(path), Len(path)) = <<path[Len(path)]>>
    <2> DEFINE last == SubSeq(path, Len(path), Len(path))
    <2>1. last \in Seq(T) /\ Len(last) = 1 /\ last[1] = path[Len(path)]
      BY <1>1, SubSeqProperties
    <2> HIDE DEF last
    <2>2. last = <<path[Len(path)]>>
      BY <2>1
    <2> QED
      BY <2>2 DEF last
  <1> QED
    BY <1>1, <1>2, <1>3

(* What Windows' answers and the question give.                            *)
LEMMA FoldedPath ==
    ASSUME alias \in AliasQuestions
    PROVE  /\ Folded \in Seq({Folded[i] : i \in DOMAIN Folded})
           /\ \A n \in 0..Len(Folded) : Leads(n) # Nowhere => Found(alias.fs, Upto(Folded, n))
  BY AliasesAreQuestions DEF IsAliasQuestion, Folded, Leads

(* The loop begins with the whole path, which is below the root.           *)
LEMMA AliasStarts == AliasInit => AliasInv
  <1> SUFFICES ASSUME AliasInit PROVE AliasInv
    OBVIOUS
  <1>1. /\ alias \in AliasQuestions /\ IsAliasQuestion(alias)
        /\ path_contained_in(Folded, alias.root)
        /\ upto = Len(Folded) /\ answer = "open"
    BY AliasesAreQuestions DEF AliasInit, Folded
  <1>2. Folded \in Seq({Folded[i] : i \in DOMAIN Folded})
    BY <1>1 DEF IsAliasQuestion, Folded
  <1>3. alias.root # <<>> /\ Len(alias.root) <= Len(Folded) /\ Len(alias.root) \in Nat \ {0}
    BY <1>1, EmptySeq DEF path_contained_in, IsAliasQuestion
  <1>4. Folded # <<>> /\ Len(Folded) \in Nat
    BY <1>2, <1>3, EmptySeq
  <1> QED
    BY <1>1, <1>4 DEF AliasInv, AliasTypeOK, MissingBelow, InRootStaysInside

(* An answer about the file itself (path_aliases_outside_root, Ok).        *)
LEMMA FileIsInside == AliasInv /\ CheckFile => AliasInv'
  <1> SUFFICES ASSUME AliasInv, CheckFile PROVE AliasInv'
    OBVIOUS
  <1>1. UNCHANGED <<alias, upto>> /\ answer' \in {"inside", "outside"}
    BY DEF CheckFile, AnswerIs
  <1>2. Folded' = Folded
    BY <1>1 DEF Folded
  <1>3. ASSUME answer' = "inside" PROVE InRootStaysInside'
    <2>1. /\ upto = Len(Folded) /\ Leads(upto) # Nowhere
          /\ Kind(alias.fs, Leads(upto)) # "shared file"
          /\ Contained(alias.fs, Leads(upto), alias.root)
      BY <1>3 DEF CheckFile, AnswerIs
    <2>2. Leads(upto) = canonical_dos_lower(alias.fs, Folded)
      BY <2>1, FoldedPath, PathParts DEF AliasInv, Leads
    <2>3. WrittenTo(alias.fs, Folded) = Leads(upto)
      BY <2>1, <2>2 DEF WrittenTo
    <2> QED
      BY <1>1, <1>2, <2>1, <2>3 DEF InRootStaysInside
  <1> QED
    BY <1>1, <1>2, <1>3 DEF AliasInv, AliasTypeOK, MissingBelow, InRootStaysInside

(* Of a path that is not found at its end nor right above it, nothing is   *)
(* written anywhere.                                                       *)
LEMMA NothingWritten ==
    ASSUME AliasInv, ~Found(alias.fs, Upto(Folded, Len(Folded))),
           ~Found(alias.fs, Upto(Folded, Len(Folded) - 1))
    PROVE  WrittenTo(alias.fs, Folded) = Nowhere
  <1>1. Len(Folded) \in Nat \ {0} /\ Upto(Folded, Len(Folded)) = Folded
    BY FoldedPath, PathParts DEF AliasInv
  <1>2. Leads(Len(Folded)) = Nowhere /\ Leads(Len(Folded) - 1) = Nowhere
    BY <1>1, FoldedPath DEF AliasInv
  <1> QED
    BY <1>1, <1>2 DEF WrittenTo, Leads, Found, Above

(* One step up (path_aliases_outside_root, the loop over cur.parent()).    *)
LEMMA StepUpKeeps == AliasInv /\ StepUp => AliasInv'
  <1> SUFFICES ASSUME AliasInv, StepUp PROVE AliasInv'
    OBVIOUS
  <1>1. /\ UNCHANGED alias /\ Folded' = Folded /\ answer = "open"
        /\ ~Found(alias.fs, Upto(Folded, upto))
        /\ \A n \in (upto + 1)..Len(Folded) : ~Found(alias.fs, Upto(Folded, n))
    BY DEF StepUp, Folded, AliasInv, MissingBelow
  <1>2. upto \in 0..Len(Folded) /\ Len(Folded) \in Nat \ {0}
    BY FoldedPath, PathParts DEF AliasInv, AliasTypeOK
  <1>3. CASE upto > 0
    <2>1. upto' = upto - 1 /\ answer' = "open"
      BY <1>1, <1>3 DEF StepUp
    <2>2. \A n \in (upto' + 1)..Len(Folded) : n = upto \/ n \in (upto + 1)..Len(Folded)
      BY <1>2, <2>1
    <2> QED
      BY <1>1, <1>2, <1>3, <2>1, <2>2 DEF AliasInv, AliasTypeOK, MissingBelow, InRootStaysInside
  <1>4. CASE upto = 0
    <2>1. upto' = 0 /\ answer' = "inside"
      BY <1>4 DEF StepUp, AnswerIs
    <2>2. WrittenTo(alias.fs, Folded) = Nowhere
      <3>1. \A n \in 0..Len(Folded) : ~Found(alias.fs, Upto(Folded, n))
        BY <1>1, <1>2, <1>4
      <3> QED
        BY <1>2, <3>1, NothingWritten
    <2> QED
      BY <1>1, <1>2, <2>1, <2>2 DEF AliasInv, AliasTypeOK, MissingBelow, InRootStaysInside
  <1> QED
    BY <1>2, <1>3, <1>4

(* An answer about the deepest ancestor (path_aliases_outside_root, the    *)
(* missing tail put behind it).                                            *)
LEMMA AncestorIsInside == AliasInv /\ CheckAncestor => AliasInv'
  <1> SUFFICES ASSUME AliasInv, CheckAncestor PROVE AliasInv'
    OBVIOUS
  <1>1. UNCHANGED <<alias, upto>> /\ answer = "open" /\ answer' \in {"inside", "outside"}
    BY DEF CheckAncestor, AnswerIs
  <1>2. Folded' = Folded
    BY <1>1 DEF Folded
  <1>3. /\ upto \in 0..Len(Folded) /\ Len(Folded) \in Nat \ {0} /\ upto < Len(Folded)
        /\ Upto(Folded, Len(Folded)) = Folded
        /\ SubSeq(Folded, Len(Folded), Len(Folded)) = <<Folded[Len(Folded)]>>
    BY FoldedPath, PathParts DEF AliasInv, AliasTypeOK, CheckAncestor
  <1>4. \A n \in (upto + 1)..Len(Folded) : ~Found(alias.fs, Upto(Folded, n))
    BY <1>1 DEF AliasInv, MissingBelow
  <1>5. ~Found(alias.fs, Upto(Folded, Len(Folded)))
    BY <1>3, <1>4
  <1>6. ASSUME answer' = "inside" PROVE InRootStaysInside'
    <2>1. CASE upto < Len(Folded) - 1
      <3>1. ~Found(alias.fs, Upto(Folded, Len(Folded) - 1))
        BY <1>3, <1>4, <2>1
      <3>2. WrittenTo(alias.fs, Folded) = Nowhere
        BY <1>5, <3>1, NothingWritten
      <3> QED
        BY <1>1, <1>2, <3>2 DEF InRootStaysInside
    <2>2. CASE upto = Len(Folded) - 1
      <3> DEFINE dir == Leads(upto)
                 place == dir \o <<Folded[Len(Folded)]>>
      <3>1. /\ dir # Nowhere
            /\ Contained(alias.fs, dir \o SubSeq(Folded, upto + 1, Len(Folded)), alias.root)
        BY <1>6 DEF CheckAncestor, AnswerIs
      <3>2. Contained(alias.fs, place, alias.root)
        <4>1. upto + 1 = Len(Folded)
          BY <1>3, <2>2
        <4>2. SubSeq(Folded, upto + 1, Len(Folded)) = <<Folded[Len(Folded)]>>
          BY <1>3, <4>1
        <4> QED
          BY <3>1, <4>2
      <3>3. dir = canonical_dos_lower(alias.fs, Above(Folded))
        BY <2>2 DEF Leads, Above
      <3>4. canonical_dos_lower(alias.fs, Folded) = Nowhere
        BY <1>3, <1>5, FoldedPath DEF AliasInv, Leads
      <3>5. symlink_metadata(alias.fs, Folded) = "none"
        BY <1>3, <1>5 DEF Found
      <3>6. CASE Kind(alias.fs, dir) = "dir"
        <4>1. WrittenTo(alias.fs, Folded) = place
          BY <3>1, <3>3, <3>4, <3>5, <3>6 DEF WrittenTo
        <4>2. Kind(alias.fs, place) = "none"
          BY <3>1, <3>3, <3>5, <3>6 DEF symlink_metadata, AliasInv
        <4> QED
          BY <1>1, <1>2, <3>2, <4>1, <4>2 DEF InRootStaysInside
      <3>7. CASE Kind(alias.fs, dir) # "dir"
        BY <1>1, <1>2, <3>3, <3>4, <3>5, <3>7 DEF InRootStaysInside, WrittenTo
      <3> QED
        BY <3>6, <3>7
    <2> QED
      BY <1>3, <2>1, <2>2
  <1> QED
    BY <1>1, <1>2, <1>3, <1>6 DEF AliasInv, AliasTypeOK, MissingBelow, InRootStaysInside

(* Every step of the walk up the path keeps it.                            *)
LEMMA AliasInvariant == AliasSpec => []AliasInv
  <1>1. AliasInv /\ [AliasNext]_aliasVars => AliasInv'
    <2> SUFFICES ASSUME AliasInv, [AliasNext]_aliasVars PROVE AliasInv'
      OBVIOUS
    <2>1. CASE UNCHANGED aliasVars
      <3>1. alias' = alias /\ upto' = upto /\ answer' = answer /\ Folded' = Folded
        BY <2>1 DEF aliasVars, Folded
      <3> QED
        BY <3>1 DEF AliasInv, AliasTypeOK, MissingBelow, InRootStaysInside
    <2> QED
      BY <2>1, FileIsInside, StepUpKeeps, AncestorIsInside DEF AliasNext
  <1> QED
    BY <1>1, AliasStarts, PTL DEF AliasSpec

(* The walk stays on the path it was asked about.                          *)
THEOREM AliasTypes == AliasSpec => []AliasTypeOK
  <1>1. AliasInv => AliasTypeOK
    BY DEF AliasInv
  <1> QED
    BY <1>1, AliasInvariant, PTL

(* A write that is let through because its path lies in the project ends   *)
(* there, for every tree, however deep the path and whatever of it exists  *)
(* (path_aliases_outside_root).                                            *)
THEOREM InsideStaysInside == AliasSpec => []InRootStaysInside
  <1>1. AliasInv => InRootStaysInside
    BY DEF AliasInv
  <1> QED
    BY <1>1, AliasInvariant, PTL
=============================================================================
