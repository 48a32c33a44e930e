------------------------- MODULE HistoryCacheProofs -------------------------
(***************************************************************************)
(* Proofs about the query-history cache, for every set of executions,      *)
(* number of writers, row ceiling, lookback, lag and clock.                *)
(***************************************************************************)
EXTENDS HistoryCache, SequenceTheorems, FiniteSetTheorems, TLAPS

USE CacheAssumption DEF source, sweep, history

-----------------------------------------------------------------------------
(* Lemmas on the operators of the model *)

\* The watermark of a table that is not empty is the second its latest row ended
\* in: a finite, non-empty set of moments has a latest one.  (The sets of later
\* rows are finite, so one of them is minimal; it is empty.)
LEMMA LatestRow ==
    TypeOK /\ cache # {} =>
        \E q \in cache : /\ Watermark = Seconds(endTime[q])
                         /\ \A r \in cache : endTime[r] <= endTime[q]
<1> SUFFICES ASSUME TypeOK, cache # {}
             PROVE  \E q \in cache : /\ Watermark = Seconds(endTime[q])
                                     /\ \A r \in cache : endTime[r] <= endTime[q]
  OBVIOUS
<1> USE DEF TypeOK
<1> DEFINE Later(q) == {r \in cache : endTime[r] > endTime[q]}
           T == {Later(q) : q \in cache}
<1>1. T \subseteq FiniteSubsetsOf(cache) /\ T # {}
  <2>1. \A q \in cache : Later(q) \in SUBSET cache
    OBVIOUS
  <2>2. \A U \in SUBSET cache : IsFiniteSet(U)
    BY FS_Subset
  <2> HIDE DEF Later
  <2>3. QED
    BY <2>1, <2>2 DEF FiniteSubsetsOf
<1>2. IsWellFoundedOn(StrictSubsetOrdering(cache), FiniteSubsetsOf(cache))
  BY FS_StrictSubsetOrderingWellFounded
<1>3. PICK x \in T : \A y \in T : ~(<<y, x>> \in StrictSubsetOrdering(cache))
  <2> HIDE DEF T
  <2> QED BY <1>1, <1>2, WFMin
<1>4. PICK q \in cache : x = Later(q)
  OBVIOUS
<1>5. ASSUME NEW r \in cache, endTime[r] > endTime[q] PROVE FALSE
  <2>1. Later(r) \in T /\ Later(r) \subseteq x
    BY <1>4, <1>5
  <2>2. r \in x /\ r \notin Later(r)
    BY <1>4, <1>5
  <2>3. <<Later(r), x>> \in StrictSubsetOrdering(cache)
    BY <2>1, <2>2, <1>4 DEF StrictSubsetOrdering
  <2>4. QED
    BY <1>3, <2>1, <2>3
<1> DEFINE M == {endTime[p] : p \in cache}
<1>6. endTime[q] \in M /\ M \subseteq Nat /\ \A n \in M : endTime[q] >= n
  <2>1. \A p \in cache : endTime[p] \in Nat
    OBVIOUS
  <2>2. \A p \in cache : endTime[q] >= endTime[p]
    BY <1>5, <2>1
  <2>3. endTime[q] \in M
    OBVIOUS
  <2>4. QED
    BY <2>1, <2>2, <2>3
<1>7. Max(M) = endTime[q]
  <2>1. Max(M) = CHOOSE m \in M : \A n \in M : m >= n
    BY DEF Max
  <2> DEFINE e == endTime[q]
  <2>2. e \in M /\ M \subseteq Nat /\ \A n \in M : e >= n
    BY <1>6
  <2> HIDE DEF M, e
  <2>3. Max(M) \in M /\ \A n \in M : Max(M) >= n
    BY <2>1, <2>2
  <2>4. Max(M) = e
    <3> DEFINE m == Max(M)
    <3>1. m \in Nat /\ e \in Nat /\ m >= e /\ e >= m
      <4> HIDE DEF m
      <4>1. m \in M /\ \A n \in M : m >= n
        BY <2>3 DEF m
      <4>2. QED
        BY <2>2, <4>1
    <3>2. QED
      <4> HIDE DEF m
      <4>1. m = e
        BY <3>1
      <4>2. QED
        BY <4>1 DEF m
  <2>5. QED
    BY <2>4 DEF e
<1>8. Watermark = Seconds(endTime[q])
  BY <1>7 DEF Watermark
<1>9. \A r \in cache : endTime[r] <= endTime[q]
  BY <1>6
<1>10. QED
  BY <1>8, <1>9

\* The watermark of a table that is not empty is a second.
LEMMA WatermarkExists ==
    ASSUME TypeOK, cache # {}
    PROVE  Watermark \in Int
BY LatestRow DEF TypeOK, Seconds

\* A query has been passed when some row of the table ended late enough after it.
LEMMA PassedBy ==
    TypeOK => \A q \in Queries :
        Passed(q) <=> \E m \in cache : endTime[q] < 2 * (Seconds(endTime[m]) - Overlap)
<1> SUFFICES ASSUME TypeOK, NEW q \in Queries
             PROVE  Passed(q) <=>
                      \E m \in cache : endTime[q] < 2 * (Seconds(endTime[m]) - Overlap)
  OBVIOUS
<1>1. CASE cache = {}
  BY <1>1 DEF Passed
<1>2. CASE cache # {}
  <2>1. PICK l \in cache : /\ Watermark = Seconds(endTime[l])
                           /\ \A r \in cache : endTime[r] <= endTime[l]
    BY <1>2, LatestRow
  <2>2. endTime[q] \in Nat /\ \A r \in cache : endTime[r] \in Nat
    BY DEF TypeOK
  <2>3. \A r \in cache : Seconds(endTime[r]) <= Seconds(endTime[l])
    BY <2>1, <2>2 DEF Seconds
  <2>4. \A r \in cache : Seconds(endTime[r]) \in Int
    BY <2>2 DEF Seconds
  <2>5. Passed(q) <=> endTime[q] < 2 * (Seconds(endTime[l]) - Overlap)
    BY <1>2, <2>1 DEF Passed, RefreshFrom
  <2>6. QED
    BY <2>1, <2>2, <2>3, <2>4, <2>5
<1>3. QED
  BY <1>1, <1>2

\* The same after a step.
LEMMA PassedByNext ==
    (TypeOK => \A q \in Queries :
        Passed(q) <=> \E m \in cache : endTime[q] < 2 * (Seconds(endTime[m]) - Overlap))'
BY PassedBy, PTL

\* Popping a stack of windows keeps all but the last where they are.
LEMMA PopWindow ==
    ASSUME NEW s \in Seq(Window)
    PROVE  /\ SubSeq(s, 1, Len(s) - 1) \in Seq(Window)
           /\ s # <<>> => Len(SubSeq(s, 1, Len(s) - 1)) = Len(s) - 1
           /\ \A i \in 1..Len(s) - 1 : SubSeq(s, 1, Len(s) - 1)[i] = s[i]
<1> DEFINE n == Len(s) - 1
<1>1. n \in Int /\ (s # <<>> => n \in Nat) /\ \A i \in 1..n : s[i] \in Window
  BY EmptySeq, ElementOfSeq, LenProperties
<1> HIDE DEF n
<1>2. /\ SubSeq(s, 1, n) \in Seq(Window)
      /\ Len(SubSeq(s, 1, n)) = IF 1 <= n THEN n - 1 + 1 ELSE 0
      /\ \A i \in 1..n - 1 + 1 : SubSeq(s, 1, n)[i] = s[1 + i - 1]
  BY <1>1, SubSeqProperties
<1>3. /\ s # <<>> => Len(SubSeq(s, 1, n)) = n
      /\ \A i \in 1..n : SubSeq(s, 1, n)[i] = s[i]
  BY <1>1, <1>2
<1>4. QED
  BY <1>2, <1>3 DEF n

\* The top of a stack that is not empty is a window.
LEMMA TopWindow ==
    ASSUME NEW s \in Seq(Window), s # <<>>
    PROVE  Len(s) \in Nat \ {0} /\ s[Len(s)] \in Window
BY EmptySeq, ElementOfSeq

\* The halves of a window are windows: the first runs from its start to the
\* middle, the second from the middle to its end.
LEMMA HalvesWindow ==
    ASSUME NEW lo \in Int, NEW hi \in Int
    PROVE  \E mid \in Int :
             /\ Halves(lo, hi) = <<<<lo, mid>>, <<mid, hi>>>>
             /\ Halves(lo, hi) \in Seq(Window)
             /\ Divisible(lo, hi) => lo < mid /\ mid < hi
<1> DEFINE mid == lo + (hi - lo) \div 2
<1>1. mid \in Int /\ (hi - lo > 1 => lo < mid /\ mid < hi)
  OBVIOUS
<1> HIDE DEF mid
<1>2. <<<<lo, mid>>, <<mid, hi>>>> \in Seq(Window)
  BY <1>1 DEF Window
<1>3. QED
  BY <1>1, <1>2 DEF Halves, Divisible, mid

\* Two windows pushed on a stack end up on top of it, the second on top.
LEMMA PushTwo ==
    ASSUME NEW p \in Seq(Window), NEW h \in Seq(Window), Len(h) = 2
    PROVE  /\ Len(p \o h) = Len(p) + 2
           /\ \A i \in 1..Len(p) : (p \o h)[i] = p[i]
           /\ (p \o h)[Len(p) + 1] = h[1]
           /\ (p \o h)[Len(p) + 2] = h[2]
<1>1. Len(p) \in Nat
  BY LenProperties
<1>2. /\ Len(p \o h) = Len(p) + Len(h)
      /\ \A i \in 1..Len(p) + Len(h) :
           (p \o h)[i] = IF i <= Len(p) THEN p[i] ELSE h[i - Len(p)]
  BY ConcatProperties
<1>3. QED
  BY <1>1, <1>2

\* A window's rows are finitely many, and the count of them is a number.
LEMMA CountType ==
    ASSUME TypeOK, NEW lo, NEW hi
    PROVE  /\ Cardinality(Rows(lo, hi)) \in Nat
           /\ Count(Rows(lo, hi)) \in Nat
<1>1. IsFiniteSet(Rows(lo, hi))
  BY FS_Subset DEF Rows, TypeOK
<1>2. QED
  BY <1>1, FS_CardinalityType DEF Count

-----------------------------------------------------------------------------
(* Type correctness *)

\* The variables keep their types through every step, and no sweep is started
\* for more than the lookback.
LEMMA TypeStep == TypeOK /\ [Next]_vars => TypeOK'
<1> SUFFICES ASSUME TypeOK, [Next]_vars PROVE TypeOK'
  OBVIOUS
<1> USE DEF TypeOK
<1>1. ASSUME NEW q \in Queries, Finish(q) \/ Appear(q) PROVE TypeOK'
  BY <1>1 DEF Finish, Appear
<1>2. CASE Tick
  BY <1>2 DEF Tick
<1>3. ASSUME NEW w \in Writers, NEW lo \in Int, NEW hi \in Int, NEW next,
             next \in {"watermark", "sweep"}, lo >= hi - Lookback,
             Start(w, lo, hi, next), UNCHANGED <<source, cache, cut>>,
             forgone' \subseteq Queries
      PROVE  TypeOK'
  <2>1. <<lo, hi>> \in Window /\ <<<<lo, hi>>>> \in Seq(Window)
    BY DEF Window
  <2>2. QED
    BY <1>3, <2>1 DEF Start
<1>4. ASSUME NEW w \in Writers, BeginRefresh(w) PROVE TypeOK'
  BY <1>3, <1>4 DEF BeginRefresh, Seconds
<1>5. ASSUME NEW w \in Writers, ReadWatermark(w) PROVE TypeOK'
  <2> DEFINE hi == range[w][2]
             lo == IF cache = {} THEN hi - Lookback ELSE RefreshFrom(Watermark)
  <2>1. hi \in Int
    BY DEF Window
  <2>2. lo \in Int
    <3>1. CASE cache = {}
      BY <2>1, <3>1
    <3>2. CASE cache # {}
      BY <3>2, WatermarkExists DEF RefreshFrom
    <3>3. QED
      BY <3>1, <3>2
  <2>3. /\ ClampLookback(hi, lo) \in Int
        /\ ClampLookback(hi, lo) >= hi - Lookback
    BY <2>1, <2>2 DEF ClampLookback
  <2>4. /\ Start(w, ClampLookback(hi, lo), hi, "sweep")
        /\ UNCHANGED <<source, cache, history>>
    BY <1>5 DEF ReadWatermark
  <2> HIDE DEF hi, lo
  <2>5. QED
    BY <1>3, <2>1, <2>3, <2>4
<1>6. ASSUME NEW w \in Writers, BeginBackfill(w) PROVE TypeOK'
  <2>1. PICK days \in Days :
          /\ Start(w, ClampLookback(Seconds(clock), Seconds(clock) - days),
                   Seconds(clock), "sweep")
          /\ forgone' \subseteq forgone \union (visible \ cache)
    BY <1>6 DEF BeginBackfill
  <2>2. Seconds(clock) \in Int /\ days \in Nat
    BY DEF Seconds
  <2>3. /\ ClampLookback(Seconds(clock), Seconds(clock) - days) \in Int
        /\ ClampLookback(Seconds(clock), Seconds(clock) - days) >= Seconds(clock) - Lookback
    BY <2>2 DEF ClampLookback
  <2>4. QED
    BY <1>3, <1>6, <2>1, <2>2, <2>3 DEF BeginBackfill
<1>7. ASSUME NEW w \in Writers, Skip(w) PROVE TypeOK'
  BY <1>7, PopWindow DEF Skip, Pop
<1>8. ASSUME NEW w \in Writers, Probe(w) PROVE TypeOK'
  <2>1. Top(w) \in Window /\ Pop(w) \in Seq(Window)
    BY <1>8, PopWindow, TopWindow DEF Probe, Top, Pop
  <2>2. Pop(w) \o Halves(Top(w)[1], Top(w)[2]) \in Seq(Window)
    BY <2>1, HalvesWindow, ConcatProperties DEF Window
  <2>3. Count(Rows(Top(w)[1], Top(w)[2])) \in Nat
    BY CountType
  <2>4. QED
    BY <1>8, <2>2, <2>3 DEF Probe
<1>9. ASSUME NEW w \in Writers, MergeWindow(w) PROVE TypeOK'
  <2>1. Pop(w) \in Seq(Window)
    BY <1>9, PopWindow DEF Pop
  <2>2. cache' \subseteq Queries /\ cut' \subseteq Queries
    BY <1>9 DEF MergeWindow, Returned, Rows
  <2>3. QED
    BY <1>9, <2>1, <2>2 DEF MergeWindow
<1>10. ASSUME NEW w \in Writers, Return(w) \/ Fail(w) PROVE TypeOK'
  <2>1. <<0, 0>> \in Window /\ <<>> \in Seq(Window)
    BY EmptySeq DEF Window
  <2>2. UNCHANGED <<source, cache, cut>> /\ pc' = [pc EXCEPT ![w] = "idle"]
    BY <1>10 DEF Return, Fail
  <2>3. range' = [range EXCEPT ![w] = <<0, 0>>]
    BY <1>10 DEF Return, Fail
  <2>4. /\ stack' = stack \/ stack' = [stack EXCEPT ![w] = <<>>]
        /\ counted' = counted \/ counted' = [counted EXCEPT ![w] = 0]
        /\ forgone' \subseteq Queries
    BY <1>10 DEF Return, Fail
  <2>5. range' \in [Writers -> Window] /\ stack' \in [Writers -> Seq(Window)]
    BY <2>1, <2>3, <2>4
  <2>6. /\ counted' \in [Writers -> Nat]
        /\ pc' \in [Writers -> {"idle", "watermark", "sweep", "merge"}]
    <3>1. CASE counted' = counted
      BY <2>2, <3>1
    <3>2. CASE counted' = [counted EXCEPT ![w] = 0]
      BY <2>2, <3>2
    <3>3. QED
      BY <2>4, <3>1, <3>2
  <2>7. \A v \in Writers : range'[v][1] >= range'[v][2] - Lookback
    BY <2>3
  <2>8. QED
    BY <2>2, <2>4, <2>5, <2>6, <2>7
<1>11. CASE UNCHANGED vars
  BY <1>11 DEF vars
<1>12. QED
  BY <1>1, <1>2, <1>4, <1>5, <1>6, <1>7, <1>8, <1>9, <1>10, <1>11
     DEF Next, Continue

\* Type correctness of the source, the table and every sweep.
THEOREM TypeCorrect == Spec => []TypeOK
<1>1. Init => TypeOK
  BY EmptySeq DEF Init, TypeOK, Window
<1>2. QED
  BY <1>1, TypeStep, PTL DEF Spec

-----------------------------------------------------------------------------
(* Coverage: a sweep drops nothing of its range *)

\* What sweeps may rely on: a query ends once, before or now, what is visible has ended,
\* and what has ended is visible after the lag.
SourceInv ==
    /\ clock >= 1
    /\ \A q \in Queries : Ended(q) => 1 <= endTime[q] /\ endTime[q] <= clock
    /\ \A q \in visible : Ended(q)
    /\ \A q \in Queries \ visible : Ended(q) => endTime[q] >= clock - Lag

\* What a sweep under way relies on: its range lies in the past, its windows stay in
\* the range, none of them is empty unless the range is, and the window about to be
\* merged was counted below the ceiling or is a second.
SweepInv(w) ==
    /\ pc[w] # "idle" => 2 * range[w][2] < clock
    /\ pc[w] \in {"sweep", "merge"} =>
        \A i \in 1..Len(stack[w]) :
            /\ stack[w][i][2] <= range[w][2]
            /\ range[w][1] < range[w][2] => stack[w][i][1] < stack[w][i][2]
    /\ pc[w] = "merge" =>
        /\ stack[w] # <<>>
        /\ Top(w)[1] < Top(w)[2]
        /\ MayTruncate(w)

\* SweepCoverage for one sweep and one query.
Covered(w, q) == q \in cache \/ OnStack(w, q) \/ q \in cut

Covers(w) ==
    pc[w] \in {"sweep", "merge"} /\ range[w][1] < range[w][2] =>
        \A q \in Queries :
            /\ Ended(q) /\ Within(q, range[w][1], range[w][2])
            /\ endTime[q] <= 2 * range[w][2] - Lag
            => Covered(w, q)

CoverageInv ==
    /\ SourceInv
    /\ \A w \in Writers : SweepInv(w) /\ Covers(w)

SourceStep == (\E q \in Queries : Finish(q) \/ Appear(q)) \/ Tick

\* A step of the source: time does not go back, what is visible stays, an end time
\* never changes, nothing ends in the past, and a row appears within the lag.
LEMMA SourceMoves ==
    ASSUME TypeOK, SourceInv, SourceStep
    PROVE  /\ SourceInv'
           /\ clock' >= clock
           /\ visible \subseteq visible'
           /\ \A q \in Queries : Ended(q) => endTime'[q] = endTime[q] /\ Ended(q)'
           /\ \A q \in Queries : ~Ended(q) /\ Ended(q)' => endTime'[q] = clock
           /\ \A q \in visible' \ visible : Ended(q)
           /\ UNCHANGED <<cache, sweep, history>>
<1> USE DEF TypeOK, SourceInv, Ended
<1>1. CASE \E q \in Queries : Finish(q)
  BY <1>1 DEF Finish
<1>2. CASE \E q \in Queries : Appear(q)
  BY <1>2 DEF Appear
<1>3. CASE Tick
  <2>1. \A q \in Queries \ visible : Ended(q) => endTime[q] >= clock + 1 - Lag
    BY <1>3 DEF Tick
  <2>2. QED
    BY <1>3, <2>1 DEF Tick
<1>4. QED
  BY <1>1, <1>2, <1>3 DEF SourceStep

\* The source disturbs no sweep: a query that ends now ends after its range.
LEMMA SourceKeepsSweep ==
    ASSUME TypeOK, TypeOK', SourceInv, SourceStep,
           NEW w \in Writers, SweepInv(w), Covers(w)
    PROVE  SweepInv(w)' /\ Covers(w)'
<1>1. /\ pc' = pc /\ range' = range /\ stack' = stack /\ counted' = counted
      /\ cache' = cache /\ cut' = cut
      /\ clock \in Nat /\ clock' \in Nat /\ clock' >= clock
      /\ range[w] \in Window
  BY SourceMoves DEF TypeOK
<1>2. SweepInv(w)'
  BY <1>1 DEF SweepInv, Top, MayTruncate, Divisible, Window
<1>3. Covers(w)'
  <2> SUFFICES ASSUME pc[w] \in {"sweep", "merge"}, range[w][1] < range[w][2],
                      NEW q \in Queries, Ended(q)', Within(q, range[w][1], range[w][2])',
                      endTime'[q] <= 2 * range[w][2] - Lag
               PROVE  Covered(w, q)'
    BY <1>1 DEF Covers
  <2>1. Ended(q) /\ endTime'[q] = endTime[q]
    BY <1>1, SourceMoves DEF SweepInv, Within, Window
  <2>2. Covered(w, q)
    BY <1>1, <2>1 DEF Covers, Within
  <2>3. QED
    BY <1>1, <2>1, <2>2 DEF Covered, OnStack, Within
<1>4. QED
  BY <1>2, <1>3

\* A sweep is not disturbed by the other writers, whose rows only add to the table.
LEMMA OthersKeepSweep ==
    ASSUME TypeOK, UNCHANGED source, cache \subseteq cache', cut \subseteq cut',
           NEW v \in Writers, pc'[v] = pc[v], range'[v] = range[v],
           stack'[v] = stack[v], counted'[v] = counted[v],
           SweepInv(v), Covers(v)
    PROVE  SweepInv(v)' /\ Covers(v)'
<1>1. SweepInv(v)'
  BY DEF SweepInv, Top, MayTruncate, Divisible
<1>2. Covers(v)'
  BY DEF Covers, Covered, OnStack, Within, Ended
<1>3. QED
  BY <1>1, <1>2

\* A new sweep has its whole range on its stack.
LEMMA StartCovers ==
    ASSUME TypeOK, NEW w \in Writers, NEW lo \in Int, NEW hi \in Int, 2 * hi < clock,
           NEW next, next \in {"watermark", "sweep"},
           Start(w, lo, hi, next), UNCHANGED <<source, cache, cut>>
    PROVE  SweepInv(w)' /\ Covers(w)'
<1>1. pc'[w] = next /\ range'[w] = <<lo, hi>> /\ stack'[w] = <<<<lo, hi>>>>
  BY DEF TypeOK, Start
<1>2. Len(stack'[w]) = 1 /\ stack'[w][1] = <<lo, hi>>
  BY <1>1
<1>3. SweepInv(w)'
  BY <1>1, <1>2 DEF SweepInv
<1>4. \A q \in Queries : Within(q, range[w][1], range[w][2])' => Covered(w, q)'
  BY <1>1, <1>2 DEF Covered, OnStack, Within
<1>5. QED
  BY <1>3, <1>4 DEF Covers

\* Probing a window loses nothing of it: its halves share their boundary.
LEMMA ProbeCovers ==
    ASSUME TypeOK, NEW w \in Writers, SweepInv(w), Covers(w), Probe(w)
    PROVE  /\ SweepInv(w)' /\ Covers(w)'
           /\ \A q \in Queries : OnStack(w, q) => OnStack(w, q)'
<1> DEFINE s == stack[w]
           lo == Top(w)[1]
           hi == Top(w)[2]
<1>1. /\ pc[w] = "sweep" /\ s # <<>> /\ lo < hi
      /\ range' = range /\ UNCHANGED <<source, cache, cut>>
  BY DEF Probe
<1>2. /\ s \in Seq(Window) /\ Len(s) \in Nat \ {0}
      /\ s[Len(s)] = Top(w) /\ Top(w) \in Window /\ lo \in Int /\ hi \in Int
      /\ range[w][1] \in Int /\ range[w][2] \in Int
  BY <1>1, TopWindow DEF TypeOK, Top, Window
<1>3. ASSUME UNCHANGED stack, pc'[w] = "merge",
             counted'[w] = Count(Rows(lo, hi)),
             ~(Saturated(Count(Rows(lo, hi))) /\ Divisible(lo, hi))
      PROVE  SweepInv(w)' /\ \A q \in Queries : OnStack(w, q) => OnStack(w, q)'
  <2>1. Count(Rows(lo, hi)) \in Nat
    BY CountType
  <2>2. MayTruncate(w)'
    BY <1>3, <2>1 DEF MayTruncate, Saturated, Divisible, Top
  <2>3. QED
    BY <1>1, <1>3, <2>2 DEF SweepInv, OnStack, Within, Top
<1>4. ASSUME stack' = [stack EXCEPT ![w] = Pop(w) \o Halves(lo, hi)],
             pc' = pc, Divisible(lo, hi)
      PROVE  SweepInv(w)' /\ \A q \in Queries : OnStack(w, q) => OnStack(w, q)'
  <2> DEFINE t == Pop(w) \o Halves(lo, hi)
             n == Len(s) - 1
  <2>1. PICK mid \in Int : /\ Halves(lo, hi) = <<<<lo, mid>>, <<mid, hi>>>>
                           /\ Halves(lo, hi) \in Seq(Window)
                           /\ lo < mid /\ mid < hi
    BY <1>2, <1>4, HalvesWindow
  <2>2. /\ Pop(w) \in Seq(Window) /\ Len(Pop(w)) = n /\ n \in Nat
        /\ \A i \in 1..n : Pop(w)[i] = s[i]
    BY <1>1, <1>2, PopWindow DEF Pop
  <2>3. /\ Len(t) = n + 2
        /\ \A i \in 1..n : t[i] = s[i]
        /\ t[n + 1] = <<lo, mid>> /\ t[n + 2] = <<mid, hi>>
    <3> DEFINE h == Halves(lo, hi)
    <3>1. Len(h) = 2 /\ h[1] = <<lo, mid>> /\ h[2] = <<mid, hi>> /\ h \in Seq(Window)
      BY <2>1
    <3>2. t = Pop(w) \o h
      OBVIOUS
    <3> HIDE DEF t, lo, hi, n, h
    <3>3. /\ Len(t) = Len(Pop(w)) + 2
          /\ \A i \in 1..Len(Pop(w)) : t[i] = Pop(w)[i]
          /\ t[Len(Pop(w)) + 1] = h[1]
          /\ t[Len(Pop(w)) + 2] = h[2]
      BY <2>2, <3>1, <3>2, PushTwo
    <3>4. QED
      BY <2>2, <3>1, <3>3
  <2>4. stack'[w] = t
    BY <1>4 DEF TypeOK
  <2>5. s[n + 1] = <<lo, hi>> /\ Len(s) = n + 1
    BY <1>2 DEF Window
  <2>6. SweepInv(w)'
    <3> HIDE DEF t, lo, hi, n, s
    <3>1. \A i \in 1..Len(s) :
            /\ s[i][2] <= range[w][2]
            /\ range[w][1] < range[w][2] => s[i][1] < s[i][2]
      BY <1>1 DEF SweepInv, s
    <3>2. hi <= range[w][2]
      BY <2>2, <2>5, <3>1
    <3>3. \A i \in 1..Len(t) :
            /\ t[i][2] <= range[w][2]
            /\ range[w][1] < range[w][2] => t[i][1] < t[i][2]
      <4> TAKE i \in 1..Len(t)
      <4>1. CASE i \in 1..n
        BY <2>2, <2>3, <2>5, <3>1, <4>1
      <4>2. CASE i = n + 1
        BY <1>2, <2>1, <2>3, <3>2, <4>2
      <4>3. CASE i = n + 2
        BY <1>2, <2>1, <2>3, <3>2, <4>3
      <4>4. QED
        BY <2>2, <2>3, <4>1, <4>2, <4>3
    <3>4. QED
      BY <1>1, <1>4, <2>4, <3>3 DEF SweepInv
  <2> HIDE DEF t
  <2>7. ASSUME NEW q \in Queries, OnStack(w, q) PROVE OnStack(w, q)'
    <3>1. ASSUME NEW i \in 1..Len(s), Within(q, s[i][1], s[i][2])
          PROVE  \E j \in 1..Len(t) : Within(q, t[j][1], t[j][2])
      <4>1. CASE i \in 1..n
        BY SMTT(30), <2>2, <2>3, <3>1, <4>1
      <4>2. CASE i = n + 1
        <5>1. Within(q, lo, mid) \/ Within(q, mid, hi)
          BY <1>2, <2>1, <2>5, <3>1, <4>2 DEF Within, TypeOK
        <5>2. n + 1 \in 1..Len(t) /\ n + 2 \in 1..Len(t)
          BY <2>2, <2>3
        <5>3. QED
          BY <2>3, <5>1, <5>2
      <4>3. QED
        BY <1>2, <2>2, <4>1, <4>2
    <3>2. QED
      BY <1>1, <2>4, <2>7, <3>1 DEF OnStack, Within
  <2>8. QED
    BY <2>6, <2>7
<1>5. SweepInv(w)' /\ \A q \in Queries : OnStack(w, q) => OnStack(w, q)'
  <2>1. CASE Saturated(Count(Rows(lo, hi))) /\ Divisible(lo, hi)
    BY <1>4, <2>1 DEF Probe
  <2>2. CASE ~(Saturated(Count(Rows(lo, hi))) /\ Divisible(lo, hi))
    BY <1>3, <2>2 DEF Probe, TypeOK
  <2>3. QED
    BY <2>1, <2>2
<1>6. Covers(w)'
  BY <1>1, <1>5 DEF Covers, Covered, Ended, Within
<1>7. QED
  BY <1>5, <1>6

\* A skipped window is empty, and a sweep of a range that is not has none.
LEMMA SkipCovers ==
    ASSUME TypeOK, NEW w \in Writers, SweepInv(w), Covers(w), Skip(w)
    PROVE  SweepInv(w)' /\ Covers(w)' /\ ~(range[w][1] < range[w][2])
<1>1. /\ pc[w] = "sweep" /\ stack[w] # <<>> /\ Top(w)[2] <= Top(w)[1]
      /\ stack'[w] = Pop(w)
      /\ UNCHANGED <<source, cache, pc, range>>
  BY DEF Skip, TypeOK
<1>2. /\ stack[w] \in Seq(Window) /\ Len(stack[w]) \in Nat \ {0}
      /\ stack[w][Len(stack[w])] = Top(w) /\ Top(w) \in Window
  BY <1>1, TopWindow DEF TypeOK, Top
<1>3. /\ Len(Pop(w)) = Len(stack[w]) - 1
      /\ \A i \in 1..Len(stack[w]) - 1 : Pop(w)[i] = stack[w][i]
  BY <1>1, <1>2, PopWindow DEF Pop
<1>4. SweepInv(w)'
  BY <1>1, <1>2, <1>3 DEF SweepInv
<1>5. ~(range[w][1] < range[w][2])
  <2>1. range[w][1] < range[w][2] => Top(w)[1] < Top(w)[2]
    BY <1>1, <1>2 DEF SweepInv
  <2>2. Top(w)[1] \in Int /\ Top(w)[2] \in Int
    BY <1>2 DEF Window
  <2>3. QED
    BY <1>1, <2>1, <2>2
<1>6. QED
  BY <1>1, <1>4, <1>5 DEF Covers

\* A merged window is done: each of its rows is returned, or cut off by the ceiling in a
\* window that the probe could not know to be truncated.
LEMMA MergeCovers ==
    ASSUME TypeOK, SourceInv, NEW w \in Writers, SweepInv(w), Covers(w), MergeWindow(w)
    PROVE  /\ SweepInv(w)' /\ Covers(w)' /\ cache \subseteq cache' /\ cut \subseteq cut'
           /\ \A q \in visible : Covered(w, q) => Covered(w, q)'
<1> DEFINE s == stack[w]
           lo == Top(w)[1]
           hi == Top(w)[2]
           n == Len(s) - 1
<1>1. /\ pc[w] = "merge" /\ s # <<>> /\ lo < hi /\ MayTruncate(w)
      /\ pc'[w] = "sweep" /\ stack'[w] = Pop(w)
      /\ UNCHANGED <<source, range>>
  <2>1. pc[w] = "merge" /\ s # <<>> /\ lo < hi /\ MayTruncate(w)
    BY DEF MergeWindow, SweepInv
  <2>2. pc'[w] = "sweep" /\ stack'[w] = Pop(w) /\ UNCHANGED <<source, range>>
    BY DEF MergeWindow, TypeOK
  <2>3. QED
    BY <2>1, <2>2
<1>2. /\ s \in Seq(Window) /\ n \in Nat /\ Len(s) = n + 1
      /\ s[n + 1] = Top(w) /\ Top(w) \in Window /\ lo \in Int /\ hi \in Int
  BY <1>1, TopWindow DEF TypeOK, Top, Window
<1>3. /\ Len(Pop(w)) = n
      /\ \A i \in 1..n : Pop(w)[i] = s[i]
  BY <1>1, <1>2, PopWindow DEF Pop
<1>4. PICK kept \in Returned(Rows(lo, hi)) :
        /\ cache' = cache \union kept
        /\ cut' = cut \union (Rows(lo, hi) \ kept)
  BY <1>1 DEF MergeWindow
<1>5. SweepInv(w)'
  BY <1>1, <1>2, <1>3 DEF SweepInv
<1>6. ASSUME NEW q \in visible, Covered(w, q) PROVE Covered(w, q)'
  <2>1. CASE q \in cache \union cut
    BY <1>4, <2>1 DEF Covered
  <2>2. ASSUME NEW i \in 1..Len(s), Within(q, s[i][1], s[i][2])
        PROVE  Covered(w, q)'
    <3>1. CASE i \in 1..n
      BY <1>1, <1>3, <2>2, <3>1 DEF Covered, OnStack, Within
    <3>2. CASE i = n + 1
      <4>1. q \in Rows(lo, hi)
        BY <1>2, <2>2, <3>2 DEF Rows
      <4>2. QED
        BY <1>4, <4>1 DEF Covered
    <3>3. QED
      BY <1>2, <3>1, <3>2
  <2>3. QED
    BY <1>6, <2>1, <2>2 DEF Covered, OnStack
<1>7. Covers(w)'
  <2> SUFFICES ASSUME range[w][1] < range[w][2], NEW q \in Queries, Ended(q),
                      Within(q, range[w][1], range[w][2]),
                      endTime[q] <= 2 * range[w][2] - Lag
               PROVE  Covered(w, q)'
    BY <1>1 DEF Covers, Ended, Within
  <2>1. 2 * range[w][2] < clock /\ clock \in Nat /\ range[w][2] \in Int
        /\ endTime[q] \in Nat
    BY <1>1 DEF SweepInv, TypeOK, Window
  <2>2. q \in visible
    BY <2>1 DEF SourceInv
  <2>3. Covered(w, q)
    BY <1>1 DEF Covers
  <2>4. QED
    BY <1>6, <2>2, <2>3
<1>8. QED
  BY <1>4, <1>5, <1>6, <1>7

\* Every step preserves CoverageInv.
LEMMA CoverageStep ==
    ASSUME TypeOK, TypeOK', CoverageInv, [Next]_vars
    PROVE  CoverageInv'
<1> USE DEF CoverageInv
<1>1. CASE SourceStep
  BY <1>1, SourceMoves, SourceKeepsSweep
<1>2. ASSUME NEW w \in Writers, UNCHANGED source,
             cache \subseteq cache', cut \subseteq cut',
             \A v \in Writers \ {w} :
                /\ pc'[v] = pc[v] /\ range'[v] = range[v]
                /\ stack'[v] = stack[v] /\ counted'[v] = counted[v],
             SweepInv(w)', Covers(w)'
      PROVE  CoverageInv'
  <2>1. SourceInv'
    BY <1>2 DEF SourceInv, Ended
  <2>2. \A v \in Writers : SweepInv(v)' /\ Covers(v)'
    BY <1>2, OthersKeepSweep
  <2>3. QED
    BY <2>1, <2>2
<1>3. ASSUME NEW w \in Writers, NEW lo \in Int, NEW hi \in Int, 2 * hi < clock,
             NEW next, next \in {"watermark", "sweep"},
             Start(w, lo, hi, next), UNCHANGED <<source, cache, cut>>
      PROVE  CoverageInv'
  <2>1. SweepInv(w)' /\ Covers(w)'
    BY <1>3, StartCovers
  <2>2. \A v \in Writers \ {w} :
          /\ pc'[v] = pc[v] /\ range'[v] = range[v]
          /\ stack'[v] = stack[v] /\ counted'[v] = counted[v]
    BY <1>3 DEF Start, TypeOK
  <2>3. QED
    BY <1>2, <1>3, <2>1, <2>2
<1>4. ASSUME NEW w \in Writers, BeginRefresh(w) PROVE CoverageInv'
  <2>1. 2 * Seconds(clock) < clock /\ Seconds(clock) \in Int
    BY <1>4 DEF BeginRefresh, MidSecond, Seconds, TypeOK
  <2>2. QED
    BY <1>3, <1>4, <2>1 DEF BeginRefresh
<1>5. ASSUME NEW w \in Writers, BeginBackfill(w) PROVE CoverageInv'
  <2>1. 2 * Seconds(clock) < clock /\ Seconds(clock) \in Int
    BY <1>5 DEF BeginBackfill, MidSecond, Seconds, TypeOK
  <2>2. QED
    BY <1>3, <1>5, <2>1 DEF BeginBackfill, ClampLookback
<1>6. ASSUME NEW w \in Writers, ReadWatermark(w) PROVE CoverageInv'
  <2> DEFINE hi == range[w][2]
             lo == IF cache = {} THEN hi - Lookback ELSE RefreshFrom(Watermark)
  <2>1. hi \in Int /\ 2 * hi < clock
    BY <1>6 DEF TypeOK, Window, SweepInv, ReadWatermark
  <2>2. ClampLookback(hi, lo) \in Int
    BY <2>1, WatermarkExists DEF RefreshFrom, ClampLookback
  <2>3. /\ Start(w, ClampLookback(hi, lo), hi, "sweep")
        /\ UNCHANGED <<source, cache, history>>
    BY <1>6 DEF ReadWatermark
  <2> HIDE DEF hi, lo
  <2>4. QED
    BY <1>3, <2>1, <2>2, <2>3
<1>7. ASSUME NEW w \in Writers, Skip(w) \/ Probe(w) \/ MergeWindow(w)
      PROVE  CoverageInv'
  <2>1. SweepInv(w)' /\ Covers(w)' /\ cache \subseteq cache' /\ cut \subseteq cut'
    <3>1. CASE Skip(w)
      BY <3>1, SkipCovers DEF Skip
    <3>2. CASE Probe(w)
      BY <3>2, ProbeCovers DEF Probe
    <3>3. CASE MergeWindow(w)
      BY <3>3, MergeCovers
    <3>4. QED
      BY <1>7, <3>1, <3>2, <3>3
  <2>2. UNCHANGED source /\ \A v \in Writers \ {w} :
          /\ pc'[v] = pc[v] /\ range'[v] = range[v]
          /\ stack'[v] = stack[v] /\ counted'[v] = counted[v]
    BY <1>7 DEF Skip, Probe, MergeWindow, TypeOK
  <2>3. QED
    BY <1>2, <2>1, <2>2
<1>8. ASSUME NEW w \in Writers, Return(w) \/ Fail(w) PROVE CoverageInv'
  <2>1. pc'[w] = "idle" /\ UNCHANGED <<source, cache, cut>>
    BY <1>8 DEF Return, Fail, TypeOK
  <2>2. SweepInv(w)' /\ Covers(w)'
    BY <2>1 DEF SweepInv, Covers
  <2>3. \A v \in Writers \ {w} :
          /\ pc'[v] = pc[v] /\ range'[v] = range[v]
          /\ stack'[v] = stack[v] /\ counted'[v] = counted[v]
    BY <1>8 DEF Return, Fail, TypeOK
  <2>4. QED
    BY <1>2, <2>1, <2>2, <2>3
<1>9. CASE UNCHANGED vars
  <2>1. UNCHANGED <<source, cache, sweep, history>>
    BY <1>9 DEF vars
  <2>2. \A v \in Writers : SweepInv(v)' /\ Covers(v)'
    BY <2>1, OthersKeepSweep
  <2>3. SourceInv'
    BY <2>1 DEF SourceInv, Ended
  <2>4. QED
    BY <2>2, <2>3
<1>10. QED
  BY <1>1, <1>4, <1>5, <1>6, <1>7, <1>8, <1>9 DEF Next, Continue, SourceStep

\* Whatever the lag of the history, the writers, the failures and the sizes of the
\* windows, every query of a sweep's range that the history showed when the sweep began
\* is cached, or in a window the sweep still has to do, or was cut off by the row ceiling
\* where the probe could not tell.
THEOREM SweepLeavesNoGap == Spec => []SweepCoverage
<1>1. Init => CoverageInv
  BY DEF Init, CoverageInv, SourceInv, SweepInv, Covers, Ended
<1>2. TypeOK /\ TypeOK' /\ CoverageInv /\ [Next]_vars => CoverageInv'
  BY CoverageStep
<1>3. CoverageInv => SweepCoverage
  BY DEF CoverageInv, Covers, Covered, SweepCoverage
<1>4. QED
  BY <1>1, <1>2, <1>3, TypeCorrect, PTL DEF Spec

-----------------------------------------------------------------------------
(* Reach: what no refresh will scan any more is in the table, or given up *)

\* A sweep under way, of a range that is not empty, will still merge the query.
Awaited(w, q) ==
    /\ pc[w] \in {"sweep", "merge"} /\ range[w][1] < range[w][2]
    /\ OnStack(w, q)

\* What NothingOutOfReach allows a query that is not in the table.
Accounted(q) ==
    ~Passed(q) \/ endTime[q] < clock - 2 * Lookback \/ q \in cut \union forgone

\* A sweep starts low: a missing query that ended before its range was given up for it,
\* or had been passed already, or had not shown when it began, or is past the lookback.
StartsLow(w) ==
    pc[w] \in {"sweep", "merge"} =>
        \A q \in visible \ cache : endTime[q] < 2 * range[w][1] =>
            \/ q \in forgone
            \/ Passed(q)
            \/ endTime[q] > 2 * range[w][2] - Lag
            \/ endTime[q] < clock - 2 * Lookback

ReachInv ==
    /\ cache \subseteq visible
    /\ \A w \in Writers : StartsLow(w)
    /\ \A q \in visible \ cache : Accounted(q) \/ \E w \in Writers : Awaited(w, q)

\* A table whose rows stay keeps every query it has passed.
LEMMA PassedStays ==
    ASSUME TypeOK, TypeOK', cache \subseteq cache',
           \A q \in cache : endTime'[q] = endTime[q],
           NEW q \in Queries, endTime'[q] = endTime[q], Passed(q)
    PROVE  Passed(q)'
<1>1. PICK m \in cache : endTime[q] < 2 * (Seconds(endTime[m]) - Overlap)
  BY PassedBy
<1>2. m \in cache' /\ endTime'[q] < 2 * (Seconds(endTime'[m]) - Overlap)
  BY <1>1 DEF Seconds
<1>3. \E r \in cache' : endTime'[q] < 2 * (Seconds(endTime[r])' - Overlap)
  BY <1>2 DEF Seconds
<1>4. QED
  BY <1>3, PassedByNext

\* What a step may do for its sweep's queries to stay accounted for: it keeps those it
\* will merge, or they are accounted for without it.
Keeps(w) ==
    \A q \in visible \ cache' :
        Awaited(w, q) => Awaited(w, q)' \/ Accounted(q)'

\* Every step keeps the history and the times of what has ended, and adds to the table.
Grows ==
    /\ cache \subseteq cache' /\ cut \subseteq cut' /\ forgone \subseteq forgone'
    /\ clock' >= clock /\ visible \subseteq visible'
    /\ \A q \in Queries : Ended(q) => endTime'[q] = endTime[q]
    /\ \A q \in visible' \ visible : Ended(q)

\* A sweep that keeps its range has no more rows before it to account for: a row that
\* appears now had not shown when the sweep began.
LEMMA StaysLow ==
    ASSUME TypeOK, TypeOK', SourceInv, ReachInv, Grows, NEW w \in Writers, SweepInv(w),
           pc'[w] \in {"sweep", "merge"} =>
             pc[w] \in {"sweep", "merge"} /\ range'[w] = range[w]
    PROVE  StartsLow(w)'
<1> SUFFICES ASSUME pc[w] \in {"sweep", "merge"}, range'[w] = range[w],
                    NEW q \in visible', q \notin cache', endTime'[q] < 2 * range[w][1]
             PROVE  \/ q \in forgone'
                    \/ Passed(q)'
                    \/ endTime'[q] > 2 * range[w][2] - Lag
                    \/ endTime'[q] < clock' - 2 * Lookback
  BY DEF StartsLow
<1>1. /\ q \in Queries /\ q \notin cache /\ endTime'[q] = endTime[q] /\ endTime[q] \in Nat
      /\ clock \in Nat /\ clock' \in Nat /\ clock' >= clock
      /\ range[w][1] \in Int /\ range[w][2] \in Int /\ 2 * range[w][2] < clock
  BY DEF Grows, SourceInv, SweepInv, TypeOK, Window
<1>2. CASE q \notin visible
  BY <1>1, <1>2 DEF Grows, SourceInv
<1>3. CASE q \in visible
  <2>1. \/ q \in forgone
        \/ Passed(q)
        \/ endTime[q] > 2 * range[w][2] - Lag
        \/ endTime[q] < clock - 2 * Lookback
    BY <1>1, <1>3 DEF ReachInv, StartsLow
  <2>2. Passed(q) => Passed(q)'
    <3>1. \A r \in cache : endTime'[r] = endTime[r]
      BY DEF Grows, SourceInv, ReachInv, TypeOK
    <3>2. QED
      BY <1>1, <3>1, PassedStays DEF Grows
  <2>3. QED
    BY <1>1, <2>1, <2>2 DEF Grows
<1>4. QED
  BY <1>2, <1>3

\* A step that leaves the table alone passes no query, and a row that appears does so
\* before a refresh has passed it, because the overlap covers the lag.
LEMMA SameTable ==
    ASSUME Lag <= 2 * Overlap, TypeOK, TypeOK', SourceInv, ReachInv,
           Grows, cache' = cache, \A w \in Writers : StartsLow(w)' /\ Keeps(w)
    PROVE  ReachInv'
<1>2. \A r \in cache : /\ endTime'[r] = endTime[r] /\ endTime[r] \in Nat
                       /\ endTime[r] <= clock
  BY DEF Grows, SourceInv, ReachInv, TypeOK
<1>3. ASSUME NEW q \in visible' \ cache
      PROVE  Accounted(q)' \/ \E w \in Writers : Awaited(w, q)'
  <2>1. /\ q \in Queries /\ endTime'[q] = endTime[q] /\ endTime[q] \in Nat
        /\ clock \in Nat /\ clock' \in Nat /\ clock' >= clock
    BY DEF Grows, SourceInv, TypeOK
  <2>2. Passed(q)' => \E r \in cache : endTime[q] < 2 * (Seconds(endTime[r]) - Overlap)
    BY <1>2, <2>1, PassedByNext DEF Seconds
  <2>3. CASE q \notin visible
    <3>1. endTime[q] >= clock - Lag
      BY <2>1, <2>3 DEF Grows, SourceInv
    <3>2. \A r \in cache : 2 * (Seconds(endTime[r]) - Overlap) <= clock - Lag
      BY <1>2, <2>1 DEF Seconds
    <3>3. \A r \in cache : Seconds(endTime[r]) \in Int
      BY <1>2 DEF Seconds
    <3>4. ~Passed(q)'
      BY <2>1, <2>2, <3>1, <3>2, <3>3
    <3>5. QED
      BY <3>4 DEF Accounted
  <2>4. CASE q \in visible
    <3>1. Accounted(q) => Accounted(q)'
      <4>1. ~Passed(q) => ~Passed(q)'
        BY <2>1, <2>2, PassedBy
      <4>2. endTime[q] < clock - 2 * Lookback => endTime'[q] < clock' - 2 * Lookback
        BY <2>1
      <4>3. QED
        BY <4>1, <4>2 DEF Accounted, Grows
    <3>2. QED
      BY <1>3, <2>4, <3>1 DEF ReachInv, Keeps
  <2>5. QED
    BY <2>3, <2>4
<1>4. cache' \subseteq visible'
  BY DEF ReachInv, Grows
<1>5. QED
  BY <1>3, <1>4 DEF ReachInv

\* A sweep is not disturbed by a step of another writer or of the source.
LEMMA OthersReach ==
    ASSUME TypeOK, TypeOK', SourceInv, ReachInv, Grows, NEW v \in Writers, SweepInv(v),
           pc'[v] = pc[v], range'[v] = range[v], stack'[v] = stack[v]
    PROVE  StartsLow(v)' /\ Keeps(v)
<1>1. StartsLow(v)'
  BY StaysLow
<1>2. ASSUME NEW q \in visible, Awaited(v, q) PROVE Awaited(v, q)'
  <2>1. endTime'[q] = endTime[q]
    BY DEF Grows, SourceInv, TypeOK
  <2>2. QED
    BY <1>2, <2>1 DEF Awaited, OnStack, Within
<1>3. QED
  BY <1>1, <1>2 DEF Keeps

\* A merge moves the watermark no further than its sweep's range, so a row that it
\* passes either had not shown when the sweep began, and then the overlap still covers
\* it; or is awaited by the sweep, or cut off; or ended before the sweep's range.
LEMMA MergeReaches ==
    ASSUME Lag <= 2 * Overlap, TypeOK, TypeOK', CoverageInv, ReachInv,
           NEW w \in Writers, MergeWindow(w)
    PROVE  ReachInv'
<1>1. /\ SweepInv(w) /\ Covers(w) /\ SourceInv
      /\ \A q \in visible : Covered(w, q) => Covered(w, q)'
      /\ cache \subseteq cache' /\ cut \subseteq cut'
  BY MergeCovers DEF CoverageInv
<1>2. /\ pc[w] = "merge" /\ stack[w] # <<>> /\ pc'[w] = "sweep"
      /\ UNCHANGED <<source, range, forgone>>
      /\ \A v \in Writers \ {w} : pc'[v] = pc[v] /\ stack'[v] = stack[v]
  BY DEF MergeWindow, SweepInv, CoverageInv, TypeOK
<1>3. PICK lo \in Int, hi \in Int : range[w][1] = lo /\ range[w][2] = hi
  BY DEF TypeOK, Window
<1>4. 2 * hi < clock /\ clock \in Nat
  BY <1>1, <1>2, <1>3 DEF SweepInv, TypeOK
<1>5. \A q \in Queries : endTime'[q] = endTime[q] /\ endTime[q] \in Nat
  BY <1>2 DEF TypeOK
<1>6. cache' \subseteq visible' /\ \A m \in cache' \ cache : endTime[m] <= 2 * hi
  <2>1. PICK kept \in Returned(Rows(Top(w)[1], Top(w)[2])) : cache' = cache \union kept
    BY DEF MergeWindow
  <2>2. kept \subseteq Rows(Top(w)[1], Top(w)[2])
    BY DEF Returned
  <2>3. Top(w) \in Window /\ Len(stack[w]) \in Nat \ {0}
    BY <1>2, TopWindow DEF TypeOK, Top
  <2>4. Top(w)[2] <= hi /\ Top(w)[2] \in Int
    BY <1>1, <1>2, <1>3, <2>3 DEF SweepInv, Top, Window
  <2>5. \A m \in kept : m \in visible /\ m \in Queries /\ endTime[m] <= 2 * Top(w)[2]
    BY <2>2, <2>3 DEF Rows, Within, Window, TypeOK
  <2>6. \A m \in kept : endTime[m] <= 2 * hi
    BY <2>4, <2>5, <1>5
  <2>7. QED
    BY <1>2, <2>1, <2>5, <2>6 DEF ReachInv
<1>7. Grows
  BY <1>1, <1>2 DEF Grows, TypeOK
<1>8. \A v \in Writers : StartsLow(v)'
  <2>1. \A v \in Writers : /\ SweepInv(v)
                           /\ pc'[v] \in {"sweep", "merge"} =>
                                pc[v] \in {"sweep", "merge"} /\ range'[v] = range[v]
    BY <1>2 DEF CoverageInv
  <2>2. QED
    BY <1>1, <1>7, <2>1, StaysLow
<1>9. ASSUME NEW q \in visible \ cache'
      PROVE  Accounted(q)' \/ \E v \in Writers : Awaited(v, q)'
  <2> DEFINE e == endTime[q]
  <2>1. q \in Queries /\ q \notin cache /\ Ended(q) /\ e \in Nat /\ endTime'[q] = e
    BY <1>1, <1>5, <1>9 DEF SourceInv, TypeOK
  <2>2. ASSUME Covered(w, q), lo < hi PROVE Accounted(q)' \/ Awaited(w, q)'
    BY <1>1, <1>2, <1>3, <1>9, <2>2 DEF Covered, Accounted, Awaited
  <2>3. ASSUME NEW v \in Writers, Awaited(v, q)
        PROVE  Accounted(q)' \/ Awaited(v, q)'
    <3>1. CASE v = w
      BY <1>3, <2>2, <2>3, <3>1 DEF Awaited, Covered
    <3>2. CASE v # w
      BY <1>2, <2>3, <3>2 DEF Awaited, OnStack, Within
    <3>3. QED
      BY <3>1, <3>2
  <2>4. CASE e < clock - 2 * Lookback \/ q \in cut \union forgone
    BY <1>1, <1>2, <2>1, <2>4 DEF Accounted
  <2>5. CASE ~Passed(q)
    <3>1. CASE ~Passed(q)'
      BY <3>1 DEF Accounted
    <3>2. CASE Passed(q)'
      <4>1. PICK m \in cache' : e < 2 * (Seconds(endTime[m]) - Overlap)
        <5>1. PICK r \in cache' : endTime'[q] < 2 * (Seconds(endTime[r])' - Overlap)
          BY <2>1, <3>2, PassedByNext
        <5>2. r \in Queries /\ endTime'[r] = endTime[r]
          BY <1>5 DEF TypeOK
        <5>3. QED
          BY <2>1, <5>1, <5>2 DEF Seconds
      <4>2. m \in Queries /\ endTime[m] \in Nat /\ m \notin cache
        BY <1>5, <2>1, <2>5, <4>1, PassedBy DEF TypeOK
      <4>3. endTime[m] <= 2 * hi
        BY <1>6, <4>1, <4>2
      <4>4. e <= 2 * hi - Lag /\ e < 2 * hi
        BY <2>1, <4>1, <4>2, <4>3 DEF Seconds
      <4>5. CASE e >= 2 * lo
        <5>1. Within(q, lo, hi) /\ lo < hi
          BY <2>1, <4>4, <4>5 DEF Within
        <5>2. Covered(w, q)
          BY <1>1, <1>2, <1>3, <2>1, <4>4, <5>1 DEF Covers
        <5>3. QED
          BY <2>2, <5>1, <5>2
      <4>6. CASE e < 2 * lo
        <5>1. \/ q \in forgone
              \/ e > 2 * hi - Lag
              \/ e < clock - 2 * Lookback
          BY <1>2, <1>3, <1>9, <2>1, <2>5, <4>6 DEF ReachInv, StartsLow
        <5>2. QED
          BY <1>4, <2>1, <2>4, <4>4, <5>1
      <4>7. QED
        BY <2>1, <4>5, <4>6
    <3>3. QED
      BY <3>1, <3>2
  <2>6. QED
    BY <1>9, <2>1, <2>3, <2>4, <2>5 DEF ReachInv, Accounted
<1>10. QED
  BY <1>2, <1>6, <1>8, <1>9 DEF ReachInv

\* Every step preserves ReachInv.
LEMMA ReachStep ==
    ASSUME Lag <= 2 * Overlap, TypeOK, TypeOK', CoverageInv, ReachInv, [Next]_vars
    PROVE  ReachInv'
<1>1. SourceInv /\ cache \subseteq visible /\ cache \subseteq Queries
      /\ \A v \in Writers : SweepInv(v)
  BY DEF CoverageInv, ReachInv, TypeOK
<1>2. ASSUME UNCHANGED <<source, cache, cut>>, forgone \subseteq forgone', NEW w \in Writers,
             \A v \in Writers \ {w} :
                pc'[v] = pc[v] /\ range'[v] = range[v] /\ stack'[v] = stack[v],
             StartsLow(w)' /\ Keeps(w)
      PROVE  ReachInv'
  <2>1. Grows
    BY <1>2 DEF Grows, TypeOK
  <2>2. \A v \in Writers : StartsLow(v)' /\ Keeps(v)
    BY <1>1, <1>2, <2>1, OthersReach
  <2>3. QED
    BY <1>1, <1>2, <2>1, <2>2, SameTable
<1>3. ASSUME NEW w \in Writers, pc[w] \in {"idle", "watermark"},
             NEW lo \in Int, NEW hi \in Int, 2 * hi < clock,
             NEW next, next \in {"watermark", "sweep"},
             Start(w, lo, hi, next), UNCHANGED <<source, cache, cut>>,
             forgone \subseteq forgone',
             next = "sweep" => \A q \in visible \ cache : endTime[q] < 2 * lo =>
               q \in forgone' \/ Passed(q) \/ endTime[q] < clock - 2 * Lookback
      PROVE  ReachInv'
  <2>1. pc'[w] = next /\ range'[w] = <<lo, hi>>
    BY <1>3 DEF TypeOK, Start
  <2>2. \A q : Passed(q)' <=> Passed(q)
    BY <1>3 DEF Passed, Watermark, RefreshFrom
  <2>3. StartsLow(w)'
    BY <1>3, <2>1, <2>2 DEF StartsLow
  <2>4. Keeps(w)
    BY <1>3 DEF Keeps, Awaited
  <2>5. \A v \in Writers \ {w} :
          pc'[v] = pc[v] /\ range'[v] = range[v] /\ stack'[v] = stack[v]
    BY <1>3 DEF Start, TypeOK
  <2>6. QED
    BY <1>2, <1>3, <2>3, <2>4, <2>5
<1>4. CASE SourceStep
  <2>1. Grows
    BY <1>1, <1>4, SourceMoves DEF Grows
  <2>2. pc' = pc /\ range' = range /\ stack' = stack /\ cache' = cache
    BY <1>1, <1>4, SourceMoves
  <2>3. \A v \in Writers : StartsLow(v)' /\ Keeps(v)
    BY <1>1, <2>1, <2>2, OthersReach
  <2>4. QED
    BY <1>1, <2>1, <2>2, <2>3, SameTable
<1>5. ASSUME NEW w \in Writers, BeginRefresh(w) PROVE ReachInv'
  <2>1. Seconds(clock) \in Int /\ 2 * Seconds(clock) < clock
    BY <1>5 DEF BeginRefresh, MidSecond, Seconds, TypeOK
  <2>2. QED
    BY <1>3, <1>5, <2>1 DEF BeginRefresh
<1>6. ASSUME NEW w \in Writers, BeginBackfill(w) PROVE ReachInv'
  <2>1. PICK days \in Days :
          /\ Start(w, ClampLookback(Seconds(clock), Seconds(clock) - days),
                   Seconds(clock), "sweep")
          /\ forgone' = forgone \union
               {q \in visible \ cache :
                  /\ endTime[q] < 2 * ClampLookback(Seconds(clock), Seconds(clock) - days)
                  /\ ~Passed(q)}
    BY <1>6 DEF BeginBackfill
  <2>2. Seconds(clock) \in Int /\ 2 * Seconds(clock) < clock /\ days \in Nat
    BY <1>6 DEF BeginBackfill, MidSecond, Seconds, TypeOK
  <2>3. ClampLookback(Seconds(clock), Seconds(clock) - days) \in Int
    BY <2>2 DEF ClampLookback
  <2>4. QED
    BY <1>3, <1>6, <2>1, <2>2, <2>3 DEF BeginBackfill
<1>7. ASSUME NEW w \in Writers, ReadWatermark(w) PROVE ReachInv'
  <2> DEFINE hi == range[w][2]
             lo == IF cache = {} THEN hi - Lookback ELSE RefreshFrom(Watermark)
             from == ClampLookback(hi, lo)
  <2>1. hi \in Int /\ 2 * hi < clock
    BY <1>1, <1>7 DEF TypeOK, Window, SweepInv, ReadWatermark
  <2>2. lo \in Int /\ (cache # {} => lo = RefreshFrom(Watermark))
                   /\ (cache = {} => lo = hi - Lookback)
    BY <2>1, WatermarkExists DEF RefreshFrom
  <2>3. pc[w] = "watermark" /\ Start(w, from, hi, "sweep")
        /\ UNCHANGED <<source, cache, history>>
    BY <1>7 DEF ReadWatermark
  <2>4. ASSUME NEW q \in visible \ cache, endTime[q] < 2 * from
        PROVE  Passed(q) \/ endTime[q] < clock - 2 * Lookback
    <3>1. endTime[q] \in Nat /\ clock \in Nat
      BY DEF TypeOK
    <3> DEFINE e == endTime[q]
    <3>2. e \in Nat /\ e < 2 * from
      BY <2>4, <3>1
    <3> HIDE DEF hi, lo, e
    <3>3. from = lo \/ from = hi - Lookback
      BY <2>1, <2>2 DEF ClampLookback
    <3>4. from = hi - Lookback => e < clock - 2 * Lookback
      BY <2>1, <3>1, <3>2
    <3>5. from = lo /\ cache # {} => Passed(q)
      BY <2>2, <3>2 DEF Passed, e
    <3>6. QED
      BY <2>2, <3>3, <3>4, <3>5 DEF e
  <2> HIDE DEF hi, lo
  <2>5. from \in Int
    BY <2>1, <2>2 DEF ClampLookback
  <2> HIDE DEF from
  <2>6. QED
    BY <1>3, <2>1, <2>3, <2>4, <2>5
<1>8. ASSUME NEW w \in Writers, Skip(w) \/ Probe(w) PROVE ReachInv'
  <2>1. /\ pc[w] = "sweep" /\ pc'[w] \in {"sweep", "merge"}
        /\ UNCHANGED <<source, cache, range, history>>
        /\ \A v \in Writers \ {w} : pc'[v] = pc[v] /\ stack'[v] = stack[v]
    BY <1>8 DEF Skip, Probe, TypeOK
  <2>2. Grows
    BY <2>1 DEF Grows, TypeOK
  <2>3. StartsLow(w)'
    BY <1>1, <2>1, <2>2, StaysLow
  <2>4. Keeps(w)
    <3>1. CASE Skip(w)
      BY <3>1, SkipCovers DEF Keeps, Awaited, CoverageInv
    <3>2. CASE Probe(w)
      BY <2>1, <3>2, ProbeCovers DEF Keeps, Awaited, CoverageInv, TypeOK
    <3>3. QED
      BY <1>8, <3>1, <3>2
  <2>5. QED
    BY <1>2, <2>1, <2>3, <2>4
<1>9. ASSUME NEW w \in Writers, Return(w) \/ Fail(w) PROVE ReachInv'
  <2>1. /\ pc'[w] = "idle" /\ UNCHANGED <<source, cache, cut>>
        /\ forgone \subseteq forgone'
        /\ \A v \in Writers \ {w} :
             pc'[v] = pc[v] /\ range'[v] = range[v] /\ stack'[v] = stack[v]
    BY <1>9 DEF Return, Fail, TypeOK
  <2>2. ASSUME NEW q \in visible \ cache, Awaited(w, q) PROVE Accounted(q)'
    <3>1. pc[w] \in {"sweep", "merge"} /\ OnStack(w, q) /\ stack[w] # <<>>
      BY <2>2 DEF Awaited, OnStack
    <3>2. Passed(q) => q \in forgone'
      BY <1>9, <2>2, <3>1 DEF Return, Fail
    <3>3. Passed(q)' <=> Passed(q)
      BY <2>1 DEF Passed, Watermark, RefreshFrom
    <3>4. QED
      BY <3>2, <3>3 DEF Accounted
  <2>3. StartsLow(w)' /\ Keeps(w)
    BY <2>1, <2>2 DEF StartsLow, Keeps
  <2>4. QED
    BY <1>2, <2>1, <2>3
<1>10. ASSUME NEW w \in Writers, MergeWindow(w) PROVE ReachInv'
  BY <1>10, MergeReaches
<1>11. CASE UNCHANGED vars
  <2>1. UNCHANGED <<source, cache, sweep, history>>
    BY <1>11 DEF vars
  <2>2. Grows
    BY <2>1 DEF Grows, TypeOK
  <2>3. \A v \in Writers : StartsLow(v)' /\ Keeps(v)
    BY <1>1, <2>1, <2>2, OthersReach
  <2>4. QED
    BY <1>1, <2>1, <2>2, <2>3, SameTable
<1>12. QED
  BY <1>4, <1>5, <1>6, <1>7, <1>8, <1>9, <1>10, <1>11 DEF Next, Continue, SourceStep

\* If the refresh's overlap covers the time a row takes to show, then whatever the
\* writers, the ceiling, the failures and the lengths of the backfills, a quiet table's
\* watermark is past no missing row of the lookback but those that the row ceiling cut
\* off, that a failed sweep had still to do, or that a backfill started after.
THEOREM NothingLeftBehind ==
    ASSUME Lag <= 2 * Overlap PROVE Spec => []NothingOutOfReach
<1>1. Init => CoverageInv /\ ReachInv
  BY DEF Init, CoverageInv, SourceInv, SweepInv, Covers, Ended, ReachInv, StartsLow
<1>2. TypeOK /\ TypeOK' /\ CoverageInv /\ [Next]_vars => CoverageInv'
  BY CoverageStep
<1>3. TypeOK /\ TypeOK' /\ CoverageInv /\ ReachInv /\ [Next]_vars => ReachInv'
  BY ReachStep
<1>4. ReachInv => NothingOutOfReach
  BY DEF ReachInv, Awaited, Accounted, NothingOutOfReach
<1>5. QED
  BY <1>1, <1>2, <1>3, <1>4, TypeCorrect, PTL DEF Spec
=============================================================================
