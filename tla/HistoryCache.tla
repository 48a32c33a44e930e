---------------------------- MODULE HistoryCache ----------------------------
(***************************************************************************)
(* snowhouse's persistent query-history cache: sweeps that copy a time     *)
(* range of Snowflake's QUERY_HISTORY into a table the app owns.           *)
(*                                                                         *)
(* The source returns at most Limit rows per call, so a sweep keeps a      *)
(* stack of windows: it probes the top window's count, bisects it when the *)
(* count is saturated, and otherwise merges its rows.  A refresh sweeps    *)
(* from just before the watermark (the newest cached end time) to now, a   *)
(* backfill sweeps a number of days.  Writers are the server's hourly      *)
(* ticker, the tickers of other replicas, and the command line.            *)
(*                                                                         *)
(* Each call to the warehouse is one step; it may fail, and then the sweep *)
(* returns early.  The clock counts half seconds, because the code's own   *)
(* times are whole seconds and the history's are not.                      *)
(***************************************************************************)
EXTENDS Integers, Sequences, FiniteSetsExt

CONSTANTS
    Queries,   \* the executions that may end while we watch
    Writers,   \* processes that refresh or backfill the table
    Limit,     \* RESULT_LIMIT, the source's row ceiling
    Overlap,   \* REFRESH_OVERLAP_SECONDS
    Lookback,  \* MAX_LOOKBACK_SECONDS
    Wall,      \* the source rejects a window that starts this many seconds ago
    Days,      \* the lookbacks, in seconds, a backfill may ask for
    Lag,       \* half seconds until an ended query is visible in the history
    MayFail,   \* may a warehouse call fail?
    MaxClock,  \* bound: the clock stops here
    LastEnd    \* bound: no query ends after this

ASSUME CacheAssumption ==
    /\ Limit \in Nat \ {0}
    /\ Overlap \in Nat
    /\ Lookback \in Nat
    /\ Wall \in Nat
    /\ Days \subseteq Nat
    /\ Lag \in Nat
    /\ MayFail \in BOOLEAN
    /\ MaxClock \in Nat /\ MaxClock % 2 = 1
    /\ LastEnd \in Nat
    /\ IsFiniteSet(Queries)

VARIABLES
    clock,    \* half seconds since the epoch
    endTime,  \* when each query ended, 0 while it runs
    visible,  \* the queries QUERY_HISTORY returns
    cache,    \* the queries in the cache table
    pc,       \* where each writer's sweep is
    range,    \* the range <<lo, hi>> each writer's sweep was asked for
    stack,    \* the windows <<lo, hi>> the sweep has still to do, top last
    counted   \* what the sweep's probe counted in the window it merges next

\* History variables, which no guard reads: what the code gives up by its own design.
VARIABLES
    cut,      \* queries the source's row ceiling kept out of a merge
    forgone   \* queries that a failing sweep or a short backfill left behind

source == <<clock, endTime, visible>>
sweep == <<pc, range, stack, counted>>
history == <<cut, forgone>>
vars == <<source, cache, sweep, history>>

Window == Int \X Int

Ended(q) == endTime[q] # 0

\* Whole seconds, as now_epoch and DATE_PART('epoch_second', ...) give them.
Seconds(t) == t \div 2

\* The source's window is closed at both ends.
Within(q, lo, hi) == endTime[q] \in 2 * lo .. 2 * hi

Rows(lo, hi) == {q \in visible : Within(q, lo, hi)}

\* "Cannot retrieve data from more than 7 days ago"
Rejected(lo) == 2 * lo <= clock - 2 * Wall

\* The row ceiling keeps the most recent rows.
Returned(rows) ==
    {kept \in SUBSET rows :
        IF Cardinality(rows) <= Limit
        THEN kept = rows
        ELSE /\ Cardinality(kept) = Limit
             /\ \A q \in kept, r \in rows \ kept : endTime[r] <= endTime[q]}

\* count_window: the count the source can report.
Count(rows) == IF Cardinality(rows) <= Limit THEN Cardinality(rows) ELSE Limit

\* MAX(end_time) of the table, in whole seconds.
Watermark == Seconds(Max({endTime[q] : q \in cache}))

\* Mutant: the floor is forgotten.
MUT_ClampLookback(now, requested) == requested

ClampLookback(now, requested) ==
    IF requested >= now - Lookback THEN requested ELSE now - Lookback

RefreshFrom(watermark) == watermark - Overlap

\* The watermark is so far past the query that no refresh will scan it.
Passed(q) == cache # {} /\ endTime[q] < 2 * RefreshFrom(Watermark)

\* Mutant: only a count above the ceiling is taken for saturation.
MUT_Saturated(count) == count > Limit

Saturated(count) == count >= Limit

Divisible(lo, hi) == hi - lo > 1

\* Mutant: halves that do not share their boundary.
MUT_Halves(lo, hi) ==
    LET mid == lo + (hi - lo) \div 2 IN <<<<lo, mid>>, <<mid + 1, hi>>>>

\* The two windows pushed for a saturated one; the second is popped first.
Halves(lo, hi) ==
    LET mid == lo + (hi - lo) \div 2 IN <<<<lo, mid>>, <<mid, hi>>>>

Top(w) == stack[w][Len(stack[w])]
Pop(w) == SubSeq(stack[w], 1, Len(stack[w]) - 1)

\* A window that the sweep has still to do holds the query.
OnStack(w, q) == \E i \in 1..Len(stack[w]) : Within(q, stack[w][i][1], stack[w][i][2])

Init ==
    /\ clock = 1
    /\ endTime = [q \in Queries |-> 0]
    /\ visible = {}
    /\ cache = {}
    /\ pc = [w \in Writers |-> "idle"]
    /\ range = [w \in Writers |-> <<0, 0>>]
    /\ stack = [w \in Writers |-> <<>>]
    /\ counted = [w \in Writers |-> 0]
    /\ cut = {}
    /\ forgone = {}

-----------------------------------------------------------------------------
(* The source *)

Finish(q) ==
    /\ ~Ended(q)
    /\ clock <= LastEnd
    /\ endTime' = [endTime EXCEPT ![q] = clock]
    /\ UNCHANGED <<clock, visible, cache, sweep, history>>

Appear(q) ==
    /\ Ended(q)
    /\ q \notin visible
    /\ visible' = visible \union {q}
    /\ UNCHANGED <<clock, endTime, cache, sweep, history>>

\* Time does not pass a query's lag while it is invisible.
Tick ==
    /\ clock < MaxClock
    /\ \A q \in Queries \ visible : Ended(q) => clock - endTime[q] < Lag
    /\ clock' = clock + 1
    /\ UNCHANGED <<endTime, visible, cache, sweep, history>>

-----------------------------------------------------------------------------
(* Sweeps *)

\* A writer reads the clock within a second, not at the instant it turns.
MidSecond == clock % 2 = 1

Start(w, lo, hi, next) ==
    /\ range' = [range EXCEPT ![w] = <<lo, hi>>]
    /\ stack' = [stack EXCEPT ![w] = <<<<lo, hi>>>>]
    /\ pc' = [pc EXCEPT ![w] = next]
    /\ UNCHANGED counted

\* refresh reads the clock, then asks the table for its watermark.
BeginRefresh(w) ==
    /\ pc[w] = "idle"
    /\ MidSecond
    /\ Start(w, Seconds(clock) - Lookback, Seconds(clock), "watermark")
    /\ UNCHANGED <<source, cache, history>>

\* An empty table has no watermark and keeps the whole lookback.
ReadWatermark(w) ==
    /\ pc[w] = "watermark"
    /\ LET hi == range[w][2]
           lo == IF cache = {} THEN hi - Lookback ELSE RefreshFrom(Watermark)
       IN  Start(w, ClampLookback(hi, lo), hi, "sweep")
    /\ UNCHANGED <<source, cache, history>>

\* A backfill looks back as far as it is asked to, wherever the watermark is.  It may
\* move the watermark past rows before its range: those a refresh would still scan now
\* are the ones it leaves behind.
BeginBackfill(w) ==
    /\ pc[w] = "idle"
    /\ MidSecond
    /\ \E days \in Days :
         LET hi == Seconds(clock)
             lo == ClampLookback(hi, hi - days)
         IN  /\ Start(w, lo, hi, "sweep")
             /\ forgone' = forgone \union
                  {q \in visible \ cache : endTime[q] < 2 * lo /\ ~Passed(q)}
    /\ UNCHANGED <<source, cache, cut>>

\* An empty or inverted window is popped and skipped.
Skip(w) ==
    /\ pc[w] = "sweep" /\ stack[w] # <<>>
    /\ Top(w)[2] <= Top(w)[1]
    /\ stack' = [stack EXCEPT ![w] = Pop(w)]
    /\ UNCHANGED <<source, cache, pc, range, counted, history>>

\* Mutant: only the newest half of a saturated window is kept.
MUT_Probe(w) ==
    /\ pc[w] = "sweep" /\ stack[w] # <<>>
    /\ LET lo == Top(w)[1]
           hi == Top(w)[2]
           n == Count(Rows(lo, hi))
       IN  /\ lo < hi
           /\ ~Rejected(lo)
           /\ IF Saturated(n) /\ Divisible(lo, hi)
              THEN /\ stack' = [stack EXCEPT ![w] = Append(Pop(w), Halves(lo, hi)[2])]
                   /\ UNCHANGED <<pc, counted>>
              ELSE /\ pc' = [pc EXCEPT ![w] = "merge"]
                   /\ counted' = [counted EXCEPT ![w] = n]
                   /\ UNCHANGED stack
    /\ UNCHANGED <<source, cache, range, history>>

\* probe_count: a saturated window that can be divided is replaced by its halves; any
\* other stays on top to be merged next, whatever is in it by then.  (COUNT(*) always
\* has a row, so the probe's default of 0 is never taken.)
Probe(w) ==
    /\ pc[w] = "sweep" /\ stack[w] # <<>>
    /\ LET lo == Top(w)[1]
           hi == Top(w)[2]
           n == Count(Rows(lo, hi))
       IN  /\ lo < hi
           /\ ~Rejected(lo)
           /\ IF Saturated(n) /\ Divisible(lo, hi)
              THEN /\ stack' = [stack EXCEPT ![w] = Pop(w) \o Halves(lo, hi)]
                   /\ UNCHANGED <<pc, counted>>
              ELSE /\ pc' = [pc EXCEPT ![w] = "merge"]
                   /\ counted' = [counted EXCEPT ![w] = n]
                   /\ UNCHANGED stack
    /\ UNCHANGED <<source, cache, range, history>>

\* The merge's window is one the ceiling may truncate: fewer rows than the ceiling were
\* counted in it, or it is a second, which the code warns of.
MayTruncate(w) == counted[w] < Limit \/ ~Divisible(Top(w)[1], Top(w)[2])

\* Mutant: the merged window is not taken off the stack.
MUT_MergeWindow(w) ==
    /\ pc[w] = "merge"
    /\ ~Rejected(Top(w)[1])
    /\ \E kept \in Returned(Rows(Top(w)[1], Top(w)[2])) : cache' = cache \union kept
    /\ pc' = [pc EXCEPT ![w] = "sweep"]
    /\ counted' = [counted EXCEPT ![w] = 0]
    /\ UNCHANGED <<source, range, stack, history>>

\* merge_window: the rows the source returns now, not those it counted.
MergeWindow(w) ==
    /\ pc[w] = "merge"
    /\ ~Rejected(Top(w)[1])
    /\ LET rows == Rows(Top(w)[1], Top(w)[2])
       IN  \E kept \in Returned(rows) :
             /\ cache' = cache \union kept
             /\ cut' = IF MayTruncate(w) THEN cut \union (rows \ kept) ELSE cut
    /\ stack' = [stack EXCEPT ![w] = Pop(w)]
    /\ pc' = [pc EXCEPT ![w] = "sweep"]
    /\ counted' = [counted EXCEPT ![w] = 0]
    /\ UNCHANGED <<source, range, forgone>>

Return(w) ==
    /\ pc[w] = "sweep" /\ stack[w] = <<>>
    /\ pc' = [pc EXCEPT ![w] = "idle"]
    /\ range' = [range EXCEPT ![w] = <<0, 0>>]
    /\ UNCHANGED <<source, cache, stack, counted, history>>

\* A warehouse call returns an error, or the process dies: the windows left on
\* the stack are forgotten, and with them the rows the watermark has passed.
Fail(w) ==
    /\ \/ pc[w] \in {"watermark", "merge"}
       \/ pc[w] = "sweep" /\ stack[w] # <<>> /\ Top(w)[1] < Top(w)[2]
    /\ MayFail \/ (pc[w] # "watermark" /\ Rejected(Top(w)[1]))
    /\ pc' = [pc EXCEPT ![w] = "idle"]
    /\ range' = [range EXCEPT ![w] = <<0, 0>>]
    /\ stack' = [stack EXCEPT ![w] = <<>>]
    /\ counted' = [counted EXCEPT ![w] = 0]
    /\ forgone' = IF pc[w] = "watermark" THEN forgone
                  ELSE forgone \union {q \in visible \ cache : OnStack(w, q) /\ Passed(q)}
    /\ UNCHANGED <<source, cache, cut>>

-----------------------------------------------------------------------------

Continue(w) ==
    ReadWatermark(w) \/ Skip(w) \/ Probe(w) \/ MergeWindow(w) \/ Return(w) \/ Fail(w)

Next ==
    \/ \E q \in Queries : Finish(q) \/ Appear(q)
    \/ Tick
    \/ \E w \in Writers : BeginRefresh(w) \/ BeginBackfill(w) \/ Continue(w)

Spec == Init /\ [][Next]_vars

\* Time passes, a sweep goes on once begun, and the ticker keeps refreshing.
FairSpec ==
    /\ Spec
    /\ WF_vars(Tick)
    /\ \A q \in Queries : WF_vars(Appear(q))
    /\ \A w \in Writers : WF_vars(Continue(w)) /\ WF_vars(BeginRefresh(w))

-----------------------------------------------------------------------------
(* Properties *)

\* The type of every variable; a sweep never asks for more than the lookback.
TypeOK ==
    /\ clock \in Nat
    /\ endTime \in [Queries -> Nat]
    /\ visible \subseteq Queries
    /\ cache \subseteq Queries
    /\ pc \in [Writers -> {"idle", "watermark", "sweep", "merge"}]
    /\ range \in [Writers -> Window]
    /\ stack \in [Writers -> Seq(Window)]
    /\ counted \in [Writers -> Nat]
    /\ cut \subseteq Queries
    /\ forgone \subseteq Queries
    /\ \A w \in Writers : range[w][1] >= range[w][2] - Lookback

\* A second in which more queries ended than one call returns: no bisection
\* can resolve it, and the code warns of it.
Overfull(q) ==
    \E s \in Seconds(endTime[q]) - 1 .. Seconds(endTime[q]) :
        Within(q, s, s + 1) /\ Cardinality(Rows(s, s + 1)) > Limit

\* Every query of the range a sweep was asked for that the history showed when the
\* sweep began is cached, or in a window the sweep still has to do, or was left out by
\* the ceiling of a merge whose window had been counted below it or was a second.  So
\* bisecting, skipping and merging windows drop nothing of their own, while other
\* writers, late rows and failures go on.  (A range that is empty because the watermark
\* is past it promises nothing.)
SweepCoverage ==
    \A w \in Writers : pc[w] \in {"sweep", "merge"} /\ range[w][1] < range[w][2] =>
        \A q \in Queries :
            /\ Ended(q) /\ Within(q, range[w][1], range[w][2])
            /\ endTime[q] <= 2 * range[w][2] - Lag
            => q \in cache \/ OnStack(w, q) \/ q \in cut

\* While no sweep is under way, every query that the history shows is cached, will be
\* scanned by the next refresh, or is past the lookback; but for those the row ceiling
\* cut off, those a failed sweep had still on its stack, and those before the range of
\* a backfill.  Late rows, two writers and the watermark's jumps lose no other.
NothingOutOfReach ==
    (\A w \in Writers : pc[w] = "idle") =>
        \A q \in visible \ cache :
            ~Passed(q) \/ endTime[q] < clock - 2 * Lookback \/ q \in cut \union forgone

\* As the module's own comment has it, there are no gaps: a query is cached, will be
\* scanned by the next refresh, or is past the lookback, or its second is too full.
RefreshesMissNothing ==
    (\A w \in Writers : pc[w] = "idle") /\ cache # {} =>
        \A q \in visible \ cache :
            \/ endTime[q] >= 2 * RefreshFrom(Watermark)
            \/ endTime[q] < clock - 2 * Lookback
            \/ Overfull(q)

\* Every sweep ends: bisection stops at one-second windows.
SweepTerminates == \A w \in Writers : pc[w] # "idle" ~> pc[w] = "idle"

\* With the ticker running, every query that ends is eventually cached.
EventuallyCached == \A q \in Queries : Ended(q) ~> (q \in cache \/ Overfull(q))
=============================================================================
