--------------------------- MODULE CircuitBreaker ---------------------------
(***************************************************************************)
(* The lock-free circuit breaker of service-kit and the callers that go    *)
(* through it: `check` before a warehouse call, `record_success` or        *)
(* `record_failure` after it.                                              *)
(*                                                                         *)
(* Every atomic operation of the breaker is a step of its own, because the *)
(* handlers run on a multi-threaded runtime and nothing but the three      *)
(* atomics orders them.  All of them are SeqCst, so one step at a time is  *)
(* the memory model.                                                       *)
(*                                                                         *)
(* A caller is a request handler: it checks, runs its warehouse call, and  *)
(* records the outcome.  It may also go away at the await without          *)
(* recording anything: the request future is dropped by a timeout layer or *)
(* a disconnect, or the blocking task panics.  MayAbandon restricts when.  *)
(***************************************************************************)
EXTENDS Integers

CONSTANTS
    Callers,     \* request handlers; each serves one request after another
    Threshold,   \* CB_FAILURE_THRESHOLD
    Cooldown,    \* CB_COOLDOWN_SECS
    StartTime,   \* the wall clock when the process starts, seconds
    MayAbandon,  \* the states of the breaker in which a caller may go away
    MaxTime,     \* bound: the clock stops here
    MaxFailures  \* bound: how many warehouse calls fail in all (the outage)

ASSUME BreakerAssumption ==
    /\ Threshold \in Nat
    /\ Cooldown \in Nat
    /\ StartTime \in Nat \ {0}
    /\ MayAbandon \subseteq {"CLOSED", "OPEN", "HALF_OPEN"}
    /\ MaxTime \in Nat
    /\ MaxFailures \in Nat

VARIABLES
    state,         \* AtomicU32: CLOSED, OPEN or HALF_OPEN
    failures,      \* AtomicU32: consecutive_failures
    lastFailure,   \* AtomicU64: last_failure_epoch, 0 before the first failure
    now,           \* the wall clock, in seconds
    pc,            \* where each caller is
    clockRead,     \* the caller's reading of the clock, 0 when it holds none
    count,         \* what the caller's fetch_add produced, 0 when it holds none
    failuresLeft   \* how many more warehouse calls may fail

breaker == <<state, failures, lastFailure>>
locals == <<clockRead, count>>
vars == <<breaker, now, pc, locals, failuresLeft>>

State == {"CLOSED", "OPEN", "HALF_OPEN"}

\* The places between which another thread's atomic operation may fall.
Checking == {"readClock", "loadLastFailure", "compareExchange"}
Recording == {"swapClosed", "storeZero",
              "fetchAdd", "stamp", "storeLastFailure", "swapOpen"}
Location == {"idle", "running"} \union Checking \union Recording

Goto(c, from, to) == pc[c] = from /\ pc' = [pc EXCEPT ![c] = to]

\* Mutant: wrapping_sub in place of saturating_sub (at 16 bits).
MUT_SaturatingSub(a, b) == (a - b) % 65536

\* u64::saturating_sub
SaturatingSub(a, b) == IF a >= b THEN a - b ELSE 0

\* Mutant: the operands of the subtraction the wrong way round.
MUT_CooldownElapsed(clock, last) == SaturatingSub(last, clock) >= Cooldown

CooldownElapsed(clock, last) == SaturatingSub(clock, last) >= Cooldown

Init ==
    /\ state = "CLOSED"
    /\ failures = 0
    /\ lastFailure = 0
    /\ now = StartTime
    /\ pc = [c \in Callers |-> "idle"]
    /\ clockRead = [c \in Callers |-> 0]
    /\ count = [c \in Callers |-> 0]
    /\ failuresLeft = MaxFailures

-----------------------------------------------------------------------------
(* check *)

\* The state is loaded once: CLOSED admits, HALF_OPEN rejects, OPEN goes on to
\* look at the cooldown.
LoadState(c) ==
    /\ \/ state = "CLOSED" /\ Goto(c, "idle", "running")
       \/ state = "OPEN" /\ Goto(c, "idle", "readClock")
       \/ state = "HALF_OPEN" /\ Goto(c, "idle", "idle")
    /\ UNCHANGED <<breaker, now, locals, failuresLeft>>

ReadClock(c) ==
    /\ Goto(c, "readClock", "loadLastFailure")
    /\ clockRead' = [clockRead EXCEPT ![c] = now]
    /\ UNCHANGED <<breaker, now, count, failuresLeft>>

LoadLastFailure(c) ==
    /\ \/ /\ CooldownElapsed(clockRead[c], lastFailure)
          /\ Goto(c, "loadLastFailure", "compareExchange")
       \/ /\ ~CooldownElapsed(clockRead[c], lastFailure)
          /\ Goto(c, "loadLastFailure", "idle")
    /\ clockRead' = [clockRead EXCEPT ![c] = 0]
    /\ UNCHANGED <<breaker, now, count, failuresLeft>>

\* Mutant: a plain store in place of the compare_exchange.
MUT_CompareExchange(c) ==
    /\ Goto(c, "compareExchange", "running")
    /\ state' = "HALF_OPEN"
    /\ UNCHANGED <<failures, lastFailure, now, locals, failuresLeft>>

CompareExchange(c) ==
    /\ \/ /\ state = "OPEN"
          /\ Goto(c, "compareExchange", "running")
          /\ state' = "HALF_OPEN"
       \/ /\ state # "OPEN"
          /\ Goto(c, "compareExchange", "idle")
          /\ UNCHANGED state
    /\ UNCHANGED <<failures, lastFailure, now, locals, failuresLeft>>

-----------------------------------------------------------------------------
(* the warehouse call the breaker protects *)

Succeed(c) ==
    /\ Goto(c, "running", "swapClosed")
    /\ UNCHANGED <<breaker, now, locals, failuresLeft>>

\* Bound: calls fail only while a whole cooldown of the clock is left.
Outage == now + Cooldown < MaxTime

Fail(c) ==
    /\ Outage
    /\ failuresLeft > 0
    /\ Goto(c, "running", "fetchAdd")
    /\ failuresLeft' = failuresLeft - 1
    /\ UNCHANGED <<breaker, now, locals>>

\* The handler's future is dropped at the await, or the await returns a
\* JoinError: neither record_success nor record_failure runs.
Abandon(c) ==
    /\ state \in MayAbandon
    /\ Goto(c, "running", "idle")
    /\ UNCHANGED <<breaker, now, locals, failuresLeft>>

-----------------------------------------------------------------------------
(* record_success *)

SwapClosed(c) ==
    /\ Goto(c, "swapClosed", "storeZero")
    /\ state' = "CLOSED"
    /\ UNCHANGED <<failures, lastFailure, now, locals, failuresLeft>>

\* Mutant: a success takes back one failure, fetch_sub(1) for store(0).
MUT_StoreZero(c) ==
    /\ Goto(c, "storeZero", "idle")
    /\ failures' = failures - 1
    /\ UNCHANGED <<state, lastFailure, now, locals, failuresLeft>>

StoreZero(c) ==
    /\ Goto(c, "storeZero", "idle")
    /\ failures' = 0
    /\ UNCHANGED <<state, lastFailure, now, locals, failuresLeft>>

-----------------------------------------------------------------------------
(* record_failure *)

\* Mutant: fetch_add returns the value before the addition; the + 1 is lost.
MUT_FetchAdd(c) ==
    /\ Goto(c, "fetchAdd", "stamp")
    /\ failures' = failures + 1
    /\ count' = [count EXCEPT ![c] = failures]
    /\ UNCHANGED <<state, lastFailure, now, clockRead, failuresLeft>>

FetchAdd(c) ==
    /\ Goto(c, "fetchAdd", "stamp")
    /\ failures' = failures + 1
    /\ count' = [count EXCEPT ![c] = failures + 1]
    /\ UNCHANGED <<state, lastFailure, now, clockRead, failuresLeft>>

Stamp(c) ==
    /\ Goto(c, "stamp", "storeLastFailure")
    /\ clockRead' = [clockRead EXCEPT ![c] = now]
    /\ UNCHANGED <<breaker, now, count, failuresLeft>>

StoreLastFailure(c) ==
    /\ \/ count[c] >= Threshold /\ Goto(c, "storeLastFailure", "swapOpen")
       \/ count[c] < Threshold /\ Goto(c, "storeLastFailure", "idle")
    /\ lastFailure' = clockRead[c]
    /\ clockRead' = [clockRead EXCEPT ![c] = 0]
    /\ count' = [count EXCEPT ![c] = 0]
    /\ UNCHANGED <<state, failures, now, failuresLeft>>

\* Mutant: the breaker trips from CLOSED only, a compare_exchange for the swap.
MUT_SwapOpen(c) ==
    /\ Goto(c, "swapOpen", "idle")
    /\ state' = IF state = "CLOSED" THEN "OPEN" ELSE state
    /\ UNCHANGED <<failures, lastFailure, now, locals, failuresLeft>>

SwapOpen(c) ==
    /\ Goto(c, "swapOpen", "idle")
    /\ state' = "OPEN"
    /\ UNCHANGED <<failures, lastFailure, now, locals, failuresLeft>>

-----------------------------------------------------------------------------

\* After the outage the bounded clock waits for the failures in flight to be
\* stamped, so that its end never cuts a cooldown short.
FailureInFlight ==
    \E c \in Callers : pc[c] \in {"fetchAdd", "stamp"}

Tick ==
    /\ now < MaxTime
    /\ ~Outage => ~FailureInFlight
    /\ now' = now + 1
    /\ UNCHANGED <<breaker, pc, locals, failuresLeft>>

Check(c) ==
    LoadState(c) \/ ReadClock(c) \/ LoadLastFailure(c) \/ CompareExchange(c)
Call(c) == Succeed(c) \/ Fail(c) \/ Abandon(c)
RecordSuccess(c) == SwapClosed(c) \/ StoreZero(c)
RecordFailure(c) ==
    FetchAdd(c) \/ Stamp(c) \/ StoreLastFailure(c) \/ SwapOpen(c)

Step(c) == Check(c) \/ Call(c) \/ RecordSuccess(c) \/ RecordFailure(c)

Next == Tick \/ \E c \in Callers : Step(c)

Spec == Init /\ [][Next]_vars

-----------------------------------------------------------------------------
(* The two ways a probe is lost *)

\* A failure that was counted at or over the threshold and has yet to open the
\* breaker.
Trips(c) ==
    \/ pc[c] = "swapOpen"
    \/ pc[c] \in {"stamp", "storeLastFailure"} /\ count[c] >= Threshold

\* A call whose outcome can still take the breaker out of HALF_OPEN.
Settles(c) == pc[c] \in {"running", "swapClosed", "fetchAdd"} \/ Trips(c)

\* The last such call goes away without recording its outcome.
ProbeDropped ==
    \E c \in Callers :
        /\ state = "HALF_OPEN" /\ Abandon(c)
        /\ \A d \in Callers \ {c} : ~Settles(d)

\* A success clears the counter of a breaker that is not CLOSED, or that a
\* failure is about to open: the trip and the count part.
LateReset ==
    /\ \E c \in Callers : StoreZero(c)
    /\ state # "CLOSED" \/ \E c \in Callers : Trips(c)

\* The breaker when neither happens.  Threads are scheduled and requests keep arriving;
\* the clock advances.
Careful == ~ProbeDropped /\ ~LateReset
CarefulSpec ==
    /\ Init /\ [][Next /\ Careful]_vars
    /\ WF_vars(Tick) /\ \A c \in Callers : WF_vars(Step(c) /\ Careful)

-----------------------------------------------------------------------------
(* Properties *)

\* The type of every variable.
TypeOK ==
    /\ state \in State
    /\ failures \in Nat
    /\ lastFailure \in Nat
    /\ now \in Nat
    /\ pc \in [Callers -> Location]
    /\ clockRead \in [Callers -> Nat]
    /\ count \in [Callers -> Nat]
    /\ failuresLeft \in Nat

\* A failure streak that has reached the threshold is never forgotten: while
\* the breaker is CLOSED with that many consecutive failures on the counter,
\* some thread is still on its way to trip it or to clear the counter.  So a
\* CLOSED breaker nobody is recording into is below its threshold, however
\* record_success's two writes and record_failure's three interleave.
ClosedCountAccountedFor ==
    state = "CLOSED" /\ failures >= Threshold /\ failures > 0 =>
        \E c \in Callers :
            \/ pc[c] \in {"storeZero", "swapOpen"}
            \/ pc[c] \in {"stamp", "storeLastFailure"} /\ count[c] >= Threshold

\* `check` lets no request through while the breaker is HALF_OPEN: the probe
\* is the one request whose compare_exchange made it HALF_OPEN.
NoAdmissionInHalfOpen ==
    [][\A c \in Callers :
          pc[c] # "running" /\ pc'[c] = "running" => state # "HALF_OPEN"]_vars

\* No probe before a whole cooldown has passed since the process started: a
\* thread that sees OPEN never judges the cooldown by the initial stamp 0,
\* and a stamp ahead of its own clock reading never counts as elapsed.
ProbeWaitsOutCooldown ==
    [][state = "OPEN" /\ state' = "HALF_OPEN" => now >= StartTime + Cooldown]_vars

\* HALF_OPEN means a probe is under way ("reject additional requests while
\* probing"): some caller has been admitted and has yet to close or reopen it.
\* Without one, every later request is rejected for good.
HalfOpenIsOwned ==
    state = "HALF_OPEN" =>
        \E c \in Callers : pc[c] \in {"running"} \union (Recording \ {"storeZero"})

\* Once the outage is over the breaker does not stay open: requests reach the
\* warehouse again.
Recovers == []<>(state = "CLOSED")
=============================================================================
