------------------------- MODULE QueryServiceProofs -------------------------
(***************************************************************************)
(* Proofs about the circuit breaker and about the query path and its       *)
(* result cache, for any number of callers, any threshold and any cooldown.*)
(***************************************************************************)
EXTENDS QueryService, TLAPS

USE BreakerAssumption DEF breaker, locals

\* The variables keep their types through every step of every caller.
LEMMA TypeInvariance == TypeOK /\ [Next]_vars => TypeOK'
<1> SUFFICES ASSUME TypeOK, [Next]_vars PROVE TypeOK'
  OBVIOUS
<1> USE DEF TypeOK, State, Location, Checking, Recording, Goto
<1>1. CASE Tick
  BY <1>1 DEF Tick
<1>2. ASSUME NEW c \in Callers, Check(c) PROVE TypeOK'
  BY <1>2 DEF Check, LoadState, ReadClock, LoadLastFailure, CompareExchange
<1>3. ASSUME NEW c \in Callers, Call(c) PROVE TypeOK'
  BY <1>3 DEF Call, Succeed, Fail, Abandon
<1>4. ASSUME NEW c \in Callers, RecordSuccess(c) PROVE TypeOK'
  BY <1>4 DEF RecordSuccess, SwapClosed, StoreZero
<1>5. ASSUME NEW c \in Callers, RecordFailure(c) PROVE TypeOK'
  BY <1>5 DEF RecordFailure, FetchAdd, Stamp, StoreLastFailure, SwapOpen
<1>6. CASE UNCHANGED vars
  BY <1>6 DEF vars
<1>7. QED
  BY <1>1, <1>2, <1>3, <1>4, <1>5, <1>6 DEF Next, Step

\* Type correctness of the breaker and its callers.
THEOREM TypeCorrect == Spec => []TypeOK
<1>1. Init => TypeOK
  BY DEF Init, TypeOK, State, Location
<1>2. QED
  BY <1>1, TypeInvariance, PTL DEF Spec

-----------------------------------------------------------------------------
(* A failure streak at the threshold is always being acted upon. *)

\* ClosedCountAccountedFor is inductive: the fetch_add that reaches the
\* threshold makes its own thread the witness, and a thread stops being a
\* witness only by leaving CLOSED (swapOpen) or by clearing the counter.
LEMMA CountStep ==
    TypeOK /\ ClosedCountAccountedFor /\ [Next]_vars => ClosedCountAccountedFor'
<1> SUFFICES ASSUME TypeOK, ClosedCountAccountedFor, [Next]_vars
             PROVE  ClosedCountAccountedFor'
  OBVIOUS
<1> DEFINE Witness(c) ==
        \/ pc[c] \in {"storeZero", "swapOpen"}
        \/ pc[c] \in {"stamp", "storeLastFailure"} /\ count[c] >= Threshold
<1> USE DEF TypeOK, State, Goto
<1>1. CASE Tick
  BY <1>1 DEF Tick, ClosedCountAccountedFor
<1>2. ASSUME NEW c \in Callers, Check(c) PROVE ClosedCountAccountedFor'
  <2>1. (state' = state \/ state' = "HALF_OPEN") /\ UNCHANGED <<failures, count>>
    BY <1>2 DEF Check, LoadState, ReadClock, LoadLastFailure, CompareExchange
  <2>2. ASSUME NEW d \in Callers, Witness(d) PROVE Witness(d)'
    BY <1>2, <2>2
       DEF Check, LoadState, ReadClock, LoadLastFailure, CompareExchange
  <2>3. QED
    BY <2>1, <2>2 DEF ClosedCountAccountedFor
<1>3. ASSUME NEW c \in Callers, Call(c) PROVE ClosedCountAccountedFor'
  <2>1. UNCHANGED <<state, failures, count>>
    BY <1>3 DEF Call, Succeed, Fail, Abandon
  <2>2. ASSUME NEW d \in Callers, Witness(d) PROVE Witness(d)'
    BY <1>3, <2>2 DEF Call, Succeed, Fail, Abandon
  <2>3. QED
    BY <2>1, <2>2 DEF ClosedCountAccountedFor
<1>4. ASSUME NEW c \in Callers, SwapClosed(c) PROVE ClosedCountAccountedFor'
  BY <1>4 DEF SwapClosed, ClosedCountAccountedFor
<1>5. ASSUME NEW c \in Callers, StoreZero(c) PROVE ClosedCountAccountedFor'
  BY <1>5 DEF StoreZero, ClosedCountAccountedFor
<1>6. ASSUME NEW c \in Callers, FetchAdd(c) PROVE ClosedCountAccountedFor'
  BY <1>6 DEF FetchAdd, ClosedCountAccountedFor
<1>7. ASSUME NEW c \in Callers, Stamp(c) \/ StoreLastFailure(c)
      PROVE  ClosedCountAccountedFor'
  <2>1. UNCHANGED <<state, failures>>
    BY <1>7 DEF Stamp, StoreLastFailure
  <2>2. ASSUME NEW d \in Callers, Witness(d) PROVE Witness(d)'
    BY <1>7, <2>2 DEF Stamp, StoreLastFailure
  <2>3. QED
    BY <2>1, <2>2 DEF ClosedCountAccountedFor
<1>8. ASSUME NEW c \in Callers, SwapOpen(c) PROVE ClosedCountAccountedFor'
  BY <1>8 DEF SwapOpen, ClosedCountAccountedFor
<1>9. CASE UNCHANGED vars
  BY <1>9 DEF vars, ClosedCountAccountedFor
<1>10. QED
  BY <1>1, <1>2, <1>3, <1>4, <1>5, <1>6, <1>7, <1>8, <1>9
     DEF Next, Step, RecordSuccess, RecordFailure

\* However the threads' atomic operations interleave, a CLOSED breaker whose
\* counter has reached the threshold has a thread about to trip or clear it.
THEOREM CountAccounted == Spec => []ClosedCountAccountedFor
<1>1. Init => ClosedCountAccountedFor
  BY DEF Init, ClosedCountAccountedFor
<1>2. QED
  BY <1>1, CountStep, TypeCorrect, PTL DEF Spec

-----------------------------------------------------------------------------
(* The first probe waits out a whole cooldown. *)

\* What a thread on its way through `check` can rely on: OPEN is only ever
\* stored after a stamp, stamps are readings of the clock, and the clock
\* reading a thread compares with is not ahead of the clock.
StampInv ==
    /\ now >= StartTime
    /\ lastFailure # 0 => lastFailure \in StartTime..now
    /\ state = "OPEN" => lastFailure # 0
    /\ \A c \in Callers :
        /\ pc[c] \in {"readClock", "loadLastFailure", "swapOpen"} => lastFailure # 0
        /\ pc[c] = "loadLastFailure" => clockRead[c] <= now
        /\ pc[c] = "storeLastFailure" => clockRead[c] \in StartTime..now
        /\ pc[c] = "compareExchange" => now >= StartTime + Cooldown

\* Every step preserves StampInv.
LEMMA StampStep == TypeOK /\ StampInv /\ [Next]_vars => StampInv'
<1> SUFFICES ASSUME TypeOK, StampInv, [Next]_vars PROVE StampInv'
  OBVIOUS
<1> USE DEF TypeOK, State, Goto, StampInv
<1>1. CASE Tick
  BY <1>1 DEF Tick
<1>2. ASSUME NEW c \in Callers, LoadState(c) PROVE StampInv'
  BY <1>2 DEF LoadState
<1>3. ASSUME NEW c \in Callers, ReadClock(c) PROVE StampInv'
  BY <1>3 DEF ReadClock
<1>4. ASSUME NEW c \in Callers, LoadLastFailure(c) PROVE StampInv'
  <2>1. CooldownElapsed(clockRead[c], lastFailure) => now >= StartTime + Cooldown
    BY <1>4 DEF LoadLastFailure, CooldownElapsed, SaturatingSub
  <2>2. QED
    BY <1>4, <2>1 DEF LoadLastFailure
<1>5. ASSUME NEW c \in Callers, CompareExchange(c) PROVE StampInv'
  BY <1>5 DEF CompareExchange
<1>6. ASSUME NEW c \in Callers, Call(c) PROVE StampInv'
  BY <1>6 DEF Call, Succeed, Fail, Abandon
<1>7. ASSUME NEW c \in Callers, RecordSuccess(c) PROVE StampInv'
  BY <1>7 DEF RecordSuccess, SwapClosed, StoreZero
<1>8. ASSUME NEW c \in Callers, FetchAdd(c) \/ Stamp(c) PROVE StampInv'
  BY <1>8 DEF FetchAdd, Stamp
<1>9. ASSUME NEW c \in Callers, StoreLastFailure(c) PROVE StampInv'
  BY <1>9 DEF StoreLastFailure
<1>10. ASSUME NEW c \in Callers, SwapOpen(c) PROVE StampInv'
  BY <1>10 DEF SwapOpen
<1>11. CASE UNCHANGED vars
  BY <1>11 DEF vars
<1>12. QED
  BY <1>1, <1>2, <1>3, <1>4, <1>5, <1>6, <1>7, <1>8, <1>9, <1>10, <1>11
     DEF Next, Step, Check, RecordFailure

\* No probe is admitted before the process is a cooldown old: neither the
\* initial stamp nor a stamp ahead of a thread's clock reading lets one by.
THEOREM FirstProbeWaits == Spec => ProbeWaitsOutCooldown
<1>1. Init => StampInv
  BY DEF Init, StampInv
<1>2. TypeOK /\ StampInv /\ [Next]_vars =>
        [state = "OPEN" /\ state' = "HALF_OPEN" => now >= StartTime + Cooldown]_vars
  BY DEF TypeOK, StampInv, Next, vars, Step, Check, Call, RecordSuccess,
         RecordFailure, LoadState, ReadClock, LoadLastFailure, CompareExchange,
         Succeed, Fail, Abandon, SwapClosed, StoreZero, FetchAdd, Stamp,
         StoreLastFailure, SwapOpen, Tick, Goto
<1>3. QED
  BY <1>1, <1>2, StampStep, TypeCorrect, PTL DEF Spec, ProbeWaitsOutCooldown

-----------------------------------------------------------------------------
(* One probe at a time. *)

\* Only LoadState, which needs CLOSED, and CompareExchange, which needs OPEN, let a
\* caller through.
LEMMA AdmissionStep ==
    TypeOK /\ [Next]_vars =>
      [\A c \in Callers :
          pc[c] # "running" /\ pc'[c] = "running" => state # "HALF_OPEN"]_vars
<1> SUFFICES ASSUME TypeOK, Next, NEW c \in Callers,
                    pc[c] # "running", pc'[c] = "running"
             PROVE  state # "HALF_OPEN"
  BY DEF vars
<1> USE DEF TypeOK, Goto
<1>1. CASE Tick
  BY <1>1 DEF Tick
<1>2. ASSUME NEW d \in Callers, Check(d) PROVE state # "HALF_OPEN"
  BY <1>2 DEF Check, LoadState, ReadClock, LoadLastFailure, CompareExchange
<1>3. ASSUME NEW d \in Callers, Call(d) \/ RecordSuccess(d) \/ RecordFailure(d)
      PROVE  state # "HALF_OPEN"
  BY <1>3 DEF Call, Succeed, Fail, Abandon, RecordSuccess, SwapClosed, StoreZero,
              RecordFailure, FetchAdd, Stamp, StoreLastFailure, SwapOpen
<1>4. QED
  BY <1>1, <1>2, <1>3 DEF Next, Step

\* While a probe is out nobody else is let through, whatever its callers had read
\* of the breaker before.
THEOREM ProbeIsAlone == Spec => NoAdmissionInHalfOpen
BY TypeCorrect, AdmissionStep, PTL DEF Spec, NoAdmissionInHalfOpen

-----------------------------------------------------------------------------
(* HALF_OPEN is owned, but for the two ways a probe is lost. *)

\* In HALF_OPEN some call can still settle the breaker.  And as long as nobody clears
\* the counter around a trip, the counter of a breaker that is not CLOSED stays at
\* the threshold, so that the failure of such a call is one more that trips.
SettledInv ==
    /\ state = "HALF_OPEN" => \E c \in Callers : Settles(c)
    /\ state # "CLOSED" \/ (\E c \in Callers : Trips(c)) => failures >= Threshold

\* Every step that is not one of the two preserves SettledInv: what ends a call that
\* settles is its own store of CLOSED or OPEN.
LEMMA SettledStep ==
    TypeOK /\ SettledInv /\ [Next]_vars /\ [~ProbeDropped /\ ~LateReset]_vars
      => SettledInv'
<1> SUFFICES ASSUME TypeOK, SettledInv, [Next]_vars,
                    [~ProbeDropped /\ ~LateReset]_vars
             PROVE  SettledInv'
  OBVIOUS
<1> USE DEF TypeOK, State, Goto, SettledInv
<1>1. CASE Tick
  BY <1>1 DEF Tick, Settles, Trips
<1>2. ASSUME NEW c \in Callers, LoadState(c) \/ ReadClock(c) \/ LoadLastFailure(c)
      PROVE  SettledInv'
  <2>1. UNCHANGED <<state, failures, count>>
    BY <1>2 DEF LoadState, ReadClock, LoadLastFailure
  <2>2. ASSUME NEW d \in Callers
        PROVE  (Settles(d) => Settles(d)') /\ (Trips(d)' => Trips(d))
    BY <1>2, <2>1 DEF LoadState, ReadClock, LoadLastFailure, Settles, Trips
  <2>3. QED
    BY <2>1, <2>2
<1>3. ASSUME NEW c \in Callers, CompareExchange(c) PROVE SettledInv'
  <2>1. UNCHANGED <<failures, count>> /\ \A d \in Callers : Trips(d)' => Trips(d)
    BY <1>3 DEF CompareExchange, Trips
  <2>2. CASE state = "OPEN"
    BY <1>3, <2>1, <2>2 DEF CompareExchange, Settles
  <2>3. CASE state # "OPEN"
    <3>1. UNCHANGED state /\ \A d \in Callers : Settles(d) => Settles(d)'
      BY <1>3, <2>3 DEF CompareExchange, Settles, Trips
    <3>2. QED
      BY <2>1, <3>1
  <2>4. QED
    BY <2>2, <2>3
<1>4. ASSUME NEW c \in Callers, Succeed(c) \/ Fail(c) PROVE SettledInv'
  <2>1. UNCHANGED <<state, failures, count>>
    BY <1>4 DEF Succeed, Fail
  <2>2. ASSUME NEW d \in Callers
        PROVE  (Settles(d) => Settles(d)') /\ (Trips(d)' => Trips(d))
    BY <1>4, <2>1 DEF Succeed, Fail, Settles, Trips
  <2>3. QED
    BY <2>1, <2>2
<1>5. ASSUME NEW c \in Callers, Abandon(c) PROVE SettledInv'
  <2>1. UNCHANGED <<state, failures, count>> /\ vars' # vars
    BY <1>5 DEF Abandon, vars
  <2>2. state = "HALF_OPEN" => \E d \in Callers \ {c} : Settles(d)
    BY <1>5, <2>1 DEF ProbeDropped
  <2>3. ASSUME NEW d \in Callers
        PROVE  (d # c /\ Settles(d) => Settles(d)') /\ (Trips(d)' => Trips(d))
    BY <1>5, <2>1 DEF Abandon, Settles, Trips
  <2>4. QED
    BY <2>1, <2>2, <2>3
<1>6. ASSUME NEW c \in Callers, SwapClosed(c) PROVE SettledInv'
  BY <1>6 DEF SwapClosed, Trips
<1>7. ASSUME NEW c \in Callers, StoreZero(c) PROVE SettledInv'
  <2>1. vars' # vars
    BY <1>7 DEF StoreZero, vars
  <2>2. state = "CLOSED" /\ \A d \in Callers : ~Trips(d)
    BY <1>7, <2>1 DEF LateReset
  <2>3. state' = "CLOSED" /\ \A d \in Callers : ~Trips(d)'
    BY <1>7, <2>2 DEF StoreZero, Trips
  <2>4. QED
    BY <2>3
<1>8. ASSUME NEW c \in Callers, FetchAdd(c) PROVE SettledInv'
  <2>1. UNCHANGED state /\ failures' = failures + 1
    BY <1>8 DEF FetchAdd
  <2>2. ASSUME NEW d \in Callers \ {c}
        PROVE  (Settles(d) => Settles(d)') /\ (Trips(d)' => Trips(d))
    BY <1>8, <2>1 DEF FetchAdd, Settles, Trips
  <2>3. Trips(c)' <=> failures' >= Threshold
    BY <1>8, <2>1 DEF FetchAdd, Trips
  <2>4. QED
    BY <2>1, <2>2, <2>3 DEF Settles
<1>9. ASSUME NEW c \in Callers, Stamp(c) \/ StoreLastFailure(c) PROVE SettledInv'
  <2>1. UNCHANGED <<state, failures>>
    BY <1>9 DEF Stamp, StoreLastFailure
  <2>2. ASSUME NEW d \in Callers
        PROVE  (Settles(d) => Settles(d)') /\ (Trips(d)' => Trips(d))
    BY <1>9 DEF Stamp, StoreLastFailure, Settles, Trips
  <2>3. QED
    BY <2>1, <2>2
<1>10. ASSUME NEW c \in Callers, SwapOpen(c) PROVE SettledInv'
  BY <1>10 DEF SwapOpen, Trips
<1>11. CASE UNCHANGED vars
  BY <1>11 DEF vars, Settles, Trips
<1>12. QED
  BY <1>1, <1>2, <1>3, <1>4, <1>5, <1>6, <1>7, <1>8, <1>9, <1>10, <1>11
     DEF Next, Step, Check, Call, RecordSuccess, RecordFailure

\* Whatever the threshold, the cooldown and the callers, HALF_OPEN is left without a
\* probe in two ways only: the last call that could settle it is dropped, or a
\* success has cleared the counter around a trip.  In every behaviour without those
\* two steps HALF_OPEN has its probe.
THEOREM ProbeLostInTwoWays ==
    Spec /\ [][~ProbeDropped /\ ~LateReset]_vars => []HalfOpenIsOwned
<1>1. Init => SettledInv
  BY DEF Init, SettledInv, Trips
<1>2. SettledInv => HalfOpenIsOwned
  BY DEF SettledInv, HalfOpenIsOwned, Settles, Trips, Recording
<1>3. QED
  BY <1>1, <1>2, SettledStep, TypeCorrect, PTL DEF Spec
-----------------------------------------------------------------------------
(* The query path and its cache *)

USE BreakerAssumption, ServiceAssumption DEF service, breaker, locals

-----------------------------------------------------------------------------
(* The service is a circuit breaker with its callers *)

\* The steps of the query path as the breaker sees them.
LEMMA BreakerStep == [ServiceNext]_allVars => [Next]_vars
<1> SUFFICES ASSUME [ServiceNext]_allVars PROVE [Next]_vars
  OBVIOUS
<1>1. CASE Pass \/ Evict
  BY <1>1 DEF Pass, Evict, Next
<1>2. ASSUME NEW c \in Callers, Arrive(c) \/ Hit(c) \/ Miss(c) \/ Insert(c) \/ Work(c)
      PROVE  [Next]_vars
  BY <1>2 DEF Arrive, Hit, Miss, Insert, Work, Checkout, QueryEnds, TaskFails
<1>3. ASSUME NEW c \in Callers, Gate(c) \/ Resume(c) \/ Record(c) \/ TimeOut(c)
      PROVE  [Next]_vars
  BY <1>3 DEF Gate, Resume, Record, TimeOut, Next, Step, Call
<1>4. CASE UNCHANGED allVars
  BY <1>4 DEF allVars
<1>5. QED
  BY <1>1, <1>2, <1>3, <1>4 DEF ServiceNext, Handle

\* Cache, pool, tasks and timeouts do nothing to the breaker that its own callers
\* could not do.
THEOREM ServiceIsBreaker == Service => Spec
<1>1. ServiceInit => Init
  BY DEF ServiceInit
<1>2. QED
  BY <1>1, BreakerStep, PTL DEF Service, Spec

\* The theorems about the breaker, for the service it is part of.
THEOREM ServiceCountAccounted == Service => []ClosedCountAccountedFor
BY ServiceIsBreaker, CountAccounted, PTL

THEOREM ServiceProbeIsAlone == Service => NoAdmissionInHalfOpen
BY ServiceIsBreaker, ProbeIsAlone, PTL

THEOREM ServiceProbeIsLostInTwoWays ==
    Service /\ [][~ProbeDropped /\ ~LateReset]_vars => []HalfOpenIsOwned
BY ServiceIsBreaker, ProbeLostInTwoWays, PTL

THEOREM ServiceProbeWaits == Service => ProbeWaitsOutCooldown
BY ServiceIsBreaker, FirstProbeWaits, PTL

-----------------------------------------------------------------------------
(* Types *)

\* Every step keeps the types, and a call at the warehouse keeps its task.
LEMMA ServiceTypeStep == ServiceTypeOK /\ [ServiceNext]_allVars => ServiceTypeOK'
<1> SUFFICES ASSUME ServiceTypeOK, [ServiceNext]_allVars PROVE ServiceTypeOK'
  OBVIOUS
<1>0. TypeOK'
  BY BreakerStep, TypeInvariance DEF ServiceTypeOK
<1> USE DEF ServiceTypeOK
<1>1. CASE Pass \/ Evict
  BY <1>0, <1>1 DEF Pass, Evict, Tick, vars, NoEntry
<1>2. ASSUME NEW c \in Callers, Arrive(c) \/ Hit(c) \/ Miss(c) \/ Insert(c)
      PROVE  ServiceTypeOK'
  BY <1>0, <1>2 DEF Arrive, Hit, Miss, Insert, Enter, Leave, vars, TypeOK
<1>3. ASSUME NEW c \in Callers, Work(c) PROVE ServiceTypeOK'
  BY <1>0, <1>3 DEF Work, Checkout, QueryEnds, TaskFails, End, vars, TypeOK
<1>4. ASSUME NEW c \in Callers, Gate(c) PROVE ServiceTypeOK'
  <2>1. \A d \in Callers \ {c} : pc'[d] = pc[d]
    BY <1>4 DEF Gate, Check, LoadState, ReadClock, LoadLastFailure, CompareExchange,
                Goto, TypeOK
  <2>2. QED
    BY <1>0, <1>4, <2>1 DEF Gate, Leave, Enter, Checking
<1>5. ASSUME NEW c \in Callers, Resume(c) \/ TimeOut(c) PROVE ServiceTypeOK'
  BY <1>0, <1>5 DEF Resume, TimeOut, Succeed, Fail, Abandon, Leave, Enter, Goto, TypeOK
<1>6. ASSUME NEW c \in Callers, Record(c) PROVE ServiceTypeOK'
  <2>1. \A d \in Callers \ {c} : pc'[d] = pc[d]
    BY <1>6 DEF Record, RecordSuccess, RecordFailure, SwapClosed, StoreZero, FetchAdd,
                Stamp, StoreLastFailure, SwapOpen, Goto, TypeOK
  <2>2. pc[c] # "idle" /\ pc'[c] # "running"
    BY <1>6 DEF Record, RecordSuccess, RecordFailure, SwapClosed, StoreZero, FetchAdd,
                Stamp, StoreLastFailure, SwapOpen, Goto, TypeOK
  <2>3. QED
    BY <1>0, <1>6, <2>1, <2>2 DEF Record, Leave, Enter
<1>7. CASE UNCHANGED allVars
  BY <1>0, <1>7 DEF allVars, vars
<1>8. QED
  BY <1>1, <1>2, <1>3, <1>4, <1>5, <1>6, <1>7 DEF ServiceNext, Handle

\* Type correctness of the service, its breaker included.
THEOREM ServiceTypeCorrect == Service => []ServiceTypeOK
<1>1. ServiceInit => ServiceTypeOK
  BY DEF ServiceInit, ServiceTypeOK, Init, TypeOK, State, Location, NoEntry
<1>2. QED
  BY <1>1, ServiceTypeStep, PTL DEF Service

-----------------------------------------------------------------------------
(* The age of what is served *)

\* Rows in hand belong to a read that is not over: they were read after it arrived,
\* and its timeout bounds when they reach the cache.
AgeInv ==
    /\ now >= StartTime
    /\ \A c \in Callers :
         /\ since[c] # 0 => since[c] <= now /\ now <= since[c] + Timeout
         /\ request[c] \in {"lookup", "read", "insert"} => since[c] # 0
         /\ request[c] = "insert" => rows[c] # 0
         /\ rows[c] # 0 => rows[c] >= since[c]
         /\ rows[c] # 0 => \/ request[c] = "insert"
                           \/ /\ request[c] = "read"
                              /\ pc[c] \in {"running"} \union Recording
         /\ task[c] # "none" => pc[c] = "running" \/ request[c] = "none"
    /\ cache # NoEntry => cache.put <= cache.read + Timeout

\* Every step preserves AgeInv.
LEMMA AgeStep ==
    ServiceTypeOK /\ ServiceTypeOK' /\ AgeInv /\ [ServiceNext]_allVars => AgeInv'
<1> SUFFICES ASSUME ServiceTypeOK, ServiceTypeOK', AgeInv, [ServiceNext]_allVars
             PROVE  AgeInv'
  OBVIOUS
<1> USE DEF ServiceTypeOK, TypeOK, AgeInv
<1>1. CASE Pass
  BY <1>1 DEF Pass, Tick
<1>2. CASE Evict
  BY <1>2 DEF Evict, vars
<1>3. ASSUME NEW c \in Callers, Arrive(c) PROVE AgeInv'
  BY <1>3 DEF Arrive, Enter, vars
<1>4. ASSUME NEW c \in Callers, Hit(c) \/ Miss(c) PROVE AgeInv'
  BY <1>4 DEF Hit, Miss, Leave, Enter, vars
<1>5. ASSUME NEW c \in Callers, Gate(c) PROVE AgeInv'
  <2>1. /\ pc[c] \in {"idle"} \union Checking
        /\ \A d \in Callers \ {c} : pc'[d] = pc[d]
        /\ UNCHANGED now
    BY <1>5 DEF Gate, Check, LoadState, ReadClock, LoadLastFailure, CompareExchange,
                Goto, Checking
  <2>2. rows[c] = 0 /\ task[c] = "none"
    BY <1>5, <2>1 DEF Gate, Checking, Recording
  <2>3. QED
    BY <1>5, <2>1, <2>2 DEF Gate, Leave, Enter, Checking
<1>6. ASSUME NEW c \in Callers, Checkout(c) PROVE AgeInv'
  BY <1>6 DEF Checkout, vars
<1>7. ASSUME NEW c \in Callers, QueryEnds(c) \/ TaskFails(c) PROVE AgeInv'
  BY <1>7 DEF QueryEnds, TaskFails, End, vars
<1>8. ASSUME NEW c \in Callers, Resume(c) PROVE AgeInv'
  BY <1>8 DEF Resume, Succeed, Fail, Goto, Recording
<1>9. ASSUME NEW c \in Callers, TimeOut(c) PROVE AgeInv'
  BY <1>9 DEF TimeOut, Abandon, Goto, Leave, Enter
<1>10. ASSUME NEW c \in Callers, Record(c) PROVE AgeInv'
  <2>1. /\ pc[c] \in Recording /\ pc'[c] \in {"idle"} \union Recording
        /\ \A d \in Callers \ {c} : pc'[d] = pc[d]
        /\ UNCHANGED now
    BY <1>10 DEF Record, RecordSuccess, RecordFailure, SwapClosed, StoreZero, FetchAdd,
                 Stamp, StoreLastFailure, SwapOpen, Goto, Recording
  <2>2. task[c] = "none"
    BY <2>1 DEF Recording
  <2>3. QED
    BY <1>10, <2>1, <2>2 DEF Record, Leave, Enter
<1>11. ASSUME NEW c \in Callers, Insert(c) PROVE AgeInv'
  <2>1. rows[c] # 0 /\ now <= rows[c] + Timeout
    BY <1>11 DEF Insert
  <2>2. cache' # NoEntry => cache'.put <= cache'.read + Timeout
    BY <1>11, <2>1 DEF Insert
  <2>3. QED
    BY <1>11, <2>2 DEF Insert, Leave, Enter, vars
<1>12. CASE UNCHANGED allVars
  BY <1>12 DEF allVars, vars
<1>13. QED
  BY <1>1, <1>2, <1>3, <1>4, <1>5, <1>6, <1>7, <1>8, <1>9, <1>10, <1>11, <1>12
     DEF ServiceNext, Handle, Work

\* However slow the queries are and whatever order they reach the cache in, a hit
\* gives rows younger than the TTL and the request timeout together.
THEOREM RowsAreYoung == Service => []RowsNotTooOld
<1>1. ServiceInit => AgeInv
  BY DEF ServiceInit, Init, AgeInv
<1>2. ServiceTypeOK /\ AgeInv => RowsNotTooOld
  BY DEF ServiceTypeOK, TypeOK, AgeInv, RowsNotTooOld, Fresh
<1>3. QED
  BY <1>1, <1>2, AgeStep, ServiceTypeCorrect, PTL DEF Service
=============================================================================
