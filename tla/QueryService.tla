---------------------------- MODULE QueryService ----------------------------
(***************************************************************************)
(* The query path of service-kit, as the warehouse services use it: a read *)
(* looks into the result cache, a miss passes the circuit breaker, runs on *)
(* a blocking thread with a pooled connection, records its outcome in the  *)
(* breaker and fills the cache.  Writes and uncached reads skip the cache. *)
(*                                                                         *)
(* The callers are those of CircuitBreaker.  What they do at `running`     *)
(* there is a blocking task here, which a handler dropped by a timeout     *)
(* leaves behind with its connection.  A caller serves its next request    *)
(* when that task has ended too, so it stands for one pair of the two.     *)
(***************************************************************************)
EXTENDS CircuitBreaker, FiniteSets

CONSTANTS
    PoolSize,  \* DB_MAX_CONNECTIONS
    TTL,       \* QUERY_CACHE_TTL_SECS, 0 for no cache
    Timeout    \* GLOBAL_TIMEOUT_SECS

ASSUME ServiceAssumption == PoolSize \in Nat \ {0} /\ TTL \in Nat /\ Timeout \in Nat

VARIABLES
    request,  \* what each handler is at: "lookup", "read" and "insert" are
              \* blocking_query before, in and after its call
    since,    \* when a cached read arrived; 0 for any other caller
    task,     \* the blocking task of each caller
    rows,     \* when the rows a cached read has in hand were read, 0 for none
    cache     \* the entry of the query: when its rows were read and put there

service == <<request, since, task, rows, cache>>
allVars == <<vars, service>>

NoEntry == [read |-> 0, put |-> 0]

ServiceInit ==
    /\ Init
    /\ request = [c \in Callers |-> "none"]
    /\ since = [c \in Callers |-> 0]
    /\ task = [c \in Callers |-> "none"]
    /\ rows = [c \in Callers |-> 0]
    /\ cache = NoEntry

-----------------------------------------------------------------------------
(* The handler up to its call *)

Enter(c, place) == request' = [request EXCEPT ![c] = place]

\* The response is given; what the handler held is gone.
Leave(c) ==
    /\ Enter(c, "none")
    /\ since' = [since EXCEPT ![c] = 0]

\* A cached read arrives in a request, an uncached call may come from the ticker.
Arrive(c) ==
    /\ request[c] = "none" /\ task[c] = "none"
    /\ \/ Enter(c, "lookup") /\ since' = [since EXCEPT ![c] = now]
       \/ Enter(c, "uncached") /\ UNCHANGED since
    /\ UNCHANGED <<vars, task, rows, cache>>

Fresh == cache # NoEntry /\ now < cache.put + TTL

\* Mutant: a hit renews the entry, time_to_idle for time_to_live.
MUT_Hit(c) ==
    /\ request[c] = "lookup" /\ Fresh
    /\ Leave(c)
    /\ cache' = [cache EXCEPT !.put = now]
    /\ UNCHANGED <<vars, task, rows>>

\* A hit is answered without the breaker or the warehouse.
Hit(c) ==
    /\ request[c] = "lookup" /\ Fresh
    /\ Leave(c)
    /\ UNCHANGED <<vars, task, rows, cache>>

Miss(c) ==
    /\ request[c] = "lookup" /\ ~Fresh
    /\ Enter(c, "read")
    /\ UNCHANGED <<vars, since, task, rows, cache>>

\* check() admits the call, which is then spawned, or ends the request with 503.
Gate(c) ==
    /\ request[c] \in {"read", "uncached"}
    /\ Check(c)
    /\ \/ /\ pc'[c] = "running"
          /\ task' = [task EXCEPT ![c] = "queued"]
          /\ UNCHANGED <<request, since>>
       \/ pc'[c] = "idle" /\ Leave(c) /\ UNCHANGED task
       \/ pc'[c] \in Checking /\ UNCHANGED <<request, since, task>>
    /\ UNCHANGED <<rows, cache>>

-----------------------------------------------------------------------------
(* The blocking task *)

Busy == {c \in Callers : task[c] = "querying"}

\* Mutant: a connection of the pool is never given out.
MUT_Checkout(c) ==
    /\ task[c] = "queued" /\ Cardinality(Busy) < PoolSize - 1
    /\ task' = [task EXCEPT ![c] = "querying"]
    /\ rows' = [rows EXCEPT ![c] = IF request[c] = "read" THEN now ELSE 0]
    /\ UNCHANGED <<vars, request, since, cache>>

\* The task gets a connection, and the statement sees the warehouse as it is now.
Checkout(c) ==
    /\ task[c] = "queued" /\ Cardinality(Busy) < PoolSize
    /\ task' = [task EXCEPT ![c] = "querying"]
    /\ rows' = [rows EXCEPT ![c] = IF request[c] = "read" THEN now ELSE 0]
    /\ UNCHANGED <<vars, request, since, cache>>

\* Nobody waits for a task whose handler was dropped.
End(c, outcome) ==
    task' = [task EXCEPT ![c] = IF pc[c] = "running" THEN outcome ELSE "none"]

QueryEnds(c) ==
    /\ task[c] = "querying"
    /\ End(c, "ok")
    /\ UNCHANGED <<vars, request, since, rows, cache>>

\* Bound: of the failures that are left some are on their way to be recorded.
Failing == {c \in Callers : task[c] = "failed"}
MayFail == Outage /\ Cardinality(Failing) < failuresLeft

\* No connection in time, a statement error or the statement timeout.
TaskFails(c) ==
    /\ task[c] \in {"queued", "querying"}
    /\ pc[c] = "running" => MayFail
    /\ End(c, "failed")
    /\ rows' = [rows EXCEPT ![c] = 0]
    /\ UNCHANGED <<vars, request, since, cache>>

-----------------------------------------------------------------------------
(* The handler after its call *)

\* The handler is polled with the task's result.
Resume(c) ==
    /\ \/ task[c] = "ok" /\ Succeed(c)
       \/ task[c] = "failed" /\ Fail(c)
    /\ task' = [task EXCEPT ![c] = "none"]
    /\ UNCHANGED <<request, since, rows, cache>>

\* The global timeout or a disconnect drops the handler at its await.  The task
\* goes on, and its result is for nobody.
TimeOut(c) ==
    /\ Abandon(c)
    /\ Leave(c)
    /\ task' = [task EXCEPT ![c] = IF @ \in {"ok", "failed"} THEN "none" ELSE @]
    /\ rows' = [rows EXCEPT ![c] = 0]
    /\ UNCHANGED cache

\* The outcome is recorded; only a read with rows has something left to do.
Record(c) ==
    /\ RecordSuccess(c) \/ RecordFailure(c)
    /\ \/ pc'[c] # "idle" /\ UNCHANGED <<request, since>>
       \/ pc'[c] = "idle" /\ rows[c] # 0 /\ Enter(c, "insert") /\ UNCHANGED since
       \/ pc'[c] = "idle" /\ rows[c] = 0 /\ Leave(c)
    /\ UNCHANGED <<task, rows, cache>>

Insert(c) ==
    /\ request[c] = "insert"
    /\ cache' = IF TTL = 0 THEN cache ELSE [read |-> rows[c], put |-> now]
    /\ rows' = [rows EXCEPT ![c] = 0]
    /\ Leave(c)
    /\ UNCHANGED <<vars, task>>

-----------------------------------------------------------------------------

\* The cache is bounded by memory: an entry may go at any time.
Evict ==
    /\ cache # NoEntry
    /\ cache' = NoEntry
    /\ UNCHANGED <<vars, request, since, task, rows>>

\* A request is over when its timeout is, to the second.  Bound: failures on their
\* way are recorded before the outage ends.
Pass ==
    /\ Tick
    /\ \A c \in Callers : since[c] # 0 => now < since[c] + Timeout
    /\ Failing # {} => now + 1 + Cooldown < MaxTime
    /\ UNCHANGED service

Handle(c) == Hit(c) \/ Miss(c) \/ Gate(c) \/ Resume(c) \/ Record(c) \/ Insert(c)
Work(c) == Checkout(c) \/ QueryEnds(c) \/ TaskFails(c)

ServiceNext ==
    \/ Pass \/ Evict
    \/ \E c \in Callers : Arrive(c) \/ Handle(c) \/ Work(c) \/ TimeOut(c)

Service == ServiceInit /\ [][ServiceNext]_allVars

\* The runtime runs every thread and the warehouse answers.  A task that finds the
\* connections taken again and again gets one in the end, or gives up waiting.
FairService ==
    /\ Service
    /\ \A c \in Callers : WF_allVars(Handle(c)) /\ SF_allVars(Work(c))

-----------------------------------------------------------------------------
(* Properties *)

\* The type of every variable, the breaker's included, and where a request can be
\* while the breaker or a task is at work for it.
ServiceTypeOK ==
    /\ TypeOK
    /\ request \in [Callers -> {"none", "lookup", "uncached", "read", "insert"}]
    /\ since \in [Callers -> Nat]
    /\ task \in [Callers -> {"none", "queued", "querying", "ok", "failed"}]
    /\ rows \in [Callers -> Nat]
    /\ cache \in [read : Nat, put : Nat]
    /\ \A c \in Callers :
         /\ pc[c] = "running" => task[c] # "none"
         /\ pc[c] # "idle" => request[c] \in {"read", "uncached"}

\* Slow queries fill the cache late and out of order, their tasks outlive their
\* requests, and hits come up to the TTL after that: even so a hit never gives rows
\* older than the TTL and the request timeout together.
RowsNotTooOld == Fresh => now - cache.read < TTL + Timeout

\* A request ends whatever the breaker, the pool and the other requests do, and
\* without the help of the timeout.
RequestsEnd == \A c \in Callers : request[c] # "none" ~> request[c] = "none"
=============================================================================
