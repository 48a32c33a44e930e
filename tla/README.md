# Verification of `intimate`

TLA+ models of the stateful parts of this repository, the TLC runs that check
them on small instances, and TLAPS proofs of the properties that matter most
for every instance. Each module is a translation of the code it names;
`PROJECT.json` lists, for every definition, the source lines it stands for.

The repository is a monorepo of many small programs. Most of it is pure
computation, rendering, SQL text or experiments. What keeps state that several
actors touch is concentrated in `cocoon/`, the Rust production workspace, where
most of the models are; `atlantis/` and one archived service of `rose/` add a long
sequential protocol and a collaborative one.

| module | models | proofs | TLC instances |
|---|---|---|---|
| `CircuitBreaker` | service-kit's lock-free breaker and its callers | `QueryServiceProofs` | `MCCircuitBreaker` |
| `QueryService` | service-kit's query path: that breaker with the result cache, the pool, blocking tasks and dropped handlers | `QueryServiceProofs` | `MCQueryService` |
| `HistoryCache` | snowhouse's query-history cache and its sweeps | `HistoryCacheProofs` | `MCHistoryCache` |
| `UploadPipeline` | tako's `POST /upload`, from permit to COPY | `UploadPipelineProofs` | `MCUploadPipeline` |
| `AppendOnce` | what an upload service promises (abstract) | | |
| `SchemaTypes` | schema's pure part: columns, validation, enrichment, compatibility | `SchemaTypesProofs` | |
| `SchemaRegistry` | schema's registry: two maps, two locks, lazy loading | `StagingProofs` | `MCStaging` |
| `VersionStore` | an atomic store of versions (abstract) | | |
| `Staging` | tako's staging tables and prepared files over that registry | `StagingProofs` | `MCStaging` |
| `AtlantisBoard`, `AtlantisRules` | atlantis: hexes and zones; combat, turns and the end of a round | | |
| `Atlantis` | the engine: one action for each kind of `Action` | `AtlantisProofs`, `AtlantisLaneProofs` | `MCAtlantis` |
| `LaneWar` | the match on the lane (abstract) | | |
| `PlanRoom` | the weekly backend's collaborative plan room | `PlanRoomProofs` | `MCPlanRoom` |

Contents: [inventory](#1-inventory), [circuit breaker](#2-circuit-breaker),
[query path](#3-query-path), [query-history cache](#4-query-history-cache),
[upload pipeline](#5-upload-pipeline),
[schemas and staging tables](#6-schemas-and-staging-tables),
[atlantis](#7-atlantis), [plan room](#8-plan-room),
[disagreements](#9-disagreements-between-code-and-documents),
[limits](#10-what-is-not-shown), [plan](#11-plan), [running](#12-running-the-checks).

## 1. Inventory

### Production services (`src/cocoon`)

**service-kit** is the shared chassis of the warehouse services (snowhouse,
redhouse, data_view). A request passes the middleware (global timeout, rate
limiters, heavy-route timeout) and reaches a handler, which calls `AppState`.
*State:* the circuit breaker's three atomics, the two rate limiters' counters,
the r2d2 connection pool, the TTL result cache. *Operations:* `check`,
`record_success`, `record_failure`; `blocking_query`, `blocking_query_uncached`,
`blocking_execute`; `try_acquire` and the background reset. *Hard behaviours:*
atomics written one after the other while other threads run; a handler's future
dropped at an await by a timeout while its blocking thread goes on; a cache
filled with results older than the ones it replaces. *Correct means:* the
breaker trips after its threshold, probes one request at a time after its
cooldown and can always recover; a hit is never older than TTL and timeout
together; every request ends; no more requests than the limit in one window.

**snowhouse** serves Snowflake analytics. *State:* one table of query history,
kept in the warehouse, and its watermark. *Operations:* `refresh` (hourly
ticker, one per replica, and the CLI), `backfill`, `status`. *Interaction:*
every statement goes through service-kit's uncached path, hence through the
breaker. *Hard behaviours:* the source returns at most 10,000 rows per call,
forgets after seven days and lags; several writers share the table; a sweep can
fail half-way. *Correct means:* a sweep leaves no gap in its range, and what is
not cached yet will still be scanned.

**tako** loads uploaded files into warehouse tables. *State:* the upload
semaphore, blocking tasks, one object per table in the blob store, the tables.
*Operations:* `upload_file`; create and drop table. *Interaction:* HTTP handler
to blocking pool, to blob store, to COPY through the database pool. *Hard
behaviours:* handlers dropped while tasks run, one object shared by uploads to
one table, fewer connections than permits, failures at every `?`. *Correct
means:* each upload's rows are appended at most once and before its 200; permits
are conserved; admitted uploads end.

**schema** resolves schema files and keeps them in a registry. *State:* the
current schema of each key and its recorded versions, under a lock each.
*Operations:* `insert`, `get_or_load`, `register_version`. *Interaction:* tako
looks a schema up to make a staging table and, in another request, to reorder,
check and enrich an uploaded file that COPY then matches by position. *Hard
behaviours:* the two maps disagree between the locks; a file is judged with one
schema and the table was made with another. *Correct means:* the two maps are one
store; a file prepared for a table's schema has that table's columns in order.

**Crates.** `blobs` (local and S3 stores), `database` (SQL builders, connectors,
pool), `keyvalue` (memory and fjall), `ouroboros` (client of an external deployment
service), `faker`, `deploy-catalog`. None of them has concurrent state of its own.

**Other apps.** `augur` (one model behind a mutex), `data_view` and `redhouse`
(read-only over service-kit), `nyx` and `parle` (interactive programs around
language models), `warden` (a command line over ouroboros).

### The rest

`blank/` holds Python libraries; `pure`'s DAG runner (levels of nodes run
concurrently, failing nodes) is the one with control worth modelling.

**atlantis** is a board game engine. *State:* one `Game`: heroes, minions, cards in
seven places, levels, the lane, counters and a phase. *Operations:*
`legal_actions` and `apply`. *Hard behaviours:* a long sequential protocol (play,
initiative and the tie-breaker coin, movement, combat, defence, push, minion
battle, retrieval, level-ups) in which any step may end the turn, the round or the
game. *Correct means:* there is always a legal action until the game is over, no
card or level is lost, the lane and the counters stay within their ends.

**The plan room** of `rose/`'s archived weekly backend lets clients edit one plan.
*State:* a map of live edits, the last save, a count of viewers, a broadcast
channel. *Operations:* a socket's life (presence, snapshot, subscription, two
tasks, cleanup), edits, saves in several statements. *Hard behaviours:* every
step takes another lock; receivers lag; tasks are aborted at an await; saves
overlap, fail half-way and race with edits. *Correct means:* who follows the
channel agrees with the others, no edit is kept unannounced, the chain of
snapshots names only whole ones.

`rose/` holds more pilots; those with control worth modelling are the restate
pipeline (journaled steps, approval promise, tracker object), oracle's live and
digest lanes, glisen's supervised workers and forage's crawl frontier. The others
are front ends, numerical models, GPU kernels, infrastructure or third-party
integrations. `procrastination/` is a continuous vehicle simulation. `above/`,
`driving/`, `humanities/`, `workspaces/` and `proto-plugins/` are prose and images.

`PROJECT.json` lists every one of these as a component with its status, and
under `hazards` the places where the modelled parts are exposed, with the line and
the properties that cover it, or the reason why none does. The
sources of a large unmodelled component are its longest files.

## 2. Circuit breaker

`src/cocoon/crates/service-kit/src/circuit_breaker.rs`, with its caller
`run_uncached` in `state.rs`.

### Model

`state`, `failures` and `lastFailure` are the three atomics. Each load, store,
swap, `fetch_add` and `compare_exchange` is an action of its own, so any other
thread's operation may fall between two of them; all are SeqCst, so interleaving
them is the whole memory model. A caller is a request handler:

| code | actions |
|---|---|
| `check` | `LoadState`, `ReadClock`, `LoadLastFailure`, `CompareExchange` |
| the warehouse call | `Succeed`, `Fail`, `Abandon` |
| `record_success` | `SwapClosed`, `StoreZero` |
| `record_failure` | `FetchAdd`, `Stamp`, `StoreLastFailure`, `SwapOpen` |

`Abandon` is a handler that never records: its future was dropped at the await,
or `spawn_blocking` returned a `JoinError` and `?` left early. It may happen in any
state of the breaker; `MayAbandon`, a set of states, restricts when, so that a run or
a theorem can say under which restriction a property holds. The clock is in
seconds and advances at any moment, as `now_epoch_secs` does; it is taken not to
go backwards. The counter's 32 bits are not modelled: `MaxFailures` is far below
them, and the counter is reset by every success.

Bounds: `MaxTime` stops the clock and `MaxFailures` ends the outage. So that
the end of the clock never cuts a cooldown short, failures happen only while a
whole cooldown is left and the clock then waits for them to be stamped
(`Outage`, `FailureInFlight`); neither hides an interleaving before the end.

### Runs

| run | instance | checks |
|---|---|---|
| `cb_recovery` | 3 callers, threshold 2, fairness, callers abandon in any state; without the two steps that lose a probe | `HalfOpenIsOwned`, `Recovers` |
| `cb_reset_race` | 3 callers, threshold 2, nobody abandons | `HalfOpenIsOwned` **violated** |

`ClosedCountAccountedFor`, `NoAdmissionInHalfOpen` and `ProbeWaitsOutCooldown` are
checked in `svc_requests` ([query path](#3-query-path)), where the breaker's
callers have a cache, a pool and timeouts around them, and proved below for any
number of callers. `cb_reset_race` needs three callers, one that trips, one that
probes and one whose operations are late, and a threshold of 2, the least at which
a count can be cleared between reaching the threshold and tripping.

`cb_recovery` runs `CarefulSpec`, the breaker without `ProbeDropped` and `LateReset`
(below): with callers dropped anywhere else and with the counter cleared anywhere
else, a breaker that trips closes again.

*Fairness*: the runtime keeps running every thread, requests keep coming (each caller
is a loop, weakly fair), the clock advances. It is asked of the steps `CarefulSpec`
has (`Careful`), so every fair behaviour of the code in which the two do not happen
satisfies it. No fairness is asked of the outcome of a call, except that the outage
is finite: after `MaxFailures` failures calls succeed. `Recovers` would fail
otherwise, as it should.

### Proofs

* `TypeCorrect`: `TypeOK` is inductive.
* `CountAccounted`: `ClosedCountAccountedFor`. Its content is that clearing the
  state and the counter in two steps never loses a streak of failures for good:
  someone is always on the way to trip or to clear. It is inductive together
  with `TypeOK`: the `fetch_add` that reaches the threshold is itself the
  witness, and a `swap(CLOSED)` leaves its own thread before `store(0)`.
* `FirstProbeWaits`: no probe before one whole cooldown of the process's life. A
  thread that sees `OPEN` needs to know that a stamp has been stored.
  `StampInv` says so: the stamp is 0 or a moment of the process's life, it is not
  0 once the breaker is open or a thread has seen it open or is about to open
  it, and no thread holds a clock reading from the future; so a thread that
  reaches the compare-exchange has seen a whole cooldown pass.
* `ProbeIsAlone`: `NoAdmissionInHalfOpen`. Of all the steps only a load that finds
  `CLOSED` and a compare-exchange that finds `OPEN` admit (`AdmissionStep`), so
  while a probe is out nobody is admitted beside it, however many threads saw the
  same elapsed cooldown.
* `ProbeLostInTwoWays`: for every threshold and with callers that go away in any
  state, `HALF_OPEN` is left without its probe in two ways only. `ProbeDropped`: the
  last call that could still settle the breaker goes away without recording
  (`state.rs:311`). `LateReset`: a success clears the counter of a breaker that is not
  `CLOSED`, or that a failure is about to open (`circuit_breaker.rs:108`). The theorem
  says `Spec /\ [][~ProbeDropped /\ ~LateReset]_vars => []HalfOpenIsOwned`: it assumes
  nothing of the constants, and both steps are steps the code takes. `SettledInv`
  carries it: in `HALF_OPEN` some call can settle, and the counter of a breaker that is
  not `CLOSED` is at the threshold, so that the failure of a call that settles is one
  more that trips. `cb_recovery` checks the same on an instance with a threshold of two; `cb_reset_race` shows what the second step does, and for the first
  a handler that is dropped while its probe runs is enough.

## 3. Query path

`src/cocoon/crates/service-kit/src/state.rs`: `blocking_query`,
`blocking_query_uncached`, `blocking_execute` and `run_uncached` under them.

### Model

`QueryService` EXTENDS `CircuitBreaker`: its callers are the breaker's. What a caller
does at `running` there is here a blocking task that waits for a connection, runs
its statement and ends; the handler awaits it and may be dropped meanwhile. A
caller stands for a handler and the task it may leave behind, so it serves its
next request when both have ended.

| code | actions |
|---|---|
| a request, or an uncached call of the history cache | `Arrive` |
| `cache.get` | `Hit`, `Miss` |
| `check`, 503, or `spawn_blocking` | `Gate` |
| `pool.get`, the statement | `Checkout`, `QueryEnds`, `TaskFails` |
| the handler polled with the task's result | `Resume` |
| `record_success`, `record_failure` | `Record` (the steps of `CircuitBreaker`) |
| `cache.insert` | `Insert` |
| the timeout layer, or a disconnect | `TimeOut` |
| eviction by weight | `Evict` |

One query text is modelled: entries of different texts share nothing but the
memory bound, which is `Evict`. A write and an uncached read are the same to the
breaker and the pool, and skip the cache. `since` is kept for cached reads only:
all of them are made by handlers under `global_timeout`, while uncached calls also
come from the history cache's ticker and the command line. `Pass` lets no second
begin in which a cached read is older than its timeout; a timeout of a real server
is late by less than a second, and the model's clock has no finer grain.
`ping`, which only borrows a connection, and the rate limiter in front of the
routes are not modelled.

### Run

| run | instance | checks |
|---|---|---|
| `svc_requests` | 2 callers, 1 connection, threshold 1, cooldown 2, TTL 2, timeout 1, 2 failures, dropped handlers | `ServiceTypeOK`, `ClosedCountAccountedFor`, `RowsNotTooOld`, `NoAdmissionInHalfOpen`, `ProbeWaitsOutCooldown`, `RequestsEnd` |

Two callers and one connection are the least with which a task waits for a
connection, a dropped handler's task holds it, and one query fills the cache over
the rows of another; the clock runs four seconds, which is a cooldown and a TTL
after the first second. Failures happen in the first second of this instance, so
that a probe always succeeds here; probes that fail are in `cb_recovery` and
`cb_reset_race`.

*Fairness* (`FairService`): the runtime polls every handler that can go on
(weakly). Tasks are strongly fair: r2d2 wakes those that wait for a connection and
gives up after its connection timeout, so a task that finds the connections taken
again and again is served or fails in the end. Nothing is asked of `TimeOut`:
`RequestsEnd` shows that requests end without it.

### Proofs

* `ServiceTypeCorrect`: `ServiceTypeOK`, for any number of callers and connections.
* `ServiceIsBreaker`: `Service => Spec`. Cache, pool, tasks and timeouts do nothing
  to the breaker that its own callers could not do, so the breaker's theorems hold
  for the service (`ServiceCountAccounted`, `ServiceProbeIsAlone`,
  `ServiceProbeWaits`).
* `RowsAreYoung`: `RowsNotTooOld`. The TTL alone bounds how long an entry has been in
  the cache, not how old its rows are: a slow query inserts after a quicker one.
  `AgeInv` adds the missing half: rows in hand were read after their request
  arrived, and the request's timeout bounds when they reach the cache.

## 4. Query-history cache

`src/cocoon/apps/snowhouse/src/cache/mod.rs` and `sql.rs`.

### Model

`endTime` and `visible` are Snowflake's QUERY_HISTORY (external): queries end
(`Finish`), and become visible up to `Lag` half seconds later (`Appear`,
`Tick`). `cache` is the table. A writer's `pc`, `range`, `stack` and `counted` are the
locals of `ingest_range`. Two history variables record what the code gives up, at the
step that does: `cut`, rows that the source's ceiling kept out of a merge whose probe had
counted fewer, or whose window is a single second; `forgone`, rows that a failing sweep
had still on its stack with the watermark already past them, and rows before the range of
a backfill that a refresh would still have scanned. No guard reads them. A row the code
loses in any other way is in neither, and the properties below catch it.

| code | actions |
|---|---|
| `refresh` | `BeginRefresh` (clock), `ReadWatermark` (query, overlap, clamp) |
| `backfill` | `BeginBackfill` |
| `ingest_range` | `Skip`, `Probe` (count, and bisect or keep), `MergeWindow`, `Return` |
| any `?`, or the process dying | `Fail` |

The source's window is closed at both ends, its count and rows stop at `Limit`
and the rows kept are the most recent; windows beginning at or before the `Wall`
are rejected. The code works in whole seconds and end times are fractional, so
the clock counts half seconds: `Halves`, `Divisible`, `Seconds` and `Within`
are the arithmetic of the code at that grain. `MERGE` is a union, because it
matches on the query id. Several writers, on the same table, are the ticker of
each replica and the CLI.

### Runs

| run | instance | checks |
|---|---|---|
| `hc_sweep` | 3 queries, 2 writers, ceiling 2, lookback 4 s, wall 5 s, backfills of 1 s, lag of half a second, any call may fail | `TypeOK`, `SweepCoverage`, `NothingOutOfReach` |
| `hc_live` | 2 queries, 1 writer, ceiling 1, lag of half a second, fairness | `SweepTerminates`, `EventuallyCached` |
| `hc_failed_sweep` | 3 queries, 1 writer, calls may fail | `RefreshesMissNothing` **violated** |

Three queries against a ceiling of two saturate a window; a clock of a few
seconds bisects twice and lets a query end on the boundary of two halves. In `hc_sweep`
the wall is one second past the lookback, as the code's 168 and 167 hours, and a slow sweep
has its oldest windows rejected after its newest have moved the watermark; the backfill
of a second is far shorter than the lookback (`hc_live` has those of the whole lookback);
rows show after a window was counted, after it was merged, or after the sweep's end. Each way of
losing a row happens within these bounds, and `NothingOutOfReach` says that there is no
other. `RefreshesMissNothing` is the module's comment taken at its word; a sweep that
fails loses what it had not done.

`LastEnd` bounds when queries end and `MaxClock` the clock, with room after
`LastEnd` for whole sweeps. A second with more queries than the ceiling cannot be
resolved by bisection; the code logs a warning there, and `EventuallyCached` exempts it
(`Overfull`).

*Fairness:* time passes, visible rows appear, a sweep once begun goes on, and the
ticker keeps starting refreshes, as `tokio::time::interval` does.

### Proofs

* `TypeCorrect`, for any constants: a sweep's range never reaches further back
  than the lookback, whatever the watermark. It needs the watermark of a
  non-empty table to exist (`WatermarkExists`, from the finiteness of the
  executions) and lemmas on popping, reading and extending a stack of windows.
* `SweepLeavesNoGap`, for any constants: `SweepCoverage` whatever the lag, the failures,
  the ceiling and the number of writers, queries and seconds. `CoverageInv` adds to it
  that what ended is visible within the lag (`SourceInv`), and per sweep (`SweepInv`)
  that its range lies in the past, where no query can still end, that its windows
  stay within the range and are not empty, and that a window about to be merged was
  counted below the ceiling or cannot be divided. The work is in `ProbeCovers` (the two
  halves share their boundary, so a query of the window is in one of them) and
  `MergeCovers` (a visible row of the merged window is returned or cut off).
* `NothingLeftBehind`: `NothingOutOfReach` for any number of writers, any failures,
  backfills, lookback and wall, under the one hypothesis that the refresh's overlap covers
  the lag (`Lag <= 2 * Overlap`, an hour in the code): a row that shows later than that
  shows behind the point the next refresh starts from. Merges go newest first, so in the
  middle of a sweep the watermark is past rows that are missing. `ReachInv` accounts for
  every missing row: the watermark has not passed it or it was given up (`Accounted`), or
  a sweep has it in a window of its stack (`Awaited`). A missing row before a sweep's
  range was given up for it, had been passed already, had not shown when the sweep began,
  or is past the lookback (`StartsLow`); so a merge that moves the watermark up passes no
  row but those its own sweep still has before it, those accounted for already, and late
  ones, which the overlap keeps within reach.

The two liveness properties are checked by TLC only.

## 5. Upload pipeline

`src/cocoon/apps/tako/src/routes/upload.rs`, `limits.rs`, `lib.rs`, with
`put_file` of both blob stores and the pool of the database crate.

### Model

A request is four processes, because the last three outlive the first:
`handler` (the future of `upload_file`), `decode` (parse, validate, enrich and
encode on a blocking thread), `store` (the write to the blob store), `load` (the
COPY on a blocking thread, with a pooled connection).

| code | actions |
|---|---|
| `try_acquire_owned` | `Admit`, `Shed` |
| multipart, table and identifier checks | `RejectRequest` |
| `spawn_blocking` decode and its `?` | `StartDecode`, `Decode`, `RejectFile`, `StartStore` |
| `put_file` | `Truncate`, `Write`, `WriteFails`, `StoreError` |
| `load_into_warehouse` | `StartLoad`, `Connect`, `PoolTimeout`, `Copy`, `CopyFails`, `LoadError`, `Finish` |
| the timeout layer, or a disconnect | `Drop` |

`blob` holds, per table, whose file its object contains: the object key is
`datascience/{table}.parquet`, so uploads to one table share it. On S3 a write
replaces the object at once, and a request cut off with its handler may or may not have
landed. On the local store a write truncates the file and fills it in place: one whose
write overlaps another's (`Overlapped`) may end with its own file, or with the tail of
the other's behind it (`Torn`), and one that fails may leave a part. `rows[u]` counts how
often the rows of upload `u` were appended; `Copy` appends whatever file the object holds
at that moment.

`AppendOnce` is the abstract promise: rows at most once, and before the 200. An
error, a 408 or a 503 promises nothing, because the rows may come later.
`LoadsOnce` says that `UploadPipeline` implements it for all uploads, by the
identity mapping of `rows` and `reply`; `AloneLoadsOnce`, that it does for the
uploads in `Alone`, those whose table no other upload names. Every step of the
others is then a stutter.

### Runs

| run | instance | checks |
|---|---|---|
| `up_own` | 3 uploads, two to one table and one alone, 2 permits, 1 connection, local store, failures and drops, fairness | `TypeOK`, `PermitsConserved`, `OnlyDecodedRows`, `AloneLoadsOnce`, `HandlersEnd` |
| `up_shared_object` | 2 uploads to one table, nothing fails | `LoadsOnce` **violated** |

Three uploads with two permits shed one; one connection for two permits makes
an admitted upload wait, and give up, for a connection; the two that share an
object tear and replace it while the third is alone with its own. Deadlock is
checked: the only state with nothing left to do is `Quiet`.

*Fairness:* the runtime polls a handler whose task has ended (`Advance`) and runs every
blocking task, and the store, the pool and the warehouse answer, with an error if need be
(`statement_timeout`, the pool's checkout timeout). The body is the client's affair
(`ReadBody`, `upload.rs:222`): nothing is asked of it, and a handler whose client stalls
is ended by the upload timeout, which is fair while the body is read (`limits.rs:48`).
Past the body nothing is asked of `Drop`: `HandlersEnd` shows that an upload whose body
has come ends without help from the timeout.

### Proofs

* `TypeCorrect`, and `PermitsAddUp` (`PermitsConserved`), for any number of
  uploads and permits: each of the handler's exits changes the set of active
  handlers by one and the semaphore by one.
* `OnlyDecoded`: `OnlyDecodedRows`. The rows a COPY appends are those of the
  object, so `DecodedInv` follows the file back: only a decoded file is given to
  the store, only such files are in objects, only such rows are in tables.
* `AloneLoadOnce`: `AloneLoadsOnce`, for any number of uploads to any tables, with
  failures and dropped handlers. `AloneInv` says of an upload that is alone that
  its object holds only its own file or nothing whole, that once its write is done
  it is that file or a torn one, and that its rows are not there before its one
  COPY has run and exactly once after it succeeded. `up_shared_object` shows why
  only those uploads can be promised it.

## 6. Schemas and staging tables

`src/cocoon/crates/schema/src` (`registry.rs`, `types.rs`, `validation.rs`, `dv.rs`),
with `POST /table` and the decode step of `POST /upload` in
`src/cocoon/apps/tako/src/routes`.

### Model

`SchemaTypes` is the pure part: the columns a schema file resolves to for each
table type, the columns of the table made for it, what `reorder`, `validate` and
`enrich` make of a frame, and compatibility of versions. A column is a name and a
type; rows are not modelled. A file is accepted if `Reorder` and `validate` pass it
(`Accepted`), and is then enriched and reordered for the table (`Prepare`); `Only` is
the order-keeping filter all of them share. `StagingAssumption` says that columns are
lists and that a data frame names no column twice, which polars guarantees.

`SchemaRegistry` has one action for what a thread does under one lock, or between
two.

| code | actions |
|---|---|
| `register_version` | `Register`, `Check` (the previous version), `CheckParent`, then `insert` |
| `insert` | `WriteCurrent` (under `schemas`), `WriteVersion` (under `versions`) |
| `get_or_load`, `load_from_file` | `GetOrLoad`, `Get`, then `insert` and `Get` again |
| the process replaced, with other files on disk | `Restart` |

`Staging` puts tako's two requests on it: `AskTable` and `CreateTable`, `AskUpload`,
`PrepareFile` and `Copy`, each with its own look-up. One staging table is enough,
since tables share nothing. tako never calls `register_version`; `Submit` stands for
another user of the crate, so that versions do change while a server is up.

`VersionStore` is the abstract registry: one atomic write makes a schema current and
records it under its version. `Coming` are the schemas of threads between the two
locks; the mapping counts them as recorded. Two threads may be there with different
schemas of one version of a key: nothing in the code prevents it. The steps into and
out of such a clash (`NoClash`) are the only ones `ImplementsStore` leaves out.

### Runs

| run | instance | checks |
|---|---|---|
| `reg_staging` | 2 threads, a keyed table of which two submissions claim version 2, a hub and its satellite, four frames, restarts | `TypeOK`, `CurrentIsRecorded`, `FilesFitTheirTable`, `JudgedByColumns`, `ImplementsStore` |

The submissions are the columns turned round and a schema that drops a column, which is
refused once the file's version is recorded and clashes with the other while it is not;
the frames come in another order, with a column more, with one of the wrong type, and
with a hub's and a satellite's metadata already in them. Two threads are enough for one
to be between the locks of `insert` while the other registers, loads or reads.

`CurrentIsRecorded` is what a clash leaves standing: the version that is served is in the
history, though maybe with another schema. No property says that the latest version is
the one served: a slow lazy load may put an older one in its place (section 9), and
`Put` of the abstract store allows it.

### Proofs

The pure part first, for any schema and frame (`SchemaTypesProofs`):

* `PreparedFits`: a file that is accepted and prepared for a schema has the columns of
  the table of that schema, in order; where the schema allows extra columns and
  has no business key, the table's columns and then the others.
* `AcceptedForItsColumns`: acceptance depends on which columns a file has, not on their
  order: the declared ones with their types, the key, and no name that would be
  twice in the table.

Then the registry and its users, for any threads, keys and files (`StagingProofs`):

* `TypeCorrect`: what the registry holds, and what a thread is about to write, was
  claimed by a file or a submission for that very key, and each version is recorded
  once. `TypeInv` and `ShapeInv` carry it.
* `RegistryIsAtomic`: `ImplementsStore`, with no assumption on versions. `WriteCurrent`
  is the store's write and `WriteVersion` a stutter, for every step that has no clash
  before it or after it; a clash is precisely what would let the second write take the
  first one's place. `AtomicWithoutClash` says of whole behaviours that those without a
  clash are behaviours of `VersionStore`.
* `CurrentAlwaysRecorded`: `CurrentIsRecorded`, clashes included. The first write of an
  insert makes its version current and coming, the second moves it from coming to
  recorded, and replaces only a record of the same version.
* `FilesFit`: `FilesFitTheirTable`, and `FilesJudged`: `JudgedByColumns`, from the two
  theorems above and `DataInv`: a file at hand was prepared from its frame with the
  schema its task keeps, a table made with the schema it names.

## 7. Atlantis

`src/atlantis/core/src`: `game.rs`, `turn.rs`, `combat.rs`, `round.rs`, `board.rs`,
`hex.rs`, `movement.rs`, with the structs they work on.

### Model

The engine is one struct with `&mut self` methods that call one another, so a game is
a record and each method of `AtlantisRules` an operator from games to games. In
`Atlantis` every kind of `Action` is one action: its guard is what makes
`legal_actions` offer it, its effect the arm of `apply` with everything it sets
off, up to the minion battle, the level-ups and the next round.

| code | actions |
|---|---|
| play | `PlayCard`, `Pass`, `ChooseActor` |
| act | `Respawn`, `Move`, `FastTravel`, `AttackMinion`, `AttackHero`, `Hold` |
| defence | `Defend` |
| level-up | `Upgrade` |

An `expect`, an `unwrap` or an underflow that fails is the phase `Panic`, which no
action leaves. The board and the cards are constants; parsing the bundled ones is
not modelled. What the proofs use of them is assumed by name, and TLC evaluates it on the
instance: `CatalogAssumption` is the shape the test
`every_deck_has_the_standard_shape` in `card.rs` asserts of every deck, together with
one ultimate each; `BoardAssumption` is what `Board::parse` and `Game::new` refuse a
board without (a lane of distinct zones from throne to throne with a middle), and what
is printed on it (spawn points on spaces of their own, minions of both teams in every
zone that can be fought over); `SeatAssumption` is `SetupError::TooManyHeroes`,
`RoomAssumption` that a zone has room for its minions beside the heroes that own a card
to move with, and `LengthAssumption` that a game starts with counters.

Where the code goes through spaces in the order of its `BTreeMap`, the model ranks them:
`Nth` is the space with so many before it, from which the heroes' seats (`StartingHex`)
and the order of respawning (`Respawned`) are read. `Reachable` and `Respawned` are
recursive functions over a number of steps. `Init` respawns the minions too: at the start
no spawn point is taken, so each comes to its own, as `spawn_battle_zone_minions` puts it.

The queue
of level-ups is a count per player (`owed`): it is empty when a round ends and is
filled and served in seat order, so the counts say all there is to it. The minion
battle and the levels bought are given in closed form: who falls is who is among the
first of its side, the level is the highest the coins pay for. A skill does what `Hold` does, because the engine does not apply card
text. Coins are a `u8` that wraps in the release build; heroes at the last
level go on earning them, and would wrap after some 250 rounds, which no run reaches.

`LaneWar` is the abstract match: the battle moves one zone per push, a push costs a
wave, lives are only lost, the game ends once. The engine implements it
(`PlaysLaneWar`) by reading the lane, the counters and the winner off the game.

### Run

| run | instance | checks |
|---|---|---|
| `at_game` | 3 heroes, a lane of five zones, 3 rounds of 2 turns, 3 waves, 3 lives, 3 levels | `TypeOK`, `NeverStuck`, `CardsAccounted`, `LevelsPaidOut`, `TurnOrder`, `LaneHeld`, `HeavyFallsLast`, `PlaysLaneWar`, `RoundsEnd` |

Five zones are the least with a zone between the middle and either throne; three
heroes give both a tie within a team and one across teams; three rounds let a hero
buy every level, and a wave run out. `RoundsEnd` is a variant
(`StepsLeft`): every action brings the end of its round nearer, so rounds end
without any fairness. `HeavyFallsLast` leaves out the action that pushes the lane twice
and back to the zone it left: the minions there are new ones.

### Proofs

For any board, catalogue and number of players, the turns and the cards first
(`AtlantisProofs`):

* `GameHoldsTogether`: `GameInv`, which says that the fields a turn depends on are well
  made and no card strays to another hero (`WellMade`), that a match not over has
  counters left and its battle at neither throne (`Alive`), that those who act are the
  first of those left (`Ordered`), and that the phase asks somebody who can answer
  (`Asked`).
* `PlayersActInOrder`: `TurnOrder`. Nobody acts while another unresolved player has the
  higher initiative, and the coin is due to flip exactly while one acts who was tied
  across the teams. `Ordered` is kept because initiatives change only in a
  level-up, by an item, and then no card is on the table.
* `EnginePlaysLaneWar`: `PlaysLaneWar`, for every step of the engine. One action may push
  twice: an attack fells the last minion, and the battle at the end of the round the
  other wave. Each push is one of the match (`PushIsPush`), nothing else moves the lane.
* `BooksBalance`: `BookInv` adds to `GameInv` one ledger per hero (`Booked`): hand, played,
  resolved and discarded cards are apart, together they are the basic cards and one
  card of each colour; cards in the deck, owned, used as items or unlocked are all
  there are; the levels gained are paid out in items, in upgrades still owed and in
  the ultimate; coins fit a byte; no `expect` has failed.
* `CardsStayAccounted` (`CardsAccounted`), `LevelsArePaid` (`LevelsPaidOut`) and
  `SomebodyCanAnswer` (`NeverStuck`) follow. The last needs that a hero who is owed an upgrade
  has one to take: if all its cards were in the last tier it would have every item
  the deck can give, which is as many as there are levels to owe (`AllItems`,
  `AnUpgradeWaits`). This is where the shape of the decks enters.

Then the units on the board and the length of a round (`AtlantisLaneProofs`):

* `UnitsInPlace`: `UnitsInv` adds to `GameInv` where everything stands (`Placed`): each
  hero off the board or on a space of its own, a hero that has no card to move with at
  home, each minion on a space of the battle zone that nobody else is on; and that both
  sides have minions there (`Manned`). The clause on heroes at home is what makes it
  inductive: only the others can stand in the way of a respawn, which is what
  `RoomAssumption` counts.
* `LaneStaysHeld` (`LaneHeld`) follows. Its lemmas are about the operators: whatever is
  reachable is a free space (`ReachableIsFree`, by induction over the steps of the
  search), and a respawn puts one minion for every spawn point on free spaces of the zone,
  all different (`RespawnFills`, by induction over the spawn points: there is a space
  left at each because `Nth` takes them one by one and the zone has room for all). The
  induction theorems of the library take a formula as a parameter, which the provers cannot
  give them; `ReachesAll` is induction on a set of numbers, from its least non-member,
  and `StepsDefine` shows with it that a function defined by steps over `0..n` exists, so
  that its recursive definition may be unfolded.
* `HeavyMinionsFallLast` (`HeavyFallsLast`): each part of an action, the attack and the
  battle that may follow it at the end of the round, leaves a culled side (`Culled`), and
  two culls in a row make one; `Fought` keeps track of the pushes between them.
* `RoundsComeToAnEnd` (`RoundsEnd`), for any number of players, turns and levels. The
  bound is taken apart (`StepsAre`): what is due once the cards are on the table (`Due`),
  what those who have not decided can add (`Plays`), what the current card has spent
  (`Spent`). `Nears` says that a state is within so many actions of the round's end, with
  one lemma for each stage of the turn machine (`RoundNears`, `NextActorNears`,
  `FinishNears`) and for each group of actions. Levels bought at the end of a round add no
  actions (`LevelsBought`), because a level not yet paid was counted from the start, and a
  hero is owed an upgrade only for levels it has (`OwedFits`, from the ledger).
* `TypesHold` (`TypeOK`): from the three invariants above, with the waves, which only fall
  (`WavesFall`).

## 8. Plan room

`src/rose/archive/common-rs-pattern/weekly_backend_test/src/routes/allocation_plan`:
`ws.rs`, `save.rs`, and `PlanRoom` in the state.

### Model

An edit is a number, so that no two are equal. `live`, `lastSave` and `viewers` are
the room's fields; `inbox` is what the broadcast channel holds for a receiver,
`history` the snapshots in the warehouse, and `told` and `heard` what a client has
been sent.

| code | actions |
|---|---|
| `handle_socket` | `Connect`, `SendSnapshot`, `Subscribe`, `Relay`, `EndOutbound`, `HangUp` |
| `cleanup` | `Cleanup` |
| `handle_client_message` | `ReceiveEdit`, `WriteEdit`, `BroadcastEdit` |
| `save_plan` | `BeginSave`, `InsertRows` (per statement), `ClearEdits`, `FinishSave`, `AbandonSave` |
| the process dies | `Restart` |

When one task of a socket ends the other is aborted where it next waits: an edit that
waits for the map's lock is dropped, one whose task is running may get the lock and be
written and broadcast after the cleanup, and one in the map is always broadcast, because
no await lies between. Such a task may also read a further message before it stops: that
one is not modelled, nor is a new socket's first edit overtaking what the old one left.
The client is not in the repository; it is taken to send the rows it
shows, its own edits on top of what it was sent. `FollowersAgree` speaks of what a
client is sent, since the filter on its own edits is the client's. Caps and the
refusal of an empty plan come before any change of state and are left out.
`None` is none of the records it stands beside (`NoneAssumption`).

### Runs

| run | instance | checks |
|---|---|---|
| `room_follow` | 2 users, 1 cell, a channel of 1, saves of 2 statements, 2 edits, 2 saves, restarts | `TypeOK`, `ViewersCounted`, `EditsAnnounced`, `FollowersAgree`, `HistoryChains` |
| `room_graduate` | the same | `EditsGraduate` **violated** |

Two edits cross between the map and the channel; a channel of one event makes
receivers lag; two saves overlap, read the same parent and overtake each other, and
two statements let one stop half-way. `FollowersAgree` needs that the two users'
edits of a cell are broadcast in some one order, which a single channel gives even
when that is not the order the map was written in: then all agree with one another,
and not with the map.

### Proofs

For any users and cells, any capacity of the channel and any number of statements per
save (`PlanRoomProofs`), from `RoomInv`, one part per property:

* `TypeCorrect`, with the sockets' states tied to what they have received (`SocketInv`).
* `ViewersAddUp` (`ViewersCounted`): the count is kept by the first step of a socket
  and its cleanup alone, whichever task ends first.
* `NoEditUnannounced` (`EditsAnnounced`): an edit in the map that was not broadcast
  belongs to a task with only that left to do, and no other task's end takes it.
* `ChainIsWhole` (`HistoryChains`): a save under way has a snapshot of its own, whole
  exactly when its statements are done, and only such an id becomes the last save. No
  save is assumed to finish: they may overlap, fail half-way, be cut by a restart.
  `WholeIsFinal` adds that a whole snapshot never changes.
* `FollowersSeeTheSame` (`FollowersAgree`): the property speaks of clients that have
  drained the channel, and `FollowInv` of clients anywhere in it: what each will have been
  told of a cell (`WillBeTold`, from the last event about it that is waiting, or what
  it has heard) is the same for all who will have been told anything.

## 9. Disagreements between code and documents

Each of these is a run that TLC finds violated, and a finding in `PROJECT.json`.

1. `cb_reset_race`: a success that clears the counter around a trip leaves an
   `OPEN` breaker with a counter below its threshold; the failed probe then does
   not reopen it.
2. `hc_failed_sweep`: windows are merged newest first, so the watermark passes
   windows not yet done; if a later call fails, no refresh scans them again.
3. `up_shared_object`: two uploads to one table may append one file twice and the
   other never, both answered 200.
4. `room_graduate`: a save clears every live edit, also one that reached the map
   while its rows were being stored and is in no snapshot.

Others were met while modelling and have no run of their own:

* A probe whose handler is dropped or panics (`state.rs:311`) leaves the breaker
  `HALF_OPEN` for good: nothing but the probe's own record leaves that state
  (`ProbeDropped`, one of the two ways of `ProbeLostInTwoWays`).
* `record_success` stores `CLOSED` from any state, so a call admitted before the
  trip closes an `OPEN` breaker when it succeeds late; the diagram at
  `circuit_breaker.rs:16` has no such edge. By the same token `CompareExchange`
  looks at the state and not at the stamp the cooldown was judged by.
* `merge_window` reads the rows after `probe_count` counted them. Rows that show in
  between may take the window over the ceiling, and the oldest are cut off with neither a
  bisection nor a warning, although `cache/mod.rs:199` says that none "silently
  truncates". The model has the step (`cut`), and `SweepCoverage` and `NothingOutOfReach`
  except exactly the rows it cut off.
* A lazy load that missed before a registration inserts the file's older schema over the
  registered one (`registry.rs:103`), which is served from then on, although
  `registry.rs:18` says that the latest version always is. Nothing in the repository
  registers while it serves, today.
* Two inserts of one key and version may take the two locks in different orders
  (`registry.rs:56`): the schema that is served is then not the one in the history. That
  is the clash `ImplementsStore` leaves out (`NoClash`); `CurrentIsRecorded` holds in it.
* A handler that is dropped gives its permit back while its tasks run on, so more
  uploads can be in memory than `limits.rs:12` says the permits allow.
* With a visibility lag longer than the overlap, rows that appear late are behind
  the watermark; the hour of overlap is the code's answer to a lag of minutes.
* A dropped handler's local write may land on the object of a later upload to the
  same table, even with a single permit.
* A table is made with the schema of one request and loaded with that of another; if
  the file changed between, columns of one type may land under the wrong names.
* `ws.rs:108` subscribes "so we don't miss any events", but after the snapshot was
  sent: an edit in between is in neither. `ws.rs:17` says that an edit of another
  column closes the socket; the code ignores it.
* `pool.rs:70` documents a default of 10 connections, the code uses 3.

## 10. What is not shown

* Liveness (`Recovers`, `RequestsEnd`, `SweepTerminates`, `EventuallyCached`,
  `HandlersEnd`) is model-checked on the instances above, not proved: liveness
  under fairness is beyond the prover used.
* Every invariant and every action property that a passing run checks is also stated by a
  theorem, for every value of the constants. Three statements say under what they hold, as
  conditions on what happens and not on the instance: `ProbeLostInTwoWays` (the two steps
  by which a probe is lost do not happen), `AtomicWithoutClash` (no two inserts clash) and
  `NothingLeftBehind` (the overlap covers the source's lag; the code's is an hour).
* All refinements are proved: `AloneLoadsOnce`, `ServiceIsBreaker`, `PlaysLaneWar`, and
  `ImplementsStore`.
* Parsing, validation of values, hashing and encoding of files, SQL text, card text,
  metrics and logs are abstracted to their outcomes.
* A wall clock set backwards is not modelled in `CircuitBreaker` or `QueryService`.
* Snowflake, S3, r2d2, the warehouse and the clients of the plan room are modelled by
  how the code uses them.
* Not modelled: the components marked so in `PROJECT.json`, each with its reason.
  Most keep no state between requests or are numerical, rendering or experiments;
  the six with control worth a module are in the plan below. The repository's
  lines are mostly of the former kind, so the lines the models stand for are a small
  share of it.

## 11. Plan

A theorem first, since the model below it stands:

1. `Atlantis`: that `Reachable` finds every space within the steps, and not only free ones.

Then modules, in order: `DurablePipeline` (journal, crash and replay, promise,
tracker: effects happen once, a run that ends has told its tracker), `RateLimiter`
(at most the limit in one window, twice that in any interval of its length),
`Supervision`, `DagRunner`, `DigestLanes`, `Frontier`.

Runs stay at one per question and the whole set quick enough to repeat on every
change, so a new component replaces or merges runs where a theorem now says more:
the breaker's safety moved into `svc_requests` that way.

## 12. Running the checks

    tlc -workers 2 -config svc_requests.cfg MCQueryService
    tlapm QueryServiceProofs.tla

`PROJECT.json` names the module and the configuration of each run, the mutant
that shows each property can fail, and the theorems with the property each
establishes. The longest runs, `svc_requests`, `hc_sweep`, `reg_staging` and
`room_follow`, take two to three minutes with two workers.
