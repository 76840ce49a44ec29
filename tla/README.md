# A TLA+ model of the weather service

The program is an HTTP service in Go. `GET /api/v1/weather?lat=..&lon=..`
returns today's forecast of the National Weather Service (NWS) for a place in
the United States. In front of the API stand a rate limiter, a cache and a
circuit breaker; behind it, requests are logged in PostgreSQL. Three replicas
run in Kubernetes and may share one Redis.

Each module here models one part at the grain at which its goroutines, its
replicas, Redis and PostgreSQL can interleave; one module puts the parts of a
request together as the program does. TLC checks them on small instances, and
TLAPS proves the safety properties of every one of them for all instances.

## 1. The system

    request -> tracing, metrics -> rate limiting -> handler -> weather service
                                      |                          |  |  |
                              memory or Redis             cache  |  |  request log
                               rate limiter        (memory/Redis)|  |  (PostgreSQL)
                                                                 |
                                                  circuit breaker -> NWS client

| component | state it keeps | operations | who calls it |
|---|---|---|---|
| in-memory rate limiter, `middleware/memory_rate_limiter.go` | map of clients under `rl.mu`, a slice of timestamps per client under its own mutex | `Allow`, `Reset`, `cleanup` every 5 minutes | rate limiting middleware; a goroutine of its own |
| Redis rate limiter, `ratelimit/redis_ratelimit.go` | a sorted set per client, shared by all replicas | `Allow` (a Lua script), `Reset` | rate limiting middleware |
| rate limiting middleware, `middleware/ratelimit.go`, `utils.go` | none | identifies the client, answers 429, or serves; serves too when the limiter fails | router |
| weather handler, `rest/weather_handler.go` | none | parses the query, maps errors to statuses | router |
| weather service, `services/weather_service.go` | none of its own | `GetWeather`: validate, look up, fetch, store, log | handler |
| caches, `cache/memory_cache.go`, `redis_cache.go` | entries with a TTL | `Get`, `Set`, `Delete`, `Clear` | weather service |
| circuit breaker, `circuitbreaker/breaker.go`, `app/weather_client.go` | gobreaker's state, generation, counts, expiry | `Execute`, `State` | weather service |
| NWS client, `nws/client.go` | none | two HTTP requests: the grid point, then its forecast | circuit breaker |
| request log, `database/postgres.go`, `002_create_procedures.sql` | `weather_requests`, audit log | `sp_log_weather_request` and queries | weather service |
| migrations, `database/migrations.go`, `cmd/migrate` | `schema_migrations` (version, dirty), an advisory lock per session | `RunMigrations`, `MigrateDown`, `MigrateToVersion` | start of every replica; an operator |
| configuration, `config/config.go` | none, read once | `Load` | start of a replica |
| lifecycle, `app/app.go`, `cmd/server` | which of Redis, memory, database is in use | start with fallbacks, graceful stop | operating system |
| observability, `observability/telemetry.go`, `middleware/observability.go` | exporter of spans, counters | `NewTelemetry`, `RecordRequest`, spans of the middleware, `Shutdown` | start, router, stop |

Nothing in one request orders it against another. What makes the parts hard:

* **time read before a lock.** `Allow` reads the clock and then waits for two
  locks; a replica reads its own clock and then sends a script. Decisions are
  made in another order than the timestamps they are made with.
* **pointers that outlive their map entry.** `Allow` holds a `*clientInfo` over
  a release of `rl.mu`; the cleanup may delete the entry in between.
* **results that come late.** An operation returns after the breaker it was
  admitted by has tripped, rolled over, recovered.
* **reads that write.** Asking gobreaker for its state moves it to half-open.
* **shared identity.** A cached report keeps the id and the coordinates of the
  request that fetched it, and is logged, and answered, under them.
* **partial failure.** Cache, database and Redis may fail after the work is
  done; a script may have run although its reply is lost.
* **start and stop.** Fallbacks are decided once; migrations run in every
  replica, beside those of operators; the database is closed, and the telemetry
  shut down, while handlers may still run.
* **check, then lock.** `RunMigrations` reads version and dirty flag with no lock
  and acts on them later, under a lock it gives up between two of its steps.

What must be true of each part is said by the properties of section 3, and
every hazard is listed at its line in `PROJECT.json`.

## 2. The modules and the code

### MemoryRateLimiter, SlidingWindow, and their proofs

One element of `Calls` is one call of `Allow`. Its program counter `pc` stops
where the code holds no lock: `Arrive` is line 55-63 (the clock),
`Lookup` the section under `RLock`, `Create` the second lookup under `Lock`,
`Grant` and `Deny` the section under the client's mutex. A critical section is
one step because everything it reads is protected by its lock; `cleanup`, which
holds `rl.mu` over several clients, is three actions, and `writer` records that
it holds the lock in between. A `clientInfo` is named by the call that allocated
it, so an object deleted from the map goes on existing for the call that still
points to it. A slice of timestamps is the set of the calls that appended them.
`make` panics for a negative limit, and `rl.mu` then stays locked: `Create`
says so.

`SlidingWindow` is what `ports.RateLimitService` promises: no lock, no map, no
history but the verdicts. A request is granted only while the window that ends
now has room, denied only when the window before it is full, and decided in the
end. Through the mapping `stamp <- now, verdict <- Verdict` every step of
`MemoryRateLimiter` is one of `SlidingWindow` or none, until the cleanup ticker first
fires (`swept`) and until a `Reset`, which the promise does not know (`EarlyPromise`);
that every call is decided is `EveryCallReturns`. After a sweep it need not be so: see
`mem_orphan`, and `OnlyOrphansBreakPromise` for when. The Redis limiter is the other
implementation of the port, and keeps the promise only where `WhatBreaksPromise` says.
What the promise is worth by itself is proved in `SlidingWindowProofs`, and
`PipelineProofs` uses it.

### CircuitBreaker, CircuitBreakerProofs

One element of `Calls` is one call of `CircuitBreakerWrapper.Execute`. gobreaker
(v0.5.0, not in the repository) locks its mutex for each of the `State()` that
`Execute` calls for spans and log lines, for admission and for the result:
`Enter`, `Reject`/`Admit`, `Finish`, `Warn`, `Return`. Each begins with
`Current`, gobreaker's `currentState`, which rolls a closed breaker's counts over
and turns an expired open one half-open. The trip rule (`ReadyToTrip`) and the
settings are the repository's, the rest is marked external in the map.

### WeatherService, WeatherServiceProofs

One element of `Calls` is one call of `GetWeather`, with its steps and the way
each can fail. `backend` is the cache the start settled on (`initRedisServices`):
only Redis fails, and loses entries (`Evict`). A report is named by the call that
fetched it: its `uuid`. Coordinates are in thousandths of a degree, and the key
rounds to hundredths as `%.2f` does, sign of zero included. `NaN`, which
`ParseFloat` accepts and `Validate` lets through, is a coordinate of its own: it
compares false with every bound, is printed, and cannot be written as JSON
(`Encodable`). `rows` is the table `weather_requests`, keyed by the report's id,
`Upsert` is the stored procedure's insert with its `unique_violation` branch, and
`Counted` the rows that `fn_get_request_stats` counts. A log entry is a transaction
that begins (`Call`, which fixes its `CURRENT_TIMESTAMP`), and later writes (`Log`) or
is rolled back (`LogAbort`): of two that overlap on one report's row, the one that began
first may write last and turn the row's time back. `written` and `refused` are histories.

### RedisRateLimiter, RedisRateLimiterProofs

The requests of one client in replicas whose clocks differ from Redis' by
`skew`. `Send` reads the replica's clock in whole seconds, `Evaluate` is the Lua
script (Redis runs one at a time), `Answer` and `Lose` are the reply and its
loss, with go-redis sending the script again up to `MaxRetries` times; then the
middleware serves the request (`unlimited`). `Reset` deletes the key with scripts
on their way. The sorted set has the second as score and as member, so it is a
set of seconds. The key expires at some point of the second `EXPIRE` names.
`RedisRateLimiterProofs` maps the limiter to `SlidingWindow`: a grant counts from the
script on, a denial from the return of `Allow`.

### WeatherApi, Pipeline, PipelineProofs

`Pipeline` is one request from the client to the NWS and back, with the parts put
together as `app.go` does for the default configuration without Redis: the
in-memory cache, and no database. It instantiates `SlidingWindow` for the
limiter (the promise, which `MemoryRateLimiter` keeps until its first sweep),
`WeatherService` and `CircuitBreaker`, all over the same requests and one clock;
a step of the pipeline is a step of one of them, or of two where one calls the
other and returns (`Return` is the return of `Execute` and of the service's
fetch). The rest is modelled here: `GetClientIP` (`ClientIP`: the first of
X-Forwarded-For, X-Real-IP and the peer that parses as an address), the
middleware's three verdicts, the handler's parsing and its mapping of outcomes
to statuses (`Refuse`, `Respond`, `Body`), and the client's two HTTP requests
(`exchange`), either of which may fail. A request whose client is gone has a
cancelled context: the limiter returns an error, it is let through, and its
fetch fails.

`WeatherApi` is what the route promises and knows no limiter, cache or breaker:
200 with a report that was fetched for the same place, 400 for what is no place,
429 without having asked the NWS, 503 only if it has failed, once each. That a
report of NaN is a 200 with no body is part of it, because the code does so.
`Pipeline` implements it (`ImplementsApi`): a report is fetched when the breaker
has the result `ok`, and failed when it has `error`.

### Migrations, MigrationsProofs

One element of `Runners` is one replica that starts, or one run of `cmd/migrate`
(whose "force" is `MigrateToVersion`); `job` says what it does. golang-migrate
and PostgreSQL are external: the row with its dirty flag, and the advisory lock
of a session, which ends with it. What a runner does inside the lock is cut
where a crash leaves something different behind: `StepUp` or `StepDown`
(SetVersion dirty), `Body` (the file, in one transaction), `Clean`, `Unlock`.
`ReadVersion` and `Verify` read the row with no lock. A replica that waits too
long for the lock gives up and leaves its session open (`GiveUp`), which may be
granted the lock afterwards (`Leak`). `Found` is the set of files whose name
golang-migrate takes for a migration: both, if they were called
`001_create_tables.up.sql`; none, as they are.

### AppLifecycle, AppLifecycleProofs

One replica. `enabled` is what `config.Load` makes of the environment, in which
anything that is no boolean is the default. `phase` is the main goroutine:
`initTelemetry`, `initRedisServices` (two pings, of two clients), `initDatabase`,
the start of the listening goroutine, the registration for signals, and `Stop`
with its five parts. `listener` is the goroutine of `ListenAndServe`, which the
signal may overtake. Between the receipt of the signal (`Signal`) and the call of
`Shutdown` connections are still accepted.

A request is followed only as far as the stop touches it: its connection accepted
(`Accept`), the request read (`Read`), handled, panicked over a nil cache, logging its
report, counted and its span ended (`Observe`), or cut off by the exit. While `Shutdown`
drains, it closes connections that are idle (`HangUp`), and a connection that was there
before may still have its request read and served. net/http looks at the state of a
connection, which is "active" only once its request has been read: a request read in
that very moment runs over a connection that has been taken for idle, and `Shutdown`
waits for it no longer (`Sever`, remembered in `severed`). That a new connection counts
as idle only after five seconds is left out, as its age is not kept; it may be hung up
at any time. `TraceIDRatioBased(0.1)` decides where a span starts whether it is
exported: any subset of the requests is `sampled`. `elapsed` is the time `Shutdown` has
been waiting, the only time that matters. Every way to end is an `Exit`: a signal that
comes before `signal.Notify` (`Killed`), any error of `ListenAndServe` but the one that
`Shutdown` causes, at the start or under load (`ListenError`, then `ListenFatal`:
`logger.Fatal` without `Stop`), or the end of `main` (`Return`). `SkipDatabase` stands
for a database that is disabled, does not answer, or whose migrations fail, as
`migrations_unnamed` shows they do at every start.

## 3. What the runs show

Passing runs:

* `mem_limiter` - three calls for one client, limit 1, window 1, clock 0..1, with
  sweeps for ever and resets. `WindowLimit`: a client record never grants more than the
  limit in the window that ends now. `DenialsJustified`: a call is denied only
  against a full window of other grants on its record. `HistoriesKept`: no step
  removes or replaces a record that holds a current timestamp. `EveryCallReturns`: the
  locks are released and no order of them deadlocks. Up to the first sweep,
  `EarlyLimit`: the client as a whole gets no more than the limit; and until a reset
  too, `EarlyPromise`: every step is one of `SlidingWindow`. Three calls are a grant, a
  denial and a straggler that read the clock a window ago, and two of them race for the
  record of their client; what holds beyond these bounds is proved.
* `breaker` - six calls, two probes, three ticks: three calls trip it, two probe,
  one is late or turned away. `CountsExact`: the counts are those of the present
  generation whatever returns late. `HalfOpenAdmission`: at most `MaxRequests`
  probes pass. `HalfOpenNeverStuck`: a half-open breaker out of probes waits for
  one of them. `StateChangesJustified`, `CooldownRespected`: the right
  transitions, and none before the time-out, however often the state is read.
  `TripsWhenDue`: a closed breaker never has `TripAt` failures that are half of its
  requests.
* `service` - three requests; six points, two in one cell, one in the next cell
  each way, one off the globe and one nowhere (NaN); TTL 1 and clock 0..2, so that
  an entry expires and is stored again; either cache. `AnswersMatchLocation`,
  `HitsAreFresh`, `RefetchOnlyAfterExpiry` (in memory, a store keeps everybody off
  the API for its TTL, whatever slower requests store over it), `RowsTruthful`.
  `FailsOnlyWithUpstream`: the requests that fail are those whose fetch did, no error of
  the cache or the database among them, and they leave nothing behind.
  `StatsMissOnlyOverlaps`: the statistics of a period count no report that no request
  began to log in it, and miss one only where an older transaction of the same report
  was open all the while and turned the row's time back. That reports are counted, and
  not requests, is what the code does and not what the feature asks (see below).
* `redis_limiter` - three requests, limit 1, window 2 seconds, clocks from one
  second behind to one ahead, one retry each, resets. `SecondsLimit`: what is bounded
  is the number of seconds in which anything was granted, in a window that is shorter
  by as much as a replica's clock is ahead.
  `RejectionsJustified`: nobody is rejected but against a full window, at any
  skew. The limit is below the window: at or above it the limiter never rejects.
* `lifecycle` - two requests, a grace period of two ticks, every environment.
  `CutOnlyLate`: a handler is cut off only by a `Shutdown` that has waited its full
  time, by a signal in the moment before the registration, by `logger.Fatal` when the
  listener breaks, or where `Shutdown` has taken its connection for idle.
  `LogsReachDatabase`: the database is closed after the handlers, save after that time
  and for those connections. `RequestsObserved`: every answer is counted, and every
  sampled span handed to the exporter, with the same exceptions, panics included.
  `NoneAcceptedLate`: no connection is accepted once `Shutdown` is called, and no
  request taken up after a `Shutdown` that has not waited its full time.
  `StopTerminates`: the process ends although a handler never returns and a client never
  sends its request. The grace period has to be long enough for a request to end within
  it, at it and never, and two ticks are.
* `migrations` - three runners: replicas alone, or beside operators who migrate up,
  to version 1, or roll back, twice in one load; both files found.
  `RecordNeverAhead`: a row that is not dirty never claims a migration that was
  neither run nor interrupted, however stale the version a start forces.
  `LiveRunKeepsRecord`: nobody writes the row under a live migration.
  `SuccessMeansSchema`: a run up that has migrated has found every migration run,
  save those that were interrupted. `StartsCreateSchema`: starts that nothing disturbs
  succeed and leave the whole schema. `RunsHeadForTarget`: while a run
  is inside the lock, between two migrations too, the version moves only towards where
  the run is going, so that no stale force sets it back or makes it skip one.
  `EveryRunEnds`: no run waits for ever, unless a replica has given up and its
  session been granted the lock late. Three runners are one that crashes, one that
  acts on what it saw, and one that changes the row in between.
* `pipeline` - three requests of one client through two proxies, in any mixture of
  a place, a missing and an out-of-range coordinate, or one NaN among bad queries;
  every limit, TTL and time-out 1, clock 0..2. `ImplementsApi`: the composition is an
  implementation of `WeatherApi`. `ClientsLimited`: one client is one client,
  whichever proxy and header it comes by. `OutageSparesCached`: who came after a
  report of its place was stored and before it expired is not answered 503, be the
  breaker open. `RefusalsEnd`: the breaker turns nobody away but within its
  time-out or while another request is out to decide. `NoRequestStuck`: a request
  can go on whatever the others do. Three requests are one that stores or trips,
  one that probes and one that is turned away or served from the cache. `TypeOK`
  says where a request may be in one component while it is in another.

Runs that end in a counterexample, each a claim of the repository that the code
does not keep (quoted in `PROJECT.json`, "findings"):

* `mem_orphan` - a sweep deletes the empty record of a client between its
  creation and its first grant; the grant lands on an object no other call can
  find, and the client is granted more than its limit.
* `mem_leak` - two calls of one client. It is granted a request and does not come back:
  all its timestamps are out of the window, the sweeps go on for ever, and its record
  stays in the map.
* `lifecycle_nil_cache` - Redis answers the first ping and not the second: its
  error is dropped, the cache is nil, and every lookup panics until the replica
  is restarted, while `/health` says OK.
* `redis_seconds` - all requests of one second are one member of the sorted set:
  all are granted. With the defaults (100 requests in 60 seconds) the Redis
  limiter rejects nothing.
* `migrations_unnamed` - with the files named as they are golang-migrate finds
  none, `Up` fails, and every start gives up the database it has connected to.

**Other behaviour worth knowing**, seen while modelling and not a run of its own.

* Limits: a call that read the clock early and got the mutex late is granted with
  its old timestamp, so the limit holds for the window that ends *now* and not for
  every window of the past; a done context makes `Allow` return an error, against
  its comment, and the middleware then serves the request.
* Breaker: 404 answers and cancelled requests count as failures and open it,
  against features/circuit_breaker.feature:72-75; it may stay closed with more than
  half of its answers failures, as requests in flight count in the ratio and the
  rule is tried at failures only. The rule itself, three requests of which half have
  failed (breaker.go:66-72), is not that of features/circuit_breaker.feature: that wants
  five failures in a row (8-10, 22-28), a success to reset their count (79-84), and a
  breaker that stays closed over fail, succeed, fail, succeed, fail (86-90), which trips
  this one. `TripsWhenDue` and `StateChangesJustified` state the rule of the code.
* Statuses: however the weather API has failed the answer is 503, as `ImplementsApi` says.
  features/weather_api.feature:89-93 wants a 404 of it passed on, 101-105 a 502 for
  what is no JSON, and features/security.feature:164-168 a 504 for one that is slow.
* Service: simultaneous misses all fetch, against features/caching.feature:86-91; a hit
  is logged over the row of the request that fetched the report, so that
  `total_requests` counts reports (`StatsMissOnlyOverlaps`) and not requests, against
  features/database_operations.feature:69-83; NaN is answered 200 with an empty body,
  where weather_handler.go:69 lists 400 for an invalid coordinate (`ServeNothing` is in
  `WeatherApi` because the code does it); the code takes 85 degrees for moderate,
  features/weather_api.feature:35 for hot.
* Migrations: "force" of `cmd/migrate` calls `MigrateToVersion`, which refuses a dirty
  row, although Makefile:104 says "Force set migration version" and
  cmd/migrate/main.go:17 and 106 speak of a version that is forced. So nothing in the
  repository clears the flag of an interrupted rollback to no version: a start sees
  ErrNilVersion, passes over it and the flag with it, and then meets ErrDirty, at every
  attempt (theorem `FlagIsLost`). And there are no down files, so that a rollback
  changes the row only; a migration that was interrupted is skipped by the next start,
  which forces its version.
* Observability: the router has no `/metrics`, though README.md:105 names it;
  nothing calls `RecordDBQuery`, `RecordCacheHit` or `RecordCacheMiss`; a request
  that panics is traced and not counted. A tenth of the traces is exported, those of
  failed requests no more than others, where features/observability.feature:112-116 wants
  all error traces (`RequestsObserved` speaks of the sampled ones).
* Stop: a listener that breaks under load ends the process without `Stop` (app.go:122-126),
  and with it every handler.

**Bounds.** `MaxTime` stops the clocks, and each call runs once; both only cut
behaviours off. `CHECK_DEADLOCK FALSE` everywhere, for when all calls are over
and the clock has stopped nothing is left to do. Symmetry permutes calls, in
some of the runs without liveness; no expression distinguishes one call from
another. What holds beyond the bounds is what section 4 proves.

**Fairness.** In `MemoryRateLimiter`, a goroutine that can run does. A call
waiting for `rl.mu` gets it in the end although others take it again and again:
`sync.Mutex` hands over to a waiter after a millisecond, and a released
`RWMutex` lets waiting readers in; this is strong fairness of `Lookup`, `Create`
and `SweepLock`. The sweep goes on once it has the lock. No fairness for
`Arrive`, `Tick` or `Reset`: nobody has to call, and nothing depends on time
passing. In `AppLifecycle`, the main goroutine runs while it can and the deadline
of `Shutdown` is a timer, so `Tick`, `Drain`, `CloseDatabase`, `Flush` and
`Return` are fair; the handlers are not. In `Migrations`, a process that can go on
does, and PostgreSQL grants an advisory lock in the order in which it was asked
for, hence the strong fairness of `Run`; nobody has to crash or run out of time.
The other modules state no liveness: the pipeline says instead, as a safety
property, that no request is ever stuck (`NoRequestStuck`) and what must be true
of a refusal (`RefusalsEnd`), for the NWS owes nobody an answer.

## 4. What is proved

Every theorem holds for every value of the constants that the assumptions of its
module allow (sets of calls that are finite, numbers that are numbers, names that
differ). Every invariant and action property of a passing run is stated by one,
`NoRequestStuck` excepted; the name of the property is in brackets.

| module | theorems |
|---|---|
| `MemoryRateLimiterProofs` | `TypeCorrect`, `LimitHolds` (`WindowLimit`), `DenialsHold` (`DenialsJustified`), `HistoriesStay` (`HistoriesKept`), `GrantedRecordsStayForGood`; `IdentifierLimitEarly` (`EarlyLimit`), `EarlyRefinement` (`EarlyPromise`); as long as no call reaches an orphan, `OnlyOrphansExceed` and, without resets, `OnlyOrphansBreakPromise` (every step is one of `SlidingWindow` or none); `LockIsReleased` if the limit is not negative, `NegativeLimitBlocks` if it is |
| `CircuitBreakerProofs` | `TypeCorrect`, `CountsHold` (`CountsExact`), `TripsHold` (`TripsWhenDue`), `ProbesLimited` (`HalfOpenAdmission`), `ProbesDecide` (`HalfOpenNeverStuck`), `Cooldown` (`CooldownRespected`), `ChangesJustified` (`StateChangesJustified`) |
| `WeatherServiceProofs` | `TypeCorrect`, `AnswersMatch` (`AnswersMatchLocation`), `FailsWithUpstream` (`FailsOnlyWithUpstream`), `RowsHold` (`RowsTruthful`), `StatsMissOverlaps` (`StatsMissOnlyOverlaps`), `HitsFresh` (`HitsAreFresh`), `RefetchAfterExpiry` (`RefetchOnlyAfterExpiry`) |
| `RedisRateLimiterProofs` | `TypeCorrect`, `SecondsHold` (`SecondsLimit`), `RejectionsHold` (`RejectionsJustified`), `SpacedLimited`, `DenialsAreLate`; `WhatBreaksPromise`: without resets, where clocks agree, no two granted requests share a second and every request is answered as its script decided first, every step is one of `SlidingWindow` or none |
| `SlidingWindowProofs` | of finitely many requests, `PromiseLimits` and `AlwaysDecidable`; `VerdictsStand` |
| `MigrationsProofs` | `TypeCorrect`, `RecordHolds` (`RecordNeverAhead`), `SuccessIsSchema` (`SuccessMeansSchema`), `LiveRunIsSafe` (`LiveRunKeepsRecord`), `RowHeadsOneWay` (`RunsHeadForTarget`), `FlagIsLost`, `LeakBlocksAll`, `HolderGoesOn`; with finitely many files, `RunsAreShort`; if every file is found and there is one, `StartsSucceed` (`StartsCreateSchema`); if none is found, `NoFileNoStart` |
| `AppLifecycleProofs` | `TypeCorrect`, `CutsAreLate` (`CutOnlyLate`), `LogsAreSafe` (`LogsReachDatabase`), `RequestsAreObserved` (`RequestsObserved`), `AcceptsInTime` (`NoneAcceptedLate`), `PanicsNeedRedis`, `NilCacheStays`, `NothingHoldsStop` |
| `PipelineProofs` | `ComponentsKept`, `TypeCorrect`, `KeepsPromise` (`ImplementsApi`), `AnswersStand`, `RefusalsHaveEnd` (`RefusalsEnd`), `CachedPlacesSpared` (`OutageSparesCached`), `AddressesLimited`, `NoneWaitsForAnother`, `AlwaysAMove`, `EveryStepCounts`; if each client is named by one address, `ClientsAreLimited` (`ClientsLimited`) |

Some theorems bound what the five counterexamples of section 3 mean:

* `OnlyOrphansExceed`: a client exceeds its limit *only* when a call reaches the mutex
  of a record that a sweep has taken out of the map (`mem_orphan`). The hypothesis
  `[]NoOrphanHeld` is that this does not happen, not that nothing is swept. Nor does
  the promise of the limiter break in any other way (`OnlyOrphansBreakPromise`).
* `GrantedRecordsStayForGood`: no sweep ever removes a record that was granted a request
  since its last reset, for any limit, window and number of clients: what `mem_leak` shows
  of one client is so of every client that was ever served.
* `SpacedLimited`: the Redis limiter keeps its limit where clocks agree and no two
  granted requests share a second, so `redis_seconds` has no other cause. And
  `DenialsAreLate` says how far the limiter is from working: a script is denied only if
  Redis runs it at least `Limit - Window` seconds after its replica read the clock, 40
  with the defaults.
* `WhatBreaksPromise`: and nothing else stands between that limiter and the promise of
  its port but a reply that was lost, where the script sent again denies what it had
  granted or the retries run out, and `Reset`. Each hypothesis is needed: left out of the
  theorem, TLC finds a counterexample with two or three requests.
* `PanicsNeedRedis`, `NilCacheStays`: a nil cache needs Redis enabled, answering the
  limiter's ping and failing the cache's (`lifecycle_nil_cache`); nothing but a restart
  ends it, and no request gets a report until then.
* `LeakBlocksAll`: the session a start leaves behind when it gives up (postgres.go:76),
  once it has the lock, stops every migration until its process dies.
* `NoFileNoStart`: with no file found, *no* run up ever succeeds (`migrations_unnamed`).
  `StartsSucceed` is its opposite: with all files found, every undisturbed start does.

And some are what can be proved of progress, where the liveness itself is TLC's: that
nobody has to wait for somebody who need not come, and that every step counts.

* Pipeline: `Turn(r)` spells out the guards of the steps of `Handle(r)`, and
  `NoneWaitsForAnother` shows that one of them holds for every request that waits for
  its answer. `AlwaysAMove` shows as much of the steps themselves: `Move(r)` writes down
  a state to go to next, one value for each variable and no condition, so that it can be
  taken in any state; and wherever r waits, it is a step of `Handle(r)`. Only the word
  ENABLED is missing to `NoRequestStuck`. `EveryStepCounts` gives the request a rank of
  at most fourteen that each step of its own lowers and none of the others raises.
* Shutdown: `NothingHoldsStop`, with the time left and the steps of `Stop` as the rank.
* Memory limiter: `LockIsReleased`: `rl.mu` is held from one step to the next only by a
  cleanup, whose work only shrinks. `NegativeLimitBlocks` is why the assumption is
  there: with a negative `RATE_LIMIT_RPS` the first call panics in `make` with the lock
  held, and nobody gets past it again.
* Migrations: `HolderGoesOn`: whoever holds the advisory lock, a session given up
  apart, has a next step, which asks nothing of anybody else; that there *is* a next
  version to go to is `Least` and `Greatest`, from the well-foundedness of finite
  subsets. `RowHeadsOneWay`: and the steps never lead away from the target. And
  `RunsAreShort`: a run has at most three steps a file and six more, whatever others
  force, roll back or leave behind; its rank counts the files `Left` before it.

Hardly any of these properties is inductive. What `IInv` adds in each module, and why:

* **Memory limiter.** `WindowLimit` speaks of the grants, the code counts what a record
  holds. `StampsPast`: no timestamp is in the future, so the cutoff of a call is never
  after the one of the window that ends now, and a straggler prunes *less* than it
  should, never more. `Remembered`: hence every grant still in the window is recorded.
  `HistoryBounded`: and what is recorded is at most the limit. `Recorded` is the
  converse of `Remembered`, for the denials: the pruned timestamps of a record must be
  those of grants. `Kept`, beside it: a record once granted is never empty. For an
  identifier, two facts that a grant on an orphan breaks and nothing else does, neither
  a sweep, which takes out empty records only, nor a reset, which empties a record where
  it is: `InMap`, that every timestamp lies on the record the map has for its client,
  and `Owned`, that this record was created for it. Then limits per record are limits
  per client, and the grants `SlidingWindow` counts are what the record holds. `Early`
  carries all of it to the first sweep, before which there is no orphan. `LockHeld`: a
  call that holds `rl.mu` between two steps has panicked.
* **Breaker.** `Exact`: the counts are the sizes of three sets of calls, those of
  the present generation (`Cohort`) that were admitted, succeeded, failed; a late
  result is of an older generation and changes neither. `Decided`: an open breaker
  has counted nothing, a half-open one no failure and not all its successes, so
  that once it is full one of its probes is still out; and that a closed one is not due
  to trip, which `TripsHold` turns back into sets of calls. `Cooled`: an open breaker's
  expiry is its last trip and `Timeout`, and any other's is past. Every step begins
  with `Current`, so the lemmas show that an operator on the breaker record keeps
  `Sound`, and the actions compose them.
* **Service.** `CacheTrue`: an entry was stored under its own key by the call it
  names, at the time it says. `AnswersServe`: the report of another request came
  out of the cache. `MemoryKeeps`: what is cached in memory is at least as young as
  every store for its key. `RowsByLast`: a row is as its last writer left it,
  with the time at which that writer's transaction began, and `LogsKept`: whatever was
  logged has left one. `OwnReports`: a call that has fetched nothing has no report that
  anybody answers with.
  `HundredthsNear` is the arithmetic: who rounds alike is a hundredth apart.
* **Redis limiter.** `HoldsWindow`: for every `s` that no replica's clock is further
  ahead (`Ahead`), the key holds every granted second of the window that ends now,
  shortened by `s`, and expires a window after the last of them. For the promise,
  `Replied`: a reply on its way is 1 only for a granted request, and 0 only where the
  window before the request is full and, without a reset, stays so.
* **The promise.** `LimitKept` is inductive beside the types, which say that no request
  is made in the future. `Decidable`: the window before a request reaches further back
  than the one that ends now, so that one of the two always allows a decision.
* **Migrations.** `Claimed`: of what the row, or a version seen and about to be
  forced, claims, all below it was run or interrupted, and itself too unless its
  runner is live. `Flagged`: the flag is up between the two `SetVersion` of a
  runner. For the starts `Calm`: a flag has a live runner, so that whoever gets
  the lock finds none, and nobody takes a version away. `StopsAtEnd`: a run up lets go of
  the lock only where there is no next file, so that `Claimed` of the row it leaves is
  the whole schema. `Aimed`: what the lock was given for, a target among the files or a
  version to leave, holds until the run has used it.
* **Lifecycle.** `ListensWhileUp`: the listener listens only between `Start` and
  `Shutdown`, the moment after the signal included. `StopsInOrder`: `Stop` goes past
  `Shutdown` with connections open or handlers in flight only at the full time, but for
  those it has taken for idle. `NilByRedis`: a
  cache that is nil is so by `ConnectCache`, beside a Redis limiter.
* **Pipeline.** `ServiceSteps`, `BreakerSteps` and `LimiterSteps` show that each step
  of the pipeline is a step of the component or leaves it alone; so it has
  their specifications (`ComponentsKept`), and their invariants are cited rather
  than proved again. What is new is `InStep`, where a request may be in one
  component while it is in another, and `CausedByFailure`, that the breaker is
  closed until a fetch has failed, which is why a 503 is never the program's own
  doing. `MissedInTime` carries what a request has missed in the cache to its
  answer. The limit per address is that of the promise (`LimiterKept`). `AnswersMean` is
  an invariant of `WeatherApi`, proved of its steps alone, and the pipeline has it by
  refinement.

Only model-checked: liveness (`EveryCallReturns`, `StopTerminates`, `EveryRunEnds`)
and `NoRequestStuck`, which is stated with
ENABLED; both are out of the prover's reach. What is proved in their place is safety:
`LockIsReleased`, `NothingHoldsStop`, `HolderGoesOn`, `RunsAreShort`, `AlwaysDecidable`,
`NoneWaitsForAnother` and `AlwaysAMove` say that a step is there to be taken and leads on,
not that it is taken. That `Turn` and `HasStep` are the guards of their actions is read
off the modules; only for the pipeline `AlwaysAMove` says it to the provers.

## 5. What is not modelled

* Contents: a report is an identity; temperatures and their categories, wording,
  JSON and response headers are left out. The MD5 sum of a cache key is taken to
  keep keys apart.
* The pipeline with Redis or with a database: the Redis limiter and the log are
  checked in modules of their own, and the composition is that of the default
  configuration. The memory limiter is in it as its promise, so up to its first
  sweep.
* `MemoryCache`'s purge of expired entries: an expired entry is a missing one.
* The audit log, which nothing writes, and the other aggregates of the statistics;
  `circuitbreaker.Manager`, which holds one breaker.
* Observability beyond what is counted, sampled and exported: attributes, log
  lines, `LoggingMiddleware`, which nothing uses. Of the configuration, its
  numbers are the CONSTANTS of the modules; the version is a string.
* Deployment, scripts and features are no code of the program; what they claim is
  quoted where the code differs.

## 6. Where to go on

Modules were written in the order of the hazards: first what is most concurrent
(the memory limiter and its promise, the breaker), then what requests share (the
service, the Redis limiter), then what they live in (the lifecycle, the
migrations), then their composition, and for each its proofs. Left to do:

1. **Pipeline over several replicas**: the Redis limiter and cache shared by two
   replicas, each with a breaker of its own; an entry one has stored spares the other.
2. **Pipeline with a stop**: the handlers of `AppLifecycle` refined to those of
   `Pipeline`, so that what is cut off is known step by step.
3. **A limiter that sweeps, as a promise**: what `MemoryRateLimiter` keeps after
   its first sweep, which is `WindowLimit` per record, as an abstract specification.
4. **Contents**: the temperature categories and the wording of a forecast as
   functions against reference definitions.
