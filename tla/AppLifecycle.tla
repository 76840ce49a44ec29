----------------------------- MODULE AppLifecycle -----------------------------
(***************************************************************************)
(* One replica from its start to its exit: cmd/server/main.go over         *)
(* internal/app/app.go.                                                    *)
(*                                                                         *)
(* The main goroutine settles on a cache, a rate limiter and a database,   *)
(* starts the goroutine that listens, waits for a signal and stops.  The   *)
(* handlers run beside it, and what it settled on at the start is what     *)
(* they use to the end.  When the process exits, it does so under them.    *)
(***************************************************************************)
EXTENDS Integers

CONSTANTS
    Requests,  \* requests for the weather; each is made at most once
    Grace      \* how long Shutdown waits for the handlers (app.go:137)

ASSUME GraceAssumption == Grace \in Nat

VARIABLES
    enabled,   \* the back ends the configuration enables
    phase,     \* where the main goroutine is
    telemetry, \* the OpenTelemetry providers: "none", "on" or "flushed"
    listener,  \* where the goroutine of ListenAndServe is
    cache,     \* the cache the service was built over
    limiter,   \* the rate limiter the middleware was built over
    db,        \* the connection pool: "none", "open" or "closed"
    request,   \* where each request is, and before it the connection it comes over
    sampled,   \* the requests whose trace the sampler has picked
    counts,    \* the requests http_requests_total has counted
    spans,     \* the sampled requests whose span has ended in time for the exporter
    unlogged,  \* history: the requests whose log entry met a closed pool
    severed,   \* history: the requests whose connection Shutdown took for idle
    elapsed,   \* the time Shutdown has been waiting
    ended      \* how the process ended, "running" until it has

vars == <<enabled, phase, telemetry, listener, cache, limiter, db, request,
          sampled, counts, spans, unlogged, severed, elapsed, ended>>

\* What is the same but for the main goroutine, and but for the handlers.
settled == <<enabled, telemetry, listener, cache, limiter, db>>
observed == <<sampled, counts, spans, unlogged, severed>>

\* getEnvAsBool: what is not set, or is no boolean, is the default.
AsBool(value, default) ==
    IF value \in {"true", "false"} THEN value = "true" ELSE default

\* Load: Redis unless it is switched off, a database if it is switched on.
Enabled(env) == {b \in {"redis", "database"} : AsBool(env[b], b = "redis")}

Init ==
    /\ \E env \in [{"redis", "database"} -> {"unset", "junk", "true", "false"}] :
           enabled = Enabled(env)
    /\ phase = "telemetry"
    /\ telemetry = "none"
    /\ listener = "none"
    /\ cache = "none"
    /\ limiter = "none"
    /\ db = "none"
    /\ request = [r \in Requests |-> "new"]
    /\ sampled = {}
    /\ counts = {}
    /\ spans = {}
    /\ unlogged = {}
    /\ severed = {}
    /\ elapsed = 0
    /\ ended = "running"

\* The handlers that are still at work.
InFlight == {r \in Requests : request[r] \in {"handling", "logging", "handled"}}

\* The connections that are open and whose request has not been read.
Accepted == {r \in Requests : request[r] = "accepted"}

\* The process is gone, and with it connections and handlers: clients get nothing.
Exit(how) ==
    /\ phase' = "exited"
    /\ listener' = "closed"
    /\ ended' = how
    /\ request' = [r \in Requests |-> CASE r \in InFlight -> "cut"
                                        [] r \in Accepted -> "dropped"
                                        [] OTHER -> request[r]]

-----------------------------------------------------------------------------
\* initTelemetry: all the providers and instruments, or none; Start goes on.
InitTelemetry ==
    /\ phase = "telemetry"
    /\ telemetry' \in {"none", "on"}
    /\ phase' = "redis"
    /\ UNCHANGED <<enabled, listener, cache, limiter, db, request, observed, elapsed, ended>>

\* initRedisServices: Redis is disabled or does not answer the first ping ...
FallBack ==
    /\ phase = "redis"
    /\ cache' = "memory"
    /\ limiter' = "memory"
    /\ phase' = "database"
    /\ UNCHANGED <<enabled, telemetry, listener, db, request, observed, elapsed, ended>>

\* ... or it does, and goes on to the second client, of the cache.
PingRedis ==
    /\ phase = "redis"
    /\ "redis" \in enabled
    /\ phase' = "cache"
    /\ UNCHANGED <<settled, request, observed, elapsed, ended>>

\* NewRedisCache pings again.  Its error is dropped: the cache may be nil.
ConnectCache ==
    /\ phase = "cache"
    /\ cache' \in {"redis", "nil"}
    /\ limiter' = "redis"
    /\ phase' = "database"
    /\ UNCHANGED <<enabled, telemetry, listener, db, request, observed, elapsed, ended>>

\* initDatabase: disabled, unreachable, or not migrated; Start goes on without.
SkipDatabase ==
    /\ phase = "database"
    /\ phase' = "listen"
    /\ UNCHANGED <<settled, request, observed, elapsed, ended>>

OpenDatabase ==
    /\ phase = "database"
    /\ "database" \in enabled
    /\ db' = "open"
    /\ phase' = "listen"
    /\ UNCHANGED <<enabled, telemetry, listener, cache, limiter, request, observed, elapsed, ended>>

\* Start spawns the goroutine that listens, and returns.
Start ==
    /\ phase = "listen"
    /\ listener' = "starting"
    /\ phase' = "started"
    /\ UNCHANGED <<enabled, telemetry, cache, limiter, db, request, observed, elapsed, ended>>

\* WaitForShutdown registers for the signals.
Register ==
    /\ phase = "started"
    /\ phase' = "waiting"
    /\ UNCHANGED <<settled, request, observed, elapsed, ended>>

-----------------------------------------------------------------------------
\* Slip: a server that has been shut down listens all the same.
ListenLate ==
    /\ listener = "starting"
    /\ ended = "running"
    /\ listener' = "listening"
    /\ UNCHANGED <<enabled, phase, telemetry, cache, limiter, db, request, observed, elapsed, ended>>

\* ListenAndServe, in a goroutine of its own, which the signal may overtake:
\* a server that has been shut down returns ErrServerClosed at once.
Listen ==
    /\ listener = "starting"
    /\ ended = "running"
    /\ listener' = IF phase \in {"started", "waiting", "stopping"} THEN "listening" ELSE "closed"
    /\ UNCHANGED <<enabled, phase, telemetry, cache, limiter, db, request, observed, elapsed, ended>>

\* It returns another error: the port is taken (tried, perhaps, just before the
\* server is shut down), or the listener breaks under the requests.
ListenError ==
    /\ listener \in {"starting", "listening"}
    /\ ended = "running"
    /\ listener' = "failed"
    /\ UNCHANGED <<enabled, phase, telemetry, cache, limiter, db, request, observed, elapsed, ended>>

\* That is logger.Fatal: the process exits, without Stop, under its handlers.
ListenFatal ==
    /\ listener = "failed"
    /\ Exit("fatal")
    /\ UNCHANGED <<enabled, telemetry, cache, limiter, db, observed, elapsed>>

-----------------------------------------------------------------------------
\* A connection is accepted; its request may take its time.
Accept(r) ==
    /\ request[r] = "new"
    /\ listener = "listening"
    /\ request' = [request EXCEPT ![r] = "accepted"]
    /\ UNCHANGED <<settled, phase, observed, elapsed, ended>>

\* TraceIDRatioBased: a tenth of the traces is sampled, those of errors like others.
Sample(r) ==
    sampled' \in {sampled} \cup (IF telemetry = "none" THEN {} ELSE {sampled \cup {r}})

\* The request is read, its span started, and it reaches its handler.
TakeUp(r) ==
    /\ request[r] = "accepted"
    /\ request' = [request EXCEPT ![r] = "handling"]
    /\ Sample(r)
    /\ UNCHANGED <<settled, phase, counts, spans, unlogged, elapsed, ended>>

\* The connection was open before: whether the listener still is does not matter.
Read(r) == TakeUp(r) /\ UNCHANGED severed

\* Shutdown closes a connection that is idle, or has been open for five seconds
\* without a request.  Its age is not kept here.
HangUp(r) ==
    /\ phase = "draining"
    /\ request[r] = "accepted"
    /\ request' = [request EXCEPT ![r] = "dropped"]
    /\ UNCHANGED <<settled, phase, observed, elapsed, ended>>

\* It does so in the moment between the request's being read and the connection's
\* being marked active: the handler runs, and Shutdown does not wait for it.
Sever(r) ==
    /\ phase = "draining"
    /\ TakeUp(r)
    /\ severed' = severed \cup {r}

\* It is answered without the database: 400, 429, 503, or no database to log to.
Answer(r) ==
    /\ request[r] = "handling"
    /\ request' = [request EXCEPT ![r] = "handled"]
    /\ UNCHANGED <<settled, phase, observed, elapsed, ended>>

\* The span of a request ends: if it is sampled it is handed to the exporter,
\* unless the provider is shut down.
SpanEnds(r) ==
    spans' = IF telemetry = "on" /\ r \in sampled THEN spans \cup {r} ELSE spans

\* Slip: the span is ended where the handler has returned, and not deferred.
PanicUntraced(r) ==
    /\ request[r] = "handling"
    /\ cache = "nil"
    /\ request' = [request EXCEPT ![r] = "panicked"]
    /\ UNCHANGED <<settled, phase, observed, elapsed, ended>>

\* It looks for the report in a cache that is nil.  net/http recovers the panic,
\* which ends the span on its way and passes RecordRequest by.
Panic(r) ==
    /\ request[r] = "handling"
    /\ cache = "nil"
    /\ request' = [request EXCEPT ![r] = "panicked"]
    /\ SpanEnds(r)
    /\ UNCHANGED <<settled, phase, sampled, counts, unlogged, severed, elapsed, ended>>

\* Slip: the adapter is built whether there is a database or not.
ReportUnchecked(r) ==
    /\ request[r] = "handling"
    /\ cache # "nil"
    /\ request' = [request EXCEPT ![r] = "logging"]
    /\ UNCHANGED <<settled, phase, observed, elapsed, ended>>

\* It has its report, and a database to log it to ...
Report(r) ==
    /\ request[r] = "handling"
    /\ cache # "nil"
    /\ db # "none"
    /\ request' = [request EXCEPT ![r] = "logging"]
    /\ UNCHANGED <<settled, phase, observed, elapsed, ended>>

\* ... which may be closed by now: the entry is lost and the report returned.
Log(r) ==
    /\ request[r] = "logging"
    /\ request' = [request EXCEPT ![r] = "handled"]
    /\ unlogged' = IF db = "closed" THEN unlogged \cup {r} ELSE unlogged
    /\ UNCHANGED <<settled, phase, sampled, counts, spans, severed, elapsed, ended>>

\* The middlewares that are there if the telemetry was at the start: the
\* request is counted and its span ended.  Then net/http is done with it.
Observe(r) ==
    /\ request[r] = "handled"
    /\ request' = [request EXCEPT ![r] = "answered"]
    /\ counts' = IF telemetry = "none" THEN counts ELSE counts \cup {r}
    /\ SpanEnds(r)
    /\ UNCHANGED <<settled, phase, sampled, unlogged, severed, elapsed, ended>>

Handle(r) ==
    \/ Accept(r) \/ Read(r) \/ HangUp(r) \/ Sever(r)
    \/ Answer(r) \/ Panic(r) \/ Report(r) \/ Log(r) \/ Observe(r)

-----------------------------------------------------------------------------
\* A signal before WaitForShutdown has registered for it kills the process.
Killed ==
    /\ phase \in {"telemetry", "redis", "cache", "database", "listen", "started"}
    /\ Exit("killed")
    /\ UNCHANGED <<enabled, telemetry, cache, limiter, db, observed, elapsed>>

\* The first one after that is received, and Stop called.  Signals that follow
\* stay in the channel.
Signal ==
    /\ phase = "waiting"
    /\ phase' = "stopping"
    /\ UNCHANGED <<settled, request, observed, elapsed, ended>>

\* Slip: the database is closed first.
ShutdownClosing ==
    /\ phase = "stopping"
    /\ phase' = "draining"
    /\ listener' = IF listener = "listening" THEN "closed" ELSE listener
    /\ db' = IF db = "open" THEN "closed" ELSE db
    /\ UNCHANGED <<enabled, telemetry, cache, limiter, request, observed, elapsed, ended>>

\* Stop calls Shutdown, which closes the listener and waits until all that it
\* has accepted is known.
Shutdown ==
    /\ phase = "stopping"
    /\ phase' = "draining"
    /\ listener' = IF listener = "listening" THEN "closed" ELSE listener
    /\ UNCHANGED <<enabled, telemetry, cache, limiter, db, request, observed, elapsed, ended>>

Tick ==
    /\ phase = "draining"
    /\ elapsed < Grace
    /\ elapsed' = elapsed + 1
    /\ UNCHANGED <<settled, phase, request, observed, ended>>

\* The requests whose connections Shutdown waits for.
Held == Accepted \cup (InFlight \ severed)

\* Slip: Shutdown with a context that has no deadline.
DrainForEver == Held = {}

\* Slip: Shutdown with a context that is done already.
DrainNever == TRUE

\* Shutdown returns when no connection is left or its context is done.
Drained == Held = {} \/ elapsed = Grace

Drain ==
    /\ phase = "draining"
    /\ Drained
    /\ phase' = "closing"
    /\ UNCHANGED <<settled, request, observed, elapsed, ended>>

CloseDatabase ==
    /\ phase = "closing"
    /\ db' = IF db = "open" THEN "closed" ELSE db
    /\ phase' = "flushing"
    /\ UNCHANGED <<enabled, telemetry, listener, cache, limiter, request, observed, elapsed, ended>>

\* Telemetry.Shutdown: what ends after it is not exported.
Flush ==
    /\ phase = "flushing"
    /\ telemetry' = IF telemetry = "on" THEN "flushed" ELSE telemetry
    /\ phase' = "returning"
    /\ UNCHANGED <<enabled, listener, cache, limiter, db, request, observed, elapsed, ended>>

\* Stop has returned, and main returns.
Return ==
    /\ phase = "returning"
    /\ Exit("stopped")
    /\ UNCHANGED <<enabled, telemetry, cache, limiter, db, observed, elapsed>>

Stop == Signal \/ Shutdown \/ Tick \/ Drain \/ CloseDatabase \/ Flush \/ Return

Next ==
    \/ InitTelemetry
    \/ FallBack \/ PingRedis \/ ConnectCache \/ SkipDatabase \/ OpenDatabase
    \/ Start \/ Register
    \/ Listen \/ ListenError \/ ListenFatal
    \/ \E r \in Requests : Handle(r)
    \/ Killed \/ Stop

Spec == Init /\ [][Next]_vars

\* The main goroutine runs while it can, and time passes for Shutdown, whose
\* deadline is a timer.  No handler has to come to an end.
Fairness ==
    /\ WF_vars(Shutdown) /\ WF_vars(Tick) /\ WF_vars(Drain)
    /\ WF_vars(CloseDatabase) /\ WF_vars(Flush) /\ WF_vars(Return)

FairSpec == Spec /\ Fairness

-----------------------------------------------------------------------------
Phases == {"telemetry", "redis", "cache", "database", "listen", "started", "waiting",
           "stopping", "draining", "closing", "flushing", "returning", "exited"}
Fates == {"new", "accepted", "handling", "logging", "handled", "answered", "panicked",
          "cut", "dropped"}

\* Every variable has its type; the process listens only when it has settled
\* on a cache and a limiter, and logs only through a pool.
TypeOK ==
    /\ enabled \subseteq {"redis", "database"}
    /\ phase \in Phases
    /\ telemetry \in {"none", "on", "flushed"}
    /\ listener \in {"none", "starting", "listening", "failed", "closed"}
    /\ cache \in {"none", "memory", "redis", "nil"}
    /\ limiter \in {"none", "memory", "redis"}
    /\ db \in {"none", "open", "closed"}
    /\ request \in [Requests -> Fates]
    /\ sampled \subseteq Requests /\ counts \subseteq Requests /\ spans \subseteq Requests
    /\ unlogged \subseteq Requests /\ severed \subseteq Requests
    /\ elapsed \in 0 .. Grace
    /\ ended \in {"running", "killed", "fatal", "stopped"}
    /\ listener \in {"starting", "listening"} => cache # "none" /\ limiter # "none"
    /\ \A r \in Requests : request[r] = "logging" => db # "none"

\* A handler is cut off only by a Shutdown that has waited its full time, by a
\* signal in the moment between the start of the listener and the registration
\* for signals (main.go:24-30), or by logger.Fatal on an error of ListenAndServe,
\* which a running replica may meet too (app.go:122-126).  A Stop that ends before
\* its time cuts off none but those whose connection Shutdown took for idle.
CutOnlyLate ==
    \A r \in Requests : request[r] = "cut" =>
        \/ ended \in {"killed", "fatal"}
        \/ ended = "stopped" /\ (elapsed = Grace \/ r \in severed)

\* No log entry is lost to a closed database before Shutdown has waited its
\* full time (app.go:137-149: the database is closed after the handlers), but
\* for those whose connection Shutdown took for idle.
LogsReachDatabase == elapsed < Grace => unlogged \subseteq severed

\* With telemetry, every answer is counted, and every sampled span, that of a
\* request that panicked too, handed to the exporter before it is shut down;
\* only what outlasted a full Shutdown, or was taken for idle by it, may have
\* ended its span after that (app.go:137-158, observability.go:63,102-114).
RequestsObserved ==
    telemetry # "none" => \A r \in Requests :
        /\ request[r] = "answered" => r \in counts
        /\ request[r] \in {"answered", "panicked"} /\ r \in sampled =>
               r \in spans \/ r \in severed \/ elapsed = Grace

\* Once Shutdown is called no connection is accepted, even if the goroutine of
\* ListenAndServe gets to run only then; and no request is taken up once
\* Shutdown has returned, unless it has waited its full time.
NoneAcceptedLate ==
    [][\A r \in Requests :
          /\ request[r] = "new" /\ request'[r] # "new" =>
                 phase \in {"started", "waiting", "stopping"}
          /\ request[r] = "accepted" /\ request'[r] = "handling" =>
                 phase \in {"started", "waiting", "stopping", "draining"} \/ elapsed = Grace]_vars

\* A replica that is told to stop stops, though a handler never return and a
\* client never send its request.
StopTerminates == phase = "stopping" ~> phase = "exited"

-----------------------------------------------------------------------------
\* "Given Redis is unavailable ... I should receive a 200 status code / And
\* the system should fall back to memory cache" (features/caching.feature:64-68).
NoRequestPanics == \A r \in Requests : request[r] # "panicked"
=============================================================================
