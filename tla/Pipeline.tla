------------------------------- MODULE Pipeline -------------------------------
(***************************************************************************)
(* GET /api/v1/weather from the client to the weather API and back, as     *)
(* internal/app/app.go puts the components together (lines 82-117):        *)
(*                                                                         *)
(*   rate limiting middleware -> handler -> service over its cache         *)
(*     -> circuit breaker -> client of the weather API                     *)
(*                                                                         *)
(* The limiter is the promise that MemoryRateLimiter keeps, the service    *)
(* and the breaker are the modules of their own; one clock runs for all.   *)
(* The replica has the default configuration without Redis: its cache is   *)
(* in memory, and there is no database to log to.                          *)
(* Every step of a request is a step of the component it is in; the        *)
(* handler and the client of the weather API are modelled here.            *)
(***************************************************************************)
EXTENDS Integers, Sequences, FiniteSets

CONSTANTS
    Requests,     \* the requests; each is made at most once
    Asks,         \* what a request may be: [client, from, form, point]
    Scenarios,    \* what the requests may be together
    Addresses,    \* what net.ParseIP accepts
    Limit, Window,                                \* of the rate limiter
    TTL,                                          \* of the cache
    MaxRequests, Interval, Timeout, TripAt,       \* of the breaker
    MaxTime,      \* bound: the clock stops here
    NaN, None

ASSUME AsksAssumption ==
    \A a \in Asks : /\ DOMAIN a = {"client", "from", "form", "point"}
                    /\ DOMAIN a.from = {"forwarded", "realIP", "remote"}
                    /\ a.form \in {"missing", "malformed", "given"}
ASSUME ScenariosAssumption == IsFiniteSet(Requests) /\ Scenarios \subseteq [Requests -> Asks]
ASSUME PlacesAssumption ==
    /\ NaN \notin Int /\ NaN \notin BOOLEAN \X Nat
    /\ {a.point : a \in Asks} \subseteq [lat : Int \cup {NaN}, lon : Int \cup {NaN}]
ASSUME SettingsAssumption ==
    /\ Limit \in Nat \ {0} /\ Window \in Nat \ {0} /\ TTL \in Nat \ {0}
    /\ MaxRequests \in Nat \ {0} /\ Interval \in Nat \ {0} /\ Timeout \in Nat \ {0}
    /\ TripAt \in Nat /\ MaxTime \in Nat

VARIABLES
    clock,     \* the time
    request,   \* what each request is: its client, headers and query
    status,    \* its HTTP status: "asked" until it is answered
    stamp, verdict,                                        \* of the limiter
    backend, pc, answer, cache, stored,                    \* of the service,
    began, written, refused, rows,                         \* with its log
    breaker, stage, gen, outcome, trippedAt,               \* of the breaker
    exchange   \* the HTTP request each call has out to the weather API

limiterVars == <<stamp, verdict>>
serviceVars == <<backend, pc, answer, cache, stored, began, written, refused, rows>>
breakerVars == <<breaker, stage, gen, outcome, trippedAt>>
vars == <<clock, request, status, limiterVars, serviceVars, breakerVars, exchange>>

\* Slip: the hop nearest to the service.
LastHop(from) ==
    IF from.forwarded # <<>> /\ from.forwarded[Len(from.forwarded)] \in Addresses
    THEN from.forwarded[Len(from.forwarded)]
    ELSE IF from.realIP \in Addresses THEN from.realIP ELSE from.remote

\* GetClientIP: the first of X-Forwarded-For, X-Real-IP and the peer that is
\* an address.
ClientIP(from) ==
    IF from.forwarded # <<>> /\ Head(from.forwarded) \in Addresses
    THEN Head(from.forwarded)
    ELSE IF from.realIP \in Addresses THEN from.realIP ELSE from.remote

Limiter == INSTANCE SlidingWindow WITH
    Calls <- Requests,
    Identifiers <- {ClientIP(a.from) : a \in Asks},
    ident <- [r \in Requests |-> ClientIP(request[r].from)]

Service == INSTANCE WeatherService WITH
    Calls <- Requests,
    Points <- {a.point : a \in Asks},
    Backends <- {"memory"},
    LogFails <- TRUE,
    point <- [r \in Requests |-> request[r].point]

ASSUME NoneAssumption ==
    None \notin Requests /\ None \notin Service!Entries /\ None \notin Service!Records

Breaker == INSTANCE CircuitBreaker WITH
    Calls <- Requests,
    Outcomes <- {"ok", "error"},
    pc <- stage

Init ==
    /\ request \in Scenarios
    /\ status = [r \in Requests |-> "none"]
    /\ exchange = [r \in Requests |-> "none"]
    /\ Limiter!Init /\ Service!Init /\ Breaker!Init

Tick ==
    /\ clock < MaxTime
    /\ clock' = clock + 1
    /\ UNCHANGED <<request, status, limiterVars, serviceVars, breakerVars, exchange>>

-----------------------------------------------------------------------------
\* The middleware asks the limiter, which decides, or whose error lets the
\* request through: that of the in-memory limiter is a client that is gone.
Arrive(r) ==
    /\ UNCHANGED request
    /\ Limiter!Request(r)
    /\ status' = [status EXCEPT ![r] = "asked"]
    /\ UNCHANGED <<serviceVars, breakerVars, exchange>>

Grant(r) ==
    /\ UNCHANGED request
    /\ Limiter!Grant(r)
    /\ UNCHANGED <<status, serviceVars, breakerVars, exchange>>

Deny(r) ==
    /\ UNCHANGED request
    /\ Limiter!Deny(r)
    /\ status' = [status EXCEPT ![r] = "429"]
    /\ UNCHANGED <<serviceVars, breakerVars, exchange>>

\* Slip: 429 is written and the handler called all the same.
LetThroughAll(r) == verdict[r] \in {"allowed", "denied", "error"} /\ status[r] # "none"

LetThrough(r) == verdict[r] \in {"allowed", "error"} /\ status[r] = "asked"

\* The handler: a query that lacks a coordinate or has one that is no number ...
Refuse(r) ==
    /\ LetThrough(r)
    /\ request[r].form # "given"
    /\ status' = [status EXCEPT ![r] = "400"]
    /\ UNCHANGED <<clock, request, limiterVars, serviceVars, breakerVars, exchange>>

\* ... or one that goes to the service, as far as the end of the lookup.
Begin(r) ==
    /\ LetThrough(r)
    /\ request[r].form = "given"
    /\ UNCHANGED request
    /\ Service!Begin(r)
    /\ UNCHANGED <<status, limiterVars, breakerVars, exchange>>

\* Slip: the cache is not looked at.
LookupSkipped(r) ==
    /\ pc[r] = "lookup"
    /\ pc' = [pc EXCEPT ![r] = "fetch"]
    /\ UNCHANGED <<clock, request, status, limiterVars, backend, answer, cache, stored,
                   began, written, refused, rows, breakerVars, exchange>>

Lookup(r) ==
    /\ UNCHANGED request
    /\ Service!LookupHit(r) \/ Service!LookupMiss(r)
    /\ UNCHANGED <<status, limiterVars, breakerVars, exchange>>

-----------------------------------------------------------------------------
\* CircuitBreakerWeatherClient.GetForecast: the breaker refuses the call ...
Reject(r) ==
    /\ pc[r] = "fetch"
    /\ UNCHANGED request
    /\ Breaker!Enter(r) \/ Breaker!Reject(r)
    /\ UNCHANGED <<status, limiterVars, serviceVars, exchange>>

\* ... or lets it go to the weather API, first for the URL of the forecast.
Admit(r) ==
    /\ Breaker!Admit(r)
    /\ exchange' = [exchange EXCEPT ![r] = "points"]
    /\ UNCHANGED <<request, status, limiterVars, serviceVars>>

\* A client that is gone has had its context cancelled.
Gone(r) == verdict[r] = "error"

\* getForecastURL has it: the second request goes out.
GetForecastURL(r) ==
    /\ exchange[r] = "points"
    /\ ~Gone(r)
    /\ exchange' = [exchange EXCEPT ![r] = "forecast"]
    /\ UNCHANGED <<clock, request, status, limiterVars, serviceVars, breakerVars>>

\* fetchForecast has a forecast with a period: the call has its result.
FetchForecast(r) ==
    /\ exchange[r] = "forecast"
    /\ Breaker!Finish(r, "ok")
    /\ exchange' = [exchange EXCEPT ![r] = "none"]
    /\ UNCHANGED <<request, status, limiterVars, serviceVars>>

\* Either request fails: no connection, a timeout, a context that is done, a
\* status other than 200, what is no JSON, no URL or no period in it.
Fail(r) ==
    /\ exchange[r] # "none"
    /\ Breaker!Finish(r, "error")
    /\ exchange' = [exchange EXCEPT ![r] = "none"]
    /\ UNCHANGED <<request, status, limiterVars, serviceVars>>

Warn(r) ==
    /\ UNCHANGED request
    /\ Breaker!Warn(r)
    /\ UNCHANGED <<status, limiterVars, serviceVars, exchange>>

\* Slip: the error of Execute is dropped.
ReturnNoError(r) ==
    /\ UNCHANGED request
    /\ Breaker!Return(r)
    /\ Service!Fetch(r)
    /\ UNCHANGED <<status, limiterVars, exchange>>

\* Execute returns, and GetForecast to the service.
Return(r) ==
    /\ UNCHANGED request
    /\ Breaker!Return(r)
    /\ IF outcome[r] = "ok" THEN Service!Fetch(r) ELSE Service!FetchFail(r)
    /\ UNCHANGED <<status, limiterVars, exchange>>

-----------------------------------------------------------------------------
Store(r) ==
    /\ UNCHANGED request
    /\ Service!Store(r) \/ Service!StoreFail(r)
    /\ UNCHANGED <<status, limiterVars, breakerVars, exchange>>

\* There is no database, as by default: nothing is logged.
SkipLog(r) ==
    /\ UNCHANGED request
    /\ Service!LogFail(r)
    /\ UNCHANGED <<status, limiterVars, breakerVars, exchange>>

\* The handler answers with the report, or by the code of the error.
StatusOf(stop) ==
    CASE stop = "done" -> "200" [] stop = "invalid" -> "400" [] stop = "failed" -> "503"

\* Slip: nothing is written for an error.
RespondReports(r) ==
    /\ status[r] = "asked"
    /\ pc[r] = "done"
    /\ status' = [status EXCEPT ![r] = "200"]
    /\ UNCHANGED <<clock, request, limiterVars, serviceVars, breakerVars, exchange>>

Respond(r) ==
    /\ status[r] = "asked"
    /\ pc[r] \in {"done", "invalid", "failed"}
    /\ status' = [status EXCEPT ![r] = StatusOf(pc[r])]
    /\ UNCHANGED <<clock, request, limiterVars, serviceVars, breakerVars, exchange>>

\* The report in its body.  What cannot be written as JSON leaves a 200 with no
\* body, for the status is written first (respondWithJSON).
Body(r) ==
    IF status[r] = "200" /\ Service!Encodable(request[answer[r]].point) THEN answer[r] ELSE None

\* The steps of a request that is there.
Handle(r) ==
    \/ Grant(r) \/ Deny(r) \/ Refuse(r) \/ Begin(r) \/ Lookup(r)
    \/ Reject(r) \/ Admit(r) \/ GetForecastURL(r) \/ FetchForecast(r) \/ Fail(r)
    \/ Warn(r) \/ Return(r) \/ Store(r) \/ SkipLog(r) \/ Respond(r)

Next == Tick \/ \E r \in Requests : Arrive(r) \/ Handle(r)

Spec == Init /\ [][Next]_vars

-----------------------------------------------------------------------------
\* Every variable has its type, and the components agree on where a request
\* is: in the breaker only from the service's fetch, with a request out to the
\* weather API only while admitted, and answered when all are done with it.
TypeOK ==
    /\ request \in [Requests -> Asks]
    /\ verdict \in [Requests -> Limiter!Verdicts]
    /\ stamp \in [Requests -> 0 .. MaxTime]
    /\ Service!TypeOK
    /\ Breaker!TypeOK
    /\ status \in [Requests -> {"none", "asked", "200", "400", "429", "503"}]
    /\ \A r \in Requests :
           /\ exchange[r] \in {"none", "points", "forecast"}
           /\ exchange[r] # "none" <=> stage[r] = "calling"
           /\ stage[r] \notin {"idle", "done"} => pc[r] = "fetch"
           /\ pc[r] # "idle" => verdict[r] \in {"allowed", "error"}
           /\ status[r] = "none" <=> verdict[r] = "none"
           /\ status[r] = "429" <=> verdict[r] = "denied"
           /\ status[r] \in {"200", "503"} => pc[r] \in {"done", "failed"}

\* The promise of the route, for this pipeline.
Acceptable(q) == q.form = "given" /\ Service!Valid(q.point)

SamePlace(q, s) ==
    Service!Near(q.point.lat, s.point.lat) /\ Service!Near(q.point.lon, s.point.lon)

Writable(q) == Service!Encodable(q.point)

Api == INSTANCE WeatherApi WITH
    Queries <- Asks,
    query <- request,
    report <- [r \in Requests |-> Body(r)],
    fetched <- {r \in Requests : outcome[r] = "ok"},
    failed <- {r \in Requests : outcome[r] = "error"}

\* The pipeline keeps what the route promises its clients: 200 only with a
\* report that the weather API gave, for this place, and without one only for
\* a NaN that has passed for a place; 503 only if it failed;
\* 400 and 429 without having asked it (weather_handler.go:119-135, 180-217).
\* How the weather API failed makes no difference to the code: the features ask
\* for 404, 502 and 504 beside 503 (weather_api.feature:89-105,
\* security.feature:164-168), and line 69 documents 400 for a bad coordinate.
ImplementsApi == Api!Spec

\* An outage does not reach a place whose report is still cached: a request
\* that came after the report was stored is not answered 503 before its TTL is
\* over, be the breaker open and the weather API down (weather_service.go:88-105).
OutageSparesCached ==
    [][\A r \in Requests : (status[r] = "asked" /\ status'[r] = "503") =>
           ~ \E q \in Requests :
                /\ stored[q] >= 0 /\ stored[q] < stamp[r]
                /\ Service!Key(request[q].point) = Service!Key(request[r].point)
                /\ clock <= stored[q] + TTL]_vars

\* The breaker turns a request away only within Timeout of a trip, or while
\* another one probes: it never does so of its own accord, with the weather
\* API healthy and nobody there to find out (breaker.go:50-51, app.go:353-357).
RefusalsEnd ==
    [][\A r \in Requests : (outcome[r] = "none" /\ outcome'[r] = "rejected") =>
           \/ clock <= trippedAt + Timeout
           \/ \E q \in Requests : exchange[q] # "none" /\ gen[q] = breaker'.generation]_vars

\* Whichever proxies a client comes through, its requests are limited as one
\* client's, as long as they name it first in X-Forwarded-For or in X-Real-IP
\* (utils.go:12-42): of those made in a window no more than Limit are granted.
ClientsLimited ==
    \A c \in {a.client : a \in Asks} :
        Cardinality({r \in Requests : /\ request[r].client = c /\ verdict[r] = "allowed"
                                      /\ stamp[r] > clock - Window}) <= Limit

\* No request waits for another: one that has come can go on until it is
\* answered, whatever the limiter, the breaker and the other requests do; only
\* the weather API keeps it waiting, within the time limits of its client.
NoRequestStuck ==
    \A r \in Requests : status[r] = "asked" => ENABLED Handle(r)
=============================================================================
