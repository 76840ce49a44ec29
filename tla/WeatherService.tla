---------------------------- MODULE WeatherService ----------------------------
(***************************************************************************)
(* GetWeather, the use case of the service:                                *)
(* internal/core/services/weather_service.go over a cache                  *)
(* (internal/infrastructure/cache), the weather API and the request log    *)
(* (internal/infrastructure/database and its stored procedure).            *)
(*                                                                         *)
(* Every HTTP request runs GetWeather in its own goroutine, and nothing    *)
(* orders two of them: the lookup, the fetch, the store and the log entry  *)
(* of one are separate steps between which others run.  A weather report   *)
(* is named by the call that fetched it (its uuid, line 129).              *)
(***************************************************************************)
EXTENDS Integers, FiniteSets

CONSTANTS
    Calls,     \* the calls of GetWeather; each runs once
    Points,    \* coordinates, in thousandths of a degree
    TTL,       \* how long a report is cached (CACHE_TTL)
    MaxTime,   \* bound: the clock stops here
    Backends,  \* the caches app.go may have settled on: "redis", "memory"
    LogFails,  \* TRUE: there may be no database, or it may fail
    NaN,       \* the float64 that is not a number, which ParseFloat accepts
    None       \* no report, no entry

\* What the cache holds under a key, and what the table holds under an id.
Entries == [weather : Calls, stored : Nat]
Records == [point : Points, hit : BOOLEAN, at : Nat]

ASSUME CallsAssumption == IsFiniteSet(Calls)
ASSUME NoneAssumption == None \notin Calls /\ None \notin Entries /\ None \notin Records
ASSUME PointsAssumption ==
    /\ NaN \notin Int /\ NaN \notin BOOLEAN \X Nat
    /\ Points \subseteq [lat : Int \cup {NaN}, lon : Int \cup {NaN}]
ASSUME SettingsAssumption ==
    /\ TTL \in Nat \ {0} /\ MaxTime \in Nat
    /\ Backends \subseteq {"redis", "memory"} /\ LogFails \in BOOLEAN

VARIABLES
    backend, \* the cache in use; only Redis fails or loses an entry
    clock,   \* the time
    pc,      \* where each call is
    point,   \* the coordinates it asks for
    answer,  \* the report it returns
    cache,   \* key -> the report stored under it and when, None if there is none
    stored,  \* history: when the report a call fetched was stored, -1 if never
    began,   \* when the transaction that logs a call's answer began, -1 if there is none
    written, \* history: when that transaction wrote the row, -1 if never
    refused, \* history: the calls whose fetch failed
    rows     \* weather_requests: report id -> its row, None if there is none

vars == <<backend, clock, pc, point, answer, cache, stored, began, written, refused, rows>>

Magnitude(x) == IF x < 0 THEN -x ELSE x

\* A coordinate as %.2f prints it: rounded to hundredths, with its sign, so
\* that what rounds to zero from below is "-0.00"; and "NaN" is a coordinate.
Hundredths(x) == IF x = NaN THEN NaN ELSE <<x < 0, (Magnitude(x) + 5) \div 10>>

\* Slip: the latitude twice.
KeyOfLatitude(c) == <<Hundredths(c.lat), Hundredths(c.lat)>>

\* generateCacheKey (the MD5 sum keeps keys apart).
Key(c) == <<Hundredths(c.lat), Hundredths(c.lon)>>

Keys == {Key(c) : c \in Points}

\* The < of float64: false where either side is not a number.
Below(x, y) == x # NaN /\ y # NaN /\ x < y

\* Coordinates.Validate refuses what lies outside the bounds, and NaN does not.
Valid(c) == ~ ( \/ Below(c.lat, -90000) \/ Below(90000, c.lat)
                \/ Below(c.lon, -180000) \/ Below(180000, c.lon) )

\* encoding/json writes no NaN: a report for no place can never be stored.
Encodable(c) == NaN \notin {c.lat, c.lon}

Init ==
    /\ backend \in Backends
    /\ clock = 0
    /\ pc = [p \in Calls |-> "idle"]
    /\ point \in [Calls -> Points]
    /\ answer = [p \in Calls |-> None]
    /\ cache = [k \in Keys |-> None]
    /\ stored = [p \in Calls |-> -1]
    /\ began = [p \in Calls |-> -1]
    /\ written = [p \in Calls |-> -1]
    /\ refused = {}
    /\ rows = [w \in Calls |-> None]

Tick ==
    /\ clock < MaxTime
    /\ clock' = clock + 1
    /\ UNCHANGED <<backend, pc, point, answer, cache, stored, began, written, refused, rows>>

-----------------------------------------------------------------------------
\* Invalid coordinates are refused before anything else (lines 71-79).
Begin(p) ==
    /\ pc[p] = "idle"
    /\ pc' = [pc EXCEPT ![p] = IF Valid(point[p]) THEN "lookup" ELSE "invalid"]
    /\ UNCHANGED <<backend, clock, point, answer, cache, stored, began, written, refused, rows>>

\* Slip: an entry never expires.
LiveForEver(k) == cache[k] # None

\* An entry is there until its TTL is over, the last instant included.
Live(k) == cache[k] # None /\ clock <= cache[k].stored + TTL

LookupHit(p) ==
    /\ pc[p] = "lookup"
    /\ Live(Key(point[p]))
    /\ answer' = [answer EXCEPT ![p] = cache[Key(point[p])].weather]
    /\ pc' = [pc EXCEPT ![p] = "log"]
    /\ UNCHANGED <<backend, clock, point, cache, stored, began, written, refused, rows>>

\* Slip: an error of the cache is an error of the request.
LookupMissFatal(p) ==
    /\ pc[p] = "lookup"
    /\ ~Live(Key(point[p])) \/ backend = "redis"
    /\ pc' = [pc EXCEPT ![p] = IF Live(Key(point[p])) THEN "failed" ELSE "fetch"]
    /\ UNCHANGED <<backend, clock, point, answer, cache, stored, began, written, refused, rows>>

\* An error of the cache is a miss like any other (line 88).
LookupMiss(p) ==
    /\ pc[p] = "lookup"
    /\ ~Live(Key(point[p])) \/ backend = "redis"
    /\ pc' = [pc EXCEPT ![p] = "fetch"]
    /\ UNCHANGED <<backend, clock, point, answer, cache, stored, began, written, refused, rows>>

\* The weather API, through the circuit breaker, answers ...
Fetch(p) ==
    /\ pc[p] = "fetch"
    /\ answer' = [answer EXCEPT ![p] = p]
    /\ pc' = [pc EXCEPT ![p] = "store"]
    /\ UNCHANGED <<backend, clock, point, cache, stored, began, written, refused, rows>>

\* ... or does not: nothing is cached and nothing logged.
FetchFail(p) ==
    /\ pc[p] = "fetch"
    /\ pc' = [pc EXCEPT ![p] = "failed"]
    /\ refused' = refused \cup {p}
    /\ UNCHANGED <<backend, clock, point, answer, cache, stored, began, written, rows>>

\* Slip: the report is stored only where there is no entry.
StoreIfAbsent(p) ==
    /\ pc[p] = "store"
    /\ Encodable(point[p])
    /\ cache' = [cache EXCEPT ![Key(point[p])] =
                    IF @ = None THEN [weather |-> p, stored |-> clock] ELSE @]
    /\ stored' = [stored EXCEPT ![p] = clock]
    /\ pc' = [pc EXCEPT ![p] = "log"]
    /\ UNCHANGED <<backend, clock, point, answer, began, written, refused, rows>>

\* setToCache replaces what is there, be it a later report.
Store(p) ==
    /\ pc[p] = "store"
    /\ Encodable(point[p])
    /\ cache' = [cache EXCEPT ![Key(point[p])] = [weather |-> p, stored |-> clock]]
    /\ stored' = [stored EXCEPT ![p] = clock]
    /\ pc' = [pc EXCEPT ![p] = "log"]
    /\ UNCHANGED <<backend, clock, point, answer, began, written, refused, rows>>

\* A report that cannot be cached is returned all the same (lines 138-141).
StoreFail(p) ==
    /\ pc[p] = "store"
    /\ backend = "redis" \/ ~Encodable(point[p])
    /\ pc' = [pc EXCEPT ![p] = "log"]
    /\ UNCHANGED <<backend, clock, point, answer, cache, stored, began, written, refused, rows>>

\* Slip: the update leaves the row's timestamp as it was inserted.
UpsertKeepsTime(id, row) ==
    [rows EXCEPT ![id] = IF @ = None THEN row ELSE [row EXCEPT !.at = rows[id].at]]

\* sp_log_weather_request: insert, or update all of it when there is a row of
\* that id (its unique_violation branch).
Upsert(id, row) == [rows EXCEPT ![id] = row]

\* Slip: every row is a miss.
RowAsMiss(p) == [point |-> point[p], hit |-> FALSE, at |-> began[p]]

Row(p) == [point |-> point[p], hit |-> answer[p] # p, at |-> began[p]]

\* logWeatherRequest calls the procedure, in a transaction of its own, whose
\* beginning is CURRENT_TIMESTAMP to all of it.
Call(p) ==
    /\ pc[p] = "log"
    /\ began' = [began EXCEPT ![p] = clock]
    /\ pc' = [pc EXCEPT ![p] = "write"]
    /\ UNCHANGED <<backend, clock, point, answer, cache, stored, written, refused, rows>>

\* It writes when no other transaction holds the row.  The row goes under the id
\* of the REPORT, which a hit shares with the request that fetched it.
Log(p) ==
    /\ pc[p] = "write"
    /\ rows' = Upsert(answer[p], Row(p))
    /\ written' = [written EXCEPT ![p] = clock]
    /\ pc' = [pc EXCEPT ![p] = "done"]
    /\ UNCHANGED <<backend, clock, point, answer, cache, stored, began, refused>>

\* No database, or it is out of reach, or the client is gone and its context done:
\* the report is returned all the same (lines 97, 150 and 175-178).
LogFail(p) ==
    /\ pc[p] = "log"
    /\ LogFails
    /\ pc' = [pc EXCEPT ![p] = "done"]
    /\ UNCHANGED <<backend, clock, point, answer, cache, stored, began, written, refused, rows>>

\* The same under way: the transaction is rolled back.
LogAbort(p) ==
    /\ pc[p] = "write"
    /\ LogFails
    /\ began' = [began EXCEPT ![p] = -1]
    /\ pc' = [pc EXCEPT ![p] = "done"]
    /\ UNCHANGED <<backend, clock, point, answer, cache, stored, written, refused, rows>>

GetWeather(p) ==
    \/ Begin(p) \/ LookupHit(p) \/ LookupMiss(p) \/ Fetch(p) \/ FetchFail(p)
    \/ Store(p) \/ StoreFail(p)
    \/ Call(p) \/ Log(p) \/ LogFail(p) \/ LogAbort(p)

\* Redis evicts, is flushed (Clear, Delete) or restarts empty.
Evict(k) ==
    /\ backend = "redis"
    /\ cache[k] # None
    /\ cache' = [cache EXCEPT ![k] = None]
    /\ UNCHANGED <<backend, clock, pc, point, answer, stored, began, written, refused, rows>>

\* fn_get_request_stats: the rows it counts are those no older than since.
Counted(since) == {w \in Calls : rows[w] # None /\ rows[w].at >= since}

Next ==
    \/ Tick
    \/ \E p \in Calls : GetWeather(p)
    \/ \E k \in Keys : Evict(k)

Spec == Init /\ [][Next]_vars

-----------------------------------------------------------------------------
Stages == {"idle", "lookup", "fetch", "store", "log", "write", "done", "failed", "invalid"}

\* Every variable has its type, and a call that returns a report has one.
TypeOK ==
    /\ backend \in Backends
    /\ clock \in 0 .. MaxTime
    /\ pc \in [Calls -> Stages]
    /\ point \in [Calls -> Points]
    /\ answer \in [Calls -> Calls \cup {None}]
    /\ cache \in [Keys -> Entries \cup {None}]
    /\ stored \in [Calls -> -1 .. MaxTime]
    /\ began \in [Calls -> -1 .. MaxTime]
    /\ written \in [Calls -> -1 .. MaxTime]
    /\ refused \subseteq Calls
    /\ rows \in [Calls -> Records \cup {None}]
    /\ \A p \in Calls : pc[p] \in {"store", "log", "write", "done"} => answer[p] \in Calls

Near(x, y) == NaN \notin {x, y} /\ Magnitude(x - y) <= 10

\* The report of another request is one fetched for a place within a hundredth
\* of a degree of the one asked for (the key of lines 188-195 is all that ties
\* a cached report to a place); one fetched for no place, which Validate lets
\* through, is never served again.
AnswersMatchLocation ==
    \A p \in Calls : answer[p] \notin {None, p} =>
        LET asked == point[p]
            got == point[answer[p]]
        IN  Near(asked.lat, got.lat) /\ Near(asked.lon, got.lon)

\* A hit is never on a report stored more than TTL ago, and refused
\* coordinates are never the key of one.
HitsAreFresh ==
    [][\A p \in Calls : (answer'[p] # answer[p] /\ answer'[p] # p) =>
           /\ Valid(point[answer'[p]])
           /\ stored[answer'[p]] >= 0
           /\ clock <= stored[answer'[p]] + TTL]_vars

\* The requests that fail are those whose own fetch did, and those leave nothing
\* behind, neither an answer of another nor an entry nor a row: a cache or a
\* database that fails costs a request time and no more (lines 88, 138-141, 175-178).
FailsOnlyWithUpstream ==
    /\ {p \in Calls : pc[p] = "failed"} = refused
    /\ \A p \in refused : /\ rows[p] = None
                          /\ \A q \in Calls : answer[q] # p
                          /\ \A k \in Keys : cache[k] = None \/ cache[k].weather # p

\* A row speaks of a request that there was: one that was answered with the
\* report of the row, asked for the place in it, and hit or missed as it says.
RowsTruthful ==
    \A w \in Calls : rows[w] # None =>
        \E p \in Calls : /\ written[p] >= 0 /\ answer[p] = w
                         /\ rows[w] = [point |-> point[p], hit |-> p # w, at |-> began[p]]

\* What the statistics of a period count is reports, not requests: each of them
\* has a request that began to be logged in the period.  One that has such a
\* request is missed only if an older transaction of the same report overtook it:
\* it began before the period, was open all the time the other was, and turned
\* the row's time back (002_create_procedures.sql:101).
StatsMissOnlyOverlaps ==
    \A since \in 0 .. MaxTime :
        /\ \A w \in Counted(since) :
               \E p \in Calls : answer[p] = w /\ written[p] >= 0 /\ began[p] >= since
        /\ \A p \in Calls :
               written[p] >= 0 /\ began[p] >= since /\ answer[p] \notin Counted(since) =>
                   \E q \in Calls : /\ answer[q] = answer[p]
                                    /\ began[q] \in 0 .. since - 1
                                    /\ written[q] >= written[p]

\* While a cache that does not fail holds a report for a place, no request for
\* that place goes to the weather API: from the moment one request has stored
\* its report and for TTL, whatever others store in between.
RefetchOnlyAfterExpiry ==
    [][\A p \in Calls : backend = "memory" /\ pc[p] = "lookup" /\ pc'[p] = "fetch" =>
           \A q \in Calls : (stored[q] >= 0 /\ Key(point[q]) = Key(point[p]))
                                => clock > stored[q] + TTL]_vars
=============================================================================
