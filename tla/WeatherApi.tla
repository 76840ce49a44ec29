------------------------------ MODULE WeatherApi ------------------------------
(***************************************************************************)
(* What GET /api/v1/weather promises its clients                           *)
(* (internal/adapters/primary/rest/weather_handler.go:62-72 and            *)
(* internal/core/ports/weather.go), with no limiter, cache or breaker: how *)
(* a request may be answered, by what has come of the calls to the weather *)
(* API so far, its own and those of other requests.                        *)
(***************************************************************************)
CONSTANTS
    Requests,        \* the requests; each is made at most once
    Queries,         \* what they may ask
    Acceptable(_),   \* a query that names a place
    Writable(_),     \* one whose report JSON can express
    SamePlace(_, _), \* the places of two queries are close enough
    None             \* no report

VARIABLES
    query,    \* what each request asks
    status,   \* its HTTP status; "asked" until it is answered
    report,   \* the request whose report it was answered with
    fetched,  \* the requests for which the weather API was asked and answered
    failed    \* and those for which it did not

vars == <<query, status, report, fetched, failed>>

Init ==
    /\ query \in [Requests -> Queries]
    /\ status = [r \in Requests |-> "none"]
    /\ report = [r \in Requests |-> None]
    /\ fetched = {}
    /\ failed = {}

Ask(r) ==
    /\ status[r] = "none"
    /\ status' = [status EXCEPT ![r] = "asked"]
    /\ UNCHANGED <<query, report, fetched, failed>>

\* The weather API is asked for an acceptable query, and once.
Consulted(r) ==
    /\ status[r] = "asked"
    /\ r \notin fetched /\ r \notin failed
    /\ Acceptable(query[r])

Answers(r) ==
    /\ Consulted(r)
    /\ fetched' = fetched \cup {r}
    /\ UNCHANGED <<query, status, report, failed>>

Fails(r) ==
    /\ Consulted(r)
    /\ failed' = failed \cup {r}
    /\ UNCHANGED <<query, status, report, fetched>>

\* 200: with the report it fetched, or without asking the weather API with one
\* that another request fetched for the same place.
Serve(r, q) ==
    /\ status[r] = "asked"
    /\ q \in fetched
    /\ Acceptable(query[r])
    /\ Writable(query[q])
    /\ q # r => r \notin fetched \cup failed /\ SamePlace(query[r], query[q])
    /\ status' = [status EXCEPT ![r] = "200"]
    /\ report' = [report EXCEPT ![r] = q]
    /\ UNCHANGED <<query, fetched, failed>>

\* 200 and no report: there is one, and it cannot be written.
ServeNothing(r) ==
    /\ status[r] = "asked"
    /\ r \in fetched
    /\ ~Writable(query[r])
    /\ status' = [status EXCEPT ![r] = "200"]
    /\ UNCHANGED <<query, report, fetched, failed>>

Refuse(r, how) ==
    /\ status[r] = "asked"
    /\ status' = [status EXCEPT ![r] = how]
    /\ UNCHANGED <<query, report, fetched, failed>>

\* 400: the query is no place; the weather API was not asked.
BadRequest(r) == Refuse(r, "400") /\ ~Acceptable(query[r])

\* 429: whatever the query, the weather API was not asked.
TooManyRequests(r) == Refuse(r, "429") /\ r \notin fetched \cup failed

\* 503: the weather API has failed, this request or one before it.
Unavailable(r) ==
    Refuse(r, "503") /\ r \notin fetched /\ failed # {} /\ Acceptable(query[r])

Next ==
    \E r \in Requests :
        \/ Ask(r) \/ Answers(r) \/ Fails(r)
        \/ \E q \in Requests : Serve(r, q)
        \/ ServeNothing(r)
        \/ BadRequest(r) \/ TooManyRequests(r) \/ Unavailable(r)

Spec == Init /\ [][Next]_vars
=============================================================================
