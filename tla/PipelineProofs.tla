---------------------------- MODULE PipelineProofs ----------------------------
(***************************************************************************)
(* Proofs about Pipeline: its components behave as in the modules of their *)
(* own, so that what is proved there holds of them here, and together they *)
(* keep the promise of the route.                                          *)
(***************************************************************************)
EXTENDS Pipeline, FiniteSetTheorems, TLAPS

\* The service and the breaker of the pipeline, with the theorems about them.
ServiceP == INSTANCE WeatherServiceProofs WITH
    Calls <- Requests,
    Points <- {a.point : a \in Asks},
    Backends <- {"memory"},
    LogFails <- TRUE,
    point <- [r \in Requests |-> request[r].point]

BreakerP == INSTANCE CircuitBreakerProofs WITH
    Calls <- Requests,
    Outcomes <- {"ok", "error"},
    pc <- stage

LimiterP == INSTANCE SlidingWindowProofs WITH
    Calls <- Requests,
    Identifiers <- {ClientIP(a.from) : a \in Asks},
    ident <- [r \in Requests |-> ClientIP(request[r].from)]

\* The proofs about the service use the same definitions as the pipeline.
LEMMA SameService ==
    /\ Service!Init <=> ServiceP!Init
    /\ [Service!Next]_(Service!vars) <=> [ServiceP!Next]_(ServiceP!vars)
BY DEF Service!Init, ServiceP!Init, Service!Next, ServiceP!Next, Service!vars, ServiceP!vars,
       Service!Tick, ServiceP!Tick, Service!GetWeather, ServiceP!GetWeather,
       Service!Begin, ServiceP!Begin, Service!LookupHit, ServiceP!LookupHit,
       Service!LookupMiss, ServiceP!LookupMiss, Service!Fetch, ServiceP!Fetch,
       Service!FetchFail, ServiceP!FetchFail, Service!Store, ServiceP!Store,
       Service!StoreFail, ServiceP!StoreFail, Service!Log, ServiceP!Log,
       Service!Call, ServiceP!Call, Service!LogAbort, ServiceP!LogAbort,
       Service!LogFail, ServiceP!LogFail, Service!Evict, ServiceP!Evict,
       Service!Valid, ServiceP!Valid, Service!Below, ServiceP!Below,
       Service!Key, ServiceP!Key, Service!Keys, ServiceP!Keys,
       Service!Hundredths, ServiceP!Hundredths, Service!Magnitude, ServiceP!Magnitude,
       Service!Live, ServiceP!Live, Service!Encodable, ServiceP!Encodable,
       Service!Row, ServiceP!Row, Service!Upsert, ServiceP!Upsert

LEMMA SameBreaker ==
    /\ Breaker!Init <=> BreakerP!Init
    /\ [Breaker!Next]_(Breaker!vars) <=> [BreakerP!Next]_(BreakerP!vars)
BY DEF Breaker!Init, BreakerP!Init, Breaker!Next, BreakerP!Next, Breaker!vars, BreakerP!vars,
       Breaker!Tick, BreakerP!Tick, Breaker!Execute, BreakerP!Execute,
       Breaker!Enter, BreakerP!Enter, Breaker!Reject, BreakerP!Reject,
       Breaker!Admit, BreakerP!Admit, Breaker!Finish, BreakerP!Finish,
       Breaker!Warn, BreakerP!Warn, Breaker!Return, BreakerP!Return,
       Breaker!Current, BreakerP!Current, Breaker!Expired, BreakerP!Expired,
       Breaker!Saturated, BreakerP!Saturated, Breaker!Counts, BreakerP!Counts,
       Breaker!AfterSuccess, BreakerP!AfterSuccess, Breaker!AfterFailure, BreakerP!AfterFailure,
       Breaker!OnSuccess, BreakerP!OnSuccess, Breaker!OnFailure, BreakerP!OnFailure,
       Breaker!Closes, BreakerP!Closes, Breaker!ReadyToTrip, BreakerP!ReadyToTrip,
       Breaker!NewGeneration, BreakerP!NewGeneration, Breaker!NoCounts, BreakerP!NoCounts,
       Breaker!Expiry, BreakerP!Expiry

LEMMA SameLimiter ==
    /\ Limiter!Init <=> LimiterP!Init
    /\ [Limiter!Next]_(Limiter!vars) <=> [LimiterP!Next]_(LimiterP!vars)
BY DEF Limiter!Init, LimiterP!Init, Limiter!Next, LimiterP!Next, Limiter!vars, LimiterP!vars,
       Limiter!Tick, LimiterP!Tick, Limiter!Request, LimiterP!Request,
       Limiter!Grant, LimiterP!Grant, Limiter!Deny, LimiterP!Deny,
       Limiter!GrantsAfter, LimiterP!GrantsAfter, Limiter!Cardinality, LimiterP!Cardinality

\* The assumptions of the modules, for the parameters they are given.
LEMMA ServiceAssumptions ==
    /\ ServiceP!IsFiniteSet(Requests)
    /\ None \notin Requests /\ None \notin ServiceP!Entries /\ None \notin ServiceP!Records
    /\ TTL \in Nat \ {0} /\ MaxTime \in Nat
    /\ {"memory"} \subseteq {"redis", "memory"} /\ TRUE \in BOOLEAN
BY ScenariosAssumption, SettingsAssumption, NoneAssumption
   DEF IsFiniteSet, ServiceP!IsFiniteSet, Service!Entries, ServiceP!Entries, Service!Records, ServiceP!Records

LEMMA ServiceInvariance ==
    /\ ServiceP!Init => ServiceP!IInv
    /\ ServiceP!IInv /\ [ServiceP!Next]_(ServiceP!vars) => ServiceP!IInv'
BY ServiceAssumptions, PlacesAssumption, ServiceP!InvariantInit, ServiceP!InvariantStep

LEMMA BreakerAssumptions ==
    /\ BreakerP!IsFiniteSet(Requests)
    /\ {"ok", "error"} \cap {"none", "rejected"} = {}
    /\ MaxRequests \in Nat \ {0} /\ Interval \in Nat \ {0} /\ Timeout \in Nat \ {0}
    /\ TripAt \in Nat /\ MaxTime \in Nat
<1>1. {"ok", "error"} \cap {"none", "rejected"} = {}
  OBVIOUS
<1>. QED  BY <1>1, ScenariosAssumption, SettingsAssumption DEF IsFiniteSet, BreakerP!IsFiniteSet

LEMMA BreakerInvariance ==
    /\ BreakerP!Init => BreakerP!IInv
    /\ BreakerP!IInv /\ [BreakerP!Next]_(BreakerP!vars) => BreakerP!IInv'
BY BreakerAssumptions, BreakerP!InvariantInit, BreakerP!InvariantStep

LEMMA LimiterAssumptions == LimiterP!Sensible
BY ScenariosAssumption, SettingsAssumption DEF LimiterP!Sensible, IsFiniteSet, LimiterP!IsFiniteSet

LEMMA LimiterInvariance ==
    /\ LimiterP!Init => LimiterP!TypeOK /\ LimiterP!LimitKept
    /\ LimiterP!TypeOK /\ LimiterP!LimitKept /\ [LimiterP!Next]_(LimiterP!vars)
           => LimiterP!TypeOK' /\ LimiterP!LimitKept'
BY LimiterAssumptions, LimiterP!TypeInit, LimiterP!TypeStep, LimiterP!LimitInit, LimiterP!LimitStep

-----------------------------------------------------------------------------
\* Nothing changes what was asked.
LEMMA RequestsStay == [Next]_vars => UNCHANGED request
BY DEF Next, vars, Tick, Arrive, Handle, Grant, Deny, Refuse, Begin, Lookup, Reject, Admit,
       GetForecastURL, FetchForecast, Fail, Warn, Return, Store, SkipLog, Respond

\* A step of the pipeline is a step of the service or none.
LEMMA ServiceSteps == [Next]_vars => [Service!Next]_(Service!vars)
<1>. SUFFICES ASSUME [Next]_vars
              PROVE  [Service!Next]_(Service!vars)
  OBVIOUS
<1>1. request' = request
  BY RequestsStay
<1>2. CASE Tick
  BY <1>1, <1>2 DEF Tick, serviceVars, Service!Next, Service!Tick
<1>3. CASE UNCHANGED <<clock, request, serviceVars>>
  BY <1>3 DEF serviceVars, Service!vars
<1>4. ASSUME NEW r \in Requests, Begin(r) \/ Lookup(r) \/ Return(r) \/ Store(r) \/ SkipLog(r)
      PROVE  Service!Next
  BY <1>4 DEF Begin, Lookup, Return, Store, SkipLog, Service!Next, Service!GetWeather
<1>. QED  BY <1>2, <1>3, <1>4
     DEF Next, vars, Handle, Arrive, Grant, Deny, Refuse, Reject, Admit, GetForecastURL,
         FetchForecast, Fail, Warn, Respond, Limiter!Request, Limiter!Grant, Limiter!Deny,
         Breaker!Enter, Breaker!Reject, Breaker!Admit, Breaker!Finish, Breaker!Warn

\* A step of the pipeline is a step of the breaker or none.
LEMMA BreakerSteps == [Next]_vars => [Breaker!Next]_(Breaker!vars)
<1>. SUFFICES ASSUME [Next]_vars
              PROVE  [Breaker!Next]_(Breaker!vars)
  OBVIOUS
<1>1. CASE Tick
  BY <1>1 DEF Tick, breakerVars, Breaker!Next, Breaker!Tick
<1>2. CASE UNCHANGED <<clock, breakerVars>>
  BY <1>2 DEF breakerVars, Breaker!vars
<1>3. ASSUME NEW r \in Requests,
             Reject(r) \/ Admit(r) \/ FetchForecast(r) \/ Fail(r) \/ Warn(r) \/ Return(r)
      PROVE  Breaker!Next
  BY <1>3 DEF Reject, Admit, FetchForecast, Fail, Warn, Return, Breaker!Next, Breaker!Execute
<1>. QED  BY <1>1, <1>2, <1>3
     DEF Next, vars, Handle, Arrive, Grant, Deny, Refuse, Begin, Lookup, GetForecastURL, Store,
         SkipLog, Respond, Limiter!Request, Limiter!Grant, Limiter!Deny, Service!Begin,
         Service!LookupHit, Service!LookupMiss, Service!Store, Service!StoreFail, Service!LogFail

\* A step of the pipeline is a step of the limiter or none.
LEMMA LimiterSteps == [Next]_vars => [Limiter!Next]_(Limiter!vars)
<1>. SUFFICES ASSUME [Next]_vars
              PROVE  [Limiter!Next]_(Limiter!vars)
  OBVIOUS
<1>1. request' = request
  BY RequestsStay
<1>2. CASE Tick
  BY <1>1, <1>2 DEF Tick, limiterVars, Limiter!Next, Limiter!Tick
<1>3. CASE UNCHANGED <<clock, request, limiterVars>>
  BY <1>3 DEF limiterVars, Limiter!vars
<1>4. ASSUME NEW r \in Requests, Arrive(r) \/ Grant(r) \/ Deny(r)
      PROVE  Limiter!Next
  BY <1>4 DEF Arrive, Grant, Deny, Limiter!Next
<1>. QED  BY <1>1, <1>2, <1>3, <1>4
     DEF Next, vars, Handle, Refuse, Begin, Lookup, Reject, Admit, GetForecastURL, FetchForecast,
         Fail, Warn, Return, Store, SkipLog, Respond, Service!Begin, Service!LookupHit,
         Service!LookupMiss, Service!Store, Service!StoreFail, Service!LogFail, Breaker!Enter,
         Breaker!Reject, Breaker!Admit, Breaker!Finish, Breaker!Warn, Breaker!Return

LEMMA ComponentsInit ==
    Init => /\ Service!Init /\ Breaker!Init /\ Limiter!Init
            /\ request \in [Requests -> Asks]
BY ScenariosAssumption DEF Init

\* Joined as app.go joins them, limiter, service and breaker behave as each of
\* them does alone: what is proved of a component holds of the whole.
THEOREM ComponentsKept ==
    Spec => /\ Service!Spec /\ Breaker!Spec
            /\ Limiter!Init /\ [][Limiter!Next]_(Limiter!vars)
<1>. QED  BY ComponentsInit, ServiceSteps, BreakerSteps, LimiterSteps, PTL
          DEF Spec, Service!Spec, Breaker!Spec

-----------------------------------------------------------------------------
\* How far a request is in one component says how far it is in the others.
InStep(r) ==
    /\ exchange[r] # "none" <=> stage[r] = "calling"
    /\ stage[r] \notin {"idle", "done"} => pc[r] = "fetch"
    /\ stage[r] = "done" => pc[r] \in {"store", "log", "done", "failed"}
    /\ stage[r] \in {"failed", "closing", "done"} => outcome[r] # "none"
    /\ pc[r] # "write"
    /\ pc[r] \in {"lookup", "fetch", "store", "log"} => status[r] = "asked"
    /\ pc[r] # "idle" => verdict[r] \in {"allowed", "error"} /\ request[r].form = "given"
    /\ status[r] = "none" <=> verdict[r] = "none"
    /\ status[r] = "429" <=> verdict[r] = "denied"
    /\ verdict[r] = "pending" => status[r] = "asked"
    /\ status[r] = "200" => pc[r] = "done"
    /\ status[r] = "503" => pc[r] = "failed"
    /\ pc[r] = "failed" => outcome[r] \in {"error", "rejected"}
    /\ pc[r] = "store" => outcome[r] = "ok"
    /\ pc[r] \in {"log", "done"} => outcome[r] = IF answer[r] = r THEN "ok" ELSE "none"
    /\ stored[r] >= 0 => outcome[r] = "ok"

\* The breaker stands closed until a call has failed, and rejects none.
CausedByFailure ==
    /\ breaker.state # "closed" => \E q \in Requests : outcome[q] = "error"
    /\ \A r \in Requests : outcome[r] = "rejected" => \E q \in Requests : outcome[q] = "error"

Types ==
    /\ request \in [Requests -> Asks]
    /\ status \in [Requests -> {"none", "asked", "200", "400", "429", "503"}]
    /\ exchange \in [Requests -> {"none", "points", "forecast"}]
    /\ verdict \in [Requests -> Limiter!Verdicts]
    /\ stamp \in [Requests -> Nat]

IInv == /\ ServiceP!IInv /\ BreakerP!IInv
        /\ Types /\ CausedByFailure /\ \A r \in Requests : InStep(r)

\* What the components' invariants say of the variables used here.
LEMMA ComponentFacts ==
    ASSUME IInv
    PROVE  /\ clock \in Nat
           /\ pc \in [Requests -> Service!Stages] /\ answer \in [Requests -> Requests \cup {None}]
           /\ stored \in [Requests -> Int]
           /\ stage \in [Requests -> Breaker!Stages]
           /\ outcome \in [Requests -> {"none", "rejected", "ok", "error"}]
           /\ \A r \in Requests :
                /\ pc[r] \in {"store", "log", "done"} => answer[r] \in Requests
                /\ pc[r] \notin {"store", "log", "done"} => answer[r] = None
                /\ pc[r] = "store" => answer[r] = r
                /\ pc[r] \notin {"idle", "invalid"} => Service!Valid(request[r].point)
                /\ pc[r] = "invalid" => ~Service!Valid(request[r].point)
                /\ stored[r] >= 0 => pc[r] \in {"log", "done"}
                /\ answer[r] \notin {None, r} =>
                       Service!Encodable(request[answer[r]].point) /\ stored[answer[r]] >= 0
                /\ stage[r] \in {"idle", "entered", "calling"} => outcome[r] = "none"
           /\ breaker.state \in {"closed", "half-open", "open"}
<1>1. /\ ServiceP!TypeOK /\ ServiceP!Progress /\ ServiceP!AnswersServe
      /\ BreakerP!TypeOK /\ BreakerP!Progress /\ Types
  BY DEF IInv, ServiceP!IInv, BreakerP!IInv
<1>2. /\ clock \in Nat /\ pc \in [Requests -> Service!Stages]
      /\ answer \in [Requests -> Requests \cup {None}]
      /\ \A r \in Requests : /\ pc[r] \in {"store", "log", "done"} => answer[r] \in Requests
                             /\ pc[r] \notin {"store", "log", "done"} => answer[r] = None
                             /\ pc[r] = "store" => answer[r] = r
                             /\ stored[r] >= 0 => pc[r] \in {"log", "done"}
  BY <1>1, SettingsAssumption
     DEF IInv, InStep, ServiceP!TypeOK, ServiceP!Progress, Service!Stages, ServiceP!Stages
<1>3. stored \in [Requests -> Int]
  BY <1>1, SettingsAssumption DEF ServiceP!TypeOK
<1>4. \A r \in Requests :
          /\ pc[r] \notin {"idle", "invalid"} => Service!Valid(request[r].point)
          /\ pc[r] = "invalid" => ~Service!Valid(request[r].point)
  BY <1>1 DEF ServiceP!Progress, Service!Valid, ServiceP!Valid, Service!Below, ServiceP!Below
<1>5. \A r \in Requests : answer[r] \notin {None, r} =>
          Service!Encodable(request[answer[r]].point) /\ stored[answer[r]] >= 0
  BY <1>1, <1>2 DEF ServiceP!AnswersServe, ServiceP!Serves, Service!Encodable, ServiceP!Encodable
<1>6. /\ stage \in [Requests -> Breaker!Stages]
      /\ outcome \in [Requests -> {"none", "rejected", "ok", "error"}]
      /\ \A r \in Requests : stage[r] \in {"idle", "entered", "calling"} => outcome[r] = "none"
      /\ breaker.state \in {"closed", "half-open", "open"}
  BY <1>1 DEF BreakerP!TypeOK, BreakerP!Progress, BreakerP!Breakers, BreakerP!States,
              Breaker!Stages, BreakerP!Stages
<1>. QED  BY <1>2, <1>3, <1>4, <1>5, <1>6

\* The two ways to name the key of a place.
LEMMA SameKey ==
    /\ \A c : Service!Key(c) = ServiceP!Key(c)
    /\ Service!Keys = ServiceP!Keys
BY DEF Service!Keys, ServiceP!Keys, Service!Key, ServiceP!Key, Service!Hundredths,
       ServiceP!Hundredths, Service!Magnitude, ServiceP!Magnitude

\* What a request finds in the cache is the stored report of another.
LEMMA HitIsOfAnother ==
    ASSUME IInv, NEW r \in Requests, pc[r] = "lookup",
           cache[Service!Key(request[r].point)] # None
    PROVE  /\ cache[Service!Key(request[r].point)].weather \in Requests \ {r}
           /\ stored[cache[Service!Key(request[r].point)].weather] >= 0
<1>. DEFINE k == Service!Key(request[r].point)
            w == cache[k].weather
<1>1. k \in ServiceP!Keys
  BY SameKey DEF IInv, Types, ServiceP!Keys
<1>2. w \in Requests /\ stored[w] >= 0
  BY <1>1 DEF IInv, ServiceP!IInv, ServiceP!CacheTrue, ServiceP!Serves
<1>3. pc[w] # "lookup"
  BY <1>2, ComponentFacts
<1>. QED  BY <1>2, <1>3

\* A step of one request is none of another.
LEMMA OthersStay ==
    ASSUME IInv, NEW r \in Requests, Arrive(r) \/ Handle(r), NEW q \in Requests, q # r
    PROVE  /\ status'[q] = status[q] /\ exchange'[q] = exchange[q] /\ verdict'[q] = verdict[q]
           /\ stage'[q] = stage[q] /\ outcome'[q] = outcome[q]
           /\ pc'[q] = pc[q] /\ answer'[q] = answer[q] /\ stored'[q] = stored[q]
<1>. USE ComponentFacts DEF IInv, Types, limiterVars, serviceVars, breakerVars
<1>1. CASE Arrive(r) \/ Grant(r) \/ Deny(r)
  BY <1>1 DEF Arrive, Grant, Deny, Limiter!Request, Limiter!Grant, Limiter!Deny
<1>2. CASE Refuse(r) \/ GetForecastURL(r) \/ Respond(r)
  BY <1>2 DEF Refuse, GetForecastURL, Respond
<1>3. CASE Begin(r) \/ Lookup(r)
  BY <1>3 DEF Begin, Lookup, Service!Begin, Service!LookupHit, Service!LookupMiss
<1>4. CASE Reject(r) \/ Admit(r) \/ Warn(r)
  BY <1>4 DEF Reject, Admit, Warn, Breaker!Enter, Breaker!Reject, Breaker!Admit, Breaker!Warn
<1>5. CASE FetchForecast(r) \/ Fail(r)
  BY <1>5 DEF FetchForecast, Fail, Breaker!Finish
<1>6. CASE Return(r)
  BY <1>6 DEF Return, Breaker!Return, Service!Fetch, Service!FetchFail
<1>7. CASE Store(r) \/ SkipLog(r)
  BY <1>7 DEF Store, SkipLog, Service!Store, Service!StoreFail, Service!LogFail
<1>. QED  BY <1>1, <1>2, <1>3, <1>4, <1>5, <1>6, <1>7 DEF Handle

LEMMA TypesStep == IInv /\ [Next]_vars => Types'
<1>. SUFFICES ASSUME IInv, [Next]_vars
              PROVE  Types'
  OBVIOUS
<1>1. Types /\ clock \in Nat /\ request' = request
  BY ComponentFacts, RequestsStay DEF IInv
<1>. USE <1>1 DEF Types, limiterVars, Limiter!Verdicts
<1>2. CASE UNCHANGED <<status, exchange, verdict, stamp>>
  BY <1>2
<1>3. ASSUME NEW r \in Requests, Arrive(r) \/ Grant(r) \/ Deny(r)
      PROVE  Types'
  BY <1>3 DEF Arrive, Grant, Deny, Limiter!Request, Limiter!Grant, Limiter!Deny
<1>4. ASSUME NEW r \in Requests, Refuse(r) \/ Respond(r)
      PROVE  Types'
  BY <1>4 DEF Refuse, Respond, StatusOf
<1>5. ASSUME NEW r \in Requests, Admit(r) \/ GetForecastURL(r) \/ FetchForecast(r) \/ Fail(r)
      PROVE  Types'
  BY <1>5 DEF Admit, GetForecastURL, FetchForecast, Fail
<1>. QED  BY <1>2, <1>3, <1>4, <1>5
     DEF Next, vars, Tick, Handle, Begin, Lookup, Reject, Warn, Return, Store, SkipLog

LEMMA BreakerNow ==
    ASSUME IInv
    PROVE  /\ Breaker!Current = BreakerP!Current
           /\ BreakerP!Sound(Breaker!Current) /\ Breaker!Current \in BreakerP!Breakers
<1>1. Breaker!Current = BreakerP!Current
  BY DEF Breaker!Current, BreakerP!Current, Breaker!Expired, BreakerP!Expired,
         Breaker!NewGeneration, BreakerP!NewGeneration, Breaker!NoCounts, BreakerP!NoCounts,
         Breaker!Expiry, BreakerP!Expiry
<1>2. BreakerP!Sound(BreakerP!Current)
  BY BreakerAssumptions, BreakerP!CurrentSound DEF IInv
<1>. QED  BY <1>1, <1>2 DEF BreakerP!Sound

\* The breaker leaves "closed" for a result other than "ok", and rejects only
\* when it has left it.
LEMMA CausedStep == IInv /\ [Next]_vars => CausedByFailure'
<1>. SUFFICES ASSUME IInv, [Next]_vars
              PROVE  CausedByFailure'
  OBVIOUS
<1>. DEFINE someFailed == \E q \in Requests : outcome[q] = "error"
<1>1. /\ breaker.state = "closed" => Breaker!Current.state = "closed"
      /\ CausedByFailure /\ clock \in Nat
  BY ComponentFacts DEF IInv, Breaker!Current, Breaker!NewGeneration
<1>2. \A q \in Requests : outcome[q] \in {"error", "ok"} => outcome'[q] = outcome[q]
  BY BreakerSteps, ComponentFacts DEF Breaker!Next, Breaker!vars, Breaker!Tick, Breaker!Execute,
     Breaker!Enter, Breaker!Reject, Breaker!Admit, Breaker!Finish, Breaker!Warn, Breaker!Return
<1>3. someFailed => someFailed'
  BY <1>2
<1>4. CASE UNCHANGED <<breaker, outcome>>
  BY <1>1, <1>4 DEF CausedByFailure
<1>5. ASSUME breaker' = Breaker!Current, UNCHANGED outcome
      PROVE  CausedByFailure'
  BY <1>1, <1>5 DEF CausedByFailure
<1>6. ASSUME NEW r \in Requests, Breaker!Reject(r)
      PROVE  CausedByFailure'
  <2>1. Breaker!Current.state # "closed"
    BY <1>6 DEF Breaker!Reject, Breaker!Saturated
  <2>2. someFailed'
    BY <1>1, <1>3, <2>1 DEF CausedByFailure
  <2>. QED  BY <2>2 DEF CausedByFailure
<1>7. ASSUME NEW r \in Requests, Breaker!Admit(r)
      PROVE  CausedByFailure'
  <2>1. breaker'.state = Breaker!Current.state /\ UNCHANGED outcome
    BY <1>7, BreakerNow DEF Breaker!Admit, BreakerP!Breakers
  <2>. QED  BY <1>1, <2>1 DEF CausedByFailure
<1>8. ASSUME NEW r \in Requests, Breaker!Finish(r, "error")
      PROVE  CausedByFailure'
  <2>1. outcome'[r] = "error"
    BY <1>8, ComponentFacts DEF Breaker!Finish
  <2>. QED  BY <2>1 DEF CausedByFailure
<1>9. ASSUME NEW r \in Requests, Breaker!Finish(r, "ok")
      PROVE  CausedByFailure'
  <2>1. breaker.state = "closed" => breaker'.state = "closed"
    BY <1>1, <1>9, BreakerNow DEF Breaker!Finish, Breaker!AfterSuccess, BreakerP!Breakers
  <2>2. \A q \in Requests : outcome'[q] = "rejected" => outcome[q] = "rejected"
    BY <1>9, ComponentFacts DEF Breaker!Finish
  <2>. QED  BY <1>1, <1>3, <2>1, <2>2 DEF CausedByFailure
<1>. QED  BY BreakerSteps, <1>4, <1>5, <1>6, <1>7, <1>8, <1>9
     DEF Breaker!Next, Breaker!vars, Breaker!Tick, Breaker!Execute, Breaker!Enter, Breaker!Warn,
         Breaker!Return

LEMMA InStepStep ==
    ASSUME IInv, NEW r \in Requests, Arrive(r) \/ Handle(r)
    PROVE  InStep(r)'
<1>. USE ComponentFacts DEF IInv, InStep, Types, limiterVars, serviceVars, breakerVars,
                            Service!Stages, Breaker!Stages, Limiter!Verdicts
<1>0. request' = request
  BY RequestsStay DEF Next
<1>. USE <1>0
<1>1. CASE Arrive(r) \/ Grant(r) \/ Deny(r)
  BY <1>1 DEF Arrive, Grant, Deny, Limiter!Request, Limiter!Grant, Limiter!Deny
<1>2. CASE Refuse(r)
  BY <1>2 DEF Refuse, LetThrough
<1>3. CASE Begin(r)
  BY <1>3 DEF Begin, LetThrough, Service!Begin
<1>4. CASE Lookup(r)
  <2>1. CASE Service!LookupHit(r)
    <3>. DEFINE w == cache[Service!Key(request[r].point)].weather
    <3>1. cache[Service!Key(request[r].point)] # None /\ pc[r] = "lookup"
      BY <2>1 DEF Service!LookupHit, Service!Live
    <3>2. w \in Requests \ {r}
      BY <3>1, HitIsOfAnother
    <3>3. answer'[r] = w /\ pc'[r] = "log" /\ stored' = stored /\ stage[r] = "idle"
      BY <2>1 DEF Service!LookupHit
    <3>. HIDE DEF w
    <3>. QED  BY <1>4, <3>1, <3>2, <3>3 DEF Lookup
  <2>2. CASE Service!LookupMiss(r)
    BY <1>4, <2>2 DEF Lookup, Service!LookupMiss
  <2>. QED  BY <1>4, <2>1, <2>2 DEF Lookup
<1>5. CASE Reject(r) \/ Warn(r)
  BY <1>5 DEF Reject, Warn, Breaker!Enter, Breaker!Reject, Breaker!Warn
<1>6. CASE Admit(r)
  BY <1>6 DEF Admit, Breaker!Admit
<1>7. CASE GetForecastURL(r)
  BY <1>7 DEF GetForecastURL
<1>8. CASE FetchForecast(r) \/ Fail(r)
  BY <1>8 DEF FetchForecast, Fail, Breaker!Finish
<1>9. CASE Return(r)
  BY <1>9 DEF Return, Breaker!Return, Service!Fetch, Service!FetchFail
<1>10. CASE Store(r)
  BY <1>10 DEF Store, Service!Store, Service!StoreFail
<1>11. CASE SkipLog(r)
  BY <1>11 DEF SkipLog, Service!LogFail
<1>12. CASE Respond(r)
  BY <1>12 DEF Respond, StatusOf
<1>. QED  BY <1>1, <1>2, <1>3, <1>4, <1>5, <1>6, <1>7, <1>8, <1>9, <1>10, <1>11, <1>12 DEF Handle

LEMMA InvariantInit == Init => IInv
<1>. SUFFICES ASSUME Init
              PROVE  IInv
  OBVIOUS
<1>1. ServiceP!IInv /\ BreakerP!IInv
  BY ComponentsInit, SameService, SameBreaker, ServiceInvariance, BreakerInvariance
<1>2. Types
  BY ComponentsInit DEF Init, Types, Limiter!Init, Limiter!Verdicts
<1>3. CausedByFailure /\ \A r \in Requests : InStep(r)
  BY DEF Init, Service!Init, Breaker!Init, Limiter!Init, CausedByFailure, InStep
<1>. QED  BY <1>1, <1>2, <1>3 DEF IInv

LEMMA InvariantStep == IInv /\ [Next]_vars => IInv'
<1>. SUFFICES ASSUME IInv, [Next]_vars
              PROVE  IInv'
  OBVIOUS
<1>1. ServiceP!IInv' /\ BreakerP!IInv'
  BY ServiceSteps, BreakerSteps, SameService, SameBreaker, ServiceInvariance, BreakerInvariance
     DEF IInv
<1>2. Types' /\ CausedByFailure' /\ request' = request
  BY TypesStep, CausedStep, RequestsStay
<1>3. ASSUME NEW r \in Requests, Arrive(r) \/ Handle(r)
      PROVE  \A q \in Requests : InStep(q)'
  <2>1. InStep(r)'
    BY <1>3, InStepStep
  <2>2. ASSUME NEW q \in Requests, q # r
        PROVE  InStep(q)'
    BY <1>2, <1>3, <2>2, OthersStay DEF IInv, InStep
  <2>. QED  BY <2>1, <2>2
<1>4. CASE Tick \/ UNCHANGED vars
  <2>1. UNCHANGED <<status, exchange, verdict, stage, outcome, pc, answer, stored, request>>
    BY <1>4 DEF Tick, vars, limiterVars, serviceVars, breakerVars
  <2>2. \A q \in Requests : InStep(q)'
    BY <2>1 DEF IInv, InStep
  <2>. QED  BY <1>1, <1>2, <2>2 DEF IInv
<1>. QED  BY <1>1, <1>2, <1>3, <1>4 DEF Next, IInv

LEMMA Invariance == Spec => []IInv
<1>. QED  BY InvariantInit, InvariantStep, PTL DEF Spec

-----------------------------------------------------------------------------
\* The breaker turns a request away only within Timeout of a trip, or while
\* another request is out to the weather API to decide it.
THEOREM RefusalsHaveEnd == Spec => RefusalsEnd
<1>. DEFINE A == \A r \in Requests : (outcome[r] = "none" /\ outcome'[r] = "rejected") =>
                   \/ clock <= trippedAt + Timeout
                   \/ \E q \in Requests : exchange[q] # "none" /\ gen[q] = breaker'.generation
<1>1. ASSUME IInv, [Next]_vars
      PROVE  A
  <2>. SUFFICES ASSUME NEW r \in Requests, outcome[r] = "none", outcome'[r] = "rejected",
                       ~(clock <= trippedAt + Timeout)
                PROVE  \E q \in Requests : exchange[q] # "none" /\ gen[q] = breaker'.generation
    OBVIOUS
  <2>. USE <1>1, BreakerNow
  <2>1. Breaker!Reject(r)
    BY BreakerSteps, ComponentFacts
       DEF Breaker!Next, Breaker!vars, Breaker!Tick, Breaker!Execute, Breaker!Enter,
           Breaker!Reject, Breaker!Admit, Breaker!Finish, Breaker!Warn, Breaker!Return
  <2>2. breaker' = Breaker!Current /\ (Breaker!Current.state = "open" \/ Breaker!Saturated)
    BY <2>1 DEF Breaker!Reject
  <2>3. Breaker!Current.state # "open"
    <3>1. BreakerP!Sound(breaker) /\ clock \in Nat /\ trippedAt \in Int
      BY ComponentFacts DEF IInv, BreakerP!IInv, BreakerP!TypeOK
    <3>2. Breaker!Current.state = "open" =>
              Breaker!Current = breaker /\ ~(breaker.expiry < clock)
      BY DEF Breaker!Current, Breaker!Expired, Breaker!NewGeneration
    <3>3. breaker.state = "open" => breaker.expiry = trippedAt + Timeout
      BY <3>1 DEF BreakerP!Sound, BreakerP!Cooled
    <3>. QED  BY <3>1, <3>2, <3>3, SettingsAssumption
  <2>4. Breaker!Current.state = "half-open" /\ Breaker!Current.counts.requests >= MaxRequests
    BY <2>2, <2>3 DEF Breaker!Saturated
  <2>5. Breaker!Current = breaker
    BY <2>4, BreakerAssumptions, BreakerP!CurrentSound DEF IInv, BreakerP!NoCounts
  <2>6. \E q \in BreakerP!Cohort(breaker.generation) : stage[q] = "calling"
    BY <2>4, <2>5, BreakerAssumptions, BreakerP!ProbesDecideNow
       DEF IInv, BreakerP!HalfOpenNeverStuck
  <2>. QED  BY <2>2, <2>5, <2>6 DEF BreakerP!Cohort, IInv, InStep
<1>2. IInv /\ [Next]_vars => [A]_vars
  BY <1>1
<1>. QED  BY <1>2, Invariance, PTL DEF Spec, RefusalsEnd

-----------------------------------------------------------------------------
\* What the promise of the route speaks of.
Report == [r \in Requests |-> Body(r)]
Fetched == {r \in Requests : outcome[r] = "ok"}
FailedCalls == {r \in Requests : outcome[r] = "error"}

\* An answer is settled when its status is.
LEMMA BodyStays ==
    ASSUME IInv, [Next]_vars, NEW q \in Requests, status'[q] = status[q]
    PROVE  Body(q)' = Body(q)
<1>1. status[q] = "200" => pc[q] = "done"
  BY DEF IInv, InStep
<1>2. pc[q] = "done" => answer'[q] = answer[q]
  BY ServiceSteps, ComponentFacts
     DEF Service!Next, Service!vars, Service!Tick, Service!GetWeather, Service!Evict,
         Service!Begin, Service!LookupHit, Service!LookupMiss, Service!Fetch, Service!FetchFail,
         Service!Store, Service!StoreFail, Service!Call, Service!Log, Service!LogFail,
         Service!LogAbort
<1>3. request' = request
  BY RequestsStay
<1>. QED  BY <1>1, <1>2, <1>3 DEF Body, Service!Encodable

\* A step that changes no status: an answer or a failure of the weather API
\* may arrive, and nothing else can be seen.
LEMMA QuietStep ==
    ASSUME IInv, [Next]_vars, UNCHANGED status
    PROVE  UNCHANGED <<request, Report>>
BY BodyStays, RequestsStay DEF Report

\* A step that answers r, or lets it in, with something other than 200.
LEMMA StatusStep ==
    ASSUME IInv, [Next]_vars, NEW r \in Requests, NEW x \in {"asked", "400", "429", "503"},
           status[r] \in {"none", "asked"}, status' = [status EXCEPT ![r] = x], UNCHANGED outcome
    PROVE  UNCHANGED <<request, Report, Fetched, FailedCalls>>
<1>1. Body(r)' = Body(r)
  BY DEF Body, IInv, Types
<1>2. \A q \in Requests : q # r => Body(q)' = Body(q)
  BY BodyStays DEF IInv, Types
<1>. QED  BY <1>1, <1>2, RequestsStay DEF Report, Fetched, FailedCalls

LEMMA ApiInit == Init => Api!Init
<1>. SUFFICES ASSUME Init
              PROVE  Api!Init
  OBVIOUS
<1>1. /\ \A r \in Requests : Body(r) = None
      /\ {r \in Requests : outcome[r] = "ok"} = {} /\ {r \in Requests : outcome[r] = "error"} = {}
  BY DEF Init, Breaker!Init, Body
<1>. QED  BY <1>1, ComponentsInit DEF Init, Api!Init

LEMMA ApiStep == IInv /\ [Next]_vars => [Api!Next]_(Api!vars)
<1>. SUFFICES ASSUME IInv, [Next]_vars
              PROVE  [Api!Next]_(Api!vars)
  OBVIOUS
<1>. USE ComponentFacts
<1>1. request' = request
  BY RequestsStay
<1>2. CASE UNCHANGED <<status, outcome>>
  <2>1. UNCHANGED <<request, status, Report, Fetched, FailedCalls>>
    BY <1>2, QuietStep DEF Fetched, FailedCalls
  <2>. QED  BY <2>1 DEF Api!vars, Report, Fetched, FailedCalls
<1>3. ASSUME NEW r \in Requests, Arrive(r)
      PROVE  Api!Ask(r)
  <2>1. status[r] = "none" /\ status' = [status EXCEPT ![r] = "asked"] /\ UNCHANGED outcome
    BY <1>3 DEF Arrive, Limiter!Request, IInv, InStep, breakerVars
  <2>2. UNCHANGED <<request, Report, Fetched, FailedCalls>>
    BY <2>1, StatusStep
  <2>. QED  BY <2>1, <2>2 DEF Api!Ask, Report, Fetched, FailedCalls
<1>4. ASSUME NEW r \in Requests, Deny(r)
      PROVE  Api!TooManyRequests(r)
  <2>1. status[r] = "asked" /\ status' = [status EXCEPT ![r] = "429"] /\ UNCHANGED outcome
    BY <1>4 DEF Deny, Limiter!Deny, IInv, InStep, breakerVars
  <2>2. UNCHANGED <<request, Report, Fetched, FailedCalls>>
    BY <2>1, StatusStep
  <2>3. outcome[r] = "none"
    BY <1>4 DEF Deny, Limiter!Deny, IInv, InStep, Breaker!Stages
  <2>. QED  BY <2>1, <2>2, <2>3
            DEF Api!TooManyRequests, Api!Refuse, Report, Fetched, FailedCalls
<1>5. ASSUME NEW r \in Requests, Refuse(r)
      PROVE  Api!BadRequest(r)
  <2>1. status[r] = "asked" /\ status' = [status EXCEPT ![r] = "400"] /\ UNCHANGED outcome
    BY <1>5 DEF Refuse, LetThrough, breakerVars
  <2>2. UNCHANGED <<request, Report, Fetched, FailedCalls>>
    BY <2>1, StatusStep
  <2>3. ~Acceptable(request[r])
    BY <1>5 DEF Refuse, Acceptable
  <2>. QED  BY <2>1, <2>2, <2>3 DEF Api!BadRequest, Api!Refuse, Report, Fetched, FailedCalls
<1>6. ASSUME NEW r \in Requests, FetchForecast(r)
      PROVE  Api!Answers(r)
  <2>1. /\ outcome' = [outcome EXCEPT ![r] = "ok"] /\ UNCHANGED status
        /\ stage[r] = "calling"
    BY <1>6 DEF FetchForecast, Breaker!Finish
  <2>2. status[r] = "asked" /\ outcome[r] = "none" /\ Acceptable(request[r])
    BY <2>1 DEF IInv, InStep, Acceptable
  <2>3. UNCHANGED <<request, Report>>
    BY <2>1, QuietStep
  <2>4. Fetched' = Fetched \cup {r} /\ FailedCalls' = FailedCalls
    BY <2>1, <2>2 DEF Fetched, FailedCalls
  <2>. QED  BY <2>1, <2>2, <2>3, <2>4
            DEF Api!Answers, Api!Consulted, Report, Fetched, FailedCalls
<1>7. ASSUME NEW r \in Requests, Fail(r)
      PROVE  Api!Fails(r)
  <2>1. /\ outcome' = [outcome EXCEPT ![r] = "error"] /\ UNCHANGED status
        /\ stage[r] = "calling"
    BY <1>7 DEF Fail, Breaker!Finish
  <2>2. status[r] = "asked" /\ outcome[r] = "none" /\ Acceptable(request[r])
    BY <2>1 DEF IInv, InStep, Acceptable
  <2>3. UNCHANGED <<request, Report>>
    BY <2>1, QuietStep
  <2>4. FailedCalls' = FailedCalls \cup {r} /\ Fetched' = Fetched
    BY <2>1, <2>2 DEF Fetched, FailedCalls
  <2>. QED  BY <2>1, <2>2, <2>3, <2>4
            DEF Api!Fails, Api!Consulted, Report, Fetched, FailedCalls
<1>8. ASSUME NEW r \in Requests, Reject(r)
      PROVE  UNCHANGED Api!vars
  <2>1. /\ UNCHANGED status /\ outcome[r] = "none"
        /\ UNCHANGED outcome \/ outcome' = [outcome EXCEPT ![r] = "rejected"]
    BY <1>8 DEF Reject, Breaker!Enter, Breaker!Reject
  <2>2. UNCHANGED <<request, Report, Fetched, FailedCalls>>
    BY <2>1, QuietStep DEF Fetched, FailedCalls
  <2>. QED  BY <2>1, <2>2 DEF Api!vars, Report, Fetched, FailedCalls
<1>9. ASSUME NEW r \in Requests, Respond(r)
      PROVE  Api!Next
  <2>1. /\ status[r] = "asked" /\ UNCHANGED <<outcome, answer, request>>
        /\ status' = [status EXCEPT ![r] = StatusOf(pc[r])] /\ pc[r] \in {"done", "invalid", "failed"}
    BY <1>9 DEF Respond, serviceVars, breakerVars
  <2>2. CASE pc[r] = "invalid"
    <3>1. status' = [status EXCEPT ![r] = "400"]
      BY <2>1, <2>2 DEF StatusOf
    <3>2. UNCHANGED <<request, Report, Fetched, FailedCalls>>
      BY <2>1, <3>1, StatusStep
    <3>3. ~Acceptable(request[r])
      BY <2>2 DEF Acceptable
    <3>4. Api!BadRequest(r)
      BY <2>1, <3>1, <3>2, <3>3 DEF Api!BadRequest, Api!Refuse, Report, Fetched, FailedCalls
    <3>. QED  BY <3>4 DEF Api!Next
  <2>3. CASE pc[r] = "failed"
    <3>1. status' = [status EXCEPT ![r] = "503"]
      BY <2>1, <2>3 DEF StatusOf
    <3>2. UNCHANGED <<request, Report, Fetched, FailedCalls>>
      BY <2>1, <3>1, StatusStep
    <3>3. /\ outcome[r] # "ok" /\ Acceptable(request[r])
          /\ \E q \in Requests : outcome[q] = "error"
      BY <2>3 DEF IInv, InStep, CausedByFailure, Acceptable
    <3>4. Api!Unavailable(r)
      BY <2>1, <3>1, <3>2, <3>3 DEF Api!Unavailable, Api!Refuse, Report, Fetched, FailedCalls
    <3>. QED  BY <3>4 DEF Api!Next
  <2>4. CASE pc[r] = "done"
    <3>. PICK q : q = answer[r]
      OBVIOUS
    <3>1. status' = [status EXCEPT ![r] = "200"]
      BY <2>1, <2>4 DEF StatusOf
    <3>2. /\ q \in Requests /\ Acceptable(request[r]) /\ outcome[q] = "ok"
          /\ q # r => outcome[r] = "none" /\ Service!Encodable(request[q].point)
      <4>1. q \in Requests /\ Acceptable(request[r])
        BY <2>4 DEF IInv, InStep, Acceptable
      <4>2. CASE q = r
        <5>1. InStep(r) /\ answer[r] = r
          BY <4>2 DEF IInv
        <5>. QED  BY <2>4, <4>1, <4>2, <5>1 DEF InStep
      <4>3. CASE q # r
        <5>1. outcome[r] = "none"
          BY <2>4, <4>3 DEF IInv, InStep
        <5>2. Service!Encodable(request[q].point) /\ stored[q] >= 0
          BY <4>1, <4>3, NoneAssumption
        <5>. QED  BY <4>1, <4>3, <5>1, <5>2 DEF IInv, InStep
      <4>. QED  BY <4>1, <4>2, <4>3
    <3>3. Fetched' = Fetched /\ FailedCalls' = FailedCalls /\ q \in Fetched
      BY <2>1, <3>2 DEF Fetched, FailedCalls
    <3>4. \A p \in Requests : p # r => Body(p)' = Body(p)
      BY <3>1, BodyStays DEF IInv, Types
    <3>5. Body(r)' = (IF Writable(request[q]) THEN q ELSE None) /\ Body(r) = None
      BY <2>1, <3>1 DEF Body, Writable, IInv, Types, Service!Encodable
    <3>6. CASE Writable(request[q])
      <4>1. Report' = [Report EXCEPT ![r] = q]
        BY <3>4, <3>5, <3>6 DEF Report
      <4>2. q # r => SamePlace(request[r], request[q])
        BY <3>2, NoneAssumption, ServiceAssumptions, PlacesAssumption, ServiceP!AnswersMatchNow
           DEF IInv, ServiceP!AnswersMatchLocation, SamePlace, Service!Near, ServiceP!Near,
               Service!Magnitude, ServiceP!Magnitude
      <4>3. Api!Serve(r, q)
        BY <2>1, <3>1, <3>2, <3>3, <3>6, <4>1, <4>2 DEF Api!Serve, Report, Fetched, FailedCalls
      <4>. QED  BY <3>2, <4>3 DEF Api!Next
    <3>7. CASE ~Writable(request[q])
      <4>1. UNCHANGED Report /\ q = r
        BY <3>2, <3>4, <3>5, <3>7 DEF Report, Writable
      <4>2. Api!ServeNothing(r)
        BY <2>1, <3>1, <3>2, <3>3, <3>7, <4>1 DEF Api!ServeNothing, Report, Fetched, FailedCalls
      <4>. QED  BY <4>2 DEF Api!Next
    <3>. QED  BY <3>6, <3>7
  <2>. QED  BY <2>1, <2>2, <2>3, <2>4
<1>10. \/ UNCHANGED <<status, outcome>>
       \/ \E r \in Requests : \/ Arrive(r) \/ Deny(r) \/ Refuse(r) \/ Reject(r)
                              \/ FetchForecast(r) \/ Fail(r) \/ Respond(r)
  BY DEF Next, vars, Tick, Handle, Grant, Begin, Lookup, Admit, GetForecastURL, Warn, Return,
         Store, SkipLog, breakerVars, Breaker!Admit, Breaker!Warn, Breaker!Return
<1>. QED  BY <1>2, <1>3, <1>4, <1>5, <1>6, <1>7, <1>8, <1>9, <1>10 DEF Api!Next

\* The pipeline keeps what the route promises its clients, for any requests,
\* settings and order in which they and the weather API's answers come.
THEOREM KeepsPromise == Spec => ImplementsApi
<1>. QED  BY ApiInit, ApiStep, Invariance, PTL DEF Spec, ImplementsApi, Api!Spec

-----------------------------------------------------------------------------
\* What an answer means to the client that has it.
AnswersMean ==
    \A r \in Requests :
        /\ r \in Fetched \cup FailedCalls => Acceptable(request[r]) /\ status[r] # "none"
        /\ r \notin Fetched \cap FailedCalls
        /\ status[r] # "200" => Report[r] = None
        /\ status[r] = "200" =>
             /\ Acceptable(request[r])
             /\ \/ Report[r] = None /\ r \in Fetched /\ ~Writable(request[r])
                \/ Report[r] = r /\ r \in Fetched /\ Writable(request[r])
                \/ /\ r \notin Fetched \cup FailedCalls
                   /\ \E q \in Fetched : /\ Report[r] = q /\ Writable(request[q])
                                         /\ SamePlace(request[r], request[q])
        /\ status[r] = "503" =>
             r \notin Fetched /\ FailedCalls # {} /\ Acceptable(request[r])
        /\ status[r] = "400" => ~Acceptable(request[r])
        /\ status[r] = "429" => r \notin Fetched \cup FailedCalls

\* The rest of the behaviour of an answered request: none.
AnswersFinal ==
    \A r \in Requests : status[r] \notin {"none", "asked"} =>
        /\ status'[r] = status[r] /\ Report'[r] = Report[r]
        /\ r \in Fetched' <=> r \in Fetched
        /\ r \in FailedCalls' <=> r \in FailedCalls

\* Both follow from the promise of the route, whoever keeps it.
LEMMA PromiseMeans ==
    ASSUME AnswersMean, Api!Next, status \in [Requests -> {"none", "asked", "200", "400", "429", "503"}],
           Fetched \subseteq Requests, FailedCalls \subseteq Requests
    PROVE  AnswersMean' /\ AnswersFinal
<1>. USE DEF AnswersMean, AnswersFinal
<1>. Report \in [Requests -> {Body(r) : r \in Requests}]
  BY DEF Report
<1>1. ASSUME NEW r \in Requests, Api!Ask(r)
      PROVE  AnswersMean' /\ AnswersFinal
  <2>1. /\ status[r] = "none" /\ status' = [status EXCEPT ![r] = "asked"]
        /\ UNCHANGED <<request, Report, Fetched, FailedCalls>>
    BY <1>1 DEF Api!Ask, Report, Fetched, FailedCalls
  <2>. QED  BY <2>1
<1>2. ASSUME NEW r \in Requests, Api!Answers(r) \/ Api!Fails(r)
      PROVE  AnswersMean' /\ AnswersFinal
  <2>1. /\ status[r] = "asked" /\ r \notin Fetched \cup FailedCalls /\ Acceptable(request[r])
        /\ UNCHANGED <<request, status, Report>>
        /\ \/ Fetched' = Fetched \cup {r} /\ FailedCalls' = FailedCalls
           \/ Fetched' = Fetched /\ FailedCalls' = FailedCalls \cup {r}
    BY <1>2 DEF Api!Answers, Api!Fails, Api!Consulted, Report, Fetched, FailedCalls
  <2>. QED  BY <2>1
<1>3. ASSUME NEW r \in Requests, NEW q \in Requests, Api!Serve(r, q)
      PROVE  AnswersMean' /\ AnswersFinal
  <2>1. /\ status[r] = "asked" /\ q \in Fetched
        /\ Acceptable(request[r]) /\ Writable(request[q])
        /\ q # r => r \notin Fetched \cup FailedCalls /\ SamePlace(request[r], request[q])
        /\ status' = [status EXCEPT ![r] = "200"] /\ Report' = [Report EXCEPT ![r] = q]
        /\ UNCHANGED <<request, Fetched, FailedCalls>>
    BY <1>3 DEF Api!Serve, Report, Fetched, FailedCalls
  <2>. QED  BY <2>1
<1>4. ASSUME NEW r \in Requests, Api!ServeNothing(r)
      PROVE  AnswersMean' /\ AnswersFinal
  <2>1. /\ status[r] = "asked" /\ r \in Fetched /\ ~Writable(request[r])
        /\ status' = [status EXCEPT ![r] = "200"]
        /\ UNCHANGED <<request, Report, Fetched, FailedCalls>>
    BY <1>4 DEF Api!ServeNothing, Report, Fetched, FailedCalls
  <2>. QED  BY <2>1
<1>5. ASSUME NEW r \in Requests,
             Api!BadRequest(r) \/ Api!TooManyRequests(r) \/ Api!Unavailable(r)
      PROVE  AnswersMean' /\ AnswersFinal
  <2>1. /\ status[r] = "asked" /\ UNCHANGED <<request, Report, Fetched, FailedCalls>>
        /\ \/ status' = [status EXCEPT ![r] = "400"] /\ ~Acceptable(request[r])
           \/ status' = [status EXCEPT ![r] = "429"] /\ r \notin Fetched \cup FailedCalls
           \/ /\ status' = [status EXCEPT ![r] = "503"] /\ r \notin Fetched
              /\ FailedCalls # {} /\ Acceptable(request[r])
    BY <1>5 DEF Api!BadRequest, Api!TooManyRequests, Api!Unavailable, Api!Refuse,
                Report, Fetched, FailedCalls
  <2>. QED  BY <2>1
<1>. QED  BY <1>1, <1>2, <1>3, <1>4, <1>5 DEF Api!Next

\* What a client may conclude from its answer: a 200 has the report the weather
\* API gave this very request or, without having asked it for this one, that
\* of another for the same place, and no body only for a place that is none; a
\* 503 says that the weather API has failed and did not answer this request;
\* with 400 and 429 it was not asked.  And no answer is ever taken back.
THEOREM AnswersStand == Spec => []AnswersMean /\ [][AnswersFinal]_vars
<1>1. Init => AnswersMean
  BY DEF Init, Breaker!Init, AnswersMean, Report, Fetched, FailedCalls, Body
<1>2. ASSUME IInv, AnswersMean, [Next]_vars
      PROVE  AnswersMean' /\ AnswersFinal
  <2>1. /\ status \in [Requests -> {"none", "asked", "200", "400", "429", "503"}]
        /\ Fetched \subseteq Requests /\ FailedCalls \subseteq Requests
    BY <1>2 DEF IInv, Types, Fetched, FailedCalls
  <2>2. CASE Api!Next
    BY <1>2, <2>1, <2>2, PromiseMeans
  <2>3. CASE UNCHANGED Api!vars
    <3>1. UNCHANGED <<request, status, Report, Fetched, FailedCalls>>
      BY <2>3 DEF Api!vars, Report, Fetched, FailedCalls
    <3>. QED  BY <1>2, <3>1 DEF AnswersMean, AnswersFinal
  <2>. QED  BY <1>2, <2>2, <2>3, ApiStep
<1>3. IInv /\ AnswersMean /\ [Next]_vars => AnswersMean' /\ [AnswersFinal]_vars
  BY <1>2
<1>. QED  BY <1>1, <1>3, Invariance, PTL DEF Spec

-----------------------------------------------------------------------------
\* A request that has missed came after every report for its place had expired
\* or before it was stored.
MissedInTime ==
    \A r \in Requests :
        /\ stamp[r] <= clock
        /\ pc[r] \in {"fetch", "failed"} =>
             \A q \in Requests :
                 (/\ stored[q] >= 0 /\ stored[q] < stamp[r]
                  /\ Service!Key(request[q].point) = Service!Key(request[r].point))
                     => clock > stored[q] + TTL

\* What a step may do to the clock, to what was stored, and to a request that
\* is to fetch or has failed to.
LEMMA ServiceMoves ==
    ASSUME IInv, [Next]_vars
    PROVE  /\ clock' \in {clock, clock + 1}
           /\ \A q \in Requests : stored'[q] \in {stored[q], clock}
           /\ \A r \in Requests : pc'[r] \in {"fetch", "failed"} =>
                  pc[r] \in {"fetch", "failed"} \/ Service!LookupMiss(r)
<1>. USE ComponentFacts DEF Service!Stages
<1>1. CASE Service!Tick \/ \E k \in Service!Keys : Service!Evict(k)
  BY <1>1 DEF Service!Tick, Service!Evict
<1>2. CASE UNCHANGED Service!vars
  BY <1>2 DEF Service!vars
<1>3. ASSUME NEW p \in Requests, Service!Begin(p) \/ Service!LookupHit(p)
      PROVE  /\ UNCHANGED <<clock, stored>> /\ pc[p] \in {"idle", "lookup"}
             /\ \E x \in {"lookup", "invalid", "log"} : pc' = [pc EXCEPT ![p] = x]
  BY <1>3 DEF Service!Begin, Service!LookupHit
<1>4. ASSUME NEW p \in Requests, Service!LookupMiss(p)
      PROVE  UNCHANGED <<clock, stored>> /\ pc' = [pc EXCEPT ![p] = "fetch"]
  BY <1>4 DEF Service!LookupMiss
<1>5. ASSUME NEW p \in Requests, Service!Fetch(p) \/ Service!FetchFail(p)
      PROVE  /\ UNCHANGED <<clock, stored>> /\ pc[p] = "fetch"
             /\ \E x \in {"store", "failed"} : pc' = [pc EXCEPT ![p] = x]
  BY <1>5 DEF Service!Fetch, Service!FetchFail
<1>6. ASSUME NEW p \in Requests, Service!Store(p) \/ Service!StoreFail(p)
      PROVE  /\ UNCHANGED clock /\ pc' = [pc EXCEPT ![p] = "log"]
             /\ \A q \in Requests : stored'[q] \in {stored[q], clock}
  BY <1>6 DEF Service!Store, Service!StoreFail
<1>7. ASSUME NEW p \in Requests,
             \/ Service!Call(p) \/ Service!Log(p) \/ Service!LogFail(p) \/ Service!LogAbort(p)
      PROVE  /\ UNCHANGED <<clock, stored>>
             /\ \E x \in {"write", "done"} : pc' = [pc EXCEPT ![p] = x]
  BY <1>7 DEF Service!Call, Service!Log, Service!LogFail, Service!LogAbort
<1>8. \/ Service!Tick \/ \E k \in Service!Keys : Service!Evict(k)
      \/ UNCHANGED Service!vars
      \/ \E p \in Requests :
            \/ Service!Begin(p) \/ Service!LookupHit(p) \/ Service!LookupMiss(p)
            \/ Service!Fetch(p) \/ Service!FetchFail(p)
            \/ Service!Store(p) \/ Service!StoreFail(p)
            \/ Service!Call(p) \/ Service!Log(p) \/ Service!LogFail(p) \/ Service!LogAbort(p)
  BY ServiceSteps DEF Service!Next, Service!GetWeather
<1>. QED  BY <1>1, <1>2, <1>3, <1>4, <1>5, <1>6, <1>7, <1>8

LEMMA MissedStep == IInv /\ MissedInTime /\ [Next]_vars => MissedInTime'
<1>. SUFFICES ASSUME IInv, MissedInTime, [Next]_vars
              PROVE  MissedInTime'
  OBVIOUS
<1>1. request' = request /\ clock \in Nat /\ clock' \in {clock, clock + 1}
  BY RequestsStay, ServiceMoves, ComponentFacts
<1>2. \A r \in Requests : /\ stamp[r] \in Nat /\ stamp[r] <= clock
                          /\ stamp'[r] = stamp[r] \/ (stamp'[r] = clock /\ verdict[r] = "none")
                          /\ verdict[r] # "none" => verdict'[r] # "none"
  BY LimiterSteps DEF IInv, Types, MissedInTime, Limiter!Next, Limiter!vars, Limiter!Tick,
                      Limiter!Request, Limiter!Grant, Limiter!Deny
<1>3. \A r \in Requests : stamp'[r] <= clock'
  BY <1>1, <1>2
<1>4. ASSUME NEW r \in Requests, pc'[r] \in {"fetch", "failed"}, NEW q \in Requests,
             stored'[q] >= 0, stored'[q] < stamp'[r],
             Service!Key(request[q].point) = Service!Key(request[r].point)
      PROVE  clock' > stored'[q] + TTL
  <2>1. pc[r] \in {"fetch", "failed"} \/ Service!LookupMiss(r)
    BY <1>4, ServiceMoves
  <2>2. pc[r] # "idle" /\ stamp'[r] = stamp[r] /\ stamp[r] <= clock
    <3>1. pc[r] # "idle" /\ verdict[r] # "none"
      BY <2>1 DEF Service!LookupMiss, IInv, InStep
    <3>. QED  BY <1>2, <3>1
  <2>3. stored'[q] = stored[q] /\ stored[q] \in Int
    BY <1>1, <1>2, <1>4, <2>2, ServiceMoves, ComponentFacts
  <2>4. CASE pc[r] \in {"fetch", "failed"}
    BY <1>1, <1>4, <2>2, <2>3, <2>4, SettingsAssumption DEF MissedInTime
  <2>5. CASE Service!LookupMiss(r)
    <3>. PICK k : k = Service!Key(request[r].point)
      OBVIOUS
    <3>1. ~Service!Live(k)
      BY <2>5 DEF Service!LookupMiss, IInv, ServiceP!IInv, ServiceP!TypeOK
    <3>2. cache[k] # None /\ cache[k].stored >= stored[q] /\ cache[k].stored \in Nat
      <4>1. k \in ServiceP!Keys /\ k = ServiceP!Key(request[q].point) /\ backend = "memory"
        BY <1>4, SameKey DEF IInv, Types, ServiceP!Keys, ServiceP!IInv, ServiceP!TypeOK
      <4>2. ServiceP!MemoryKeeps /\ ServiceP!TypeOK /\ stored[q] >= 0
        BY <1>4, <2>3 DEF IInv, ServiceP!IInv
      <4>3. cache[k] # None /\ cache[k].stored >= stored[q]
        BY <4>1, <4>2 DEF ServiceP!MemoryKeeps
      <4>. QED  BY <4>1, <4>2, <4>3 DEF ServiceP!TypeOK, ServiceP!Entries
    <3>. QED  BY <1>1, <2>3, <3>1, <3>2, SettingsAssumption DEF Service!Live
  <2>. QED  BY <2>1, <2>4, <2>5
<1>. QED  BY <1>1, <1>3, <1>4 DEF MissedInTime

\* An outage does not reach a place whose report is still cached.
THEOREM CachedPlacesSpared == Spec => OutageSparesCached
<1>. DEFINE A == \A r \in Requests : (status[r] = "asked" /\ status'[r] = "503") =>
                   ~ \E q \in Requests :
                        /\ stored[q] >= 0 /\ stored[q] < stamp[r]
                        /\ Service!Key(request[q].point) = Service!Key(request[r].point)
                        /\ clock <= stored[q] + TTL
<1>1. Init => MissedInTime
  BY SettingsAssumption DEF Init, Limiter!Init, Service!Init, MissedInTime
<1>2. ASSUME IInv, MissedInTime, [Next]_vars
      PROVE  A
  <2>. SUFFICES ASSUME NEW r \in Requests, status[r] = "asked", status'[r] = "503"
                PROVE  ~ \E q \in Requests :
                            /\ stored[q] >= 0 /\ stored[q] < stamp[r]
                            /\ Service!Key(request[q].point) = Service!Key(request[r].point)
                            /\ clock <= stored[q] + TTL
    OBVIOUS
  <2>1. pc[r] = "failed"
    <3>1. Respond(r)
      BY <1>2
      DEF Next, vars, Tick, Handle, Grant, Begin, Lookup, Admit, GetForecastURL, Warn, Return,
         Store, SkipLog, Arrive, Deny, Refuse, Reject, FetchForecast, Fail, Respond, IInv, Types
    <3>. QED  BY <3>1, <1>2 DEF Respond, StatusOf, IInv, Types
  <2>. QED  BY <1>2, <2>1, ComponentFacts, SettingsAssumption DEF MissedInTime
<1>3. IInv /\ MissedInTime /\ [Next]_vars => [A]_vars
  BY <1>2
<1>4. Spec => []MissedInTime
  BY <1>1, MissedStep, Invariance, PTL DEF Spec
<1>. QED  BY <1>3, <1>4, Invariance, PTL DEF Spec, OutageSparesCached

-----------------------------------------------------------------------------
\* What the limiter has granted to an address after time t.
Granted(id, t) ==
    {q \in Requests : verdict[q] = "allowed" /\ ClientIP(request[q].from) = id /\ stamp[q] > t}

LimitKept == \A id : Cardinality(Granted(id, clock - Window)) <= Limit

\* They are the grants the promise of the limiter is about.
LEMMA GrantsOfPromise ==
    /\ \A S : LimiterP!Cardinality(S) = Cardinality(S) /\ Limiter!Cardinality(S) = Cardinality(S)
    /\ \A id, t : /\ LimiterP!GrantsAfter(id, t) = Granted(id, t)
                  /\ Limiter!GrantsAfter(id, t) = Granted(id, t)
BY DEF LimiterP!Cardinality, Limiter!Cardinality, Cardinality,
       LimiterP!GrantsAfter, Limiter!GrantsAfter, Granted

LEMMA GrantedFinite ==
    \A id, t : IsFiniteSet(Granted(id, t)) /\ Cardinality(Granted(id, t)) \in Nat
<1>1. \A id, t : Granted(id, t) \in SUBSET Requests
  BY DEF Granted
<1>2. \A id, t : IsFiniteSet(Granted(id, t))
  BY <1>1, ScenariosAssumption, FS_Subset
<1>. QED  BY <1>2, FS_CardinalityType

\* The pipeline's limiter keeps the promise, and what follows from it.
LEMMA LimiterKept == Spec => [](LimiterP!TypeOK /\ LimiterP!LimitKept)
BY ComponentsInit, LimiterSteps, SameLimiter, LimiterInvariance, PTL DEF Spec

\* Of the requests made from one address in a window, however they overtake each
\* other on their way, no more than Limit are ever granted.
THEOREM AddressesLimited == Spec => []LimitKept
<1>1. LimiterP!LimitKept => LimitKept
  BY GrantsOfPromise DEF LimitKept, LimiterP!LimitKept, LimiterP!InWindow
<1>. QED  BY <1>1, LimiterKept, PTL

\* Every client is named by one address, whichever way its requests come.
OneAddress == \A a, b \in Asks : a.client = b.client => ClientIP(a.from) = ClientIP(b.from)

\* Then no client is granted more than Limit of its requests in a window.
THEOREM ClientsAreLimited ==
    ASSUME OneAddress
    PROVE  Spec => []ClientsLimited
<1>1. IInv /\ LimitKept => ClientsLimited
  <2>. SUFFICES ASSUME IInv, LimitKept, NEW a \in Asks
                PROVE  Cardinality({r \in Requests :
                          /\ request[r].client = a.client /\ verdict[r] = "allowed"
                          /\ stamp[r] > clock - Window}) <= Limit
    BY DEF ClientsLimited
  <2>. DEFINE mine == {r \in Requests : /\ request[r].client = a.client /\ verdict[r] = "allowed"
                                        /\ stamp[r] > clock - Window}
              W == Granted(ClientIP(a.from), clock - Window)
  <2>1. mine \subseteq W
    BY DEF OneAddress, Granted, IInv, Types
  <2>2. IsFiniteSet(W) /\ Cardinality(W) \in Nat /\ Cardinality(W) <= Limit
    BY GrantedFinite DEF LimitKept
  <2>3. Cardinality(mine) <= Cardinality(W) /\ Cardinality(mine) \in Nat
    BY <2>1, <2>2, FS_Subset, FS_CardinalityType
  <2>. HIDE DEF mine, W
  <2>4. Cardinality(mine) <= Limit
    BY <2>2, <2>3, SettingsAssumption
  <2>. QED  BY <2>4 DEF mine
<1>. QED  BY <1>1, AddressesLimited, Invariance, PTL

\* Every variable has its type and the components agree on where a request is,
\* for any requests and settings.
THEOREM TypeCorrect == Spec => []TypeOK
<1>1. Init => MissedInTime
  BY SettingsAssumption DEF Init, Limiter!Init, Service!Init, MissedInTime
<1>2. Spec => []MissedInTime
  BY <1>1, MissedStep, Invariance, PTL DEF Spec
<1>3. ASSUME IInv, MissedInTime
      PROVE  TypeOK
  <2>1. Service!TypeOK
    <3>1. ServiceP!TypeOK
      BY <1>3 DEF IInv, ServiceP!IInv
    <3>. QED  BY <3>1, SameKey DEF Service!TypeOK, ServiceP!TypeOK, Service!Stages,
              ServiceP!Stages, Service!Entries, ServiceP!Entries, Service!Records, ServiceP!Records
  <2>2. Breaker!TypeOK
    <3>1. BreakerP!TypeOK
      BY <1>3 DEF IInv, BreakerP!IInv
    <3>. QED  BY <3>1 DEF Breaker!TypeOK, BreakerP!TypeOK, Breaker!Stages, BreakerP!Stages,
              Breaker!States, BreakerP!States, Breaker!Breakers, BreakerP!Breakers,
              Breaker!Tallies, BreakerP!Tallies, Breaker!NoCounts, BreakerP!NoCounts
  <2>3. stamp \in [Requests -> 0 .. MaxTime]
    <3>1. clock \in 0 .. MaxTime
      BY <2>2 DEF Breaker!TypeOK
    <3>. QED  BY <1>3, <3>1, SettingsAssumption DEF IInv, Types, MissedInTime
  <2>. QED  BY <1>3, <2>1, <2>2, <2>3 DEF TypeOK, IInv, Types, InStep
<1>4. IInv /\ MissedInTime => TypeOK
  BY <1>3
<1>. QED  BY <1>2, <1>4, Invariance, PTL
-----------------------------------------------------------------------------
\* One of the steps of Handle(r) can be taken: the guards of its actions, for a
\* request in InStep.  TLC finds ENABLED Handle(r) wherever it is asked for an
\* answer (NoRequestStuck); no prover knows what ENABLED is, but guards they do.
Turn(r) ==
    \/ /\ verdict[r] = "pending"
       /\ \/ Cardinality(Granted(ClientIP(request[r].from), clock - Window)) < Limit
          \/ Cardinality(Granted(ClientIP(request[r].from), stamp[r] - Window)) >= Limit
    \/ LetThrough(r) /\ (request[r].form # "given" \/ pc[r] = "idle")
    \/ pc[r] \in {"lookup", "store", "log"}
    \/ pc[r] = "fetch" /\ stage[r] \in {"idle", "entered", "failed", "closing"}
    \/ exchange[r] # "none" /\ stage[r] = "calling"
    \/ status[r] = "asked" /\ pc[r] \in {"invalid", "failed", "done"}

\* The steps a request may have before it, at most.
Rank(r) ==
    CASE status[r] = "none"                                        -> 14
      [] status[r] = "asked" /\ verdict[r] = "pending"             -> 13
      [] LetThrough(r) /\ pc[r] = "idle"                           -> 12
      [] LetThrough(r) /\ pc[r] = "lookup"                         -> 11
      [] LetThrough(r) /\ pc[r] = "fetch" /\ stage[r] = "idle"     -> 10
      [] LetThrough(r) /\ pc[r] = "fetch" /\ stage[r] = "entered"  -> 9
      [] LetThrough(r) /\ exchange[r] = "points"                   -> 8
      [] LetThrough(r) /\ exchange[r] = "forecast"                 -> 7
      [] LetThrough(r) /\ pc[r] = "fetch" /\ stage[r] = "failed"   -> 6
      [] LetThrough(r) /\ pc[r] = "fetch" /\ stage[r] = "closing"  -> 5
      [] LetThrough(r) /\ pc[r] = "store"                          -> 4
      [] LetThrough(r) /\ pc[r] = "log"                            -> 3
      [] LetThrough(r) /\ pc[r] \in {"invalid", "failed", "done"}  -> 2
      [] OTHER                                                     -> 0

\* Whatever the limiter, the breaker and the other requests have done, a request
\* that waits for its answer has a step of its own to take: a place in the
\* window or a denial, a cache that hits or misses, a breaker that admits or
\* rejects, a service that returns to the handler.
THEOREM NoneWaitsForAnother ==
    Spec => [](\A r \in Requests : status[r] = "asked" => Turn(r))
<1>2. ASSUME IInv, LimiterP!TypeOK, NEW r \in Requests, status[r] = "asked"
      PROVE  Turn(r)
  <2>1. CASE verdict[r] = "pending"
    <3>1. LimiterP!MayGrant(r) \/ LimiterP!MayDeny(r)
      BY <1>2, LimiterAssumptions, LimiterP!Decidable
    <3>. QED  BY <2>1, <3>1, GrantsOfPromise DEF Turn, LimiterP!MayGrant, LimiterP!MayDeny
  <2>2. CASE verdict[r] # "pending"
    BY <1>2, <2>2, ComponentFacts
    DEF Turn, LetThrough, IInv, InStep, Types, Limiter!Verdicts, Service!Stages, Breaker!Stages
  <2>. QED  BY <2>1, <2>2
<1>3. IInv /\ LimiterP!TypeOK => \A r \in Requests : status[r] = "asked" => Turn(r)
  BY <1>2
<1>. QED  BY <1>3, LimiterKept, Invariance, PTL DEF Spec

PlaceKey(r) == Service!Key(request[r].point)
Fetching(r, where) == pc[r] = "fetch" /\ stage[r] = where
Turned(r) == Fetching(r, "entered") /\ (Breaker!Current.state = "open" \/ Breaker!Saturated)
Admitted(r) == Fetching(r, "entered") /\ ~(Breaker!Current.state = "open" \/ Breaker!Saturated)
Stores(r) == pc[r] = "store" /\ Service!Encodable(request[r].point)
Fails(r) == Fetching(r, "closing") /\ outcome[r] # "ok"
Pending(r) == verdict[r] = "pending"

\* What a request that waits may do next: the limiter decides by its windows,
\* the handler and the service go on, and the weather API, should it be asked,
\* keeps the request waiting for too long.
VerdictThen(r) ==
    CASE Pending(r) /\ LimiterP!MayGrant(r)  -> "allowed"
      [] Pending(r) /\ ~LimiterP!MayGrant(r) -> "denied"
      [] OTHER -> verdict[r]
StatusThen(r) ==
    CASE Pending(r) /\ ~LimiterP!MayGrant(r) -> "429"
      [] ~Pending(r) /\ pc[r] = "idle" /\ request[r].form # "given" -> "400"
      [] pc[r] \in {"invalid", "failed", "done"} -> StatusOf(pc[r])
      [] OTHER -> "asked"
PcThen(r) ==
    CASE ~Pending(r) /\ pc[r] = "idle" /\ request[r].form = "given" ->
            IF Service!Valid(request[r].point) THEN "lookup" ELSE "invalid"
      [] pc[r] = "lookup" -> IF Service!Live(PlaceKey(r)) THEN "log" ELSE "fetch"
      [] Fetching(r, "closing") -> IF outcome[r] = "ok" THEN "store" ELSE "failed"
      [] pc[r] = "store" -> "log"
      [] pc[r] = "log" -> "done"
      [] OTHER -> pc[r]
AnswerThen(r) ==
    CASE pc[r] = "lookup" /\ Service!Live(PlaceKey(r)) -> cache[PlaceKey(r)].weather
      [] Fetching(r, "closing") /\ outcome[r] = "ok" -> r
      [] OTHER -> answer[r]
StageThen(r) ==
    CASE Fetching(r, "idle") -> "entered"
      [] Turned(r) \/ Fetching(r, "calling") -> "failed"
      [] Admitted(r) -> "calling"
      [] Fetching(r, "failed") -> "closing"
      [] Fetching(r, "closing") -> "done"
      [] OTHER -> stage[r]
OutcomeThen(r) ==
    CASE Turned(r) -> "rejected" [] Fetching(r, "calling") -> "error" [] OTHER -> outcome[r]
BreakerThen(r) ==
    CASE pc[r] # "fetch" -> breaker
      [] Admitted(r) -> [Breaker!Current EXCEPT !.counts.requests = @ + 1]
      [] Fetching(r, "calling") /\ Breaker!Counts(r) -> Breaker!AfterFailure(Breaker!Current)
      [] OTHER -> Breaker!Current
Trips(r) == Fetching(r, "calling") /\ BreakerThen(r).state = "open" /\ breaker.state # "open"

\* The state after it: one value for every variable, and no condition.
Move(r) ==
    /\ UNCHANGED <<clock, request, stamp, backend, began, written, rows>>
    /\ verdict' = [verdict EXCEPT ![r] = VerdictThen(r)]
    /\ status' = [status EXCEPT ![r] = StatusThen(r)]
    /\ pc' = [pc EXCEPT ![r] = PcThen(r)]
    /\ answer' = [answer EXCEPT ![r] = AnswerThen(r)]
    /\ cache' = IF Stores(r)
                THEN [cache EXCEPT ![PlaceKey(r)] = [weather |-> r, stored |-> clock]]
                ELSE cache
    /\ stored' = [stored EXCEPT ![r] = IF Stores(r) THEN clock ELSE stored[r]]
    /\ refused' = IF Fails(r) THEN refused \cup {r} ELSE refused
    /\ breaker' = BreakerThen(r)
    /\ stage' = [stage EXCEPT ![r] = StageThen(r)]
    /\ gen' = [gen EXCEPT ![r] = IF Admitted(r) THEN Breaker!Current.generation ELSE gen[r]]
    /\ outcome' = [outcome EXCEPT ![r] = OutcomeThen(r)]
    /\ trippedAt' = IF Trips(r) THEN clock ELSE trippedAt
    /\ exchange' = [exchange EXCEPT ![r] = IF Admitted(r) THEN "points" ELSE "none"]

LEMMA Unmoved ==
    ASSUME NEW S, NEW f \in [Requests -> S], NEW r \in Requests, NEW e, e = f[r]
    PROVE  [f EXCEPT ![r] = e] = f
  OBVIOUS

\* What Move leaves alone, where the request has nothing to change there.
LEMMA MoveKeeps ==
    ASSUME IInv, NEW r \in Requests, Move(r)
    PROVE  /\ VerdictThen(r) = verdict[r] => verdict' = verdict
           /\ StatusThen(r) = status[r] => status' = status
           /\ PcThen(r) = pc[r] => pc' = pc
           /\ AnswerThen(r) = answer[r] => answer' = answer
           /\ ~Stores(r) => cache' = cache /\ stored' = stored
           /\ StageThen(r) = stage[r] => stage' = stage
           /\ ~Admitted(r) => gen' = gen
           /\ OutcomeThen(r) = outcome[r] => outcome' = outcome
           /\ (~Admitted(r) /\ exchange[r] = "none") => exchange' = exchange
<1>0. /\ pc \in [Requests -> Service!Stages] /\ answer \in [Requests -> Requests \cup {None}]
      /\ stored \in [Requests -> Int] /\ stage \in [Requests -> Breaker!Stages]
      /\ outcome \in [Requests -> {"none", "rejected", "ok", "error"}]
      /\ gen \in [Requests -> Nat] /\ Types
  BY ComponentFacts DEF IInv, BreakerP!IInv, BreakerP!TypeOK
<1>1. VerdictThen(r) = verdict[r] => verdict' = verdict
  BY <1>0, Unmoved DEF Move, Types
<1>2. StatusThen(r) = status[r] => status' = status
  BY <1>0, Unmoved DEF Move, Types
<1>3. PcThen(r) = pc[r] => pc' = pc
  BY <1>0, Unmoved DEF Move
<1>4. AnswerThen(r) = answer[r] => answer' = answer
  BY <1>0, Unmoved DEF Move
<1>5. ~Stores(r) => cache' = cache /\ stored' = stored
  BY <1>0, Unmoved DEF Move
<1>6. StageThen(r) = stage[r] => stage' = stage
  BY <1>0, Unmoved DEF Move
<1>7. ~Admitted(r) => gen' = gen
  BY <1>0, Unmoved DEF Move
<1>8. OutcomeThen(r) = outcome[r] => outcome' = outcome
  BY <1>0, Unmoved DEF Move
<1>9. (~Admitted(r) /\ exchange[r] = "none") => exchange' = exchange
  BY <1>0, Unmoved DEF Move, Types
<1>. QED  BY <1>1, <1>2, <1>3, <1>4, <1>5, <1>6, <1>7, <1>8, <1>9

LEMMA MoveInLimiter ==
    ASSUME IInv, LimiterP!TypeOK, NEW r \in Requests, status[r] = "asked", Move(r), Pending(r)
    PROVE  Grant(r) \/ Deny(r)
<1>1. /\ pc[r] = "idle" /\ stage[r] = "idle" /\ exchange[r] = "none" /\ request' = request
      /\ Types
  BY ComponentFacts DEF IInv, InStep, Service!Stages, Breaker!Stages, Pending, Move
<1>2. /\ PcThen(r) = pc[r] /\ AnswerThen(r) = answer[r] /\ ~Stores(r) /\ StageThen(r) = stage[r]
      /\ ~Admitted(r) /\ OutcomeThen(r) = outcome[r] /\ BreakerThen(r) = breaker /\ ~Trips(r)
  BY <1>1 DEF PcThen, AnswerThen, Stores, StageThen, Admitted, OutcomeThen, BreakerThen, Trips,
              Fetching, Turned, Pending
<1>3. UNCHANGED <<clock, request, stamp, serviceVars, breakerVars, exchange>>
  BY <1>1, <1>2, MoveKeeps DEF Move, serviceVars, breakerVars, Fails, Fetching
<1>4. CASE LimiterP!MayGrant(r)
  <2>1. VerdictThen(r) = "allowed" /\ StatusThen(r) = status[r]
    BY <1>1, <1>4 DEF VerdictThen, StatusThen, Pending
  <2>2. status' = status
    BY <2>1, MoveKeeps
  <2>3. Cardinality(Granted(ClientIP(request[r].from), clock - Window)) < Limit
    BY <1>4, GrantsOfPromise DEF LimiterP!MayGrant
  <2>4. Grant(r)
    BY <1>3, <2>1, <2>2, <2>3, GrantsOfPromise DEF Move, Grant, Limiter!Grant, Pending
  <2>. QED  BY <2>4
<1>5. CASE ~LimiterP!MayGrant(r)
  <2>1. VerdictThen(r) = "denied" /\ StatusThen(r) = "429" /\ LimiterP!MayDeny(r)
    <3>1. VerdictThen(r) = "denied" /\ StatusThen(r) = "429"
      BY <1>1, <1>5 DEF VerdictThen, StatusThen, Pending
    <3>. QED  BY <1>5, <3>1, LimiterAssumptions, LimiterP!Decidable DEF Pending
  <2>2. Cardinality(Granted(ClientIP(request[r].from), stamp[r] - Window)) >= Limit
    BY <1>1, <2>1, GrantsOfPromise DEF LimiterP!MayDeny, Types
  <2>3. Deny(r)
    BY <1>3, <2>1, <2>2, GrantsOfPromise DEF Move, Deny, Limiter!Deny, Pending
  <2>. QED  BY <2>3
<1>. QED  BY <1>4, <1>5

LEMMA MoveInHandler ==
    ASSUME IInv, NEW r \in Requests, status[r] = "asked", Move(r), ~Pending(r),
           pc[r] \notin {"lookup", "fetch", "store", "log"}
    PROVE  Refuse(r) \/ Begin(r) \/ Respond(r)
<1>1. /\ pc[r] \in {"idle", "invalid", "failed", "done"} /\ exchange[r] = "none"
      /\ verdict[r] \in {"allowed", "error"}
  BY ComponentFacts DEF IInv, InStep, Types, Limiter!Verdicts, Service!Stages, Breaker!Stages, Pending
<1>2. /\ VerdictThen(r) = verdict[r] /\ AnswerThen(r) = answer[r] /\ ~Stores(r)
      /\ StageThen(r) = stage[r] /\ ~Admitted(r) /\ OutcomeThen(r) = outcome[r]
      /\ BreakerThen(r) = breaker /\ ~Trips(r)
  BY <1>1 DEF VerdictThen, AnswerThen, Stores, StageThen, Admitted, OutcomeThen, BreakerThen,
              Trips, Fetching, Turned
<1>3. /\ UNCHANGED <<clock, request, limiterVars, breakerVars, exchange>>
      /\ UNCHANGED <<backend, answer, cache, stored, began, written, refused, rows>>
  BY <1>1, <1>2, MoveKeeps DEF Move, limiterVars, breakerVars, Fails, Fetching
<1>4. CASE pc[r] = "idle" /\ request[r].form # "given"
  <2>1. StatusThen(r) = "400" /\ PcThen(r) = pc[r]
    BY <1>4 DEF StatusThen, PcThen, Fetching
  <2>2. pc' = pc
    BY <2>1, MoveKeeps
  <2>. QED  BY <1>1, <1>3, <1>4, <2>1, <2>2 DEF Move, Refuse, LetThrough, serviceVars
<1>5. CASE pc[r] = "idle" /\ request[r].form = "given"
  <2>1. /\ StatusThen(r) = status[r]
        /\ PcThen(r) = IF Service!Valid(request[r].point) THEN "lookup" ELSE "invalid"
    BY <1>5 DEF StatusThen, PcThen, Fetching
  <2>2. status' = status
    BY <2>1, MoveKeeps
  <2>. QED  BY <1>1, <1>3, <1>5, <2>1, <2>2 DEF Move, Begin, Service!Begin, LetThrough
<1>6. CASE pc[r] # "idle"
  <2>1. StatusThen(r) = StatusOf(pc[r]) /\ pc' = pc
    BY <1>1, <1>6, MoveKeeps DEF StatusThen, PcThen, Fetching
  <2>. QED  BY <1>1, <1>3, <1>6, <2>1 DEF Move, Respond, serviceVars
<1>. QED  BY <1>4, <1>5, <1>6

LEMMA MoveInService ==
    ASSUME IInv, NEW r \in Requests, status[r] = "asked", Move(r), pc[r] \in {"lookup", "store", "log"}
    PROVE  Lookup(r) \/ Store(r) \/ SkipLog(r)
<1>1. exchange[r] = "none" /\ ~Pending(r)
  BY ComponentFacts DEF IInv, InStep, Service!Stages, Breaker!Stages, Pending
<1>2. /\ VerdictThen(r) = verdict[r] /\ StatusThen(r) = status[r] /\ StageThen(r) = stage[r]
      /\ ~Admitted(r) /\ OutcomeThen(r) = outcome[r] /\ BreakerThen(r) = breaker /\ ~Trips(r)
  BY <1>1 DEF VerdictThen, StatusThen, StageThen, Admitted, OutcomeThen, BreakerThen,
              Trips, Fetching, Turned
<1>3. UNCHANGED <<clock, request, status, limiterVars, breakerVars, exchange,
                  backend, began, written, refused, rows>>
  BY <1>1, <1>2, MoveKeeps DEF Move, limiterVars, breakerVars, Fails, Fetching
<1>4. CASE pc[r] = "lookup" /\ Service!Live(PlaceKey(r))
  <2>1. /\ PcThen(r) = "log" /\ AnswerThen(r) = cache[PlaceKey(r)].weather
        /\ ~Stores(r)
    BY <1>4 DEF PcThen, AnswerThen, Stores, Fetching
  <2>2. cache' = cache /\ stored' = stored
    BY <2>1, MoveKeeps
  <2>. QED  BY <1>3, <1>4, <2>1, <2>2 DEF Move, Lookup, Service!LookupHit, PlaceKey
<1>5. CASE pc[r] = "lookup" /\ ~Service!Live(PlaceKey(r))
  <2>1. PcThen(r) = "fetch" /\ answer' = answer /\ cache' = cache /\ stored' = stored
    BY <1>5, MoveKeeps DEF PcThen, AnswerThen, Stores, Fetching
  <2>. QED  BY <1>3, <1>5, <2>1 DEF Move, Lookup, Service!LookupMiss, PlaceKey
<1>6. CASE pc[r] = "store"
  <2>1. PcThen(r) = "log" /\ answer' = answer
    BY <1>6, MoveKeeps DEF PcThen, AnswerThen, Fetching
  <2>2. CASE Stores(r)
    BY <1>3, <1>6, <2>1, <2>2 DEF Move, Store, Service!Store, Stores, PlaceKey
  <2>3. CASE ~Stores(r)
    BY <1>3, <1>6, <2>1, <2>3, MoveKeeps DEF Move, Store, Service!StoreFail, Stores
  <2>. QED  BY <2>2, <2>3
<1>7. CASE pc[r] = "log"
  <2>1. PcThen(r) = "done" /\ answer' = answer /\ cache' = cache /\ stored' = stored
    BY <1>7, MoveKeeps DEF PcThen, AnswerThen, Stores, Fetching
  <2>. QED  BY <1>3, <1>7, <2>1 DEF Move, SkipLog, Service!LogFail
<1>. QED  BY <1>4, <1>5, <1>6, <1>7

LEMMA MoveInBreaker ==
    ASSUME IInv, NEW r \in Requests, status[r] = "asked", Move(r), pc[r] = "fetch"
    PROVE  Reject(r) \/ Admit(r) \/ Fail(r) \/ Warn(r) \/ Return(r)
<1>1. /\ stage[r] \in {"idle", "entered", "calling", "failed", "closing"} /\ ~Pending(r)
      /\ exchange[r] # "none" <=> stage[r] = "calling"
  BY ComponentFacts DEF IInv, InStep, Service!Stages, Breaker!Stages, Pending
<1>2. VerdictThen(r) = verdict[r] /\ StatusThen(r) = status[r] /\ ~Stores(r)
  BY <1>1 DEF VerdictThen, StatusThen, Stores
<1>3. UNCHANGED <<clock, request, status, limiterVars, backend, cache, stored,
                  began, written, rows>>
  BY <1>1, <1>2, MoveKeeps DEF Move, limiterVars
<1>4. stage[r] # "closing" => UNCHANGED serviceVars
  <2>1. stage[r] # "closing" => PcThen(r) = pc[r] /\ AnswerThen(r) = answer[r]
    BY DEF PcThen, AnswerThen, Fetching
  <2>2. stage[r] # "closing" => refused' = refused
    BY DEF Move, Fails, Fetching
  <2>. QED  BY <1>3, <2>1, <2>2, MoveKeeps DEF serviceVars
<1>5. CASE stage[r] \in {"idle", "failed"}
  <2>1. /\ StageThen(r) = IF stage[r] = "idle" THEN "entered" ELSE "closing"
        /\ ~Admitted(r) /\ OutcomeThen(r) = outcome[r] /\ ~Trips(r)
        /\ BreakerThen(r) = Breaker!Current
    BY <1>5 DEF StageThen, Admitted, OutcomeThen, Trips, BreakerThen, Fetching, Turned
  <2>2. gen' = gen /\ outcome' = outcome /\ exchange' = exchange
    BY <1>1, <1>5, <2>1, MoveKeeps
  <2>. QED  BY <1>3, <1>4, <1>5, <2>1, <2>2
            DEF Move, Reject, Warn, Breaker!Enter, Breaker!Warn
<1>6. CASE Turned(r)
  <2>1. stage[r] = "entered" /\ StageThen(r) = "failed" /\ OutcomeThen(r) = "rejected"
        /\ ~Admitted(r) /\ ~Trips(r) /\ BreakerThen(r) = Breaker!Current
    BY <1>6 DEF StageThen, Admitted, OutcomeThen, Trips, BreakerThen, Fetching, Turned
  <2>2. gen' = gen /\ exchange' = exchange
    BY <1>1, <2>1, MoveKeeps
  <2>. QED  BY <1>3, <1>4, <1>6, <2>1, <2>2 DEF Move, Turned, Reject, Breaker!Reject
<1>7. CASE Admitted(r)
  <2>1. /\ stage[r] = "entered" /\ StageThen(r) = "calling" /\ outcome' = outcome /\ ~Trips(r)
        /\ BreakerThen(r) = [Breaker!Current EXCEPT !.counts.requests = @ + 1]
    BY <1>7, MoveKeeps DEF StageThen, Admitted, OutcomeThen, Trips, BreakerThen, Fetching, Turned
  <2>. QED  BY <1>3, <1>4, <1>7, <2>1 DEF Move, Admitted, Admit, Breaker!Admit
<1>8. CASE stage[r] = "calling"
  <2>1. /\ StageThen(r) = "failed" /\ OutcomeThen(r) = "error" /\ ~Admitted(r)
        /\ BreakerThen(r) = IF ~Breaker!Counts(r) THEN Breaker!Current
                            ELSE Breaker!AfterFailure(Breaker!Current)
    BY <1>8 DEF StageThen, Admitted, OutcomeThen, BreakerThen, Fetching, Turned
  <2>2. Trips(r) <=> BreakerThen(r).state = "open" /\ breaker.state # "open"
    BY <1>8 DEF Trips, Fetching
  <2>3. gen' = gen
    BY <2>1, MoveKeeps
  <2>. QED  BY <1>1, <1>3, <1>4, <1>8, <2>1, <2>2, <2>3 DEF Move, Fail, Breaker!Finish
<1>9. CASE stage[r] = "closing"
  <2>1. /\ StageThen(r) = "done" /\ OutcomeThen(r) = outcome[r] /\ ~Admitted(r) /\ ~Trips(r)
        /\ BreakerThen(r) = Breaker!Current
        /\ PcThen(r) = IF outcome[r] = "ok" THEN "store" ELSE "failed"
        /\ AnswerThen(r) = IF outcome[r] = "ok" THEN r ELSE answer[r]
    BY <1>9 DEF StageThen, Admitted, OutcomeThen, Trips, BreakerThen, Fetching, Turned,
                PcThen, AnswerThen
  <2>2. gen' = gen /\ outcome' = outcome /\ exchange' = exchange
    BY <1>1, <1>9, <2>1, MoveKeeps
  <2>3. Breaker!Return(r)
    BY <1>3, <1>9, <2>1, <2>2 DEF Move, Breaker!Return
  <2>4. IF outcome[r] = "ok" THEN Service!Fetch(r) ELSE Service!FetchFail(r)
    BY <1>3, <1>9, <2>1, MoveKeeps DEF Move, Service!Fetch, Service!FetchFail, Fails, Fetching
  <2>. QED  BY <1>3, <2>2, <2>3, <2>4 DEF Return
<1>. QED  BY <1>1, <1>5, <1>6, <1>7, <1>8, <1>9 DEF Turned, Admitted, Fetching

\* No request is stuck, as far as it can be said without ENABLED.  Let a request
\* that waits take Move at any time, whatever the actions of the pipeline allow:
\* it then only takes steps that Handle(r) allows it anyway.  And Move can always
\* be taken, for it gives each variable one value and asks for nothing.
Moves(r) == status[r] = "asked" /\ Move(r)

THEOREM AlwaysAMove ==
    Init /\ [][Next \/ \E r \in Requests : Moves(r)]_vars
        => [][\A r \in Requests : Moves(r) => Handle(r)]_vars
<1>. DEFINE J == IInv /\ LimiterP!TypeOK /\ LimiterP!LimitKept
            M == \E r \in Requests : Moves(r)
            A == \A r \in Requests : Moves(r) => Handle(r)
<1>1. ASSUME IInv, LimiterP!TypeOK, NEW r \in Requests, Moves(r)
      PROVE  Handle(r)
  BY <1>1, MoveInLimiter, MoveInHandler, MoveInService, MoveInBreaker DEF Handle, Moves
<1>2. J => A
  BY <1>1
<1>3. J /\ [Next \/ M]_vars => [Next]_vars
  BY <1>1 DEF Next
<1>4. J /\ [Next]_vars => J'
  BY InvariantStep, LimiterSteps, SameLimiter, LimiterInvariance
<1>5. Init => J
  BY InvariantInit, ComponentsInit, SameLimiter, LimiterInvariance
<1>. HIDE DEF J, M, A
<1>6. Init /\ [][Next \/ M]_vars => [][A]_vars
  BY <1>2, <1>3, <1>4, <1>5, PTL
<1>. QED  BY <1>6 DEF M, A

LEMMA RankFalls ==
    ASSUME IInv, NEW r \in Requests, Arrive(r) \/ Handle(r)
    PROVE  Rank(r)' < Rank(r)
<1>. USE ComponentFacts DEF IInv, InStep, Types, limiterVars, serviceVars, breakerVars, LetThrough,
                            Service!Stages, Breaker!Stages, Limiter!Verdicts, Rank
<1>1. CASE Arrive(r) \/ Grant(r) \/ Deny(r)
  BY <1>1 DEF Arrive, Grant, Deny, Limiter!Request, Limiter!Grant, Limiter!Deny
<1>2. CASE Refuse(r)
  BY <1>2 DEF Refuse
<1>3. CASE Begin(r) \/ Lookup(r)
  BY <1>3 DEF Begin, Lookup, Service!Begin, Service!LookupHit, Service!LookupMiss
<1>4. CASE Reject(r) \/ Warn(r)
  BY <1>4 DEF Reject, Warn, Breaker!Enter, Breaker!Reject, Breaker!Warn
<1>5. CASE Admit(r)
  BY <1>5 DEF Admit, Breaker!Admit
<1>6. CASE GetForecastURL(r)
  BY <1>6 DEF GetForecastURL
<1>7. CASE FetchForecast(r) \/ Fail(r)
  BY <1>7 DEF FetchForecast, Fail, Breaker!Finish
<1>8. CASE Return(r)
  BY <1>8 DEF Return, Breaker!Return, Service!Fetch, Service!FetchFail
<1>9. CASE Store(r) \/ SkipLog(r)
  BY <1>9 DEF Store, SkipLog, Service!Store, Service!StoreFail, Service!LogFail
<1>10. CASE Respond(r)
  BY <1>10 DEF Respond, StatusOf
<1>. QED  BY <1>1, <1>2, <1>3, <1>4, <1>5, <1>6, <1>7, <1>8, <1>9, <1>10 DEF Handle

\* Every step of a request brings it nearer to its answer, of which at most
\* fourteen are before it, and no step of another or of the clock takes it back:
\* there is no retry and no loop in the pipeline.  With NoneWaitsForAnother, a
\* request is answered after fourteen steps of its own, in whatever order they
\* come among those of others.
THEOREM EveryStepCounts ==
    Spec => [][\A r \in Requests :
                   /\ Rank(r) \in 0 .. 14 /\ Rank(r)' <= Rank(r)
                   /\ (Arrive(r) \/ Handle(r)) => Rank(r)' < Rank(r)]_vars
<1>1. \A r \in Requests : Rank(r) \in 0 .. 14
  BY DEF Rank
<1>2. ASSUME IInv, [Next]_vars, NEW r \in Requests
      PROVE  Rank(r)' <= Rank(r)
  <2>1. CASE UNCHANGED <<status, verdict, pc, stage, exchange>>
    BY <1>1, <2>1 DEF Rank, LetThrough
  <2>2. ASSUME NEW q \in Requests, Arrive(q) \/ Handle(q)
        PROVE  Rank(r)' <= Rank(r)
    <3>1. CASE q = r
      <4>1. Rank(r)' < Rank(r) /\ Rank(r)' \in Int /\ Rank(r) \in Int
        BY <1>2, <2>2, <3>1, RankFalls DEF Rank
      <4>. QED  BY <4>1
    <3>2. CASE q # r
      <4>1. /\ status'[r] = status[r] /\ verdict'[r] = verdict[r] /\ pc'[r] = pc[r]
            /\ stage'[r] = stage[r] /\ exchange'[r] = exchange[r]
        BY <1>2, <2>2, <3>2, OthersStay
      <4>. QED  BY <1>1, <4>1 DEF Rank, LetThrough
    <3>. QED  BY <3>1, <3>2
  <2>. QED  BY <1>2, <2>1, <2>2 DEF Next, Tick, vars, limiterVars, serviceVars, breakerVars
<1>. DEFINE A == \A r \in Requests : /\ Rank(r) \in 0 .. 14 /\ Rank(r)' <= Rank(r)
                                     /\ (Arrive(r) \/ Handle(r)) => Rank(r)' < Rank(r)
<1>3. IInv /\ [Next]_vars => [A]_vars
  BY <1>1, <1>2, RankFalls
<1>. QED  BY <1>3, Invariance, PTL DEF Spec
=============================================================================
