-------------------------- MODULE AppLifecycleProofs --------------------------
(***************************************************************************)
(* Proofs about AppLifecycle for any set of requests and any grace period. *)
(***************************************************************************)
EXTENDS AppLifecycle, TLAPS

\* The process has ended exactly when its main goroutine has nowhere to go on.
EndsOnce == ended = "running" <=> phase # "exited"

\* Connections are accepted only between the start of the listener and Shutdown,
\* and the listener is started only over a cache and a limiter.
ListensWhileUp ==
    /\ listener = "listening" => phase \in {"started", "waiting", "stopping"}
    /\ listener \in {"none", "starting"} => \A r \in Requests : request[r] = "new"
    /\ phase \in {"telemetry", "redis", "cache", "database", "listen"} => listener = "none"
    /\ phase \in {"database", "listen"} => cache # "none" /\ limiter # "none"
    /\ listener = "failed" => phase # "exited"

\* Stop goes past Shutdown with connections open or handlers in flight only when
\* it has waited, or has taken them for idle, and the listener does not bring new
\* ones then; nothing is open or in flight at the end.
StopsInOrder ==
    /\ phase \in {"closing", "flushing", "returning"} => Held = {} \/ elapsed = Grace
    /\ phase = "exited" => InFlight = {} /\ Accepted = {}
    /\ db = "closed" => phase \in {"flushing", "returning", "exited"}
    /\ telemetry = "flushed" => phase \in {"returning", "exited"}

IInv ==
    /\ TypeOK
    /\ EndsOnce
    /\ ListensWhileUp
    /\ StopsInOrder
    /\ CutOnlyLate
    /\ LogsReachDatabase
    /\ RequestsObserved

-----------------------------------------------------------------------------
LEMMA InvariantInit == Init => IInv
BY GraceAssumption
   DEF Init, IInv, TypeOK, EndsOnce, ListensWhileUp, StopsInOrder, CutOnlyLate,
       LogsReachDatabase, RequestsObserved, InFlight, Accepted, Held, Phases, Fates, Enabled

\* The steps that start the replica: nothing has been accepted yet.
LEMMA StartStep ==
    ASSUME IInv,
           \/ InitTelemetry \/ FallBack \/ PingRedis \/ ConnectCache
           \/ SkipDatabase \/ OpenDatabase \/ Start \/ Register \/ Listen \/ ListenError
    PROVE  IInv'
<1>. USE DEF IInv, TypeOK, EndsOnce, ListensWhileUp, StopsInOrder, CutOnlyLate,
             LogsReachDatabase, RequestsObserved, InFlight, Accepted, Held, Phases, Fates,
             settled, observed
<1>1. CASE FallBack      BY <1>1 DEF FallBack
<1>2. CASE PingRedis     BY <1>2 DEF PingRedis
<1>3. CASE ConnectCache  BY <1>3 DEF ConnectCache
<1>4. CASE SkipDatabase  BY <1>4 DEF SkipDatabase
<1>5. CASE OpenDatabase  BY <1>5 DEF OpenDatabase
<1>6. CASE Start         BY <1>6 DEF Start
<1>7. CASE Register      BY <1>7 DEF Register
<1>8. CASE Listen        BY <1>8 DEF Listen
<1>9. CASE InitTelemetry BY <1>9 DEF InitTelemetry
<1>10. CASE ListenError  BY <1>10 DEF ListenError
<1>. QED  BY <1>1, <1>2, <1>3, <1>4, <1>5, <1>6, <1>7, <1>8, <1>9, <1>10

\* The steps of a handler: a log entry is lost only while the pool is closed,
\* and then Shutdown has waited its time for this very handler.
LEMMA HandlerStep ==
    ASSUME IInv, NEW r \in Requests, Handle(r)
    PROVE  IInv'
<1>. USE DEF IInv, TypeOK, EndsOnce, ListensWhileUp, StopsInOrder, CutOnlyLate,
             LogsReachDatabase, RequestsObserved, InFlight, Accepted, Held, Phases, Fates,
             settled, observed
<1>1. CASE Accept(r)  BY <1>1 DEF Accept
<1>2. CASE Answer(r)  BY <1>2 DEF Answer
<1>3. CASE Panic(r)   BY <1>3 DEF Panic, SpanEnds
<1>4. CASE Report(r)  BY <1>4 DEF Report
<1>5. CASE Log(r)     BY <1>5 DEF Log
<1>6. CASE Observe(r) BY <1>6 DEF Observe, SpanEnds
<1>7. CASE Read(r)    BY <1>7 DEF Read, TakeUp, Sample
<1>8. CASE Sever(r)   BY <1>8 DEF Sever, TakeUp, Sample
<1>9. CASE HangUp(r)  BY <1>9 DEF HangUp
<1>. QED  BY <1>1, <1>2, <1>3, <1>4, <1>5, <1>6, <1>7, <1>8, <1>9 DEF Handle

\* The steps of the stop that leave the process running.
LEMMA StopStep ==
    ASSUME IInv, Signal \/ Shutdown \/ Tick \/ Drain \/ CloseDatabase \/ Flush
    PROVE  IInv'
<1>. USE GraceAssumption
     DEF IInv, TypeOK, EndsOnce, ListensWhileUp, StopsInOrder, CutOnlyLate,
         LogsReachDatabase, RequestsObserved, InFlight, Accepted, Held, Phases, Fates,
         settled, observed
<1>1. CASE Signal         BY <1>1 DEF Signal
<1>2. CASE Tick           BY <1>2 DEF Tick
<1>3. CASE Drain          BY <1>3 DEF Drain, Drained
<1>4. CASE CloseDatabase  BY <1>4 DEF CloseDatabase
<1>5. CASE Flush          BY <1>5 DEF Flush
<1>6. CASE Shutdown       BY <1>6 DEF Shutdown
<1>. QED  BY <1>1, <1>2, <1>3, <1>4, <1>5, <1>6

\* The steps that end the process: whom they cut off was in flight.
LEMMA ExitStep ==
    ASSUME IInv, ListenFatal \/ Killed \/ Return
    PROVE  IInv'
<1>. USE DEF IInv, TypeOK, EndsOnce, ListensWhileUp, StopsInOrder, CutOnlyLate,
             LogsReachDatabase, RequestsObserved, InFlight, Accepted, Held, Phases, Fates,
             settled, observed, Exit
<1>1. CASE ListenFatal  BY <1>1 DEF ListenFatal
<1>2. CASE Killed       BY <1>2 DEF Killed
<1>3. CASE Return       BY <1>3 DEF Return
<1>. QED  BY <1>1, <1>2, <1>3

LEMMA InvariantStep == ASSUME IInv, [Next]_vars PROVE IInv'
<1>1. CASE UNCHANGED vars
  BY <1>1 DEF vars, IInv, TypeOK, EndsOnce, ListensWhileUp, StopsInOrder, CutOnlyLate,
              LogsReachDatabase, RequestsObserved, InFlight, Accepted, Held
<1>2. CASE Next
  BY <1>2, StartStep, HandlerStep, StopStep, ExitStep DEF Next, Stop
<1>. QED  BY <1>1, <1>2

-----------------------------------------------------------------------------
\* Types hold: no handler logs through a database that is not there, and the
\* replica listens only over a cache and a limiter it has settled on.
THEOREM TypeCorrect == Spec => []TypeOK
<1>1. IInv => TypeOK
  BY DEF IInv
<1>. QED  BY <1>1, InvariantInit, InvariantStep, PTL DEF Spec

\* A handler is cut off by a full Shutdown, an early signal or an error of the
\* listener, and an orderly stop that ends before its time cuts off only those it
\* has taken for idle: Drain needs Held = {}, which no step after it undoes.
THEOREM CutsAreLate == Spec => []CutOnlyLate
<1>1. IInv => CutOnlyLate
  BY DEF IInv
<1>. QED  BY <1>1, InvariantInit, InvariantStep, PTL DEF Spec

\* A log entry is lost to a closed database only after a full Shutdown, or when
\* its connection was taken for idle.
THEOREM LogsAreSafe == Spec => []LogsReachDatabase
<1>1. IInv => LogsReachDatabase
  BY DEF IInv
<1>. QED  BY <1>1, InvariantInit, InvariantStep, PTL DEF Spec

\* With telemetry no answer goes uncounted, and no sampled span misses the
\* exporter but for those of handlers that Shutdown has left behind, at the end of
\* its time or because it took their connection for idle.
THEOREM RequestsAreObserved == Spec => []RequestsObserved
<1>1. IInv => RequestsObserved
  BY DEF IInv
<1>. QED  BY <1>1, InvariantInit, InvariantStep, PTL DEF Spec

\* No connection is accepted once Shutdown is called, as only Accept takes one and
\* the listener is closed by then; and none waits with its request unread where
\* Shutdown has returned, unless its time was up.
THEOREM AcceptsInTime == Spec => NoneAcceptedLate
<1>. DEFINE Timely(r) ==
         /\ request[r] = "new" /\ request'[r] # "new" =>
                phase \in {"started", "waiting", "stopping"}
         /\ request[r] = "accepted" /\ request'[r] = "handling" =>
                phase \in {"started", "waiting", "stopping", "draining"} \/ elapsed = Grace
<1>1. ASSUME IInv, [Next]_vars, NEW r \in Requests
      PROVE  Timely(r)
  <2>. USE DEF IInv, TypeOK, ListensWhileUp, InFlight, Accepted
  <2>1. ASSUME NEW q \in Requests, Handle(q) PROVE Timely(r)
    <3>1. CASE Accept(q) \/ HangUp(q)
      BY <1>1, <3>1 DEF Accept, HangUp
    <3>2. CASE Read(q) \/ Sever(q)
      BY <1>1, <3>2 DEF Read, Sever, TakeUp, StopsInOrder, Held, EndsOnce, Phases
    <3>3. CASE Answer(q) \/ Panic(q) \/ Report(q) \/ Log(q) \/ Observe(q)
      BY <1>1, <3>3 DEF Answer, Panic, Report, Log, Observe
    <3>. QED  BY <2>1, <3>1, <3>2, <3>3 DEF Handle
  <2>2. CASE ListenFatal \/ Killed \/ Return
    BY <1>1, <2>2 DEF ListenFatal, Killed, Return, Exit
  <2>3. CASE UNCHANGED request
    BY <2>3
  <2>4. (\E q \in Requests : Handle(q)) \/ ListenFatal \/ Killed \/ Return \/ UNCHANGED request
    BY <1>1 DEF Next, vars, InitTelemetry, FallBack, PingRedis, ConnectCache, SkipDatabase,
                OpenDatabase, Start, Register, Listen, ListenError, Stop, Signal, Shutdown, Tick,
                Drain, CloseDatabase, Flush
  <2>. QED  BY <2>1, <2>2, <2>3, <2>4
<1>2. IInv /\ [Next]_vars => [\A r \in Requests : Timely(r)]_vars
  BY <1>1
<1>. QED  BY <1>2, InvariantInit, InvariantStep, PTL DEF Spec, NoneAcceptedLate
-----------------------------------------------------------------------------
\* A nil cache comes of Redis alone, and of nothing that runs once it is there.
NilByRedis ==
    /\ phase = "cache" => "redis" \in enabled
    /\ cache = "nil" => "redis" \in enabled /\ limiter = "redis"
    /\ phase \in {"telemetry", "redis", "cache"} => cache = "none"
    /\ \A r \in Requests : /\ request[r] = "panicked" => cache = "nil"
                           /\ request[r] = "logging" => cache # "nil"

LEMMA NilStep == IInv /\ NilByRedis /\ [Next]_vars => NilByRedis'
<1>. SUFFICES ASSUME IInv, NilByRedis, [Next]_vars
              PROVE  NilByRedis'
  OBVIOUS
<1>. USE DEF IInv, TypeOK, ListensWhileUp, NilByRedis, InFlight, Accepted, settled, observed
<1>1. CASE InitTelemetry  BY <1>1 DEF InitTelemetry
<1>2. CASE FallBack       BY <1>2 DEF FallBack
<1>3. CASE PingRedis      BY <1>3 DEF PingRedis
<1>4. CASE ConnectCache   BY <1>4 DEF ConnectCache
<1>5. CASE SkipDatabase \/ OpenDatabase \/ Start \/ Register \/ Listen \/ ListenError
  BY <1>5 DEF SkipDatabase, OpenDatabase, Start, Register, Listen, ListenError
<1>6. ASSUME NEW r \in Requests, Handle(r) PROVE NilByRedis'
  BY <1>6 DEF Handle, Accept, Read, HangUp, Sever, TakeUp, Answer, Panic, Report, Log, Observe
<1>7. CASE Signal \/ Shutdown \/ Tick \/ Drain \/ CloseDatabase \/ Flush
  BY <1>7 DEF Signal, Shutdown, Tick, Drain, CloseDatabase, Flush
<1>8. CASE ListenFatal \/ Killed \/ Return
  BY <1>8 DEF ListenFatal, Killed, Return, Exit
<1>9. CASE UNCHANGED vars
  BY <1>9 DEF vars
<1>. QED  BY <1>1, <1>2, <1>3, <1>4, <1>5, <1>6, <1>7, <1>8, <1>9 DEF Next, Stop

LEMMA NilInit == Init => NilByRedis
BY DEF Init, NilByRedis

\* The panics of run lifecycle_nil_cache have one cause: Redis is enabled, has
\* answered the ping of the limiter and not that of the cache.  A replica
\* without Redis never panics ("the system should fall back to memory cache",
\* features/caching.feature:64-68, is true of it).
THEOREM PanicsNeedRedis ==
    Spec => [](~NoRequestPanics => cache = "nil" /\ limiter = "redis" /\ "redis" \in enabled)
<1>1. NilByRedis => (~NoRequestPanics => cache = "nil" /\ limiter = "redis" /\ "redis" \in enabled)
  BY DEF NilByRedis, NoRequestPanics
<1>. QED  BY <1>1, NilInit, NilStep, InvariantInit, InvariantStep, PTL DEF Spec

\* And there is no way back: what the replica has settled on when it listens
\* stays until it exits, and over a nil cache no request ever gets a report.
THEOREM NilCacheStays ==
    Spec => /\ [](cache = "nil" => \A r \in Requests : request[r] # "logging")
            /\ [][listener # "none" => UNCHANGED <<cache, limiter>>]_vars
<1>1. NilByRedis => (cache = "nil" => \A r \in Requests : request[r] # "logging")
  BY DEF NilByRedis
<1>2. IInv /\ [Next]_vars => [listener # "none" => UNCHANGED <<cache, limiter>>]_vars
  <2>. SUFFICES ASSUME IInv, [Next]_vars, listener # "none"
                PROVE  UNCHANGED <<cache, limiter>>
    OBVIOUS
  <2>1. phase \notin {"telemetry", "redis", "cache", "database", "listen"}
    BY DEF IInv, ListensWhileUp
  <2>. QED  BY <2>1 DEF Next, vars, settled, Handle, Accept, Read, HangUp, Sever, TakeUp, Answer,
              Panic, Report, Log, Observe, InitTelemetry, FallBack, PingRedis, ConnectCache,
              SkipDatabase, OpenDatabase, Start, Register, Listen, ListenError, ListenFatal, Killed,
              Stop, Signal, Shutdown, Tick, Drain, CloseDatabase, Flush, Return, Exit
<1>. QED  BY <1>1, <1>2, NilInit, NilStep, InvariantInit, InvariantStep, PTL DEF Spec
-----------------------------------------------------------------------------
\* What is left of Stop: the time Shutdown may still wait, and its own steps.
StopsLeft ==
    CASE phase = "draining" -> Grace - elapsed + 4
      [] phase = "closing" -> 3
      [] phase = "flushing" -> 2
      [] phase = "returning" -> 1
      [] phase = "exited" -> 0
      [] phase = "stopping" -> Grace + 5
      [] OTHER -> Grace + 6

\* A shutdown waits for no handler and no client beyond its time: there is always
\* a step of Stop to take, which neither can hold up; each brings the exit nearer, and
\* nothing any handler or signal does puts it off.  That the steps are taken is
\* the fairness of StopTerminates.
THEOREM NothingHoldsStop ==
    Spec => /\ [](phase = "draining" => elapsed < Grace \/ Drained)
            /\ [](StopsLeft \in Nat /\ (StopsLeft = 0 <=> phase = "exited"))
            /\ [][StopsLeft' <= StopsLeft /\ (Stop => StopsLeft' < StopsLeft)]_vars
<1>. USE GraceAssumption DEF StopsLeft
<1>1. TypeOK => /\ phase = "draining" => elapsed < Grace \/ Drained
                /\ StopsLeft \in Nat /\ (StopsLeft = 0 <=> phase = "exited")
  BY DEF TypeOK, Drained
<1>2. TypeOK /\ [Next]_vars => [StopsLeft' <= StopsLeft /\ (Stop => StopsLeft' < StopsLeft)]_vars
  <2>. SUFFICES ASSUME TypeOK, Next
                PROVE  StopsLeft' <= StopsLeft /\ (Stop => StopsLeft' < StopsLeft)
    OBVIOUS
  <2>. elapsed \in 0 .. Grace
    BY DEF TypeOK
  <2>1. CASE Stop
    <3>1. StopsLeft' < StopsLeft
      BY <2>1 DEF Stop, Signal, Shutdown, Tick, Drain, CloseDatabase, Flush, Return, Exit
    <3>2. StopsLeft \in Nat /\ StopsLeft' \in Nat
      BY <2>1 DEF Stop, Signal, Shutdown, Tick, Drain, CloseDatabase, Flush, Return, Exit
    <3>. QED  BY <3>1, <3>2
  <2>2. CASE ListenFatal \/ Killed
    BY <2>2 DEF ListenFatal, Killed, Exit, Stop, Signal, Shutdown, Tick, Drain, CloseDatabase,
                Flush, Return
  <2>3. CASE \/ InitTelemetry \/ FallBack \/ PingRedis \/ ConnectCache
             \/ SkipDatabase \/ OpenDatabase \/ Start \/ Register
    BY <2>3 DEF InitTelemetry, FallBack, PingRedis, ConnectCache, SkipDatabase, OpenDatabase, Start,
                Register, Stop, Signal, Shutdown, Tick, Drain, CloseDatabase, Flush, Return
  <2>4. CASE Listen \/ ListenError \/ \E r \in Requests : Handle(r)
    <3>1. UNCHANGED <<phase, elapsed>>
      BY <2>4 DEF Listen, ListenError, Handle, Accept, Read, HangUp, Sever, TakeUp, Answer, Panic,
                  Report, Log, Observe
    <3>2. ~Stop
      BY <3>1 DEF Stop, Signal, Shutdown, Tick, Drain, CloseDatabase, Flush, Return, Exit, TypeOK
    <3>. QED  BY <3>1, <3>2
  <2>. QED  BY <2>1, <2>2, <2>3, <2>4 DEF Next
<1>. QED  BY <1>1, <1>2, TypeCorrect, PTL DEF Spec
=============================================================================
