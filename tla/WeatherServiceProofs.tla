------------------------- MODULE WeatherServiceProofs -------------------------
(***************************************************************************)
(* Proofs about WeatherService for any number of calls, any coordinates,   *)
(* any TTL and either cache.                                               *)
(***************************************************************************)
EXTENDS WeatherService, FiniteSetTheorems, TLAPS

\* How far a call has come says what it has looked up, stored and logged, and
\* whether its fetch was refused.
Progress ==
    \A p \in Calls :
        /\ pc[p] \in {"idle", "lookup", "fetch", "failed", "invalid"} => answer[p] = None
        /\ pc[p] = "store" => answer[p] = p
        /\ pc[p] \notin {"idle", "invalid"} => Valid(point[p])
        /\ pc[p] = "invalid" => ~Valid(point[p])
        /\ stored[p] >= 0 => pc[p] \in {"log", "write", "done"}
        /\ written[p] >= 0 => pc[p] = "done" /\ 0 <= began[p] /\ began[p] <= written[p]
        /\ pc[p] = "write" => 0 <= began[p]
        /\ stored[p] <= clock /\ began[p] <= clock /\ written[p] <= clock
        /\ pc[p] = "failed" <=> p \in refused

\* Report w may be served for key k.
Serves(w, k) ==
    /\ Key(point[w]) = k /\ Encodable(point[w]) /\ Valid(point[w])
    /\ w \in Calls /\ stored[w] >= 0

\* An entry is what its call has stored, under the key of that call's place.
CacheTrue ==
    \A k \in Keys : cache[k] # None =>
        /\ Serves(cache[k].weather, k)
        /\ stored[cache[k].weather] = cache[k].stored

\* The report of another request came out of the cache.
AnswersServe ==
    \A p \in Calls : answer[p] \notin {None, p} => Serves(answer[p], Key(point[p]))

\* A cache that does not fail has what was last stored for each place.
MemoryKeeps ==
    backend = "memory" =>
        \A q \in Calls : stored[q] >= 0 =>
            /\ cache[Key(point[q])] # None
            /\ cache[Key(point[q])].stored >= stored[q]

\* Call q has logged report w, and none that has done so has written after it.
LastWriter(q, w) ==
    /\ written[q] >= 0 /\ answer[q] = w
    /\ \A p \in Calls : written[p] >= 0 /\ answer[p] = w => written[p] <= written[q]

\* A row is what its last writer has made of it ...
RowsByLast ==
    \A w \in Calls : rows[w] # None =>
        \E q \in Calls : /\ LastWriter(q, w)
                         /\ rows[w] = [point |-> point[q], hit |-> q # w, at |-> began[q]]

\* ... and whatever was logged has left one.
LogsKept ==
    \A p \in Calls : written[p] >= 0 => answer[p] \in Calls /\ rows[answer[p]] # None

\* The report of a call is fetched only by that call.
OwnReports ==
    \A p, q \in Calls : pc[p] \in {"idle", "lookup", "fetch", "failed", "invalid"} => answer[q] # p

IInv == /\ TypeOK /\ Progress /\ CacheTrue /\ AnswersServe
        /\ MemoryKeeps /\ RowsByLast /\ LogsKept /\ OwnReports

-----------------------------------------------------------------------------
LEMMA KeyInKeys == ASSUME NEW c \in Points PROVE Key(c) \in Keys
BY DEF Keys

LEMMA InvariantInit == Init => IInv
<1>. SUFFICES ASSUME Init
              PROVE  IInv
  OBVIOUS
<1>. USE SettingsAssumption DEF Init
<1>1. TypeOK
  BY DEF TypeOK, Stages
<1>2. Progress
  BY DEF Progress
<1>3. CacheTrue /\ AnswersServe /\ MemoryKeeps
  BY DEF CacheTrue, AnswersServe, MemoryKeeps
<1>4. RowsByLast /\ LogsKept /\ OwnReports
  BY NoneAssumption DEF RowsByLast, LogsKept, OwnReports
<1>. QED  BY <1>1, <1>2, <1>3, <1>4 DEF IInv

LEMMA TypeStep == TypeOK /\ Progress /\ [Next]_vars => TypeOK'
<1>. SUFFICES ASSUME TypeOK, Progress, [Next]_vars
              PROVE  TypeOK'
  OBVIOUS
<1>. USE SettingsAssumption DEF TypeOK
<1>1. ASSUME NEW p \in Calls, GetWeather(p)
      PROVE  TypeOK'
  <2>1. Key(point[p]) \in Keys
    BY KeyInKeys
  <2>2. CASE Begin(p)
    BY <2>2 DEF Begin, Stages
  <2>3. CASE LookupHit(p)
    <3>1. cache[Key(point[p])].weather \in Calls
      BY <2>1, <2>3 DEF LookupHit, Live, Entries
    <3>. QED  BY <2>3, <3>1 DEF LookupHit, Stages
  <2>4. CASE LookupMiss(p) \/ FetchFail(p)
    BY <2>4 DEF LookupMiss, FetchFail, Stages
  <2>5. CASE Fetch(p)
    BY <2>5 DEF Fetch, Stages
  <2>6. CASE Store(p)
    <3>1. [weather |-> p, stored |-> clock] \in Entries
      BY DEF Entries
    <3>. QED  BY <2>1, <2>6, <3>1 DEF Store, Stages
  <2>7. CASE StoreFail(p) \/ Call(p) \/ LogFail(p) \/ LogAbort(p)
    BY <2>7 DEF StoreFail, Call, LogFail, LogAbort, Stages
  <2>8. CASE Log(p)
    <3>1. Row(p) \in Records
      BY <2>8 DEF Row, Records, Log, Progress
    <3>. QED  BY <2>8, <3>1 DEF Log, Upsert, Stages
  <2>. QED  BY <1>1, <2>2, <2>3, <2>4, <2>5, <2>6, <2>7, <2>8 DEF GetWeather
<1>2. CASE \E k \in Keys : Evict(k)
  BY <1>2 DEF Evict
<1>3. CASE Tick
  BY <1>3 DEF Tick
<1>4. CASE UNCHANGED vars
  BY <1>4 DEF vars
<1>. QED  BY <1>1, <1>2, <1>3, <1>4 DEF Next

LEMMA ProgressStep == TypeOK /\ Progress /\ [Next]_vars => Progress'
<1>. SUFFICES ASSUME TypeOK, Progress, [Next]_vars
              PROVE  Progress'
  OBVIOUS
<1>. USE SettingsAssumption DEF TypeOK, Progress
<1>1. ASSUME NEW p \in Calls, GetWeather(p)
      PROVE  Progress'
  <2>1. CASE Begin(p) \/ LookupHit(p) \/ LookupMiss(p)
    BY <2>1 DEF Begin, LookupHit, LookupMiss, Stages
  <2>2. CASE Fetch(p) \/ FetchFail(p)
    BY <2>2 DEF Fetch, FetchFail, Stages
  <2>3. CASE Store(p) \/ StoreFail(p)
    BY <2>3 DEF Store, StoreFail, Stages
  <2>4. CASE Call(p) \/ Log(p) \/ LogFail(p) \/ LogAbort(p)
    BY <2>4 DEF Call, Log, LogFail, LogAbort, Stages
  <2>. QED  BY <1>1, <2>1, <2>2, <2>3, <2>4 DEF GetWeather
<1>2. CASE \E k \in Keys : Evict(k)
  BY <1>2 DEF Evict
<1>3. CASE Tick
  BY <1>3 DEF Tick
<1>4. CASE UNCHANGED vars
  BY <1>4 DEF vars
<1>. QED  BY <1>1, <1>2, <1>3, <1>4 DEF Next

\* Steps that touch neither the cache nor what was stored leave it true.
LEMMA CacheStep == IInv /\ [Next]_vars => CacheTrue' /\ MemoryKeeps'
<1>. SUFFICES ASSUME IInv, [Next]_vars
              PROVE  CacheTrue' /\ MemoryKeeps'
  OBVIOUS
<1>1. /\ TypeOK /\ Progress /\ CacheTrue /\ MemoryKeeps
      /\ clock \in Nat /\ \A q \in Calls : Key(point[q]) \in Keys
  BY SettingsAssumption, KeyInKeys DEF IInv, TypeOK
<1>2. CASE UNCHANGED <<backend, point, cache, stored>>
  BY <1>1, <1>2 DEF CacheTrue, MemoryKeeps, Serves
<1>3. ASSUME NEW p \in Calls, Store(p)
      PROVE  CacheTrue' /\ MemoryKeeps'
  <2>. PICK k0, e : k0 = Key(point[p]) /\ e = [weather |-> p, stored |-> clock]
    OBVIOUS
  <2>1. /\ cache' = [cache EXCEPT ![k0] = e] /\ stored' = [stored EXCEPT ![p] = clock]
        /\ UNCHANGED <<backend, point>> /\ Encodable(point[p]) /\ pc[p] = "store"
    BY <1>3 DEF Store
  <2>2. /\ e \in Entries /\ e # None /\ e.weather = p /\ e.stored = clock
        /\ Valid(point[p]) /\ k0 \in Keys
    BY <1>1, <2>1, NoneAssumption DEF Entries, Progress
  <2>3. /\ cache'[k0] = e /\ \A k \in Keys : k # k0 => cache'[k] = cache[k]
        /\ stored'[p] = clock /\ \A q \in Calls : q # p => stored'[q] = stored[q]
    BY <1>1, <2>1, <2>2 DEF TypeOK
  <2>4. CacheTrue'
    <3>1. ASSUME NEW k \in Keys, cache'[k] # None, k # k0
          PROVE  (Serves(cache[k].weather, k) /\ stored[cache[k].weather] = cache[k].stored)'
      <4>1. /\ cache'[k] = cache[k] /\ cache[k].weather \in Calls /\ cache[k].stored \in Nat
            /\ Serves(cache[k].weather, k) /\ stored[cache[k].weather] = cache[k].stored
        BY <1>1, <2>3, <3>1 DEF CacheTrue, TypeOK, Entries
      <4>2. cache[k].weather # p
        BY <1>1, <2>1, <4>1 DEF Progress
      <4>. QED  BY <2>1, <2>3, <4>1, <4>2 DEF Serves
    <3>2. (Serves(cache[k0].weather, k0) /\ stored[cache[k0].weather] = cache[k0].stored)'
      BY <1>1, <2>1, <2>2, <2>3 DEF Serves
    <3>3. Keys' = Keys
      BY DEF Keys
    <3>. QED  BY <3>1, <3>2, <3>3 DEF CacheTrue
  <2>5. MemoryKeeps'
    <3>. SUFFICES ASSUME backend' = "memory", NEW q \in Calls, stored'[q] >= 0
                  PROVE  /\ cache'[Key(point[q])] # None
                         /\ cache'[Key(point[q])].stored >= stored'[q]
      BY <2>1 DEF MemoryKeeps
    <3>1. CASE Key(point[q]) = k0
      BY <1>1, <2>2, <2>3, <3>1 DEF Progress
    <3>2. CASE Key(point[q]) # k0
      <4>1. q # p /\ cache'[Key(point[q])] = cache[Key(point[q])] /\ stored'[q] = stored[q]
        BY <1>1, <2>3, <3>2
      <4>. QED  BY <1>1, <2>1, <4>1 DEF MemoryKeeps
    <3>. QED  BY <3>1, <3>2
  <2>. QED  BY <2>4, <2>5
<1>4. ASSUME NEW k0 \in Keys, Evict(k0)
      PROVE  CacheTrue' /\ MemoryKeeps'
  <2>1. /\ cache' = [cache EXCEPT ![k0] = None] /\ UNCHANGED <<backend, point, stored>>
        /\ backend # "memory"
    BY <1>4 DEF Evict
  <2>2. \A k \in Keys : cache'[k] # None => cache'[k] = cache[k]
    BY <1>1, <2>1 DEF TypeOK
  <2>. QED  BY <1>1, <2>1, <2>2 DEF CacheTrue, MemoryKeeps, Serves
<1>. QED  BY <1>2, <1>3, <1>4 DEF Next, GetWeather, Tick, vars, Begin,
                                  LookupHit, LookupMiss, Fetch, FetchFail, StoreFail, Call,
                                  Log, LogFail, LogAbort

LEMMA AnswersStep == IInv /\ [Next]_vars => AnswersServe'
<1>. SUFFICES ASSUME IInv, [Next]_vars
              PROVE  AnswersServe'
  OBVIOUS
<1>1. TypeOK /\ CacheTrue /\ AnswersServe /\ \A q \in Calls : Key(point[q]) \in Keys
  BY KeyInKeys DEF IInv, TypeOK
<1>2. point' = point /\ \A q \in Calls : stored[q] >= 0 => stored'[q] >= 0
  <2>1. CASE \E p \in Calls : Store(p)
    BY <1>1, <2>1, SettingsAssumption DEF TypeOK, Store
  <2>2. CASE UNCHANGED <<point, stored>>
    BY <2>2
  <2>. QED  BY <2>1, <2>2 DEF Next, GetWeather, Tick, vars, Evict, Begin,
                              LookupHit, LookupMiss, Fetch, FetchFail, StoreFail, Call, Log,
                              LogFail, LogAbort
<1>3. \A w, k : Serves(w, k) => Serves(w, k)'
  BY <1>2 DEF Serves
<1>4. CASE UNCHANGED answer
  BY <1>1, <1>2, <1>3, <1>4 DEF AnswersServe
<1>5. ASSUME NEW p \in Calls, LookupHit(p)
      PROVE  AnswersServe'
  <2>1. Serves(cache[Key(point[p])].weather, Key(point[p]))
    BY <1>1, <1>5 DEF CacheTrue, LookupHit, Live
  <2>. QED  BY <1>1, <1>2, <1>3, <1>5, <2>1 DEF AnswersServe, LookupHit, TypeOK
<1>6. ASSUME NEW p \in Calls, Fetch(p)
      PROVE  AnswersServe'
  BY <1>1, <1>2, <1>3, <1>6 DEF AnswersServe, Fetch, TypeOK
<1>. QED  BY <1>4, <1>5, <1>6 DEF Next, GetWeather, Tick, vars, Evict,
                                  Begin, LookupMiss, FetchFail, Store, StoreFail, Call, Log,
                                  LogFail, LogAbort

\* Only a call that logs writes a row, and its answer is settled by then.
LEMMA RowsStep == IInv /\ [Next]_vars => RowsByLast' /\ LogsKept'
<1>. SUFFICES ASSUME IInv, [Next]_vars
              PROVE  RowsByLast' /\ LogsKept'
  OBVIOUS
<1>1. TypeOK /\ Progress /\ RowsByLast /\ LogsKept /\ clock \in Nat
  BY SettingsAssumption DEF IInv, TypeOK
<1>2. ASSUME UNCHANGED <<point, rows, written>>,
             \A q \in Calls : written[q] >= 0 => answer'[q] = answer[q] /\ began'[q] = began[q]
      PROVE  RowsByLast' /\ LogsKept'
  <2>1. \A q, w \in Calls : LastWriter(q, w) => LastWriter(q, w)' /\ began'[q] = began[q]
    BY <1>2 DEF LastWriter
  <2>2. RowsByLast'
    <3>. SUFFICES ASSUME NEW w \in Calls, rows[w] # None
                  PROVE  \E q \in Calls :
                           /\ LastWriter(q, w)'
                           /\ rows[w] = [point |-> point[q], hit |-> q # w, at |-> began'[q]]
      BY <1>2 DEF RowsByLast
    <3>1. PICK q \in Calls :
            /\ LastWriter(q, w)
            /\ rows[w] = [point |-> point[q], hit |-> q # w, at |-> began[q]]
      BY <1>1 DEF RowsByLast
    <3>. QED  BY <2>1, <3>1
  <2>. QED  BY <1>1, <1>2, <2>2 DEF LogsKept
<1>3. ASSUME NEW p \in Calls, Log(p)
      PROVE  RowsByLast' /\ LogsKept'
  <2>. PICK w0, r : w0 = answer[p] /\ r = Row(p)
    OBVIOUS
  <2>1. /\ rows' = [rows EXCEPT ![w0] = r] /\ written' = [written EXCEPT ![p] = clock]
        /\ UNCHANGED <<point, answer, began>> /\ pc[p] = "write"
    BY <1>3 DEF Log, Upsert
  <2>2. w0 \in Calls /\ r # None
    <3>1. w0 \in Calls
      BY <1>1, <2>1 DEF TypeOK
    <3>2. r \in Records
      BY <1>1, <2>1 DEF TypeOK, Progress, Row, Records
    <3>. QED  BY <3>1, <3>2, NoneAssumption
  <2>3. /\ rows'[w0] = r /\ \A w \in Calls : w # w0 => rows'[w] = rows[w]
        /\ written'[p] = clock /\ \A q \in Calls : q # p => written'[q] = written[q]
    BY <1>1, <2>1, <2>2 DEF TypeOK
  <2>4. ~(written[p] >= 0)
    BY <1>1, <2>1 DEF Progress
  <2>5. RowsByLast'
    <3>. SUFFICES ASSUME NEW w \in Calls, rows'[w] # None
                  PROVE  \E q \in Calls :
                           /\ LastWriter(q, w)'
                           /\ rows'[w] = [point |-> point[q], hit |-> q # w, at |-> began[q]]
      BY <2>1 DEF RowsByLast
    <3>1. CASE w = w0
      <4>1. r = [point |-> point[p], hit |-> p # w, at |-> began[p]]
        <5>1. (answer[p] # p) = (p # w)
          BY <3>1
        <5>. QED  BY <5>1 DEF Row
      <4>2. LastWriter(p, w)'
        BY <1>1, <2>1, <2>3, <3>1 DEF LastWriter, Progress
      <4>. QED  BY <2>3, <3>1, <4>1, <4>2
    <3>2. CASE w # w0
      <4>1. rows'[w] = rows[w] /\ rows[w] # None
        BY <2>3, <3>2
      <4>2. PICK q \in Calls :
              /\ LastWriter(q, w)
              /\ rows[w] = [point |-> point[q], hit |-> q # w, at |-> began[q]]
        BY <1>1, <4>1 DEF RowsByLast
      <4>3. LastWriter(q, w)'
        BY <2>1, <2>3, <2>4, <3>2, <4>2 DEF LastWriter
      <4>. QED  BY <4>1, <4>2, <4>3
    <3>. QED  BY <3>1, <3>2
  <2>6. LogsKept'
    <3>. SUFFICES ASSUME NEW q \in Calls, written'[q] >= 0
                  PROVE  answer[q] \in Calls /\ rows'[answer[q]] # None
      BY <2>1 DEF LogsKept
    <3>1. CASE answer[q] = w0
      BY <2>2, <2>3, <3>1
    <3>2. CASE answer[q] # w0
      BY <1>1, <2>3, <3>2 DEF LogsKept
    <3>. QED  BY <3>1, <3>2
  <2>. QED  BY <2>5, <2>6
<1>4. ASSUME NEW p \in Calls, LookupHit(p) \/ Fetch(p) \/ Call(p) \/ LogFail(p) \/ LogAbort(p)
      PROVE  RowsByLast' /\ LogsKept'
  <2>1. \A q \in Calls : written[q] >= 0 => answer'[q] = answer[q] /\ began'[q] = began[q]
    BY <1>1, <1>4 DEF LookupHit, Fetch, Call, LogFail, LogAbort, Progress, TypeOK
  <2>2. UNCHANGED <<point, rows, written>>
    BY <1>4 DEF LookupHit, Fetch, Call, LogFail, LogAbort
  <2>. QED  BY <1>2, <2>1, <2>2
<1>5. \/ UNCHANGED <<point, rows, written, answer, began>>
      \/ \E p \in Calls : Log(p) \/ LookupHit(p) \/ Fetch(p) \/ Call(p) \/ LogFail(p) \/ LogAbort(p)
  BY DEF Next, GetWeather, Tick, vars, Evict, Begin, LookupMiss, FetchFail,
         Store, StoreFail
<1>. QED  BY <1>2, <1>3, <1>4, <1>5

\* A report comes into the world with its fetch, and is handed on by the cache.
LEMMA OwnStep == IInv /\ [Next]_vars => OwnReports'
<1>. SUFFICES ASSUME IInv, [Next]_vars
              PROVE  OwnReports'
  OBVIOUS
<1>. DEFINE Before == {"idle", "lookup", "fetch", "failed", "invalid"}
<1>1. TypeOK /\ Progress /\ CacheTrue /\ OwnReports /\ \A q \in Calls : Key(point[q]) \in Keys
  BY KeyInKeys DEF IInv, TypeOK
<1>2. \A p \in Calls : pc'[p] \in Before => pc[p] \in Before
  <2>1. ASSUME NEW q \in Calls, Begin(q) \/ LookupHit(q) \/ LookupMiss(q)
        PROVE  \A p \in Calls : pc'[p] \in Before => pc[p] \in Before
    BY <1>1, <2>1 DEF TypeOK, Begin, LookupHit, LookupMiss
  <2>2. ASSUME NEW q \in Calls, Fetch(q) \/ FetchFail(q) \/ Store(q) \/ StoreFail(q)
        PROVE  \A p \in Calls : pc'[p] \in Before => pc[p] \in Before
    BY <1>1, <2>2 DEF TypeOK, Fetch, FetchFail, Store, StoreFail
  <2>3. ASSUME NEW q \in Calls, Call(q) \/ Log(q) \/ LogFail(q) \/ LogAbort(q)
        PROVE  \A p \in Calls : pc'[p] \in Before => pc[p] \in Before
    BY <1>1, <2>3 DEF TypeOK, Call, Log, LogFail, LogAbort
  <2>. QED  BY <2>1, <2>2, <2>3 DEF Next, GetWeather, Tick, vars, Evict
<1>3. CASE UNCHANGED answer
  BY <1>1, <1>2, <1>3 DEF OwnReports
<1>4. ASSUME NEW p \in Calls, LookupHit(p)
      PROVE  OwnReports'
  <2>1. /\ stored[cache[Key(point[p])].weather] >= 0
        /\ cache[Key(point[p])].weather \in Calls
    BY <1>1, <1>4 DEF CacheTrue, Serves, LookupHit, Live
  <2>2. pc[cache[Key(point[p])].weather] \notin Before
    BY <1>1, <2>1 DEF Progress
  <2>. QED  BY <1>1, <1>2, <1>4, <2>1, <2>2 DEF OwnReports, LookupHit, TypeOK
<1>5. ASSUME NEW p \in Calls, Fetch(p)
      PROVE  OwnReports'
  BY <1>1, <1>2, <1>5 DEF OwnReports, Fetch, TypeOK
<1>. QED  BY <1>3, <1>4, <1>5 DEF Next, GetWeather, Tick, vars, Evict,
                                  Begin, LookupMiss, FetchFail, Store, StoreFail, Call, Log,
                                  LogFail, LogAbort

LEMMA InvariantStep == IInv /\ [Next]_vars => IInv'
BY TypeStep, ProgressStep, CacheStep, AnswersStep, RowsStep, OwnStep DEF IInv

LEMMA Invariance == Spec => []IInv
<1>. QED  BY InvariantInit, InvariantStep, PTL DEF Spec

-----------------------------------------------------------------------------
\* Every variable has its type, for any calls, places, TTL and either cache.
THEOREM TypeCorrect == Spec => []TypeOK
<1>1. IInv => TypeOK
  BY DEF IInv
<1>. QED  BY <1>1, Invariance, PTL

\* Two coordinates that print alike are within a hundredth of a degree.
LEMMA HundredthsNear ==
    ASSUME NEW x \in Int \cup {NaN}, NEW y \in Int, Hundredths(x) = Hundredths(y)
    PROVE  Near(x, y)
<1>1. y # NaN /\ NaN \notin BOOLEAN \X Nat
  BY PointsAssumption
<1>2. Hundredths(y) = <<y < 0, (Magnitude(y) + 5) \div 10>>
  BY <1>1 DEF Hundredths
<1>3. (Magnitude(y) + 5) \div 10 \in Nat
  BY DEF Magnitude
<1>4. x # NaN
  <2>1. Hundredths(y) \in BOOLEAN \X Nat
    <3>1. (y < 0) \in BOOLEAN
      OBVIOUS
    <3>2. \A s \in BOOLEAN, m \in Nat : <<s, m>> \in BOOLEAN \X Nat
      OBVIOUS
    <3>. QED  BY <1>2, <1>3, <3>1, <3>2, Zenon
  <2>2. Hundredths(NaN) = NaN
    BY DEF Hundredths
  <2>. QED  BY <1>1, <2>1, <2>2
<1>5. Hundredths(x) = <<x < 0, (Magnitude(x) + 5) \div 10>>
  BY <1>4 DEF Hundredths
<1>6. (x < 0) = (y < 0) /\ (Magnitude(x) + 5) \div 10 = (Magnitude(y) + 5) \div 10
  BY <1>2, <1>5
<1>7. Magnitude(x - y) <= 10
  BY <1>4, <1>6 DEF Magnitude
<1>. QED  BY <1>1, <1>4, <1>7 DEF Near

LEMMA AnswersMatchNow == IInv => AnswersMatchLocation
<1>1. ASSUME IInv, NEW p \in Calls, answer[p] \notin {None, p}
      PROVE  /\ Near(point[p].lat, point[answer[p]].lat)
             /\ Near(point[p].lon, point[answer[p]].lon)
  <2>1. Key(point[answer[p]]) = Key(point[p]) /\ Encodable(point[answer[p]])
    BY <1>1 DEF IInv, AnswersServe, Serves
  <2>2. point[p] \in Points /\ point[answer[p]] \in Points
    BY <1>1 DEF IInv, TypeOK
  <2>3. /\ point[p].lat \in Int \cup {NaN} /\ point[p].lon \in Int \cup {NaN}
        /\ point[answer[p]].lat \in Int /\ point[answer[p]].lon \in Int
    BY <2>1, <2>2, PointsAssumption DEF Encodable
  <2>. QED  BY <2>1, <2>3, HundredthsNear DEF Key
<1>. QED  BY <1>1 DEF AnswersMatchLocation

\* A report of another request is one for the same place, to a hundredth of a
\* degree, whatever was asked for, stored, evicted or overwritten before.
THEOREM AnswersMatch == Spec => []AnswersMatchLocation
<1>. QED  BY AnswersMatchNow, Invariance, PTL

\* A request fails exactly with its own fetch, whatever cache or database do, and
\* then nobody has its report: no call fetches it for another (OwnReports), the
\* cache holds what was stored (CacheTrue), and a row is written by a call that was
\* answered with it (RowsByLast).
THEOREM FailsWithUpstream == Spec => []FailsOnlyWithUpstream
<1>1. ASSUME IInv
      PROVE  FailsOnlyWithUpstream
  <2>1. TypeOK /\ Progress /\ CacheTrue /\ RowsByLast /\ OwnReports
    BY <1>1 DEF IInv
  <2>2. {p \in Calls : pc[p] = "failed"} = refused
    BY <2>1 DEF TypeOK, Progress
  <2>3. ASSUME NEW p \in refused
        PROVE  /\ rows[p] = None
               /\ \A q \in Calls : answer[q] # p
               /\ \A k \in Keys : cache[k] = None \/ cache[k].weather # p
    <3>1. p \in Calls /\ pc[p] = "failed"
      BY <2>1 DEF TypeOK, Progress
    <3>2. \A q \in Calls : answer[q] # p
      BY <2>1, <3>1 DEF OwnReports
    <3>3. rows[p] = None
      BY <2>1, <3>1, <3>2 DEF RowsByLast, LastWriter
    <3>4. \A k \in Keys : cache[k] = None \/ cache[k].weather # p
      BY <2>1, <3>1 DEF CacheTrue, Serves, Progress
    <3>. QED  BY <3>2, <3>3, <3>4
  <2>. QED  BY <2>2, <2>3 DEF FailsOnlyWithUpstream
<1>. QED  BY <1>1, Invariance, PTL

\* A row of the log speaks of a request that was answered with its report.
THEOREM RowsHold == Spec => []RowsTruthful
<1>1. IInv => RowsTruthful
  BY DEF IInv, RowsByLast, LastWriter, RowsTruthful
<1>. QED  BY <1>1, Invariance, PTL

\* The statistics of a period miss a report that was logged in it only where the
\* last transaction to write its row began before the period, and was open all
\* the time that those of the period were.
THEOREM StatsMissOverlaps == Spec => []StatsMissOnlyOverlaps
<1>1. ASSUME IInv, NEW since \in 0 .. MaxTime
      PROVE  /\ \A w \in Counted(since) :
                    \E p \in Calls : answer[p] = w /\ written[p] >= 0 /\ began[p] >= since
             /\ \A p \in Calls :
                    written[p] >= 0 /\ began[p] >= since /\ answer[p] \notin Counted(since) =>
                        \E q \in Calls : /\ answer[q] = answer[p]
                                         /\ began[q] \in 0 .. since - 1
                                         /\ written[q] >= written[p]
  <2>1. /\ TypeOK /\ Progress /\ RowsByLast /\ LogsKept /\ since \in Nat
        /\ \A q \in Calls : began[q] \in Int /\ written[q] \in Int
    BY <1>1, SettingsAssumption DEF IInv, TypeOK
  <2>2. ASSUME NEW w \in Counted(since)
        PROVE  \E p \in Calls : answer[p] = w /\ written[p] >= 0 /\ began[p] >= since
    <3>1. w \in Calls /\ rows[w] # None /\ rows[w].at >= since
      BY <2>2 DEF Counted
    <3>2. PICK q \in Calls :
            /\ LastWriter(q, w)
            /\ rows[w] = [point |-> point[q], hit |-> q # w, at |-> began[q]]
      BY <2>1, <3>1 DEF RowsByLast
    <3>. QED  BY <3>1, <3>2 DEF LastWriter
  <2>3. ASSUME NEW p \in Calls, written[p] >= 0, began[p] >= since,
               answer[p] \notin Counted(since)
        PROVE  \E q \in Calls : /\ answer[q] = answer[p]
                                /\ began[q] \in 0 .. since - 1
                                /\ written[q] >= written[p]
    <3>1. answer[p] \in Calls /\ rows[answer[p]] # None
      BY <2>1, <2>3 DEF LogsKept
    <3>2. PICK q \in Calls :
            /\ LastWriter(q, answer[p])
            /\ rows[answer[p]] = [point |-> point[q], hit |-> q # answer[p], at |-> began[q]]
      BY <2>1, <3>1 DEF RowsByLast
    <3>3. ~(began[q] >= since)
      BY <2>3, <3>1, <3>2 DEF Counted
    <3>4. answer[q] = answer[p] /\ written[q] >= written[p] /\ 0 <= began[q]
      BY <2>1, <2>3, <3>2 DEF LastWriter, Progress
    <3>. QED  BY <2>1, <3>3, <3>4
  <2>. QED  BY <2>2, <2>3
<1>2. IInv => StatsMissOnlyOverlaps
  BY <1>1 DEF StatsMissOnlyOverlaps
<1>. QED  BY <1>2, Invariance, PTL

\* No hit is on a report stored more than TTL ago or for refused coordinates.
THEOREM HitsFresh == Spec => HitsAreFresh
<1>. DEFINE A == \A p \in Calls : (answer'[p] # answer[p] /\ answer'[p] # p) =>
                   /\ Valid(point[answer'[p]])
                   /\ stored[answer'[p]] >= 0
                   /\ clock <= stored[answer'[p]] + TTL
<1>1. ASSUME IInv, [Next]_vars
      PROVE  A
  <2>. SUFFICES ASSUME NEW p \in Calls, answer'[p] # answer[p], answer'[p] # p
                PROVE  /\ Valid(point[answer'[p]])
                       /\ stored[answer'[p]] >= 0
                       /\ clock <= stored[answer'[p]] + TTL
    OBVIOUS
  <2>1. TypeOK /\ CacheTrue
    BY <1>1 DEF IInv
  <2>2. LookupHit(p)
    <3>1. answer' # answer
      OBVIOUS
    <3>2. PICK q \in Calls : LookupHit(q) \/ Fetch(q)
      BY <1>1, <3>1 DEF Next, GetWeather, Tick, vars, Evict, Begin,
                        LookupMiss, FetchFail, Store, StoreFail, Call, Log, LogFail, LogAbort
    <3>3. q = p
      BY <2>1, <3>2 DEF TypeOK, LookupHit, Fetch
    <3>. QED  BY <2>1, <3>2, <3>3 DEF TypeOK, Fetch
  <2>3. Key(point[p]) \in Keys
    BY <2>1, KeyInKeys DEF TypeOK
  <2>. QED  BY <2>1, <2>2, <2>3 DEF LookupHit, Live, CacheTrue, Serves, TypeOK, Entries
<1>2. IInv /\ [Next]_vars => [A]_vars
  BY <1>1
<1>. QED  BY <1>2, Invariance, PTL DEF Spec, HitsAreFresh

\* With a cache that does not fail, no request for a place reaches the weather
\* API within TTL of the moment a report for it was stored.
THEOREM RefetchAfterExpiry == Spec => RefetchOnlyAfterExpiry
<1>. DEFINE A == \A p \in Calls : backend = "memory" /\ pc[p] = "lookup" /\ pc'[p] = "fetch" =>
                   \A q \in Calls : (stored[q] >= 0 /\ Key(point[q]) = Key(point[p]))
                                        => clock > stored[q] + TTL
<1>1. ASSUME IInv, [Next]_vars
      PROVE  A
  <2>. SUFFICES ASSUME NEW p \in Calls, backend = "memory", pc[p] = "lookup", pc'[p] = "fetch",
                       NEW q \in Calls, stored[q] >= 0, Key(point[q]) = Key(point[p])
                PROVE  clock > stored[q] + TTL
    OBVIOUS
  <2>1. TypeOK /\ MemoryKeeps
    BY <1>1 DEF IInv
  <2>2. LookupMiss(p)
    BY <1>1, <2>1 DEF TypeOK, Next, GetWeather, Tick, vars, Evict, Begin,
                      LookupHit, LookupMiss, Fetch, FetchFail, Store, StoreFail, Call, Log,
                      LogFail, LogAbort
  <2>3. ~Live(Key(point[p]))
    BY <2>2 DEF LookupMiss
  <2>4. /\ Key(point[p]) \in Keys /\ cache[Key(point[p])] # None
        /\ cache[Key(point[p])].stored >= stored[q]
    BY <2>1, KeyInKeys DEF TypeOK, MemoryKeeps
  <2>. QED  BY <2>1, <2>3, <2>4, SettingsAssumption DEF Live, TypeOK, Entries
<1>2. IInv /\ [Next]_vars => [A]_vars
  BY <1>1
<1>. QED  BY <1>2, Invariance, PTL DEF Spec, RefetchOnlyAfterExpiry
=============================================================================
