------------------------- MODULE CircuitBreakerProofs -------------------------
(***************************************************************************)
(* Proofs about CircuitBreaker for any number of calls, any settings and   *)
(* any time at which a call enters, returns or reads the state.            *)
(***************************************************************************)
EXTENDS CircuitBreaker, FiniteSetTheorems, TLAPS

\* How far a call has come says what is known of it.
Progress ==
    \A p \in Calls :
        /\ pc[p] \in {"idle", "entered"} => gen[p] = 0
        /\ pc[p] \in {"idle", "entered", "calling"} => outcome[p] = "none"
        /\ gen[p] # 0 => /\ outcome[p] # "rejected"
                         /\ outcome[p] = "none" => pc[p] = "calling"
        /\ pc[p] = "calling" => gen[p] # 0

Successes(g) == {p \in Cohort(g) : outcome[p] = "ok"}
Failures(g) == {p \in Cohort(g) : Failed(p)}

\* Breaker b has counted the calls of its generation and no others.
Exact(b) ==
    /\ \A p \in Calls : gen[p] <= b.generation
    /\ b.counts.requests = Cardinality(Cohort(b.generation))
    /\ b.counts.successes = Cardinality(Successes(b.generation))
    /\ b.counts.failures = Cardinality(Failures(b.generation))
    /\ b.counts.inARow <= b.counts.successes

\* A closed breaker with failures is not due to trip; an open one has counted
\* nothing; a half-open one has counted no failure, as it would have opened,
\* and not all the successes, as it would have closed.
Decided(b) ==
    /\ (b.state = "closed" /\ b.counts.failures # 0) =>
          b.counts.failures < TripAt \/ 2 * b.counts.failures < b.counts.requests
    /\ b.state = "open" => b.counts = NoCounts
    /\ b.state = "half-open" =>
          /\ b.counts.failures = 0
          /\ b.counts.inARow = b.counts.successes
          /\ b.counts.successes < MaxRequests
          /\ b.counts.requests <= MaxRequests

\* A breaker that has tripped is open for Timeout.
Cooled(b) ==
    /\ b.state = "open" => trippedAt >= 0
    /\ trippedAt >= 0 => IF b.state = "open" THEN b.expiry = trippedAt + Timeout
                                             ELSE clock > trippedAt + Timeout

Sound(b) == b \in Breakers /\ Exact(b) /\ Decided(b) /\ Cooled(b)

IInv == TypeOK /\ Progress /\ Sound(breaker)

-----------------------------------------------------------------------------
LEMMA CohortSets ==
    ASSUME NEW g
    PROVE  /\ IsFiniteSet(Cohort(g)) /\ IsFiniteSet(Successes(g)) /\ IsFiniteSet(Failures(g))
           /\ Cardinality(Cohort(g)) \in Nat
           /\ Cardinality(Successes(g)) \in Nat /\ Cardinality(Failures(g)) \in Nat
           /\ Cardinality(Failures(g)) <= Cardinality(Cohort(g))
<1>1. Cohort(g) \in SUBSET Calls
  BY DEF Cohort
<1>2. IsFiniteSet(Cohort(g))
  BY <1>1, CallsAssumption, FS_Subset
<1>3. Successes(g) \in SUBSET Cohort(g) /\ Failures(g) \in SUBSET Cohort(g)
  BY DEF Successes, Failures
<1>4. /\ IsFiniteSet(Successes(g)) /\ IsFiniteSet(Failures(g))
      /\ Cardinality(Failures(g)) <= Cardinality(Cohort(g))
  BY <1>2, <1>3, FS_Subset
<1>. QED  BY <1>2, <1>4, FS_CardinalityType

\* A new generation has admitted nobody, and its counts say so.
LEMMA NewGenerationExact ==
    ASSUME NEW b \in Breakers, NEW s \in States, clock \in Nat,
           gen \in [Calls -> Nat], \A p \in Calls : gen[p] <= b.generation
    PROVE  /\ NewGeneration(b, s) \in Breakers
           /\ NewGeneration(b, s).state = s
           /\ NewGeneration(b, s).generation = b.generation + 1
           /\ NewGeneration(b, s).expiry = Expiry(s)
           /\ NewGeneration(b, s).counts = NoCounts
           /\ Cohort(b.generation + 1) = {}
           /\ Exact(NewGeneration(b, s))
<1>. DEFINE g == b.generation + 1
<1>1. Expiry(s) \in Nat
  BY SettingsAssumption DEF Expiry, States
<1>2. NewGeneration(b, s) \in Breakers
  BY <1>1 DEF NewGeneration, Breakers, Tallies, NoCounts
<1>3. Cohort(g) = {}
  BY DEF Cohort, Breakers
<1>4. Successes(g) = {} /\ Failures(g) = {}
  BY <1>3 DEF Successes, Failures
<1>5. Cardinality({}) = 0
  BY FS_EmptySet
<1>6. NewGeneration(b, s).generation = g /\ NewGeneration(b, s).counts = NoCounts
  BY DEF NewGeneration
<1>7. Exact(NewGeneration(b, s))
  <2>1. \A p \in Calls : gen[p] <= g
    BY DEF Breakers
  <2>. HIDE DEF g
  <2>. QED  BY <1>3, <1>4, <1>5, <1>6, <2>1 DEF Exact, NoCounts
<1>. QED  BY <1>2, <1>3, <1>6, <1>7 DEF NewGeneration

\* What a step of gobreaker finds is the breaker, or the same rolled over.
LEMMA CurrentSound ==
    ASSUME IInv
    PROVE  /\ Sound(Current)
           /\ \/ Current = breaker
              \/ /\ Cohort(Current.generation) = {}
                 /\ Current.counts = NoCounts
                 /\ \/ breaker.state = "closed" /\ Current.state = "closed"
                    \/ breaker.state = "open" /\ Current.state = "half-open"
<1>1. breaker \in Breakers /\ Exact(breaker) /\ Decided(breaker) /\ Cooled(breaker)
  BY DEF IInv, Sound
<1>2. clock \in Nat /\ gen \in [Calls -> Nat] /\ \A p \in Calls : gen[p] <= breaker.generation
  BY <1>1, SettingsAssumption DEF IInv, TypeOK, Breakers, Exact
<1>3. CASE Current = breaker
  BY <1>1, <1>3 DEF Sound
<1>4. CASE breaker.state = "closed" /\ Expired /\ Current = NewGeneration(breaker, "closed")
  <2>1. /\ Current \in Breakers /\ Exact(Current) /\ Current.state = "closed"
        /\ Current.counts = NoCounts /\ Cohort(Current.generation) = {}
    BY <1>1, <1>2, <1>4, NewGenerationExact DEF States
  <2>2. Decided(Current) /\ Cooled(Current)
    BY <1>1, <1>4, <2>1 DEF Decided, Cooled, NoCounts
  <2>. QED  BY <1>4, <2>1, <2>2 DEF Sound
<1>5. CASE breaker.state = "open" /\ Expired /\ Current = NewGeneration(breaker, "half-open")
  <2>1. /\ Current \in Breakers /\ Exact(Current) /\ Current.state = "half-open"
        /\ Current.counts = NoCounts /\ Cohort(Current.generation) = {}
    BY <1>1, <1>2, <1>5, NewGenerationExact DEF States
  <2>2. Decided(Current)
    BY <2>1, SettingsAssumption DEF Decided, NoCounts
  <2>3. Cooled(Current)
    BY <1>1, <1>5, <2>1 DEF Cooled, Expired
  <2>. QED  BY <1>5, <2>1, <2>2, <2>3 DEF Sound
<1>. QED  BY <1>3, <1>4, <1>5 DEF Current

\* What was exact stays so if only calls of other generations have returned.
LEMMA ExactStays ==
    ASSUME TypeOK, NEW b \in Breakers, Exact(b), breaker' = b, gen' = gen,
           \A p \in Cohort(b.generation) : outcome'[p] = outcome[p]
    PROVE  Exact(breaker)'
<1>. DEFINE g == b.generation
<1>1. Cohort(g)' = Cohort(g)
  BY DEF Cohort
<1>2. Successes(g)' = Successes(g) /\ Failures(g)' = Failures(g)
  BY <1>1 DEF Successes, Failures, Failed
<1>. QED  BY <1>1, <1>2 DEF Exact

\* A call is admitted: counted, and in no generation before.
LEMMA AdmitStep ==
    ASSUME IInv, NEW p \in Calls, Admit(p)
    PROVE  Sound(breaker)'
<1>. PICK g : g = Current.generation
  OBVIOUS
<1>1. Sound(Current) /\ Current \in Breakers
  BY CurrentSound DEF Sound
<1>2. g \in Nat \ {0} /\ gen \in [Calls -> Nat] /\ gen[p] = 0 /\ outcome[p] = "none"
  BY <1>1 DEF IInv, TypeOK, Progress, Admit, Breakers
<1>3. gen' = [gen EXCEPT ![p] = g] /\ outcome' = outcome /\ clock' = clock /\ trippedAt' = trippedAt
  BY DEF Admit
<1>4. /\ breaker' \in Breakers /\ breaker'.state = Current.state /\ breaker'.expiry = Current.expiry
      /\ breaker'.generation = g /\ breaker'.counts.requests = Current.counts.requests + 1
      /\ breaker'.counts.successes = Current.counts.successes
      /\ breaker'.counts.failures = Current.counts.failures
      /\ breaker'.counts.inARow = Current.counts.inARow
  BY <1>1 DEF Admit, Breakers, Tallies
<1>5. Cohort(g)' = Cohort(g) \cup {p} /\ p \notin Cohort(g)
  BY <1>2, <1>3 DEF Cohort
<1>6. Successes(g)' = Successes(g) /\ Failures(g)' = Failures(g)
  BY <1>2, <1>3, <1>5 DEF Successes, Failures, Failed
<1>7. Exact(breaker)'
  <2>1. Cardinality(Cohort(g))' = Cardinality(Cohort(g)) + 1
    BY <1>5, CohortSets, FS_AddElement
  <2>2. \A q \in Calls : gen'[q] <= g
    BY <1>1, <1>2, <1>3 DEF Sound, Exact
  <2>. QED  BY <1>1, <1>3, <1>4, <1>6, <2>1, <2>2 DEF Sound, Exact
<1>8. Decided(breaker)'
  <2>1. Current.state # "open" /\ ~Saturated
    BY DEF Admit
  <2>2. Current.counts.requests \in Nat /\ Current.counts.failures \in Nat
    BY <1>1 DEF Breakers, Tallies
  <2>. QED  BY <1>1, <1>4, <2>1, <2>2, SettingsAssumption DEF Sound, Decided, Saturated
<1>9. Cooled(breaker)'
  BY <1>1, <1>3, <1>4 DEF Sound, Cooled, Admit
<1>. QED  BY <1>4, <1>7, <1>8, <1>9 DEF Sound

-----------------------------------------------------------------------------
\* A result that counts: the breaker has not rolled over since the call was
\* admitted and is not open, and the call is the only one whose outcome is new.
LEMMA CountedResult ==
    ASSUME IInv, NEW p \in Calls, NEW o \in Outcomes, Finish(p, o), Counts(p),
           NEW g, g = breaker.generation
    PROVE  /\ Current = breaker /\ breaker.state \in {"closed", "half-open"}
           /\ p \in Cohort(g) /\ Cohort(g)' = Cohort(g)
           /\ o = "ok" => /\ Successes(g)' = Successes(g) \cup {p} /\ p \notin Successes(g)
                          /\ Failures(g)' = Failures(g)
           /\ o # "ok" => /\ Failures(g)' = Failures(g) \cup {p} /\ p \notin Failures(g)
                          /\ Successes(g)' = Successes(g)
<1>1. p \in Cohort(Current.generation)
  BY DEF Counts, Cohort
<1>2. Current = breaker
  BY <1>1, CurrentSound
<1>3. breaker \in Breakers /\ Exact(breaker) /\ Decided(breaker)
  BY DEF IInv, Sound
<1>4. breaker.state \in {"closed", "half-open"}
  <2>1. Cardinality(Cohort(g)) # 0
    BY <1>1, <1>2, CohortSets, FS_EmptySet
  <2>2. breaker.state # "open"
    BY <1>3, <2>1 DEF Exact, Decided, NoCounts
  <2>. QED  BY <1>3, <2>2 DEF Breakers, States
<1>5. p \in Cohort(g) /\ Cohort(g)' = Cohort(g)
  BY <1>1, <1>2 DEF Cohort, Finish
<1>6. outcome[p] = "none" /\ outcome' = [outcome EXCEPT ![p] = o] /\ DOMAIN outcome = Calls
  BY DEF IInv, TypeOK, Progress, Finish
<1>7. o \notin {"none", "rejected"} /\ \A q \in Cohort(g) : q \in Calls
  BY OutcomesAssumption DEF Cohort
<1>8. Failed(p)' <=> o # "ok"
  BY <1>6, <1>7 DEF Failed
<1>9. \A q \in Cohort(g) : q # p => outcome'[q] = outcome[q] /\ (Failed(q)' <=> Failed(q))
  BY <1>6, <1>7 DEF Failed
<1>10. ~Failed(p) /\ outcome'[p] = o
  BY <1>6 DEF Failed
<1>11. o = "ok" => /\ Successes(g)' = Successes(g) \cup {p} /\ p \notin Successes(g)
                   /\ Failures(g)' = Failures(g)
  BY <1>5, <1>6, <1>8, <1>9, <1>10, Zenon DEF Successes, Failures
<1>12. o # "ok" => /\ Failures(g)' = Failures(g) \cup {p} /\ p \notin Failures(g)
                   /\ Successes(g)' = Successes(g)
  BY <1>5, <1>6, <1>8, <1>9, <1>10, Zenon DEF Successes, Failures
<1>. QED  BY <1>2, <1>4, <1>5, <1>11, <1>12

LEMMA CountedFields ==
    ASSUME NEW c \in Tallies
    PROVE  /\ OnSuccess(c) \in Tallies /\ OnFailure(c) \in Tallies
           /\ OnSuccess(c).requests = c.requests /\ OnFailure(c).requests = c.requests
           /\ OnSuccess(c).successes = c.successes + 1 /\ OnFailure(c).successes = c.successes
           /\ OnSuccess(c).failures = c.failures /\ OnFailure(c).failures = c.failures + 1
           /\ OnSuccess(c).inARow = c.inARow + 1 /\ OnFailure(c).inARow = 0
BY DEF OnSuccess, OnFailure, Tallies

\* A result moves the breaker to a sound one, whichever way it moves it.
LEMMA FinishStep ==
    ASSUME IInv, NEW p \in Calls, NEW o \in Outcomes, Finish(p, o)
    PROVE  Sound(breaker)'
<1>. USE SettingsAssumption
<1>1. /\ TypeOK /\ breaker \in Breakers /\ clock \in Nat /\ trippedAt \in Int
      /\ Exact(breaker) /\ Decided(breaker) /\ Cooled(breaker)
      /\ gen \in [Calls -> Nat] /\ \A q \in Calls : gen[q] <= breaker.generation
  BY DEF IInv, Sound, TypeOK, Exact, Breakers
<1>2. clock' = clock /\ gen' = gen
  BY DEF Finish
<1>3. CASE ~Counts(p)
  <2>1. breaker' = Current /\ Sound(Current)
    BY <1>3, CurrentSound DEF Finish
  <2>2. trippedAt' = trippedAt
    BY <2>1, CurrentSound DEF Finish
  <2>3. \A q \in Cohort(Current.generation) : outcome'[q] = outcome[q]
    BY <1>1, <1>3 DEF TypeOK, Cohort, Counts, Finish
  <2>4. Exact(breaker)'
    BY <1>1, <1>2, <2>1, <2>3, ExactStays DEF Sound
  <2>. QED  BY <1>2, <2>1, <2>2, <2>4 DEF Sound, Decided, Cooled
<1>4. CASE Counts(p)
  <2>. PICK g : g = breaker.generation
    OBVIOUS
  <2>1. /\ Current = breaker /\ breaker.state \in {"closed", "half-open"}
        /\ p \in Cohort(g) /\ Cohort(g)' = Cohort(g)
        /\ o = "ok" => /\ Successes(g)' = Successes(g) \cup {p} /\ p \notin Successes(g)
                       /\ Failures(g)' = Failures(g)
        /\ o # "ok" => /\ Failures(g)' = Failures(g) \cup {p} /\ p \notin Failures(g)
                       /\ Successes(g)' = Successes(g)
    BY <1>4, CountedResult
  <2>2. ASSUME NEW s \in {"open", "closed"}, breaker' = NewGeneration(breaker, s)
        PROVE  breaker' \in Breakers /\ Exact(breaker)' /\ Decided(breaker)' /\ breaker'.state = s
    <3>1. /\ breaker' \in Breakers /\ breaker'.state = s /\ breaker'.counts = NoCounts
          /\ Exact(NewGeneration(breaker, s))
          /\ Cohort(breaker'.generation) = {}
      BY <1>1, <2>2, NewGenerationExact DEF States
    <3>2. Exact(breaker)'
      BY <1>1, <1>2, <2>2, <3>1, ExactStays
    <3>. QED  BY <3>1, <3>2 DEF Decided, NoCounts
  <2>3. CASE o = "ok" /\ breaker.state = "half-open" /\ Closes(breaker)
    <3>1. breaker' = NewGeneration(breaker, "closed")
      BY <1>4, <2>1, <2>3 DEF Finish, AfterSuccess
    <3>2. trippedAt' = trippedAt
      BY <2>2, <3>1 DEF Finish
    <3>3. Cooled(breaker)'
      BY <1>1, <1>2, <2>2, <2>3, <3>1, <3>2 DEF Cooled
    <3>. QED  BY <2>2, <3>1, <3>3 DEF Sound
  <2>4. CASE o = "ok" /\ ~(breaker.state = "half-open" /\ Closes(breaker))
    <3>1. breaker' = [breaker EXCEPT !.counts = OnSuccess(@)]
      BY <1>4, <2>1, <2>4 DEF Finish, AfterSuccess
    <3>3. breaker.counts \in Tallies
      BY <1>1 DEF Breakers
    <3>2. /\ breaker' \in Breakers /\ breaker'.state = breaker.state
          /\ breaker'.expiry = breaker.expiry /\ breaker'.generation = g
          /\ breaker'.counts.requests = breaker.counts.requests
          /\ breaker'.counts.successes = breaker.counts.successes + 1
          /\ breaker'.counts.failures = breaker.counts.failures
          /\ breaker'.counts.inARow = breaker.counts.inARow + 1
      BY <1>1, <3>1, <3>3, CountedFields DEF Breakers, Tallies
    <3>4. Cardinality(Successes(g))' = Cardinality(Successes(g)) + 1
      <4>1. Successes(g)' = Successes(g) \cup {p} /\ p \notin Successes(g)
        BY <2>1, <2>4
      <4>2. IsFiniteSet(Successes(g))
        BY CohortSets
      <4>3. Cardinality(Successes(g) \cup {p}) = Cardinality(Successes(g)) + 1
        BY <4>1, <4>2, FS_AddElement
      <4>. QED  BY <4>1, <4>3
    <3>5. Exact(breaker)'
      BY <1>1, <1>2, <2>1, <2>4, <3>2, <3>3, <3>4 DEF Exact, Tallies
    <3>6. Decided(breaker)'
      BY <1>1, <2>1, <2>4, <3>2, <3>3 DEF Decided, Closes, Tallies
    <3>7. Cooled(breaker)'
      BY <1>1, <1>2, <2>1, <3>2 DEF Cooled, Finish
    <3>. QED  BY <3>2, <3>5, <3>6, <3>7 DEF Sound
  <2>. DEFINE counted == [breaker EXCEPT !.counts = OnFailure(@)]
  <2>5. CASE o # "ok" /\ (breaker.state = "half-open" \/ ReadyToTrip(counted.counts))
    <3>1. breaker' = NewGeneration(breaker, "open")
      BY <1>4, <2>1, <2>5 DEF Finish, AfterFailure
    <3>2. trippedAt' = clock /\ breaker'.expiry = clock + Timeout
      BY <1>1, <2>1, <2>2, <3>1, NewGenerationExact DEF Finish, Expiry, States
    <3>3. Cooled(breaker)'
      BY <1>1, <1>2, <2>2, <3>1, <3>2 DEF Cooled
    <3>. QED  BY <2>2, <3>1, <3>3 DEF Sound
  <2>6. CASE o # "ok" /\ ~(breaker.state = "half-open" \/ ReadyToTrip(counted.counts))
    <3>1. breaker' = counted /\ breaker.state = "closed"
      BY <1>4, <2>1, <2>6 DEF Finish, AfterFailure
    <3>3. breaker.counts \in Tallies
      BY <1>1 DEF Breakers
    <3>2. /\ breaker' \in Breakers /\ breaker'.state = breaker.state
          /\ breaker'.expiry = breaker.expiry /\ breaker'.generation = g
          /\ breaker'.counts.requests = breaker.counts.requests
          /\ breaker'.counts.successes = breaker.counts.successes
          /\ breaker'.counts.failures = breaker.counts.failures + 1
          /\ breaker'.counts.inARow = 0
      BY <1>1, <3>1, <3>3, CountedFields DEF Breakers, Tallies
    <3>4. Cardinality(Failures(g))' = Cardinality(Failures(g)) + 1
      <4>1. Failures(g)' = Failures(g) \cup {p} /\ p \notin Failures(g)
        BY <2>1, <2>6
      <4>2. IsFiniteSet(Failures(g))
        BY CohortSets
      <4>3. Cardinality(Failures(g) \cup {p}) = Cardinality(Failures(g)) + 1
        BY <4>1, <4>2, FS_AddElement
      <4>. QED  BY <4>1, <4>3
    <3>5. Exact(breaker)'
      BY <1>1, <1>2, <2>1, <2>6, <3>2, <3>3, <3>4 DEF Exact, Tallies
    <3>6. Decided(breaker)'
      <4>1. breaker'.counts.failures <= breaker'.counts.requests
        <5>1. Failures(g)' \subseteq Cohort(g) /\ IsFiniteSet(Cohort(g))
          BY <2>1, <2>6, CohortSets DEF Failures
        <5>2. Cardinality(Failures(g)') <= Cardinality(Cohort(g))
          BY <5>1, FS_Subset
        <5>. QED  BY <2>1, <3>2, <3>5, <5>2 DEF Exact
      <4>2. breaker'.counts \in Tallies /\ ~ReadyToTrip(breaker'.counts)
        BY <2>6, <3>1, <3>2 DEF Breakers
      <4>. QED  BY <3>1, <3>2, <4>1, <4>2 DEF Decided, ReadyToTrip, Tallies
    <3>7. Cooled(breaker)'
      BY <1>1, <1>2, <3>1, <3>2 DEF Cooled, Finish
    <3>. QED  BY <3>2, <3>5, <3>6, <3>7 DEF Sound
  <2>. QED  BY <2>3, <2>4, <2>5, <2>6
<1>. QED  BY <1>3, <1>4
-----------------------------------------------------------------------------
LEMMA InvariantInit == Init => IInv
<1>. SUFFICES ASSUME Init
              PROVE  IInv
  OBVIOUS
<1>. USE SettingsAssumption DEF Init
<1>1. breaker \in Breakers
  BY DEF Breakers, Tallies, NoCounts, States
<1>2. TypeOK
  BY <1>1 DEF TypeOK, Stages
<1>3. Progress
  BY DEF Progress
<1>4. Exact(breaker)
  <2>1. Cohort(1) = {} /\ Successes(1) = {} /\ Failures(1) = {}
    BY DEF Cohort, Successes, Failures
  <2>. QED  BY <2>1, FS_EmptySet DEF Exact, NoCounts
<1>5. Decided(breaker) /\ Cooled(breaker)
  BY DEF Decided, Cooled, NoCounts
<1>. QED  BY <1>1, <1>2, <1>3, <1>4, <1>5 DEF IInv, Sound

\* A step that only looks at the breaker leaves it sound.
LEMMA LookStep ==
    ASSUME IInv, breaker' = Current, gen' = gen, clock' = clock, trippedAt' = trippedAt,
           \A p \in Calls : gen[p] # 0 => outcome'[p] = outcome[p]
    PROVE  Sound(breaker)'
<1>1. Sound(Current)
  BY CurrentSound
<1>2. Current.generation # 0
  BY <1>1 DEF Sound, Breakers
<1>3. Exact(breaker)'
  <2>1. \A p \in Cohort(Current.generation) : outcome'[p] = outcome[p]
    BY <1>2 DEF Cohort
  <2>. QED  BY <1>1, <2>1, ExactStays DEF IInv, Sound
<1>. QED  BY <1>1, <1>3 DEF Sound, Decided, Cooled

\* The part of a step of call p that is not about the breaker.
LEMMA CallStep ==
    ASSUME IInv, NEW p \in Calls, Execute(p), Sound(breaker)'
    PROVE  TypeOK' /\ Progress'
<1>. USE SettingsAssumption, OutcomesAssumption
<1>1. TypeOK /\ Progress
  BY DEF IInv
<1>2. /\ breaker' \in Breakers /\ (breaker'.state = "open" => breaker'.counts = NoCounts)
      /\ breaker'.generation \in Nat \ {0} /\ \A q \in Calls : gen'[q] <= breaker'.generation
  BY DEF Sound, Exact, Decided, Breakers
<1>3. Current.generation \in Nat \ {0}
  BY CurrentSound DEF Sound, Breakers
<1>4. /\ clock' \in 0 .. MaxTime /\ trippedAt' \in -1 .. MaxTime
      /\ pc' \in [Calls -> Stages]
      /\ outcome' \in [Calls -> Outcomes \cup {"none", "rejected"}]
      /\ gen' \in [Calls -> Nat]
  <2>1. gen \in [Calls -> Nat]
    BY <1>1 DEF TypeOK, IInv, Sound, Breakers
  <2>2. CASE Enter(p) \/ Reject(p) \/ Admit(p) \/ Warn(p) \/ Return(p)
    BY <1>1, <1>3, <2>1, <2>2 DEF TypeOK, Stages, Enter, Reject, Admit, Warn, Return
  <2>3. CASE \E o \in Outcomes : Finish(p, o)
    BY <1>1, <2>1, <2>3 DEF TypeOK, Stages, Finish
  <2>. QED  BY <2>2, <2>3 DEF Execute
<1>5. TypeOK'
  <2>1. gen' \in [Calls -> 0 .. breaker'.generation]
    BY <1>2, <1>4
  <2>. QED  BY <1>2, <1>4, <2>1 DEF TypeOK
<1>6. Progress'
  <2>1. /\ pc \in [Calls -> Stages] /\ DOMAIN gen = Calls /\ DOMAIN outcome = Calls
    BY <1>1 DEF TypeOK
  <2>2. CASE Enter(p) \/ Reject(p) \/ Warn(p) \/ Return(p)
    BY <1>1, <2>1, <2>2 DEF Progress, Enter, Reject, Warn, Return
  <2>3. CASE Admit(p)
    BY <1>1, <1>3, <2>1, <2>3 DEF Progress, Admit
  <2>4. CASE \E o \in Outcomes : Finish(p, o)
    BY <1>1, <2>1, <2>4 DEF Progress, Finish
  <2>. QED  BY <2>2, <2>3, <2>4 DEF Execute
<1>. QED  BY <1>5, <1>6

LEMMA InvariantStep == IInv /\ [Next]_vars => IInv'
<1>. SUFFICES ASSUME IInv, [Next]_vars
              PROVE  IInv'
  OBVIOUS
<1>1. ASSUME NEW p \in Calls, Execute(p)
      PROVE  IInv'
  <2>1. CASE Enter(p) \/ Reject(p) \/ Warn(p) \/ Return(p)
    <3>1. \A q \in Calls : gen[q] # 0 => outcome'[q] = outcome[q]
      BY <2>1 DEF IInv, TypeOK, Progress, Enter, Reject, Warn, Return
    <3>. QED  BY <1>1, <2>1, <3>1, LookStep, CallStep DEF IInv, Enter, Reject, Warn, Return
  <2>2. CASE Admit(p)
    BY <1>1, <2>2, AdmitStep, CallStep DEF IInv
  <2>3. CASE \E o \in Outcomes : Finish(p, o)
    BY <1>1, <2>3, FinishStep, CallStep DEF IInv
  <2>. QED  BY <1>1, <2>1, <2>2, <2>3 DEF Execute
<1>2. CASE Tick
  <2>1. UNCHANGED <<breaker, pc, gen, outcome, trippedAt>> /\ clock' = clock + 1
    BY <1>2 DEF Tick
  <2>2. TypeOK' /\ Progress'
    BY <1>2, <2>1, SettingsAssumption DEF IInv, TypeOK, Progress, Tick
  <2>3. Exact(breaker)'
    BY <2>1, ExactStays DEF IInv, Sound
  <2>4. Decided(breaker)' /\ Cooled(breaker)'
    BY <2>1, SettingsAssumption DEF IInv, TypeOK, Sound, Decided, Cooled
  <2>. QED  BY <2>1, <2>2, <2>3, <2>4 DEF IInv, Sound
<1>3. CASE UNCHANGED vars
  <2>1. UNCHANGED <<clock, breaker, pc, gen, outcome, trippedAt>>
    BY <1>3 DEF vars
  <2>2. Exact(breaker)'
    BY <2>1, ExactStays DEF IInv, Sound
  <2>3. TypeOK' /\ Progress' /\ Decided(breaker)' /\ Cooled(breaker)'
    BY <2>1 DEF IInv, TypeOK, Progress, Sound, Decided, Cooled
  <2>. QED  BY <2>1, <2>2, <2>3 DEF IInv, Sound
<1>. QED  BY <1>1, <1>2, <1>3 DEF Next

LEMMA Invariance == Spec => []IInv
<1>. QED  BY InvariantInit, InvariantStep, PTL DEF Spec

-----------------------------------------------------------------------------
\* Every variable has its type and an open breaker has counted nothing, for
\* any calls and settings.
THEOREM TypeCorrect == Spec => []TypeOK
<1>1. IInv => TypeOK
  BY DEF IInv
<1>. QED  BY <1>1, Invariance, PTL

\* The counts are those of the calls admitted in the present generation: no
\* late result is counted and none is counted twice (breaker.go:102).
THEOREM CountsHold == Spec => []CountsExact
<1>1. IInv => CountsExact
  BY DEF IInv, Sound, Exact, CountsExact, Successes, Failures
<1>. QED  BY <1>1, Invariance, PTL

\* A closed breaker never has TripAt failures that are half of its requests or
\* more: the failure that made them so has opened it.
THEOREM TripsHold == Spec => []TripsWhenDue
<1>1. ASSUME IInv PROVE TripsWhenDue
  <2>. PICK g : g = breaker.generation
    OBVIOUS
  <2>1. breaker.state = "closed" /\ Failures(g) # {} =>
            \/ Cardinality(Failures(g)) < TripAt
            \/ 2 * Cardinality(Failures(g)) < Cardinality(Cohort(g))
    BY <1>1, CohortSets, FS_EmptySet DEF IInv, Sound, Exact, Decided
  <2>. QED  BY <2>1 DEF TripsWhenDue, Failures
<1>. QED  BY <1>1, Invariance, PTL

\* However many calls arrive at once, a half-open breaker has let at most
\* MaxRequests of them through.
THEOREM ProbesLimited == Spec => []HalfOpenAdmission
<1>1. IInv => HalfOpenAdmission
  BY DEF IInv, Sound, Exact, Decided, HalfOpenAdmission
<1>. QED  BY <1>1, Invariance, PTL

LEMMA ProbesDecideNow == IInv => HalfOpenNeverStuck
<1>1. ASSUME IInv, breaker.state = "half-open", breaker.counts.requests >= MaxRequests
      PROVE  \E p \in Cohort(breaker.generation) : pc[p] = "calling"
  <2>. DEFINE g == breaker.generation
  <2>. SUFFICES ASSUME \A p \in Cohort(g) : pc[p] # "calling"
                PROVE  FALSE
    OBVIOUS
  <2>1. /\ breaker \in Breakers /\ Exact(breaker) /\ breaker.counts.failures = 0
        /\ breaker.counts.successes < breaker.counts.requests
    BY <1>1, SettingsAssumption DEF IInv, Sound, Decided, Breakers, Tallies
  <2>2. \A p \in Cohort(g) : outcome[p] \notin {"none", "rejected"}
    BY <1>1, <2>1 DEF IInv, Progress, Cohort, Breakers
  <2>3. Failures(g) = {}
    <3>1. Cardinality(Failures(g)) = 0
      BY <2>1 DEF Exact
    <3>. QED  BY <3>1, CohortSets, FS_EmptySet
  <2>4. Successes(g) = Cohort(g)
    BY <2>2, <2>3 DEF Successes, Failures, Failed
  <2>. QED  BY <2>1, <2>4 DEF Exact, Breakers, Tallies
<1>. QED  BY <1>1 DEF HalfOpenNeverStuck

\* A half-open breaker with all its probes admitted has one that is still to
\* decide it, so that it cannot reject every request for ever.
THEOREM ProbesDecide == Spec => []HalfOpenNeverStuck
<1>. QED  BY ProbesDecideNow, Invariance, PTL

\* Once open, the breaker admits nothing for Timeout, whatever reads its state
\* and whatever the calls it had admitted return.
THEOREM Cooldown == Spec => CooldownRespected
<1>. DEFINE A == \A p \in Calls :
                   (gen'[p] # gen[p] /\ trippedAt >= 0) => clock > trippedAt + Timeout
<1>1. ASSUME IInv, [Next]_vars
      PROVE  A
  <2>. SUFFICES ASSUME NEW p \in Calls, gen'[p] # gen[p], trippedAt >= 0
                PROVE  clock > trippedAt + Timeout
    OBVIOUS
  <2>1. PICK q \in Calls : Admit(q)
    BY <1>1 DEF Next, Execute, Tick, vars, Enter, Reject, Finish, Warn, Return
  <2>2. Current.state # "open" /\ Cooled(Current)
    BY <1>1, <2>1, CurrentSound DEF Admit, Sound
  <2>. QED  BY <2>2 DEF Cooled
<1>2. IInv /\ [Next]_vars => [A]_vars
  BY <1>1
<1>. QED  BY <1>2, Invariance, PTL DEF Spec, CooldownRespected

\* The state changes for the right calls only: on half of TripAt or more
\* failed, on a failed probe, on MaxRequests successful ones, or with time.
THEOREM ChangesJustified == Spec => StateChangesJustified
<1>. DEFINE ending == Cohort(breaker.generation)
            failed == {p \in ending : Failed(p)'}
            succeeded == {p \in ending : outcome'[p] = "ok"}
            from == breaker.state
            to == breaker'.state
            Trips == /\ from = "closed" /\ to = "open"
                     /\ Cardinality(ending) >= TripAt
                     /\ 2 * Cardinality(failed) >= Cardinality(ending)
            Reopens == from = "half-open" /\ to = "open" /\ failed # {}
            Recovers == /\ from = "half-open" /\ to = "closed"
                        /\ succeeded = ending /\ Cardinality(ending) = MaxRequests
            Probes == from = "open" /\ to = "half-open"
            Justified == from # to => Trips \/ Reopens \/ Recovers \/ Probes
<1>1. ASSUME IInv, breaker'.state = Current.state
      PROVE  Justified
  <2>1. from # Current.state => from = "open" /\ Current.state = "half-open"
    BY <1>1, CurrentSound
  <2>. QED  BY <1>1, <2>1
<1>2. ASSUME IInv, NEW p \in Calls, NEW o \in Outcomes, Finish(p, o), Counts(p)
      PROVE  Justified
  <2>. PICK g : g = breaker.generation
    OBVIOUS
  <2>1. /\ Current = breaker /\ breaker.state \in {"closed", "half-open"}
        /\ p \in Cohort(g) /\ Cohort(g)' = Cohort(g)
        /\ o = "ok" => Successes(g)' = Successes(g) \cup {p} /\ p \notin Successes(g)
        /\ o # "ok" => Failures(g)' = Failures(g) \cup {p} /\ p \notin Failures(g)
    BY <1>2, CountedResult
  <2>2. succeeded = Successes(g)' /\ failed = Failures(g)' /\ ending = Cohort(g)
    BY <2>1 DEF Successes, Failures
  <2>3. breaker \in Breakers /\ breaker.counts \in Tallies /\ Exact(breaker) /\ Decided(breaker)
    BY <1>2 DEF IInv, Sound, Breakers
  <2>4. CASE o = "ok" /\ breaker.state = "half-open" /\ Closes(breaker)
    <3>1. to = "closed"
      BY <1>2, <2>1, <2>4 DEF Finish, AfterSuccess, NewGeneration
    <3>2. Cardinality(succeeded) = Cardinality(Successes(g)) + 1
      <4>1. succeeded = Successes(g) \cup {p} /\ p \notin Successes(g) /\ IsFiniteSet(Successes(g))
        BY <2>1, <2>2, <2>4, CohortSets
      <4>. QED  BY ONLY <4>1, FS_AddElement
    <3>3. Cardinality(ending) <= MaxRequests /\ Cardinality(succeeded) >= MaxRequests
      BY <2>2, <2>3, <2>4, <3>2, SettingsAssumption DEF Exact, Decided, Closes, Tallies
    <3>4. succeeded \subseteq ending /\ IsFiniteSet(ending) /\ Cardinality(ending) \in Nat
      BY <2>2, CohortSets
    <3>5. succeeded = ending /\ Cardinality(ending) = MaxRequests
      <4>. HIDE DEF succeeded, ending
      <4>1. Cardinality(succeeded) \in Nat /\ Cardinality(succeeded) <= Cardinality(ending)
            /\ (Cardinality(ending) = Cardinality(succeeded) => ending = succeeded)
        BY <3>4, FS_Subset, FS_CardinalityType
      <4>. QED  BY <3>3, <3>4, <4>1, SettingsAssumption
    <3>. QED  BY <2>4, <3>1, <3>5
  <2>5. CASE o = "ok" /\ ~(breaker.state = "half-open" /\ Closes(breaker))
    BY <1>2, <2>1, <2>5 DEF Finish, AfterSuccess
  <2>. DEFINE counted == [breaker EXCEPT !.counts = OnFailure(@)]
  <2>6. CASE o # "ok" /\ breaker.state = "half-open"
    <3>1. to = "open"
      BY <1>2, <2>1, <2>6 DEF Finish, AfterFailure, NewGeneration
    <3>2. failed # {}
      BY <2>1, <2>2, <2>6
    <3>. QED  BY <2>6, <3>1, <3>2
  <2>7. CASE o # "ok" /\ breaker.state = "closed" /\ ReadyToTrip(counted.counts)
    <3>1. to = "open"
      BY <1>2, <2>1, <2>7 DEF Finish, AfterFailure, NewGeneration
    <3>2. counted.counts = OnFailure(breaker.counts)
      BY <2>3 DEF Breakers
    <3>3. Cardinality(failed) = Cardinality(Failures(g)) + 1
      <4>1. failed = Failures(g) \cup {p} /\ p \notin Failures(g) /\ IsFiniteSet(Failures(g))
        BY <2>1, <2>2, <2>7, CohortSets
      <4>. QED  BY ONLY <4>1, FS_AddElement
    <3>4. Cardinality(ending) >= TripAt /\ 2 * Cardinality(failed) >= Cardinality(ending)
      BY <2>2, <2>3, <2>7, <3>2, <3>3, CountedFields DEF ReadyToTrip, Exact
    <3>. QED  BY <2>7, <3>1, <3>4
  <2>8. CASE o # "ok" /\ breaker.state = "closed" /\ ~ReadyToTrip(counted.counts)
    BY <1>2, <2>1, <2>8 DEF Finish, AfterFailure
  <2>. QED  BY <2>1, <2>4, <2>5, <2>6, <2>7, <2>8
<1>3. ASSUME IInv, [Next]_vars
      PROVE  Justified
  <2>1. CASE breaker' = Current
    BY <1>1, <1>3, <2>1
  <2>2. CASE \E p \in Calls, o \in Outcomes : Finish(p, o) /\ Counts(p)
    BY <1>3, <2>2, <1>2
  <2>3. CASE \E p \in Calls : Admit(p)
    <3>1. breaker'.state = Current.state
      BY <1>3, <2>3, CurrentSound DEF Admit, Sound, Breakers
    <3>. QED  BY <1>1, <1>3, <3>1
  <2>4. CASE breaker' = breaker
    BY <2>4
  <2>5. \/ breaker' = Current \/ breaker' = breaker \/ \E p \in Calls : Admit(p)
        \/ \E p \in Calls, o \in Outcomes : Finish(p, o) /\ Counts(p)
    BY <1>3 DEF Next, Execute, Tick, vars, Enter, Reject, Finish, Warn, Return
  <2>. QED  BY <2>1, <2>2, <2>3, <2>4, <2>5
<1>4. IInv /\ [Next]_vars => [Justified]_vars
  BY <1>3
<1>. QED  BY <1>4, Invariance, PTL DEF Spec, StateChangesJustified
=============================================================================
