----------------------- MODULE MemoryRateLimiterProofs -----------------------
(***************************************************************************)
(* Proofs about MemoryRateLimiter for any finite set of calls, any limit   *)
(* (zero and negative ones included), any window and any clock.            *)
(***************************************************************************)
EXTENDS MemoryRateLimiter, TLAPS, FiniteSetTheorems

\* A timestamp is not in the future (line 63 precedes the append).
StampsPast == \A p \in Calls : now[p] <= clock

\* A clientInfo holds only timestamps of calls that were granted on it.
Recorded ==
    \A o \in Calls : \A q \in requests[o] : pc[q] = "allowed" /\ ref[q] = o

\* A grant stays recorded while it is in the window that ends now: it takes a
\* cutoff at or after it to prune it, and no cutoff is after now - Window.
Remembered ==
    \A p \in Calls \ forgiven :
        (pc[p] = "allowed" /\ now[p] > clock - Window) => p \in requests[ref[p]]

\* What is recorded never exceeds the capacity make gave the slice (line 76).
HistoryBounded == \A o \in Calls : Cardinality(requests[o]) <= Capacity

IInv ==
    /\ TypeOK
    /\ StampsPast
    /\ Recorded
    /\ Remembered
    /\ HistoryBounded
    /\ DenialsJustified

-----------------------------------------------------------------------------
\* Any set of calls is finite, and has no more elements than one it lies in.
LEMMA CallSets ==
    ASSUME NEW S \in SUBSET Calls, NEW T \in SUBSET S
    PROVE  /\ IsFiniteSet(S) /\ IsFiniteSet(T)
           /\ Cardinality(S) \in Nat /\ Cardinality(T) \in Nat
           /\ Cardinality(T) <= Cardinality(S)
<1>1. IsFiniteSet(S)
  BY CallsAssumption, FS_Subset
<1>2. IsFiniteSet(T) /\ Cardinality(T) <= Cardinality(S)
  BY <1>1, FS_Subset
<1>. QED  BY <1>1, <1>2, FS_CardinalityType

\* Line 104 never makes a history longer than the capacity.
LEMMA GrantFits ==
    ASSUME TypeOK, NEW p \in Calls, pc[p] = "admit", ~Full(p)
    PROVE  Cardinality(Retained(p) \cup {p}) <= Capacity
<1>1. /\ Retained(p) \in SUBSET Calls
      /\ ref[p] \in Calls
  BY DEF TypeOK, Retained
<1>2. IsFiniteSet(Retained(p)) /\ Cardinality(Retained(p)) \in Nat
  BY <1>1, CallSets
<1>3. Cardinality(Retained(p)) < Limit
  BY <1>2, NumbersAssumption DEF Full
<1>4. Cardinality(Retained(p) \cup {p}) <= Cardinality(Retained(p)) + 1
  BY <1>2, FS_AddElement
<1>5. Cardinality(Retained(p) \cup {p}) \in Nat
  BY <1>1, CallSets, Retained(p) \cup {p} \in SUBSET Calls
<1>. QED  BY <1>2, <1>3, <1>4, <1>5, NumbersAssumption DEF Capacity

-----------------------------------------------------------------------------
\* Types survive every step.
LEMMA TypeStep == ASSUME TypeOK, [Next]_vars PROVE TypeOK'
<1>. USE NamesAssumption, NumbersAssumption DEF TypeOK, Stages
<1>1. CASE Tick
  BY <1>1 DEF Tick
<1>2. ASSUME NEW p \in Calls, Arrive(p) PROVE TypeOK'
  BY <1>2 DEF Arrive
<1>3. ASSUME NEW p \in Calls, ArriveCanceled(p) PROVE TypeOK'
  BY <1>3 DEF ArriveCanceled
<1>4. ASSUME NEW p \in Calls, Lookup(p) PROVE TypeOK'
  BY <1>4 DEF Lookup
<1>5. ASSUME NEW p \in Calls, Create(p) PROVE TypeOK'
  <2>1. CASE clients[ident[p]] = None /\ Limit < 0
    BY <1>5, <2>1 DEF Create
  <2>2. CASE ~(clients[ident[p]] = None /\ Limit < 0)
    <3>1. clients' \in [Identifiers -> Calls \cup {None}]
      BY <1>5, <2>2 DEF Create
    <3>2. clients'[ident[p]] \in Calls
      BY <1>5, <2>2 DEF Create
    <3>3. ref' \in [Calls -> Calls \cup {None}] /\ ref'[p] \in Calls
      BY <1>5, <2>2, <3>2 DEF Create
    <3>4. \A id \in sweep' : clients'[id] \in Calls
      BY <1>5, <2>2 DEF Create
    <3>. QED  BY <1>5, <2>2, <3>1, <3>3, <3>4 DEF Create
  <2>. QED  BY <2>1, <2>2
<1>6. ASSUME NEW p \in Calls, Grant(p) PROVE TypeOK'
  <2>1. Retained(p) \cup {p} \in SUBSET Calls
    BY <1>6 DEF Grant, Retained
  <2>. QED  BY <1>6, <2>1 DEF Grant
<1>7. ASSUME NEW p \in Calls, Deny(p) PROVE TypeOK'
  <2>1. Retained(p) \in SUBSET Calls
    BY <1>7 DEF Deny, Retained
  <2>. QED  BY <1>7, <2>1 DEF Deny
<1>8. ASSUME NEW id \in Resettable, Reset(id) PROVE TypeOK'
  BY <1>8 DEF Reset
<1>9. CASE SweepLock
  BY <1>9 DEF SweepLock
<1>10. ASSUME NEW id \in Identifiers, SweepClient(id) PROVE TypeOK'
  BY <1>10 DEF SweepClient
<1>11. CASE SweepUnlock
  BY <1>11 DEF SweepUnlock
<1>12. CASE UNCHANGED vars
  BY <1>12 DEF vars
<1>. QED
  BY <1>1, <1>2, <1>3, <1>4, <1>5, <1>6, <1>7, <1>8, <1>9, <1>10, <1>11, <1>12
  DEF Next, Allow, Cleanup

LEMMA TypeInit == Init => TypeOK
<1>1. Init => swept \in BOOLEAN
  BY Zenon DEF Init
<1>. QED  BY <1>1, NumbersAssumption DEF Init, TypeOK, Stages

\* Every variable has its type in every reachable state, and no call
\* dereferences a nil client (lines 65-85).
THEOREM TypeCorrect == Spec => []TypeOK
<1>1. TypeOK /\ [Next]_vars => TypeOK'
  BY TypeStep
<1>. QED  BY <1>1, TypeInit, PTL DEF Spec

-----------------------------------------------------------------------------
\* The window that ends now is within the limit because all of it is recorded
\* and what is recorded is bounded.
LEMMA RecordedWindow ==
    ASSUME TypeOK, Remembered, HistoryBounded
    PROVE  WindowLimit
<1>. SUFFICES ASSUME NEW o \in Calls
              PROVE  Cardinality(CurrentGrants(o)) <= Capacity
  BY DEF WindowLimit
<1>1. CurrentGrants(o) \in SUBSET requests[o]
  BY DEF CurrentGrants, Remembered
<1>2. requests[o] \in SUBSET Calls
  BY DEF TypeOK
<1>3. Cardinality(CurrentGrants(o)) <= Cardinality(requests[o])
  BY <1>1, <1>2, CallSets
<1>4. Cardinality(CurrentGrants(o)) \in Nat /\ Cardinality(requests[o]) \in Nat
  BY <1>1, <1>2, CallSets
<1>5. Capacity \in Int
  BY NumbersAssumption DEF Capacity
<1>. QED  BY <1>3, <1>4, <1>5 DEF HistoryBounded

LEMMA InvariantInit == Init => IInv
<1>. SUFFICES ASSUME Init PROVE IInv
  OBVIOUS
<1>1. TypeOK
  BY TypeInit
<1>2. HistoryBounded
  <2>1. Cardinality({}) = 0
    BY FS_EmptySet
  <2>. QED  BY <2>1, NumbersAssumption DEF Init, HistoryBounded, Capacity
<1>. QED
  BY <1>1, <1>2 DEF Init, IInv, StampsPast, Recorded, Remembered, DenialsJustified

\* The part of the invariant that is not about types, for the steps that touch
\* neither a history nor a verdict: Recorded, Remembered and the denials read
\* only the calls that are over, and those keep their clientInfo and timestamp.
LEMMA QuietStep ==
    ASSUME IInv,
           UNCHANGED <<clock, requests, forgiven>>,
           now' \in [Calls -> Int],
           \A p \in Calls : now'[p] <= clock,
           \A p \in Calls : pc[p] \in {"allowed", "denied"}
                            <=> pc'[p] \in {"allowed", "denied"},
           \A p \in Calls : pc[p] \in {"allowed", "denied"} =>
               pc'[p] = pc[p] /\ now'[p] = now[p] /\ ref'[p] = ref[p]
    PROVE  StampsPast' /\ Recorded' /\ Remembered' /\ HistoryBounded' /\ DenialsJustified'
<1>1. StampsPast'
  BY DEF StampsPast
<1>2. Recorded'
  BY DEF IInv, TypeOK, Recorded
<1>3. Remembered'
  BY DEF IInv, Remembered
<1>4. HistoryBounded'
  BY DEF IInv, HistoryBounded, Capacity
<1>5. DenialsJustified'
  <2>. SUFFICES ASSUME NEW p \in Calls, pc'[p] = "denied"
                PROVE  Cardinality({q \in Calls \ {p} : /\ pc'[q] = "allowed"
                                                        /\ ref'[q] = ref'[p]
                                                        /\ now'[q] > now'[p] - Window}) >= Limit
    BY DEF DenialsJustified
  <2>1. pc[p] = "denied" /\ ref'[p] = ref[p] /\ now'[p] = now[p]
    OBVIOUS
  <2>2. \A q \in Calls :
           (pc'[q] = "allowed" /\ ref'[q] = ref'[p] /\ now'[q] > now'[p] - Window)
           <=> (pc[q] = "allowed" /\ ref[q] = ref[p] /\ now[q] > now[p] - Window)
    BY <2>1
  <2>3. {q \in Calls \ {p} : /\ pc'[q] = "allowed"
                             /\ ref'[q] = ref'[p]
                             /\ now'[q] > now'[p] - Window}
        = {q \in Calls \ {p} : /\ pc[q] = "allowed"
                               /\ ref[q] = ref[p]
                               /\ now[q] > now[p] - Window}
    BY <2>2
  <2>. QED  BY <2>1, <2>3 DEF IInv, DenialsJustified
<1>. QED  BY <1>1, <1>2, <1>3, <1>4, <1>5

\* The grants that justify the denial of p, and what keeps it justified: a
\* grant is final, so that their number only grows.
Against(p) ==
    {q \in Calls \ {p} : pc[q] = "allowed" /\ ref[q] = ref[p] /\ now[q] > now[p] - Window}

LEMMA DenialsStay ==
    ASSUME IInv, UNCHANGED <<now, ref>>,
           NEW p \in Calls, pc[p] = "denied",
           \A q \in Calls : pc[q] = "allowed" => pc'[q] = "allowed"
    PROVE  Cardinality(Against(p)') >= Limit
<1>1. Against(p) \in SUBSET Against(p)' /\ Against(p)' \in SUBSET Calls
  BY DEF Against
<1>2. /\ Cardinality(Against(p)) \in Nat /\ Cardinality(Against(p)') \in Nat
      /\ Cardinality(Against(p)) <= Cardinality(Against(p)')
  BY <1>1, CallSets
<1>3. Cardinality(Against(p)) >= Limit
  BY DEF IInv, DenialsJustified, Against
<1>. QED  BY <1>2, <1>3, NumbersAssumption

LEMMA GrantStep ==
    ASSUME IInv, NEW p \in Calls, Grant(p)
    PROVE  StampsPast' /\ Recorded' /\ Remembered' /\ HistoryBounded' /\ DenialsJustified'
<1>. USE DEF Grant
<1>1. TypeOK /\ ref[p] \in Calls
  BY DEF IInv, TypeOK
<1>2. requests' = [requests EXCEPT ![ref[p]] = Retained(p) \cup {p}]
  OBVIOUS
<1>3. StampsPast'
  BY DEF IInv, StampsPast
<1>4. Recorded'
  BY <1>1, <1>2 DEF IInv, TypeOK, Recorded, Retained
<1>5. Remembered'
  <2>. SUFFICES ASSUME NEW q \in Calls \ forgiven, pc'[q] = "allowed", now[q] > clock - Window
                PROVE  q \in requests'[ref[q]]
    BY DEF Remembered
  <2>1. CASE q = p
    BY <2>1, <1>1, <1>2 DEF TypeOK
  <2>2. CASE q # p
    <3>1. pc[q] = "allowed" /\ q \in requests[ref[q]]
      BY <2>2, <1>1 DEF IInv, TypeOK, Remembered
    <3>2. now[q] > now[p] - Window
      BY <1>1, NumbersAssumption DEF IInv, StampsPast, TypeOK
    <3>. QED  BY <3>1, <3>2, <1>1, <1>2 DEF TypeOK, Retained
  <2>. QED  BY <2>1, <2>2
<1>6. HistoryBounded'
  <2>1. Cardinality(Retained(p) \cup {p}) <= Capacity
    BY <1>1, GrantFits
  <2>. QED  BY <2>1, <1>1, <1>2 DEF IInv, TypeOK, HistoryBounded, Capacity
<1>7. DenialsJustified'
  <2>. SUFFICES ASSUME NEW q \in Calls, pc'[q] = "denied"
                PROVE  Cardinality(Against(q)') >= Limit
    BY DEF DenialsJustified, Against
  <2>1. pc[q] = "denied"
    BY <1>1 DEF TypeOK
  <2>2. \A r \in Calls : pc[r] = "allowed" => pc'[r] = "allowed"
    BY <1>1 DEF TypeOK
  <2>. QED  BY <2>1, <2>2, DenialsStay
<1>. QED  BY <1>3, <1>4, <1>5, <1>6, <1>7

LEMMA DenyStep ==
    ASSUME IInv, NEW p \in Calls, Deny(p)
    PROVE  StampsPast' /\ Recorded' /\ Remembered' /\ HistoryBounded' /\ DenialsJustified'
<1>. USE DEF Deny
<1>1. TypeOK /\ ref[p] \in Calls
  BY DEF IInv, TypeOK
<1>2. requests' = [requests EXCEPT ![ref[p]] = Retained(p)]
  OBVIOUS
<1>3. StampsPast'
  BY DEF IInv, StampsPast
<1>4. Recorded'
  BY <1>1, <1>2 DEF IInv, TypeOK, Recorded, Retained
<1>5. Remembered'
  <2>. SUFFICES ASSUME NEW q \in Calls \ forgiven, pc'[q] = "allowed", now[q] > clock - Window
                PROVE  q \in requests'[ref[q]]
    BY DEF Remembered
  <2>1. pc[q] = "allowed" /\ q \in requests[ref[q]]
    BY <1>1 DEF IInv, TypeOK, Remembered
  <2>2. now[q] > now[p] - Window
    BY <1>1, NumbersAssumption DEF IInv, StampsPast, TypeOK
  <2>. QED  BY <2>1, <2>2, <1>1, <1>2 DEF TypeOK, Retained
<1>6. HistoryBounded'
  <2>1. /\ Retained(p) \in SUBSET requests[ref[p]]
        /\ requests[ref[p]] \in SUBSET Calls
    BY <1>1 DEF Retained, TypeOK
  <2>2. /\ Cardinality(Retained(p)) <= Cardinality(requests[ref[p]])
        /\ Cardinality(Retained(p)) \in Nat
        /\ Cardinality(requests[ref[p]]) \in Nat
    BY <2>1, CallSets
  <2>3. Cardinality(Retained(p)) <= Capacity
    BY <2>2, <1>1, NumbersAssumption DEF IInv, HistoryBounded, Capacity
  <2>. QED  BY <2>3, <1>1, <1>2 DEF IInv, TypeOK, HistoryBounded, Capacity
<1>7. DenialsJustified'
  <2>. SUFFICES ASSUME NEW q \in Calls, pc'[q] = "denied"
                PROVE  Cardinality(Against(q)') >= Limit
    BY DEF DenialsJustified, Against
  <2>1. CASE q # p
    <3>1. pc[q] = "denied"
      BY <2>1, <1>1 DEF TypeOK
    <3>2. \A r \in Calls : pc[r] = "allowed" => pc'[r] = "allowed"
      BY <1>1 DEF TypeOK
    <3>. QED  BY <3>1, <3>2, DenialsStay
  <2>2. CASE q = p
    <3>1. Retained(p) \in SUBSET Against(p)'
      BY <1>1 DEF IInv, TypeOK, Recorded, Retained, Against
    <3>2. Against(p)' \in SUBSET Calls
      BY DEF Against
    <3>3. /\ Cardinality(Retained(p)) <= Cardinality(Against(p)')
          /\ Cardinality(Retained(p)) \in Nat
          /\ Cardinality(Against(p)') \in Nat
      BY <3>1, <3>2, CallSets
    <3>4. Cardinality(Retained(p)) >= Limit
      BY DEF Full
    <3>. QED  BY <2>2, <3>3, <3>4, NumbersAssumption
  <2>. QED  BY <2>1, <2>2
<1>. QED  BY <1>3, <1>4, <1>5, <1>6, <1>7

\* Reset empties one history, and what it erases it forgives.
LEMMA ResetStep ==
    ASSUME IInv, NEW id \in Identifiers, Reset(id)
    PROVE  StampsPast' /\ Recorded' /\ Remembered' /\ HistoryBounded' /\ DenialsJustified'
<1>. USE DEF Reset
<1>1. TypeOK /\ clients[id] \in Calls
  BY DEF IInv, TypeOK
<1>2. StampsPast'
  BY DEF IInv, StampsPast
<1>3. Recorded'
  BY <1>1 DEF IInv, TypeOK, Recorded
<1>4. Remembered'
  BY <1>1 DEF IInv, TypeOK, Remembered
<1>5. HistoryBounded'
  <2>1. Cardinality({}) <= Capacity
    BY FS_EmptySet, NumbersAssumption DEF Capacity
  <2>. QED  BY <2>1, <1>1 DEF IInv, TypeOK, HistoryBounded, Capacity
<1>6. DenialsJustified'
  BY DEF IInv, DenialsJustified
<1>. QED  BY <1>2, <1>3, <1>4, <1>5, <1>6

\* The invariant is inductive.
LEMMA InvariantStep == ASSUME IInv, [Next]_vars PROVE IInv'
<1>. USE DEF IInv
<1>0. TypeOK' /\ TypeOK
  BY TypeStep
<1>1. CASE Tick
  <2>. USE <1>1 DEF Tick
  <2>1. StampsPast'
    BY <1>0 DEF StampsPast, TypeOK
  <2>2. Recorded'
    BY DEF Recorded
  <2>3. Remembered'
    BY <1>0, NumbersAssumption DEF Remembered, TypeOK
  <2>4. HistoryBounded' /\ DenialsJustified'
    BY DEF HistoryBounded, DenialsJustified, Capacity
  <2>. QED  BY <1>0, <2>1, <2>2, <2>3, <2>4
<1>2. ASSUME NEW p \in Calls, Arrive(p) PROVE IInv'
  <2>1. /\ UNCHANGED <<clock, requests, forgiven, ref>>
        /\ now' \in [Calls -> Int]
        /\ \A q \in Calls : now'[q] <= clock
        /\ \A q \in Calls : q # p => pc'[q] = pc[q] /\ now'[q] = now[q]
        /\ pc[p] = "idle" /\ pc'[p] = "lookup"
    BY <1>0, <1>2 DEF Arrive, TypeOK, StampsPast
  <2>. QED  BY <1>0, <2>1, QuietStep
<1>3. ASSUME NEW p \in Calls, ArriveCanceled(p) PROVE IInv'
  <2>1. /\ UNCHANGED <<clock, requests, forgiven, ref, now>>
        /\ now' \in [Calls -> Int]
        /\ \A q \in Calls : now'[q] <= clock
        /\ \A q \in Calls : q # p => pc'[q] = pc[q]
        /\ pc[p] = "idle" /\ pc'[p] = "error"
    BY <1>0, <1>3 DEF ArriveCanceled, TypeOK, StampsPast
  <2>. QED  BY <1>0, <2>1, QuietStep
<1>4. ASSUME NEW p \in Calls, Lookup(p) PROVE IInv'
  <2>1. /\ UNCHANGED <<clock, requests, forgiven, now>>
        /\ now' \in [Calls -> Int]
        /\ \A q \in Calls : now'[q] <= clock
        /\ \A q \in Calls : q # p => pc'[q] = pc[q] /\ ref'[q] = ref[q]
        /\ pc[p] = "lookup" /\ pc'[p] \in {"create", "admit"}
    BY <1>0, <1>4 DEF Lookup, TypeOK, StampsPast
  <2>. QED  BY <1>0, <2>1, QuietStep
<1>5. ASSUME NEW p \in Calls, Create(p) PROVE IInv'
  <2>1. /\ UNCHANGED <<clock, requests, forgiven, now>>
        /\ now' \in [Calls -> Int]
        /\ \A q \in Calls : now'[q] <= clock
        /\ pc[p] = "create"
    BY <1>0, <1>5 DEF Create, TypeOK, StampsPast
  <2>2. /\ \A q \in Calls : q # p => pc'[q] = pc[q] /\ ref'[q] = ref[q]
        /\ pc'[p] \in {"admit", "panicked"}
    BY <1>0, <1>5 DEF Create, TypeOK
  <2>. QED  BY <1>0, <2>1, <2>2, QuietStep
<1>6. ASSUME NEW p \in Calls, Grant(p) PROVE IInv'
  BY <1>0, <1>6, GrantStep
<1>7. ASSUME NEW p \in Calls, Deny(p) PROVE IInv'
  BY <1>0, <1>7, DenyStep
<1>8. ASSUME NEW id \in Resettable, Reset(id) PROVE IInv'
  BY <1>0, <1>8, ResetStep, NamesAssumption
<1>9. ASSUME UNCHANGED <<clock, pc, now, ref, requests, forgiven>> PROVE IInv'
  BY <1>0, <1>9 DEF StampsPast, Recorded, Remembered, HistoryBounded, DenialsJustified, Capacity
<1>10. CASE Cleanup
  BY <1>9, <1>10 DEF Cleanup, SweepLock, SweepClient, SweepUnlock
<1>11. CASE UNCHANGED vars
  BY <1>9, <1>11 DEF vars
<1>. QED
  BY <1>1, <1>2, <1>3, <1>4, <1>5, <1>6, <1>7, <1>8, <1>10, <1>11 DEF Next, Allow

\* No clientInfo ever grants more than the limit in the window that ends now,
\* in whatever order the calls get its mutex, sweeps and resets included.
THEOREM LimitHolds == Spec => []WindowLimit
<1>1. IInv /\ [Next]_vars => IInv'
  BY InvariantStep
<1>2. IInv => WindowLimit
  BY RecordedWindow DEF IInv
<1>. QED  BY InvariantInit, <1>1, <1>2, PTL DEF Spec

\* No call is ever denied but against a full window of granted calls.
THEOREM DenialsHold == Spec => []DenialsJustified
<1>1. IInv /\ [Next]_vars => IInv'
  BY InvariantStep
<1>2. IInv => DenialsJustified
  BY DEF IInv
<1>. QED  BY InvariantInit, <1>1, <1>2, PTL DEF Spec

\* Neither the creation nor the removal of a client loses a timestamp of the
\* current window.
THEOREM HistoriesStay == Spec => HistoriesKept
<1>1. TypeOK /\ [Next]_vars =>
        [\A id \in Identifiers :
            (clients[id] # None /\ \E p \in requests[clients[id]] : now[p] > clock - Window)
                => clients'[id] = clients[id]]_vars
  <2>. SUFFICES ASSUME TypeOK, Next, NEW id \in Identifiers, clients[id] # None,
                       NEW q \in requests[clients[id]]
                PROVE  clients'[id] = clients[id]
    BY DEF vars
  <2>1. ASSUME NEW p \in Calls, Create(p) PROVE clients'[id] = clients[id]
    BY <2>1 DEF Create, TypeOK
  <2>2. ASSUME NEW i \in Identifiers, SweepClient(i) PROVE clients'[id] = clients[id]
    BY <2>2 DEF SweepClient, Idle, TypeOK
  <2>. QED
    BY <2>1, <2>2 DEF Next, Tick, Allow, Arrive, ArriveCanceled, Lookup, Grant, Deny,
                      Reset, Cleanup, SweepLock, SweepUnlock
<1>. QED  BY <1>1, TypeCorrect, PTL DEF Spec, HistoriesKept

-----------------------------------------------------------------------------
(***************************************************************************)
(* Why no sweep takes a record that has granted anything: it is never empty *)
(* again.  A grant leaves its own timestamp, and a denial leaves as many as *)
(* the limit, which is positive where there was a grant.                    *)
(***************************************************************************)
Unreset(p) == pc[p] = "allowed" /\ \A q \in forgiven : ref[q] # ref[p]

Kept ==
    /\ \A p \in Calls : Unreset(p) => requests[ref[p]] # {}
    /\ \A q \in forgiven : pc[q] = "allowed"

LEMMA KeptStep == ASSUME IInv, Kept, [Next]_vars PROVE Kept'
<1>. TypeOK
  BY DEF IInv
<1>1. ASSUME NEW p \in Calls, Grant(p) PROVE Kept'
  <2>1. requests' = [requests EXCEPT ![ref[p]] = Retained(p) \cup {p}] /\ ref[p] \in Calls
    BY <1>1 DEF Grant, TypeOK
  <2>2. \A o \in Calls : requests[o] # {} => requests'[o] # {}
    BY <2>1 DEF TypeOK
  <2>3. /\ UNCHANGED <<ref, forgiven>> /\ p \in requests'[ref[p]]
        /\ \A q \in Calls : pc'[q] = "allowed" <=> q = p \/ pc[q] = "allowed"
    BY <1>1, <2>1 DEF Grant, TypeOK
  <2>4. \A q \in Calls : Unreset(q)' => requests'[ref'[q]] # {}
    BY <2>2, <2>3 DEF Kept, Unreset, TypeOK
  <2>5. \A q \in forgiven' : pc'[q] = "allowed"
    BY <2>3 DEF Kept, TypeOK
  <2>. QED  BY <2>4, <2>5 DEF Kept
<1>2. ASSUME NEW p \in Calls, Deny(p) PROVE Kept'
  <2>1. requests' = [requests EXCEPT ![ref[p]] = Retained(p)] /\ ref[p] \in Calls
    BY <1>2 DEF Deny, TypeOK
  <2>2. ASSUME NEW o \in Calls, requests[o] # {} PROVE requests'[o] # {}
    <3>1. CASE o # ref[p]
      BY <2>1, <2>2, <3>1 DEF TypeOK
    <3>2. CASE o = ref[p]
      <4>1. requests[o] \in SUBSET Calls /\ {} \in SUBSET Calls
        BY DEF TypeOK
      <4>2. Cardinality(requests[o]) \in Nat /\ Cardinality(requests[o]) # 0
        BY <2>2, <4>1, CallSets, FS_EmptySet
      <4>3. Limit > 0
        BY <4>2, NumbersAssumption DEF IInv, HistoryBounded, Capacity
      <4>4. Cardinality(Retained(p)) >= Limit
        BY <1>2 DEF Deny, Full
      <4>5. Retained(p) # {}
        BY <4>3, <4>4, FS_EmptySet, NumbersAssumption
      <4>. QED  BY <2>1, <3>2, <4>5 DEF TypeOK
    <3>. QED  BY <3>1, <3>2
  <2>. QED  BY <1>2, <2>2 DEF Deny, Kept, Unreset, TypeOK
<1>3. ASSUME NEW id \in Resettable, Reset(id) PROVE Kept'
  <2>1. clients[id] \in Calls
    BY <1>3, NamesAssumption DEF Reset, TypeOK
  <2>2. ASSUME NEW p \in Calls, Unreset(p)' PROVE requests'[ref'[p]] # {}
    <3>1. Unreset(p) /\ ref'[p] = ref[p] /\ requests[ref[p]] # {}
      BY <1>3, <2>2 DEF Reset, Unreset, Kept
    <3>2. ref[p] # clients[id]
      BY <1>3, <2>1, <2>2, <3>1 DEF Reset, Unreset, IInv, Recorded
    <3>. QED  BY <1>3, <2>1, <3>1, <3>2 DEF Reset, TypeOK
  <2>3. \A q \in forgiven' : pc'[q] = "allowed"
    BY <1>3, <2>1 DEF Reset, Kept, IInv, Recorded
  <2>. QED  BY <2>2, <2>3 DEF Kept
<1>4. ASSUME NEW p \in Calls, Arrive(p) \/ ArriveCanceled(p) \/ Lookup(p) \/ Create(p)
      PROVE  Kept'
  <2>1. /\ \A q \in Calls : pc[q] = "allowed" <=> pc'[q] = "allowed"
        /\ \A q \in Calls : pc[q] = "allowed" => ref'[q] = ref[q]
        /\ forgiven' = forgiven /\ requests' = requests
    BY <1>4 DEF Arrive, ArriveCanceled, Lookup, Create, TypeOK
  <2>. QED  BY <2>1 DEF Kept, Unreset, TypeOK
<1>5. CASE Tick \/ Cleanup \/ UNCHANGED vars
  BY <1>5 DEF Tick, Cleanup, SweepLock, SweepClient, SweepUnlock, vars, Kept, Unreset
<1>. QED  BY <1>1, <1>2, <1>3, <1>4, <1>5 DEF Next, Allow

\* A record that has granted anything and was never reset stays in the map.
GrantedRecordsStay ==
    [][\A p \in Calls :
          (/\ pc[p] = "allowed"
           /\ clients[ident[p]] = ref[p]
           /\ \A q \in forgiven : ref[q] # ref[p])
              => clients'[ident[p]] = ref[p]]_vars

\* No sweep removes a record that has granted anything and was not reset, for
\* any limit, window and number of clients.  Timestamps are pruned by Allow
\* only, and the test of line 148 is for a record without any: the client of
\* run mem_leak is no unlucky one, none that was ever served goes, and what
\* the comment of line 137 says cleanup is there for it never does.
THEOREM GrantedRecordsStayForGood == Spec => GrantedRecordsStay
<1>1. Init => IInv /\ Kept
  BY InvariantInit DEF Init, Kept, Unreset
<1>2. IInv /\ Kept /\ [Next]_vars => IInv' /\ Kept'
  BY InvariantStep, KeptStep
<1>3. IInv /\ Kept /\ [Next]_vars =>
        [\A p \in Calls : (/\ pc[p] = "allowed"
                           /\ clients[ident[p]] = ref[p]
                           /\ \A q \in forgiven : ref[q] # ref[p])
                              => clients'[ident[p]] = ref[p]]_vars
  <2>. SUFFICES ASSUME IInv, Kept, Next, NEW p \in Calls, Unreset(p), clients[ident[p]] = ref[p]
                PROVE  clients'[ident[p]] = ref[p]
    BY DEF vars, Unreset
  <2>1. /\ ident[p] \in Identifiers /\ ref[p] \in Calls /\ ref[p] # None
        /\ requests[ref[p]] # {} /\ TypeOK
    BY NamesAssumption DEF Unreset, Kept, IInv, TypeOK
  <2>2. ASSUME NEW q \in Calls, Create(q) PROVE clients'[ident[p]] = ref[p]
    BY <2>1, <2>2 DEF Create, TypeOK
  <2>3. ASSUME NEW i \in Identifiers, SweepClient(i) PROVE clients'[ident[p]] = ref[p]
    BY <2>1, <2>3 DEF SweepClient, Idle, TypeOK
  <2>. QED
    BY <2>2, <2>3 DEF Next, Tick, Allow, Arrive, ArriveCanceled, Lookup, Grant, Deny,
                      Reset, Cleanup, SweepLock, SweepUnlock
<1>. QED  BY <1>1, <1>2, <1>3, PTL DEF Spec, GrantedRecordsStay

-----------------------------------------------------------------------------
(***************************************************************************)
(* What holds of a record is promised to an identifier.  There is one hole *)
(* between the two: a call that holds the pointer of a record that the map *)
(* no longer has.                                                          *)
(***************************************************************************)
NoOrphanHeld == \A p \in Calls : pc[p] = "admit" => clients[ident[p]] = ref[p]

\* Every timestamp there is lies on the record that the map has for its client.
InMap == \A o \in Calls : \A q \in requests[o] : clients[ident[q]] = o

\* A record in the map is there for the client of the call that created it.
Owned == \A id \in Identifiers : clients[id] # None => ident[clients[id]] = id

LEMMA InMapStep == IInv /\ NoOrphanHeld /\ InMap /\ [Next]_vars => InMap'
<1>. SUFFICES ASSUME IInv, NoOrphanHeld, InMap, [Next]_vars
              PROVE  InMap'
  OBVIOUS
<1>1. TypeOK
  BY DEF IInv
<1>. USE <1>1 DEF InMap, TypeOK
<1>2. ASSUME NEW p \in Calls, Grant(p) \/ Deny(p) PROVE InMap'
  <2>1. /\ \A o \in Calls : requests'[o] \subseteq requests[o] \cup {p}
        /\ \A o \in Calls : p \in requests'[o] /\ o # ref[p] => p \in requests[o]
        /\ pc[p] = "admit" /\ UNCHANGED <<clients, ident>>
    BY <1>2 DEF Grant, Deny, Retained
  <2>. QED  BY <2>1 DEF NoOrphanHeld
<1>3. ASSUME NEW p \in Calls, Create(p) PROVE InMap'
  <2>1. \A i \in Identifiers : clients[i] # None => clients'[i] = clients[i]
    BY <1>3 DEF Create
  <2>2. UNCHANGED <<ident, requests>>
    BY <1>3 DEF Create
  <2>. QED  BY <2>1, <2>2, NamesAssumption
<1>4. ASSUME NEW id \in Identifiers, SweepClient(id) PROVE InMap'
  <2>1. ASSUME NEW o \in Calls, NEW q \in requests[o] PROVE clients'[ident[q]] = o
    <3>1. clients[ident[q]] = o /\ (ident[q] = id => ~Idle(id))
      BY <2>1 DEF Idle
    <3>. QED  BY <1>4, <3>1 DEF SweepClient
  <2>. QED  BY <1>4, <2>1 DEF SweepClient
<1>5. ASSUME NEW id \in Resettable, Reset(id) PROVE InMap'
  BY <1>5, NamesAssumption DEF Reset
<1>6. CASE UNCHANGED <<clients, ident, requests>>
  BY <1>6
<1>. QED  BY <1>2, <1>3, <1>4, <1>5, <1>6 DEF Next, vars, Tick, Allow, Arrive, ArriveCanceled,
             Lookup, Cleanup, SweepLock, SweepUnlock

LEMMA OwnedStep == TypeOK /\ Owned /\ [Next]_vars => Owned'
<1>. SUFFICES ASSUME TypeOK, Owned, [Next]_vars
              PROVE  Owned'
  OBVIOUS
<1>. USE NamesAssumption DEF Owned, TypeOK
<1>1. ASSUME NEW p \in Calls, Create(p) PROVE Owned'
  <2>1. /\ ident' = ident
        /\ \A id \in Identifiers : clients'[id] = clients[id] \/ (id = ident[p] /\ clients'[id] = p)
    BY <1>1 DEF Create
  <2>. QED  BY <2>1
<1>2. ASSUME NEW id \in Identifiers, SweepClient(id) PROVE Owned'
  BY <1>2 DEF SweepClient
<1>3. CASE UNCHANGED <<clients, ident>>
  BY <1>3
<1>. QED  BY <1>1, <1>2, <1>3 DEF Next, vars, Tick, Allow, Arrive, ArriveCanceled, Lookup, Grant,
             Deny, Reset, Cleanup, SweepLock, SweepUnlock

\* What every state has that no call has reached an orphan before.
Unharmed == IInv /\ InMap /\ Owned

LEMMA UnharmedInit == Init => Unharmed
BY InvariantInit, NamesAssumption DEF Init, Unharmed, InMap, Owned

LEMMA UnharmedStep == Unharmed /\ NoOrphanHeld /\ [Next]_vars => Unharmed'
BY InvariantStep, InMapStep, OwnedStep DEF Unharmed, IInv

\* Where nobody has reached an orphan, what an identifier was granted is what
\* its record has granted.
LEMMA WithinLimit == ASSUME Unharmed PROVE IdentifierWindowLimit
<1>. SUFFICES ASSUME NEW id \in Identifiers
              PROVE  Cardinality({p \in Calls \ forgiven : /\ pc[p] = "allowed"
                                                           /\ ident[p] = id
                                                           /\ now[p] > clock - Window})
                     <= Capacity
  BY DEF IdentifierWindowLimit
<1>. DEFINE G == {p \in Calls \ forgiven : /\ pc[p] = "allowed"
                                           /\ ident[p] = id
                                           /\ now[p] > clock - Window}
<1>1. CASE G = {}
  BY <1>1, FS_EmptySet, NumbersAssumption DEF Capacity
<1>2. CASE G # {}
  <2>1. \A g \in G : ref[g] \in Calls /\ g \in requests[ref[g]] /\ ref[g] = clients[id]
    BY DEF Unharmed, IInv, TypeOK, Remembered, InMap
  <2>2. clients[id] \in Calls /\ G \in SUBSET requests[clients[id]]
    BY <1>2, <2>1
  <2>3. /\ requests[clients[id]] \in SUBSET Calls
        /\ Cardinality(requests[clients[id]]) <= Capacity
    BY <2>2 DEF Unharmed, IInv, TypeOK, HistoryBounded
  <2>4. /\ Cardinality(G) <= Cardinality(requests[clients[id]])
        /\ Cardinality(G) \in Nat /\ Cardinality(requests[clients[id]]) \in Nat
    BY <2>2, <2>3, CallSets
  <2>. HIDE DEF G
  <2>5. Cardinality(G) <= Capacity
    BY <2>3, <2>4, NumbersAssumption DEF Capacity
  <2>. QED  BY <2>5 DEF G
<1>. QED  BY <1>1, <1>2

\* As long as no call reaches the mutex of a record that a sweep has taken out
\* of the map, no identifier is granted more than the limit in a window, sweeps
\* and resets included (lines 83-105 and 148-150): what run mem_orphan shows
\* has no other cause.
THEOREM OnlyOrphansExceed == Spec /\ []NoOrphanHeld => []IdentifierWindowLimit
BY UnharmedInit, UnharmedStep, WithinLimit, PTL DEF Spec

\* The cardinality the promise speaks of is the one of FiniteSets.
LEMMA SameCardinality == \A S : Promise!Cardinality(S) = Cardinality(S)
BY DEF Promise!Cardinality, Cardinality

\* A step of one call is a step of its verdict, or leaves it.
LEMMA VerdictStep ==
    ASSUME TypeOK, NEW p \in Calls, NEW stage \in Stages, pc' = [pc EXCEPT ![p] = stage]
    PROVE  Verdict' = [Verdict EXCEPT ![p] = VerdictOf(stage)]
BY DEF TypeOK, Verdict

\* Line 104 is a grant of the promise: what is in the window that ends now is
\* retained, and there is room beside what is retained.
LEMMA GrantPromised ==
    ASSUME Unharmed, NoOrphanHeld, forgiven = {}, NEW p \in Calls, Grant(p)
    PROVE  Promise!Grant(p)
<1>1. TypeOK /\ pc[p] = "admit" /\ ref[p] \in Calls /\ clock - Window \in Int
  BY NumbersAssumption DEF Unharmed, IInv, TypeOK, Grant
<1>2. Promise!GrantsAfter(ident[p], clock - Window) \in SUBSET Retained(p)
  <2>. SUFFICES ASSUME NEW q \in Calls, pc[q] = "allowed", ident[q] = ident[p],
                       now[q] > clock - Window
                PROVE  q \in Retained(p)
    BY DEF Promise!GrantsAfter, Verdict, VerdictOf
  <2>1. q \in requests[ref[p]]
    <3>1. q \in requests[ref[q]] /\ ref[q] \in Calls
      BY DEF Unharmed, IInv, TypeOK, Remembered
    <3>. QED  BY <1>1, <3>1 DEF Unharmed, InMap, NoOrphanHeld
  <2>2. now[q] > now[p] - Window
    BY <1>1, NumbersAssumption DEF Unharmed, IInv, StampsPast, TypeOK
  <2>. QED  BY <2>1, <2>2 DEF Retained
<1>3. Retained(p) \in SUBSET Calls
  BY <1>1 DEF Retained, TypeOK
<1>4. Cardinality(Promise!GrantsAfter(ident[p], clock - Window)) < Limit
  <2>1. /\ Cardinality(Promise!GrantsAfter(ident[p], clock - Window))
             <= Cardinality(Retained(p))
        /\ Cardinality(Promise!GrantsAfter(ident[p], clock - Window)) \in Nat
        /\ Cardinality(Retained(p)) \in Nat
    BY <1>2, <1>3, CallSets
  <2>2. Cardinality(Retained(p)) < Limit
    BY <2>1, NumbersAssumption DEF Grant, Full
  <2>. QED  BY <2>1, <2>2, NumbersAssumption
<1>5. Verdict[p] = "pending"
  BY <1>1 DEF Verdict, VerdictOf
<1>6. Verdict' = [Verdict EXCEPT ![p] = "allowed"]
  <2>1. VerdictOf("allowed") = "allowed"
    BY DEF VerdictOf
  <2>. QED  BY <1>1, <2>1, VerdictStep, "allowed" \in Stages DEF Grant, Stages
<1>. QED  BY <1>4, <1>5, <1>6, SameCardinality DEF Promise!Grant, Grant

\* Line 101 is a denial of the promise: what is retained was granted.
LEMMA DenyPromised ==
    ASSUME Unharmed, NoOrphanHeld, NEW p \in Calls, Deny(p)
    PROVE  Promise!Deny(p)
<1>1. TypeOK /\ pc[p] = "admit" /\ ref[p] \in Calls /\ now[p] - Window \in Int
  BY NumbersAssumption DEF Unharmed, IInv, TypeOK, Deny
<1>2. Retained(p) \in SUBSET Promise!GrantsAfter(ident[p], now[p] - Window)
  <2>. SUFFICES ASSUME NEW q \in Retained(p)
                PROVE  /\ q \in Calls /\ pc[q] = "allowed" /\ ident[q] = ident[p]
                       /\ now[q] > now[p] - Window
    BY DEF Promise!GrantsAfter, Verdict, VerdictOf
  <2>1. /\ q \in Calls /\ q \in requests[ref[p]] /\ now[q] > now[p] - Window
        /\ pc[q] = "allowed"
    BY <1>1 DEF Unharmed, IInv, TypeOK, Recorded, Retained
  <2>2. ident[q] = ident[p]
    <3>1. clients[ident[q]] = ref[p] /\ clients[ident[p]] = ref[p] /\ ref[p] # None
      BY <1>1, <2>1, NamesAssumption DEF Unharmed, InMap, NoOrphanHeld
    <3>. QED  BY <1>1, <2>1, <3>1 DEF Unharmed, Owned, TypeOK
  <2>. QED  BY <2>1, <2>2
<1>3. Promise!GrantsAfter(ident[p], now[p] - Window) \in SUBSET Calls
  BY DEF Promise!GrantsAfter
<1>4. Cardinality(Promise!GrantsAfter(ident[p], now[p] - Window)) >= Limit
  <2>1. /\ Cardinality(Retained(p))
             <= Cardinality(Promise!GrantsAfter(ident[p], now[p] - Window))
        /\ Cardinality(Promise!GrantsAfter(ident[p], now[p] - Window)) \in Nat
        /\ Cardinality(Retained(p)) \in Nat
    BY <1>2, <1>3, CallSets
  <2>2. Cardinality(Retained(p)) >= Limit
    BY DEF Deny, Full
  <2>. QED  BY <2>1, <2>2, NumbersAssumption
<1>5. Verdict[p] = "pending"
  BY <1>1 DEF Verdict, VerdictOf
<1>6. Verdict' = [Verdict EXCEPT ![p] = "denied"]
  <2>1. VerdictOf("denied") = "denied"
    BY DEF VerdictOf
  <2>. QED  BY <1>1, <2>1, VerdictStep, "denied" \in Stages DEF Deny, Stages
<1>. QED  BY <1>4, <1>5, <1>6, SameCardinality DEF Promise!Deny, Deny

\* The steps of a call that the promise does not see.
LEMMA HiddenStep ==
    ASSUME TypeOK, NEW p \in Calls, Lookup(p) \/ Create(p)
    PROVE  UNCHANGED <<clock, ident, now, Verdict>>
<1>1. PICK stage \in {"create", "admit", "panicked"} :
          /\ pc' = [pc EXCEPT ![p] = stage]
          /\ pc[p] \in {"lookup", "create"}
          /\ UNCHANGED <<clock, ident, now>>
  BY DEF Lookup, Create
<1>2. Verdict' = [Verdict EXCEPT ![p] = VerdictOf(stage)]
  BY <1>1, stage \in Stages, VerdictStep DEF Stages
<1>3. VerdictOf(stage) = Verdict[p]
  BY <1>1 DEF VerdictOf, Verdict
<1>. QED  BY <1>1, <1>2, <1>3 DEF Verdict

\* Every step that finds no orphan held and no grant forgiven is a step of the
\* promise, or one it does not see.
LEMMA PromiseStep ==
    ASSUME Unharmed, NoOrphanHeld, forgiven = {}, [Next]_vars
    PROVE  Promise!Next \/ UNCHANGED <<clock, ident, now, Verdict>>
<1>0. TypeOK
  BY DEF Unharmed, IInv
<1>1. CASE Tick
  BY <1>1 DEF Tick, Verdict, Promise!Next, Promise!Tick
<1>2. ASSUME NEW p \in Calls, Arrive(p) PROVE Promise!Request(p)
  <2>1. Verdict' = [Verdict EXCEPT ![p] = "pending"]
    <3>1. VerdictOf("lookup") = "pending"
      BY DEF VerdictOf
    <3>. QED  BY <1>0, <1>2, <3>1, VerdictStep, "lookup" \in Stages DEF Arrive, Stages
  <2>2. Verdict[p] = "none"
    BY <1>2 DEF Arrive, Verdict, VerdictOf
  <2>. QED  BY <1>2, <2>1, <2>2 DEF Arrive, Promise!Request
<1>3. ASSUME NEW p \in Calls, ArriveCanceled(p) PROVE Promise!Request(p)
  <2>1. Verdict' = [Verdict EXCEPT ![p] = "error"]
    <3>1. VerdictOf("error") = "error"
      BY DEF VerdictOf
    <3>. QED  BY <1>0, <1>3, <3>1, VerdictStep, "error" \in Stages DEF ArriveCanceled, Stages
  <2>2. Verdict[p] = "none"
    BY <1>3 DEF ArriveCanceled, Verdict, VerdictOf
  <2>. QED  BY <1>3, <2>1, <2>2 DEF ArriveCanceled, Promise!Request
<1>4. ASSUME NEW p \in Calls, Grant(p) \/ Deny(p)
      PROVE  Promise!Grant(p) \/ Promise!Deny(p)
  BY <1>4, GrantPromised, DenyPromised
<1>5. ASSUME NEW p \in Calls, Lookup(p) \/ Create(p)
      PROVE  UNCHANGED <<clock, ident, now, Verdict>>
  BY <1>0, <1>5, HiddenStep
<1>6. CASE Cleanup
  BY <1>6 DEF Cleanup, SweepLock, SweepClient, SweepUnlock, Verdict
<1>7. CASE UNCHANGED vars \/ \E id \in Resettable : Reset(id)
  BY <1>7 DEF vars, Reset, Verdict
<1>8. CASE \E p \in Calls : Allow(p)
  <2>1. PICK p \in Calls : Allow(p)
    BY <1>8
  <2>2. Promise!Request(p) \/ Promise!Grant(p) \/ Promise!Deny(p)
        \/ UNCHANGED <<clock, ident, now, Verdict>>
    BY <2>1, <1>2, <1>3, <1>4, <1>5 DEF Allow
  <2>. QED  BY <2>2 DEF Promise!Next
<1>. QED  BY <1>1, <1>6, <1>7, <1>8 DEF Next

\* A grant that was forgiven stays so, and a sweep is never undone.
LEMMA HistoryGrows ==
    ASSUME [Next]_vars
    PROVE  forgiven \subseteq forgiven' /\ (swept => swept')
BY DEF Next, vars, Tick, Allow, Arrive, ArriveCanceled, Lookup, Create, Grant, Deny, Reset,
       Cleanup, SweepLock, SweepClient, SweepUnlock

\* A run of the limiter is a run of its promise.
KeepsPromise == Promise!Init /\ [][Promise!Next]_(Promise!vars)

\* And every step of Allow is then a step of what ports.RateLimitService
\* promises, or one it does not see: the orphan is the only way in which a
\* sweep shows.  Resets the promise does not know.
THEOREM OnlyOrphansBreakPromise ==
    ASSUME Resettable = {}
    PROVE  Spec /\ []NoOrphanHeld => KeepsPromise
<1>1. Init => Promise!Init
  BY DEF Init, Promise!Init, Verdict, VerdictOf
<1>2. /\ Init => forgiven = {}
      /\ forgiven = {} /\ [Next]_vars => (forgiven = {})'
  BY DEF Init, Next, vars, Tick, Allow, Arrive, ArriveCanceled, Lookup, Create, Grant, Deny,
         Cleanup, SweepLock, SweepClient, SweepUnlock
<1>3. Unharmed /\ NoOrphanHeld /\ forgiven = {} /\ [Next]_vars => [Promise!Next]_(Promise!vars)
  BY PromiseStep DEF Promise!vars, Verdict
<1>. QED  BY UnharmedInit, UnharmedStep, <1>1, <1>2, <1>3, PTL DEF Spec, KeepsPromise

-----------------------------------------------------------------------------
(***************************************************************************)
(* Until the first sweep there is no orphan: a pointer that a call holds is *)
(* the one in the map.                                                      *)
(***************************************************************************)
Early ==
    /\ TypeOK
    /\ ~swept => Unharmed /\ NoOrphanHeld /\ sweep = {} /\ writer # Sweeper

\* Nobody but a sweep makes an orphan of a record.
LEMMA NoOrphanStep ==
    ASSUME TypeOK, TypeOK', NoOrphanHeld, ~swept', sweep = {}, writer # Sweeper, [Next]_vars
    PROVE  NoOrphanHeld' /\ sweep' = {} /\ writer' # Sweeper
<1>. DEFINE Goal == NoOrphanHeld' /\ sweep' = {} /\ writer' # Sweeper
<1>2. ASSUME NEW p \in Calls, Create(p) PROVE Goal
  <2>1. ident' = ident /\ writer' # Sweeper /\ sweep' = sweep
    BY <1>2, NamesAssumption DEF Create
  <2>2. CASE clients[ident[p]] = None /\ Limit < 0
    BY <1>2, <2>1, <2>2 DEF Create, NoOrphanHeld, TypeOK
  <2>3. CASE clients[ident[p]] = None /\ ~(Limit < 0)
    BY <1>2, <2>1, <2>3, NamesAssumption DEF Create, NoOrphanHeld, TypeOK
  <2>4. CASE clients[ident[p]] # None
    BY <1>2, <2>1, <2>4 DEF Create, NoOrphanHeld, TypeOK
  <2>. QED  BY <2>2, <2>3, <2>4
<1>3. ASSUME NEW p \in Calls, Lookup(p) PROVE Goal
  BY <1>3 DEF Lookup, NoOrphanHeld, TypeOK
<1>4. ASSUME NEW p \in Calls, Arrive(p) \/ ArriveCanceled(p) \/ Grant(p) \/ Deny(p)
      PROVE  Goal
  BY <1>4 DEF Arrive, ArriveCanceled, Grant, Deny, NoOrphanHeld, TypeOK
<1>5. CASE Tick \/ UNCHANGED vars \/ \E id \in Resettable : Reset(id)
  BY <1>5 DEF Tick, vars, Reset, NoOrphanHeld
<1>6. ~Cleanup
  BY DEF Cleanup, SweepLock, SweepClient, SweepUnlock
<1>. QED  BY <1>2, <1>3, <1>4, <1>5, <1>6 DEF Next, Allow

LEMMA EarlyInit == Init => Early
BY UnharmedInit, InvariantInit, NamesAssumption DEF Init, Early, NoOrphanHeld, IInv

LEMMA EarlyStep == Early /\ [Next]_vars => Early'
<1>. SUFFICES ASSUME Early, [Next]_vars PROVE Early'
  OBVIOUS
<1>1. TypeOK /\ TypeOK'
  BY TypeStep DEF Early
<1>2. ASSUME ~swept'
      PROVE  Unharmed' /\ NoOrphanHeld' /\ sweep' = {} /\ writer' # Sweeper
  <2>1. ~swept /\ Unharmed /\ NoOrphanHeld /\ sweep = {} /\ writer # Sweeper
    BY <1>2, HistoryGrows DEF Early
  <2>. QED  BY <1>1, <1>2, <2>1, UnharmedStep, NoOrphanStep
<1>. QED  BY <1>1, <1>2 DEF Early

\* Until the first sweep an identifier never gets more than the limit in the
\* window that ends now: the promise of line 49, resets included.
THEOREM IdentifierLimitEarly == Spec => []EarlyLimit
<1>1. Early => EarlyLimit
  BY WithinLimit DEF Early, EarlyLimit
<1>. QED  BY <1>1, EarlyInit, EarlyStep, PTL DEF Spec

\* Until the first sweep, and until a reset, every step of Allow is a step of
\* what ports.RateLimitService promises, or one it does not see.
THEOREM EarlyRefinement == Spec => EarlyPromise
<1>1. Early /\ [Next]_vars => [swept' \/ forgiven' # {} \/ Promise!Next]_(Promise!vars)
  <2>. SUFFICES ASSUME Early, [Next]_vars, ~swept', forgiven' = {}
                PROVE  Promise!Next \/ UNCHANGED <<clock, ident, now, Verdict>>
    BY DEF Promise!vars, Verdict
  <2>1. ~swept /\ forgiven = {}
    BY HistoryGrows
  <2>. QED  BY <2>1, PromiseStep DEF Early
<1>. QED  BY <1>1, EarlyInit, EarlyStep, PTL DEF Spec, EarlyPromise

-----------------------------------------------------------------------------
\* Who holds rl.mu from one step to the next: the cleanup, or a call that has
\* panicked with it.
LockHeld == writer \in Calls => pc[writer] = "panicked" /\ Limit < 0

LEMMA LockStep == TypeOK /\ LockHeld /\ [Next]_vars => LockHeld'
<1>. SUFFICES ASSUME TypeOK, LockHeld, [Next]_vars
              PROVE  LockHeld'
  OBVIOUS
<1>. USE NamesAssumption DEF TypeOK, LockHeld
<1>1. ASSUME NEW p \in Calls, Create(p) PROVE LockHeld'
  BY <1>1 DEF Create
<1>2. ASSUME NEW p \in Calls, Arrive(p) \/ ArriveCanceled(p) \/ Lookup(p) \/ Grant(p) \/ Deny(p)
      PROVE  LockHeld'
  BY <1>2 DEF Arrive, ArriveCanceled, Lookup, Grant, Deny
<1>3. CASE Cleanup
  BY <1>3 DEF Cleanup, SweepLock, SweepClient, SweepUnlock
<1>. QED  BY <1>1, <1>2, <1>3 DEF Next, vars, Allow, Tick, Reset

\* rl.mu is never kept: with a limit that make accepts no call ever holds it
\* between two steps, and a cleanup that holds it only goes on through what is
\* left to visit and then lets go.  This is what EveryCallReturns has of safety;
\* that the cleanup does go on is its fairness.
THEOREM LockIsReleased ==
    ASSUME Limit >= 0
    PROVE  Spec => /\ [](writer \in {None, Sweeper})
                   /\ [][writer = Sweeper => \/ writer' = Sweeper /\ sweep' \subseteq sweep
                                             \/ writer' = None /\ sweep = {}]_vars
<1>1. Init => LockHeld
  BY NamesAssumption DEF Init, LockHeld
<1>2. TypeOK /\ LockHeld => writer \in {None, Sweeper}
  BY NumbersAssumption DEF TypeOK, LockHeld
<1>3. [Next]_vars => [writer = Sweeper => \/ writer' = Sweeper /\ sweep' \subseteq sweep
                                          \/ writer' = None /\ sweep = {}]_vars
  BY NamesAssumption DEF Next, vars, Allow, Tick, Arrive, ArriveCanceled, Lookup, Create, Grant,
     Deny, Reset, Cleanup, SweepLock, SweepClient, SweepUnlock
<1>. QED  BY <1>1, <1>2, <1>3, LockStep, TypeCorrect, PTL DEF Spec

\* With a negative limit (RATE_LIMIT_RPS is any integer) the limiter decides
\* nothing, ever: the first call to get that far panics with rl.mu locked (lines
\* 71-81), no client is ever created, and no call gets past rl.mu again.
THEOREM NegativeLimitBlocks ==
    ASSUME Limit < 0
    PROVE  Spec => /\ [](\A p \in Calls : pc[p] \notin {"admit", "allowed", "denied"})
                   /\ [][(\E p \in Calls : pc[p] = "panicked") =>
                             \A p \in Calls : ~Lookup(p) /\ ~Create(p)]_vars
<1>. DEFINE Blocked == /\ \A id \in Identifiers : clients[id] = None
                       /\ \A p \in Calls : /\ pc[p] \notin {"admit", "allowed", "denied"}
                                           /\ pc[p] = "panicked" => writer \in Calls
            Idles == (\E p \in Calls : pc[p] = "panicked") =>
                         \A p \in Calls : ~Lookup(p) /\ ~Create(p)
<1>1. Init => Blocked
  BY DEF Init
<1>2. TypeOK /\ Blocked /\ [Next]_vars => Blocked'
  <2>. SUFFICES ASSUME TypeOK, Blocked, [Next]_vars
                PROVE  Blocked'
    OBVIOUS
  <2>. USE NamesAssumption DEF TypeOK
  <2>1. ASSUME NEW p \in Calls, Arrive(p) \/ ArriveCanceled(p) \/ Lookup(p) PROVE Blocked'
    BY <2>1 DEF Arrive, ArriveCanceled, Lookup
  <2>2. ASSUME NEW p \in Calls, Create(p) PROVE Blocked'
    BY <2>2 DEF Create
  <2>3. ASSUME NEW p \in Calls PROVE ~Grant(p) /\ ~Deny(p)
    BY DEF Grant, Deny
  <2>4. CASE Cleanup
    BY <2>4 DEF Cleanup, SweepLock, SweepClient, SweepUnlock
  <2>. QED  BY <2>1, <2>2, <2>3, <2>4 DEF Next, vars, Allow, Tick, Reset
<1>3. Blocked /\ [Next]_vars => [Idles]_vars
  BY NamesAssumption DEF Lookup, Create
<1>4. Blocked => \A p \in Calls : pc[p] \notin {"admit", "allowed", "denied"}
  OBVIOUS
<1>. QED  BY <1>1, <1>2, <1>3, <1>4, TypeCorrect, PTL DEF Spec
=============================================================================
