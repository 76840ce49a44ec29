-------------------------- MODULE SlidingWindowProofs --------------------------
(***************************************************************************)
(* What ports.RateLimitService promises is worth having: a limit that      *)
(* holds, and a decision that is always possible and never taken back.     *)
(* Proved of SlidingWindow alone, for whatever implements it: the limiters *)
(* that MemoryRateLimiterProofs and RedisRateLimiterProofs map to it, and  *)
(* the one that Pipeline has.                                              *)
(***************************************************************************)
EXTENDS SlidingWindow, FiniteSetTheorems, TLAPS

\* A limit of no requests is one; the length of the window may be any.
Sensible == IsFiniteSet(Calls) /\ Limit \in Nat /\ Window \in Int /\ MaxTime \in Nat

\* Types, and no request is made in the future.
TypeOK ==
    /\ clock \in Nat
    /\ ident \in [Calls -> Identifiers]
    /\ stamp \in [Calls -> Nat]
    /\ verdict \in [Calls -> Verdicts]
    /\ \A p \in Calls : stamp[p] <= clock

\* What the window that ends now has of an identifier's grants.
InWindow(id) == GrantsAfter(id, clock - Window)

LimitKept == \A id : Cardinality(InWindow(id)) <= Limit

LEMMA TypeInit == Init => TypeOK
BY DEF Init, TypeOK, Verdicts

LEMMA TypeStep == TypeOK /\ [Next]_vars => TypeOK'
<1>. SUFFICES ASSUME TypeOK, [Next]_vars PROVE TypeOK'
  OBVIOUS
<1>. USE DEF TypeOK, Verdicts
<1>1. CASE Tick \/ UNCHANGED vars
  BY <1>1 DEF Tick, vars
<1>2. ASSUME NEW p \in Calls, Request(p) PROVE TypeOK'
  BY <1>2 DEF Request
<1>3. ASSUME NEW p \in Calls, Grant(p) \/ Deny(p) PROVE TypeOK'
  BY <1>3 DEF Grant, Deny
<1>. QED  BY <1>1, <1>2, <1>3 DEF Next

LEMMA GrantsFinite ==
    ASSUME Sensible, NEW id, NEW t
    PROVE  IsFiniteSet(GrantsAfter(id, t)) /\ Cardinality(GrantsAfter(id, t)) \in Nat
<1>1. GrantsAfter(id, t) \subseteq Calls
  BY DEF GrantsAfter
<1>. QED  BY <1>1, FS_Subset, FS_CardinalityType DEF Sensible

LEMMA LimitInit ==
    ASSUME Sensible, Init
    PROVE  LimitKept
<1>1. \A id : InWindow(id) = {}
  BY DEF Init, InWindow, GrantsAfter
<1>. QED  BY <1>1, FS_EmptySet DEF LimitKept, Sensible

\* Only a grant brings a request into the window, and it finds room there; as
\* time passes the window only loses requests.
LEMMA LimitStep ==
    ASSUME Sensible, TypeOK, LimitKept, [Next]_vars
    PROVE  LimitKept'
<1>. SUFFICES ASSUME NEW id
              PROVE  Cardinality(InWindow(id)') <= Limit
  BY DEF LimitKept
<1>. DEFINE W == InWindow(id)
            W2 == InWindow(id)'
<1>1. IsFiniteSet(W) /\ Cardinality(W) \in Nat /\ Cardinality(W) <= Limit
  BY GrantsFinite DEF InWindow, LimitKept
<1>2. W2 \subseteq W => Cardinality(W2) <= Limit
  <2>. HIDE DEF W, W2
  <2>. QED  BY <1>1, FS_Subset, FS_CardinalityType DEF Sensible
<1>3. CASE Tick \/ UNCHANGED vars
  <2>1. W2 \subseteq W
    BY <1>3 DEF InWindow, GrantsAfter, Tick, vars, TypeOK, Sensible
  <2>. QED  BY <1>2, <2>1
<1>4. ASSUME NEW p \in Calls, Request(p) \/ Deny(p) \/ (Grant(p) /\ ident[p] # id)
      PROVE  Cardinality(W2) <= Limit
  <2>1. W2 \subseteq W
    BY <1>4 DEF InWindow, GrantsAfter, Request, Deny, Grant, TypeOK
  <2>. QED  BY <1>2, <2>1
<1>5. ASSUME NEW p \in Calls, Grant(p), ident[p] = id
      PROVE  Cardinality(W2) <= Limit
  <2>1. Cardinality(W) < Limit
    BY <1>5 DEF Grant, InWindow
  <2>2. W2 \subseteq W \cup {p}
    BY <1>5 DEF InWindow, GrantsAfter, Grant, TypeOK
  <2>. HIDE DEF W, W2
  <2>3. IsFiniteSet(W \cup {p}) /\ Cardinality(W \cup {p}) <= Cardinality(W) + 1
    BY <1>1, FS_AddElement
  <2>4. Cardinality(W2) <= Cardinality(W \cup {p})
    BY <2>2, <2>3, FS_Subset
  <2>5. Cardinality(W2) \in Nat /\ Cardinality(W \cup {p}) \in Nat
    BY <2>2, <2>3, FS_Subset, FS_CardinalityType
  <2>. QED  BY <1>1, <2>1, <2>3, <2>4, <2>5 DEF Sensible
<1>. QED  BY <1>3, <1>4, <1>5 DEF Next

\* Of the requests of one identifier, however late they are decided, no more than
\* Limit are ever granted in the window that ends now.
THEOREM PromiseLimits ==
    ASSUME Sensible
    PROVE  Spec => []LimitKept
BY TypeInit, TypeStep, LimitInit, LimitStep, PTL DEF Spec

\* What the window that ends now has room for may be granted, and what that of the
\* request has no room for may be denied.
MayGrant(p) == Cardinality(GrantsAfter(ident[p], clock - Window)) < Limit
MayDeny(p) == Cardinality(GrantsAfter(ident[p], stamp[p] - Window)) >= Limit

LEMMA Decidable ==
    ASSUME Sensible, TypeOK, NEW p \in Calls
    PROVE  MayGrant(p) \/ MayDeny(p)
<1>. DEFINE W == GrantsAfter(ident[p], clock - Window)
            S == GrantsAfter(ident[p], stamp[p] - Window)
<1>1. W \subseteq S
  BY DEF GrantsAfter, TypeOK, Sensible
<1>2. IsFiniteSet(S) /\ Cardinality(S) \in Nat /\ Cardinality(W) \in Nat
  BY GrantsFinite
<1>. HIDE DEF W, S
<1>3. Cardinality(W) <= Cardinality(S)
  BY <1>1, <1>2, FS_Subset
<1>. QED  BY <1>2, <1>3 DEF Sensible, W, S, MayGrant, MayDeny

\* A request can always be decided: if the window that ends now has no room, the
\* longer one since the window before the request has none either.  So the fairness
\* of Grant and Deny asks for nothing that is not there to be done.
THEOREM AlwaysDecidable ==
    ASSUME Sensible
    PROVE  Spec => [](\A p \in Calls : MayGrant(p) \/ MayDeny(p))
<1>1. TypeOK => \A p \in Calls : MayGrant(p) \/ MayDeny(p)
  BY Decidable
<1>. QED  BY <1>1, TypeInit, TypeStep, PTL DEF Spec

\* And the answer stands: what is allowed, denied or given up stays so.
THEOREM VerdictsStand ==
    Spec => [][\A p \in Calls : verdict[p] \in {"allowed", "denied", "error"}
                                    => verdict'[p] = verdict[p]]_vars
<1>1. TypeOK /\ [Next]_vars =>
          [\A p \in Calls : verdict[p] \in {"allowed", "denied", "error"}
                                => verdict'[p] = verdict[p]]_vars
  BY DEF Next, Tick, Request, Grant, Deny, TypeOK
<1>. QED  BY <1>1, TypeInit, TypeStep, PTL DEF Spec
=============================================================================
