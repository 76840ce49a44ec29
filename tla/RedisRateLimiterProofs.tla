------------------------ MODULE RedisRateLimiterProofs ------------------------
(***************************************************************************)
(* Proofs about RedisRateLimiter for any number of requests, any limit and *)
(* window, any clocks and any number of retries.                           *)
(***************************************************************************)
EXTENDS RedisRateLimiter, FiniteSetTheorems, TLAPS

\* What was granted was sent before, and what the key holds fits the limit.
Sound ==
    /\ \A p \in Calls : pc[p] = "idle" => p \notin granted
    /\ IsFiniteSet(zset)
    /\ Cardinality(zset) <= Limit

\* No replica's clock is more than s ahead of Redis' own.
Ahead(s) == \A p \in Calls : skew[p] <= s

\* What the key holds: every second with a grant in the window that ends now,
\* shortened by s.  It is pruned with seconds that are at most s ahead, and
\* expires a window after its last grant.
HoldsWindow ==
    \A s \in Int : Ahead(s) =>
        /\ \A p \in Calls : pc[p] # "idle" => now[p] <= clock + s
        /\ \A p \in granted : now[p] > clock + s - Window => now[p] \in zset
        /\ zset # {} => \A p \in granted : now[p] - s + Window <= expires

IInv == TypeOK /\ Sound /\ HoldsWindow

-----------------------------------------------------------------------------
LEMMA InvariantInit == Init => IInv
<1>. SUFFICES ASSUME Init PROVE IInv
  OBVIOUS
<1>. USE NumbersAssumption DEF Init
<1>1. TypeOK
  BY DEF TypeOK, Stages
<1>2. Sound
  BY FS_EmptySet DEF Sound
<1>3. HoldsWindow
  BY DEF HoldsWindow
<1>. QED  BY <1>1, <1>2, <1>3 DEF IInv

\* The script never lets the key hold more members than the limit.
LEMMA ScriptFits ==
    ASSUME IInv, NEW p \in Calls, Evaluate(p)
    PROVE  IsFiniteSet(zset)' /\ (Cardinality(zset) <= Limit)'
<1>. DEFINE left == Current(now[p])
<1>1. left \subseteq zset /\ IsFiniteSet(zset) /\ Cardinality(zset) <= Limit
  BY DEF IInv, Sound, Current
<1>2. IsFiniteSet(left) /\ Cardinality(left) <= Cardinality(zset)
  BY <1>1, FS_Subset
<1>3. Cardinality(left) \in Nat /\ Cardinality(zset) \in Nat
  BY <1>1, <1>2, FS_CardinalityType
<1>4. CASE Room(now[p]) /\ zset' = left \cup {now[p]}
  <2>1. Cardinality(left) < Limit
    BY <1>4 DEF Room
  <2>2. /\ IsFiniteSet(left \cup {now[p]})
        /\ \/ Cardinality(left \cup {now[p]}) = Cardinality(left)
           \/ Cardinality(left \cup {now[p]}) = Cardinality(left) + 1
    BY <1>2, FS_AddElement
  <2>. HIDE DEF left
  <2>. QED  BY <1>3, <1>4, <2>1, <2>2, NumbersAssumption
<1>5. CASE zset' = left
  <2>. HIDE DEF left
  <2>. QED  BY <1>1, <1>2, <1>3, <1>5, NumbersAssumption
<1>. QED  BY <1>4, <1>5 DEF Evaluate

LEMMA EvaluateStep ==
    ASSUME IInv, NEW p \in Calls, Evaluate(p)
    PROVE  IInv'
<1>. USE NumbersAssumption
<1>1. TypeOK'
  BY DEF IInv, TypeOK, Evaluate, Current, Stages
<1>2. Sound'
  <2>1. (\A q \in Calls : pc[q] = "idle" => q \notin granted)'
    BY DEF IInv, TypeOK, Sound, Evaluate
  <2>. QED  BY <2>1, ScriptFits DEF Sound
<1>3. HoldsWindow'
  <2>. SUFFICES ASSUME NEW s \in Int, Ahead(s)
                PROVE  /\ (\A q \in Calls : pc[q] # "idle" => now[q] <= clock + s)'
                       /\ (\A q \in granted : now[q] > clock + s - Window => now[q] \in zset)'
                       /\ (zset # {} => \A q \in granted : now[q] - s + Window <= expires)'
    BY DEF HoldsWindow, Ahead, Evaluate
  <2>. USE DEF IInv, TypeOK, HoldsWindow, Evaluate, Current
  <2>1. (\A q \in Calls : pc[q] # "idle" => now[q] <= clock + s)'
    OBVIOUS
  <2>2. ASSUME NEW q \in granted', now[q] > clock + s - Window
        PROVE  now[q] \in zset'
    <3>1. now[q] > now[p] - Window
      BY <2>1, <2>2
    <3>. QED  BY <2>2, <3>1
  <2>3. (zset # {} => \A q \in granted : now[q] - s + Window <= expires)'
    BY DEF Sound
  <2>. QED  BY <2>1, <2>2, <2>3
<1>. QED  BY <1>1, <1>2, <1>3 DEF IInv

LEMMA InvariantStep == ASSUME IInv, [Next]_vars PROVE IInv'
<1>. USE NumbersAssumption
<1>1. ASSUME NEW p \in Calls, Send(p) PROVE IInv'
  <2>1. now' = [now EXCEPT ![p] = clock + skew[p]] /\ p \notin granted
    BY <1>1 DEF IInv, Sound, Send
  <2>2. \A q \in granted : now'[q] = now[q]
    BY <2>1 DEF IInv, TypeOK
  <2>3. {now'[q] : q \in granted} = {now[q] : q \in granted}
    BY <2>2
  <2>4. now' \in [Calls -> Int]
    <3>1. clock \in Int /\ skew[p] \in Skews /\ now \in [Calls -> Int]
      BY DEF IInv, TypeOK
    <3>2. skew[p] \in Int
      BY <3>1, NumbersAssumption, Zenon
    <3>. QED  BY <2>1, <3>1, <3>2
  <2>5. TypeOK'
    BY <1>1, <2>3, <2>4 DEF IInv, TypeOK, Send, Stages
  <2>6. Sound'
    BY <1>1 DEF IInv, TypeOK, Sound, Send
  <2>7. HoldsWindow'
    <3>. SUFFICES ASSUME NEW s \in Int, Ahead(s)
                  PROVE  /\ (\A q \in Calls : pc[q] # "idle" => now[q] <= clock + s)'
                         /\ (\A q \in granted : now[q] > clock + s - Window => now[q] \in zset)'
                         /\ (zset # {} => \A q \in granted : now[q] - s + Window <= expires)'
      BY <1>1 DEF HoldsWindow, Ahead, Send
    <3>1. /\ \A q \in Calls : pc[q] # "idle" => now[q] <= clock + s
          /\ \A q \in granted : now[q] > clock + s - Window => now[q] \in zset
          /\ zset # {} => \A q \in granted : now[q] - s + Window <= expires
      BY DEF IInv, HoldsWindow
    <3>2. now'[p] <= clock + s
      <4>1. skew[p] \in Int
        BY NumbersAssumption DEF IInv, TypeOK
      <4>. QED  BY <2>1, <4>1 DEF Ahead, IInv, TypeOK
    <3>3. ASSUME NEW q \in Calls, pc'[q] # "idle" PROVE now'[q] <= clock' + s
      <4>1. CASE q = p
        BY <1>1, <3>2, <4>1 DEF Send
      <4>2. CASE q # p
        BY <1>1, <3>1, <3>3, <4>2 DEF Send, IInv, TypeOK
      <4>. QED  BY <4>1, <4>2
    <3>. QED  BY <1>1, <2>2, <3>1, <3>3 DEF Send
  <2>. QED  BY <2>5, <2>6, <2>7 DEF IInv
<1>2. ASSUME NEW p \in Calls, Answer(p) PROVE IInv'
  BY <1>2 DEF IInv, TypeOK, Sound, HoldsWindow, Ahead, Answer, Stages
<1>3. ASSUME NEW p \in Calls, Lose(p) PROVE IInv'
  BY <1>3 DEF IInv, TypeOK, Sound, HoldsWindow, Ahead, Lose, Stages
<1>4. CASE Tick
  BY <1>4 DEF IInv, TypeOK, Sound, HoldsWindow, Ahead, Tick
<1>5. CASE Expire
  <2>1. TypeOK' /\ Sound'
    BY <1>5, FS_EmptySet DEF IInv, TypeOK, Sound, Expire
  <2>2. HoldsWindow'
    <3>. SUFFICES ASSUME NEW s \in Int, Ahead(s), NEW q \in granted
                  PROVE  now[q] <= clock + s - Window
      BY <1>5 DEF IInv, TypeOK, HoldsWindow, Ahead, Expire
    <3>. QED  BY <1>5 DEF IInv, TypeOK, HoldsWindow, Expire
  <2>. QED  BY <2>1, <2>2 DEF IInv
<1>6. CASE Reset
  BY <1>6, FS_EmptySet DEF IInv, TypeOK, Sound, HoldsWindow, Ahead, Reset
<1>7. CASE UNCHANGED vars
  BY <1>7 DEF IInv, TypeOK, Sound, HoldsWindow, Ahead, vars
<1>. QED  BY <1>1, <1>2, <1>3, <1>4, <1>5, <1>6, <1>7, EvaluateStep DEF Next, Allow

-----------------------------------------------------------------------------
\* Types hold, and what the key holds are seconds of grants since the reset.
THEOREM TypeCorrect == Spec => []TypeOK
<1>1. IInv => TypeOK
  BY DEF IInv
<1>. QED  BY <1>1, InvariantInit, InvariantStep, PTL DEF Spec

\* The seconds of the shortened window are all in the key, which holds no more
\* than the limit.
LEMMA WindowFits ==
    ASSUME IInv, NEW s \in Int, Ahead(s)
    PROVE  LET late == SecondsAfter(clock + s - Window)
           IN  IsFiniteSet(late) /\ Cardinality(late) <= Limit
<1>. DEFINE late == SecondsAfter(clock + s - Window)
<1>1. late \subseteq zset
  BY DEF IInv, HoldsWindow, SecondsAfter
<1>2. IsFiniteSet(zset) /\ Cardinality(zset) <= Limit
  BY DEF IInv, Sound
<1>. HIDE DEF late
<1>3. IsFiniteSet(late) /\ Cardinality(late) <= Cardinality(zset)
  BY <1>1, <1>2, FS_Subset
<1>4. Cardinality(zset) \in Nat /\ Cardinality(late) \in Nat
  BY <1>2, <1>3, FS_CardinalityType
<1>5. IsFiniteSet(late) /\ Cardinality(late) <= Limit
  BY <1>2, <1>3, <1>4, NumbersAssumption
<1>. QED  BY <1>5 DEF late

\* At most Limit seconds have a grant in the window that ends now, shortened by
\* as much as a replica's clock is ahead; with clocks that agree, in the window.
THEOREM SecondsHold == Spec => []SecondsLimit
<1>1. IInv => SecondsLimit
  <2>. SUFFICES ASSUME IInv, NEW s \in Skews, Ahead(s)
                PROVE  Cardinality(SecondsAfter(clock + s - Window)) <= Limit
    BY DEF SecondsLimit, Ahead
  <2>1. s \in Int
    BY NumbersAssumption
  <2>. QED  BY <2>1, WindowFits
<1>. QED  BY <1>1, InvariantInit, InvariantStep, PTL DEF Spec

\* "The total allowed requests should not exceed the limit"
\* (features/rate_limiting.feature:77) is what clocks that agree and requests
\* of distinct seconds make of it; run redis_seconds shows it to fail when two
\* requests share a second.
THEOREM SpacedLimited ==
    Spec => [](/\ \A p \in Calls : skew[p] = 0
               /\ \A p, q \in granted : p # q => now[p] # now[q]
               => TotalLimited)
<1>. DEFINE spaced == \A p, q \in granted : p # q => now[p] # now[q]
            agree == \A p \in Calls : skew[p] = 0
<1>1. IInv => (agree /\ spaced => TotalLimited)
  <2>. SUFFICES ASSUME IInv, agree, spaced PROVE TotalLimited
    OBVIOUS
  <2>. DEFINE recent == {p \in granted : now[p] > clock - Window}
              late == SecondsAfter(clock - Window)
  <2>1. Ahead(0) /\ clock + 0 - Window = clock - Window
    BY NumbersAssumption DEF Ahead, IInv, TypeOK
  <2>2. IsFiniteSet(late) /\ Cardinality(late) <= Limit
    BY <2>1, WindowFits
  <2>3. [p \in recent |-> now[p]] \in Injection(recent, late)
    <3>1. \A p \in recent : now[p] \in late
      BY DEF SecondsAfter
    <3>2. \A p, q \in recent : now[p] = now[q] => p = q
      OBVIOUS
    <3>. HIDE DEF recent, late
    <3>. QED  BY <3>1, <3>2 DEF Injection, IsInjective
  <2>. HIDE DEF recent, late
  <2>4. IsFiniteSet(recent) /\ Cardinality(recent) <= Cardinality(late)
    BY <2>2, <2>3, FS_Injection
  <2>5. Cardinality(recent) \in Nat /\ Cardinality(late) \in Nat
    BY <2>2, <2>4, FS_CardinalityType
  <2>6. Cardinality(recent) <= Limit
    BY <2>2, <2>4, <2>5, NumbersAssumption
  <2>. QED  BY <2>6 DEF TotalLimited, recent
<1>. QED  BY <1>1, InvariantInit, InvariantStep, PTL DEF Spec

-----------------------------------------------------------------------------
\* The script's answer to p is no.
Denied(p) == pc[p] = "sent" /\ pc'[p] = "evaluated" /\ reply'[p] = 0

\* There are no more seconds with a grant than grants.
LEMMA SecondsOf ==
    ASSUME NEW G, IsFiniteSet(G), NEW f, NEW t
    PROVE  /\ IsFiniteSet({q \in G : f[q] > t})
           /\ IsFiniteSet({f[q] : q \in {g \in G : f[g] > t}})
           /\ Cardinality({f[q] : q \in {g \in G : f[g] > t}}) <= Cardinality({q \in G : f[q] > t})
<1>. DEFINE late == {q \in G : f[q] > t}
<1>1. IsFiniteSet(late)
  BY FS_Subset
<1>2. [q \in late |-> f[q]] \in Surjection(late, {f[q] : q \in late})
  BY DEF Surjection
<1>. HIDE DEF late
<1>3. /\ IsFiniteSet({f[q] : q \in late})
      /\ Cardinality({f[q] : q \in late}) <= Cardinality(late)
  BY <1>1, <1>2, FS_Surjection
<1>. QED  BY <1>1, <1>3 DEF late

\* The seconds of the grants are finitely many.
LEMMA StampsFinite ==
    ASSUME NEW G, IsFiniteSet(G), NEW f
    PROVE  IsFiniteSet({f[q] : q \in G})
<1>1. [q \in G |-> f[q]] \in Surjection(G, {f[q] : q \in G})
  BY DEF Surjection
<1>. QED  BY <1>1, FS_Surjection

LEMMA GrantsFinite == TypeOK => IsFiniteSet(granted)
BY CallsAssumption, FS_Subset DEF TypeOK

\* What is left of the key after the pruning are seconds of grants that no
\* reset has forgiven, and a denial finds Limit of them.
LEMMA DenialCounted ==
    ASSUME IInv, [Next]_vars, NEW p \in Calls, Denied(p)
    PROVE  /\ IsFiniteSet(SecondsAfter(now[p] - Window))
           /\ Cardinality(SecondsAfter(now[p] - Window)) >= Limit
<1>1. Evaluate(p)
  BY DEF Denied, IInv, TypeOK, Next, vars, Tick, Expire, Reset, Allow, Send, Evaluate,
         Answer, Lose
<1>2. ~Room(now[p])
  BY <1>1 DEF Denied, IInv, TypeOK, Evaluate
<1>. DEFINE kept == Current(now[p])
            late == SecondsAfter(now[p] - Window)
<1>3. kept \in SUBSET late
  BY DEF IInv, TypeOK, Current, SecondsAfter
<1>4. IsFiniteSet(late)
  <2>1. IsFiniteSet(granted)
    BY GrantsFinite DEF IInv
  <2>2. IsFiniteSet({now[q] : q \in granted})
    BY <2>1, StampsFinite
  <2>3. late \subseteq {now[q] : q \in granted}
    BY DEF SecondsAfter
  <2>. HIDE DEF late
  <2>. QED  BY <2>2, <2>3, FS_Subset
<1>5. ~(Cardinality(kept) < Limit)
  BY <1>2 DEF Room
<1>. HIDE DEF kept, late
<1>6. IsFiniteSet(kept) /\ Cardinality(kept) <= Cardinality(late)
  BY <1>3, <1>4, FS_Subset
<1>7. Cardinality(kept) \in Nat /\ Cardinality(late) \in Nat
  BY <1>4, <1>6, FS_CardinalityType
<1>8. Cardinality(late) >= Limit
  BY <1>5, <1>6, <1>7, NumbersAssumption
<1>. QED  BY <1>4, <1>8 DEF late

\* Every denial by the script is justified by Limit seconds of the window with
\* grants that no reset has forgiven, whatever the clocks.
THEOREM RejectionsHold == Spec => RejectionsJustified
<1>. DEFINE Justified(p) == Denied(p) => Cardinality(SecondsAfter(now[p] - Window)) >= Limit
<1>1. IInv /\ [Next]_vars => [\A p \in Calls : Justified(p)]_vars
  BY DenialCounted
<1>. QED
  BY <1>1, InvariantInit, InvariantStep, PTL DEF Spec, RejectionsJustified, Denied

\* A denial needs a limit that the seconds of the window can reach: a script
\* that Redis runs late by less than Limit - Window, its replica's lead
\* included, is never denied.  With the defaults, 100 requests in 60 seconds
\* (internal/config/config.go:137-138), that is any script that runs within 40
\* seconds of being sent: run redis_seconds is no corner case.
THEOREM DenialsAreLate ==
    Spec => [][\A s \in Skews, p \in Calls :
                   (\A q \in Calls : skew[q] <= s) /\ Denied(p)
                       => Limit - Window <= clock + s - now[p]]_vars
<1>. DEFINE Late(s, p) == (\A q \in Calls : skew[q] <= s) /\ Denied(p)
                              => Limit - Window <= clock + s - now[p]
<1>1. ASSUME IInv, [Next]_vars, NEW s \in Skews, NEW p \in Calls PROVE Late(s, p)
  <2>. SUFFICES ASSUME Ahead(s), Denied(p) PROVE Limit - Window <= clock + s - now[p]
    BY DEF Ahead
  <2>. DEFINE first == now[p] - Window + 1
              counted == SecondsAfter(now[p] - Window)
  <2>1. s \in Int /\ clock \in Int /\ now \in [Calls -> Int]
    BY <1>1, NumbersAssumption DEF IInv, TypeOK
  <2>2. first \in Int /\ first <= clock + s
    BY <1>1, <2>1, NumbersAssumption DEF Denied, IInv, HoldsWindow
  <2>3. counted \subseteq first .. (clock + s)
    BY <1>1, <2>1, NumbersAssumption DEF IInv, TypeOK, Sound, HoldsWindow, SecondsAfter
  <2>4. /\ IsFiniteSet(first .. (clock + s))
        /\ Cardinality(first .. (clock + s)) = clock + s - first + 1
    BY <2>1, <2>2, FS_Interval
  <2>5. Cardinality(counted) <= Cardinality(first .. (clock + s))
    BY <2>3, <2>4, FS_Subset
  <2>6. IsFiniteSet(counted) /\ Cardinality(counted) >= Limit
    BY <1>1, DenialCounted
  <2>7. Cardinality(counted) \in Nat
    BY <2>6, FS_CardinalityType
  <2>. HIDE DEF counted
  <2>. QED  BY <2>1, <2>4, <2>5, <2>6, <2>7, NumbersAssumption
<1>2. IInv /\ [Next]_vars => [\A s \in Skews, p \in Calls : Late(s, p)]_vars
  BY <1>1
<1>. QED  BY <1>2, InvariantInit, InvariantStep, PTL DEF Spec
-----------------------------------------------------------------------------
(***************************************************************************)
(* The Redis limiter is the second implementation of ports.RateLimitService. *)
(* Its script decides, and Allow returns what it has decided once the reply *)
(* arrives: a grant counts from the script on, a denial from the return.   *)
(***************************************************************************)
VerdictOf(p) ==
    CASE pc[p] = "idle" -> "none"
      [] pc[p] = "served" -> "allowed"
      [] pc[p] = "limited" -> "denied"
      [] pc[p] = "unlimited" -> "error"
      [] OTHER -> IF p \in granted THEN "allowed" ELSE "pending"

Verdict == [p \in Calls |-> VerdictOf(p)]

Promise == INSTANCE SlidingWindow WITH
    Identifiers <- {"client"}, ident <- [p \in Calls |-> "client"],
    stamp <- now, verdict <- Verdict

KeepsPromise == Promise!Init /\ [][Promise!Next]_(Promise!vars)

\* The clocks agree, and what is granted is granted in seconds of its own, ...
Spaced ==
    /\ \A p \in Calls : skew[p] = 0
    /\ \A p, q \in granted : p # q => now[p] # now[q]

\* ... every request has an answer of the script, and none is denied after all
\* when a grant was lost on its way and the script was sent again.  Scripts may be
\* lost before they run, denials may be lost, and a grant may be made twice.
Answered == \A p \in Calls : pc[p] # "unlimited" /\ (p \in granted => pc[p] # "limited")

\* A reply that is 1 is the one of a grant, which lasts as there is no reset; and
\* a reply that is 0 found the window full, and so it stays.
Replied ==
    \A p \in Calls :
        /\ pc[p] = "served" => p \in granted
        /\ pc[p] = "evaluated" /\ reply[p] = 1 => p \in granted
        /\ pc[p] = "evaluated" /\ reply[p] = 0 =>
               Cardinality(SecondsAfter(now[p] - Window)) >= Limit

\* Grants last, and the seconds in which they were made with them.
LEMMA SecondsGrow ==
    ASSUME IInv, IInv', [Next /\ ~Reset]_vars, NEW p \in Calls, pc[p] # "idle"
    PROVE  /\ granted \subseteq granted' /\ now'[p] = now[p]
           /\ Cardinality(SecondsAfter(now[p] - Window)) >= Limit =>
                  Cardinality(SecondsAfter(now[p] - Window)') >= Limit
<1>. DEFINE before == SecondsAfter(now[p] - Window)
            after == {now'[q] : q \in {g \in granted' : now'[g] > now[p] - Window}}
<1>1. granted \subseteq granted' /\ \A q \in Calls : pc[q] # "idle" => now'[q] = now[q]
  BY DEF IInv, TypeOK, Next, vars, Tick, Expire, Allow, Send, Evaluate, Answer, Lose
<1>2. before \subseteq after
  BY <1>1 DEF SecondsAfter, IInv, Sound, TypeOK
<1>3. IsFiniteSet(granted')
  BY CallsAssumption, FS_Subset DEF IInv, TypeOK
<1>4. IsFiniteSet(after)
  <2>1. IsFiniteSet({now'[q] : q \in granted'})
    <3>. DEFINE G == granted'
                f == now'
    <3>1. IsFiniteSet(G)
      BY <1>3
    <3>. HIDE DEF G, f
    <3>2. IsFiniteSet({f[q] : q \in G})
      BY <3>1, StampsFinite
    <3>. QED  BY <3>2 DEF G, f
  <2>2. after \subseteq {now'[q] : q \in granted'}
    OBVIOUS
  <2>. HIDE DEF after
  <2>. QED  BY <2>1, <2>2, FS_Subset
<1>5. SecondsAfter(now[p] - Window)' = after
  BY <1>1 DEF SecondsAfter
<1>. HIDE DEF before, after
<1>6. IsFiniteSet(before) /\ Cardinality(before) <= Cardinality(after)
  BY <1>2, <1>4, FS_Subset
<1>7. Cardinality(before) \in Nat /\ Cardinality(after) \in Nat
  BY <1>4, <1>6, FS_CardinalityType
<1>8. Cardinality(before) >= Limit => Cardinality(after) >= Limit
  BY <1>6, <1>7, NumbersAssumption
<1>. QED  BY <1>1, <1>5, <1>8 DEF before

LEMMA RepliedStep ==
    ASSUME IInv, IInv', [Next /\ ~Reset]_vars, Replied
    PROVE  Replied'
<1>1. ASSUME NEW p \in Calls, pc'[p] = "served" \/ (pc'[p] = "evaluated" /\ reply'[p] = 1)
      PROVE  p \in granted'
  BY <1>1 DEF IInv, TypeOK, Replied, Next, vars, Tick, Expire, Allow, Send, Evaluate, Answer, Lose
<1>2. ASSUME NEW p \in Calls, pc'[p] = "evaluated", reply'[p] = 0
      PROVE  Cardinality(SecondsAfter(now[p] - Window)') >= Limit
  <2>1. pc[p] # "idle"
    BY <1>2 DEF IInv, TypeOK, Next, vars, Tick, Expire, Allow, Send, Evaluate, Answer, Lose
  <2>2. Cardinality(SecondsAfter(now[p] - Window)) >= Limit
    <3>1. CASE Denied(p)
      BY <3>1, DenialCounted
    <3>2. CASE ~Denied(p)
      BY <1>2, <3>2
      DEF IInv, TypeOK, Replied, Denied, Next, vars, Tick, Expire, Allow, Send, Evaluate,
          Answer, Lose
    <3>. QED  BY <3>1, <3>2
  <2>. QED  BY <2>1, <2>2, SecondsGrow
<1>. QED  BY <1>1, <1>2 DEF Replied

\* The cardinality the promise speaks of is the one of FiniteSets.
LEMMA SameCardinality == \A S : Promise!Cardinality(S) = Cardinality(S)
BY DEF Promise!Cardinality, Cardinality

\* The grants the promise counts are the grants of the script.
LEMMA GrantsOfScript ==
    ASSUME IInv, Replied, Answered, NEW t
    PROVE  Promise!GrantsAfter("client", t) = {q \in granted : now[q] > t}
BY DEF Promise!GrantsAfter, Verdict, VerdictOf, IInv, TypeOK, Sound, Replied, Answered

\* A step of one request is a step of its verdict.
LEMMA VerdictStep ==
    ASSUME NEW p \in Calls, NEW v, VerdictOf(p)' = v,
           \A q \in Calls : q # p => VerdictOf(q)' = VerdictOf(q)
    PROVE  Verdict' = [Verdict EXCEPT ![p] = v]
BY DEF Verdict

\* The grants of distinct seconds in the window that ends now are no more than
\* what the script has left in the key, for it has room.
LEMMA GrantPromised ==
    ASSUME IInv, Replied, Answered, Spaced, NEW p \in Calls, Evaluate(p), reply'[p] = 1,
           p \notin granted
    PROVE  Promise!Grant(p)
<1>. DEFINE late == {q \in granted : now[q] > clock - Window}
            left == Current(now[p])
<1>1. [q \in late |-> now[q]] \in Injection(late, left)
  <2>1. Ahead(0) /\ clock \in Int /\ now[p] \in Int /\ Window \in Int
    BY NumbersAssumption DEF Ahead, Spaced, IInv, TypeOK
  <2>2. now[p] <= clock
    BY <2>1 DEF IInv, HoldsWindow, Evaluate
  <2>3. ASSUME NEW q \in late PROVE now[q] \in left
    <3>1. q \in granted /\ now[q] \in Int /\ now[q] > clock + 0 - Window
      BY <2>1 DEF IInv, TypeOK
    <3>2. now[q] \in zset
      BY <2>1, <3>1 DEF IInv, HoldsWindow
    <3>. QED  BY <2>1, <2>2, <3>1, <3>2 DEF Current
  <2>4. \A q, r \in late : now[q] = now[r] => q = r
    BY DEF Spaced
  <2>. HIDE DEF late, left
  <2>. QED  BY <2>3, <2>4 DEF Injection, IsInjective
<1>2. IsFiniteSet(left) /\ Room(now[p])
  BY FS_Subset DEF IInv, TypeOK, Sound, Current, Evaluate
<1>3. Cardinality(left) < Limit
  BY <1>2 DEF Room
<1>. HIDE DEF late, left
<1>4. IsFiniteSet(late) /\ Cardinality(late) <= Cardinality(left)
  BY <1>1, <1>2, FS_Injection
<1>5. Cardinality(late) < Limit
  BY <1>2, <1>3, <1>4, FS_CardinalityType, NumbersAssumption
<1>6. Cardinality(Promise!GrantsAfter("client", clock - Window)) < Limit
  BY <1>5, GrantsOfScript DEF late
<1>7. VerdictOf(p) = "pending"
  BY DEF Evaluate, VerdictOf
<1>8. VerdictOf(p)' = "allowed" /\ \A q \in Calls : q # p => VerdictOf(q)' = VerdictOf(q)
  BY DEF Evaluate, VerdictOf, IInv, TypeOK
<1>9. Verdict' = [Verdict EXCEPT ![p] = "allowed"] /\ Verdict[p] = "pending"
  BY <1>7, <1>8, VerdictStep DEF Verdict
<1>. QED  BY <1>6, <1>9, SameCardinality DEF Promise!Grant, Evaluate

\* A denial arrives: the window it found full is that of its request.
LEMMA DenyPromised ==
    ASSUME IInv, Replied, Answered, Answered', NEW p \in Calls, Answer(p), reply[p] = 0
    PROVE  Promise!Deny(p)
<1>1. p \notin granted /\ VerdictOf(p) = "pending"
  BY DEF Answered, Answer, VerdictOf, IInv, TypeOK
<1>2. Cardinality(SecondsAfter(now[p] - Window)) >= Limit
  BY DEF Replied, Answer
<1>. DEFINE late == {q \in granted : now[q] > now[p] - Window}
<1>3. /\ IsFiniteSet(late) /\ IsFiniteSet(SecondsAfter(now[p] - Window))
      /\ Cardinality(SecondsAfter(now[p] - Window)) <= Cardinality(late)
  BY SecondsOf, GrantsFinite DEF SecondsAfter, IInv
<1>. HIDE DEF late
<1>4. Cardinality(late) >= Limit
  BY <1>2, <1>3, FS_CardinalityType, NumbersAssumption
<1>5. Cardinality(Promise!GrantsAfter("client", now[p] - Window)) >= Limit
  BY <1>4, GrantsOfScript DEF late
<1>6. VerdictOf(p)' = "denied" /\ \A q \in Calls : q # p => VerdictOf(q)' = VerdictOf(q)
  BY <1>1 DEF Answer, VerdictOf, IInv, TypeOK
<1>7. Verdict' = [Verdict EXCEPT ![p] = "denied"] /\ Verdict[p] = "pending"
  BY <1>1, <1>6, VerdictStep DEF Verdict
<1>. QED  BY <1>5, <1>7, SameCardinality DEF Promise!Deny, Answer

LEMMA PromiseStep ==
    ASSUME IInv, [Next /\ ~Reset]_vars, Replied, Spaced, Answered, Answered'
    PROVE  [Promise!Next]_(Promise!vars)
<1>. DEFINE Hidden == UNCHANGED <<clock, now, Verdict>>
<1>1. CASE Tick
  BY <1>1 DEF Tick, Promise!Next, Promise!Tick, Verdict, VerdictOf
<1>2. Expire \/ UNCHANGED vars => Hidden
  <2>. SUFFICES ASSUME Expire \/ UNCHANGED vars PROVE Hidden
    OBVIOUS
  <2>1. UNCHANGED <<clock, now, pc, granted>>
    BY DEF Expire, vars
  <2>. QED  BY <2>1 DEF Verdict, VerdictOf
<1>3. ASSUME NEW p \in Calls, Send(p) PROVE Promise!Request(p)
  <2>1. /\ VerdictOf(p)' = "pending" /\ \A q \in Calls : q # p => VerdictOf(q)' = VerdictOf(q)
        /\ Verdict[p] = "none"
    BY <1>3 DEF Send, Verdict, VerdictOf, IInv, TypeOK, Sound
  <2>2. Verdict' = [Verdict EXCEPT ![p] = "pending"]
    BY <2>1, VerdictStep
  <2>3. now' = [now EXCEPT ![p] = clock] /\ clock' = clock
    <3>1. skew[p] = 0 /\ clock + 0 = clock
      BY DEF Spaced, IInv, TypeOK
    <3>. QED  BY <1>3, <3>1 DEF Send
  <2>. QED  BY <2>1, <2>2, <2>3 DEF Promise!Request
<1>4. ASSUME NEW p \in Calls, Evaluate(p) PROVE Promise!Grant(p) \/ Hidden
  <2>1. CASE reply'[p] = 1 /\ p \notin granted
    BY <1>4, <2>1, GrantPromised
  <2>2. CASE reply'[p] = 0 \/ p \in granted
    BY <1>4, <2>2 DEF Evaluate, Verdict, VerdictOf, IInv, TypeOK
  <2>. QED  BY <1>4, <2>1, <2>2 DEF Evaluate, IInv, TypeOK
<1>5. ASSUME NEW p \in Calls, Answer(p) PROVE Promise!Deny(p) \/ Hidden
  <2>1. CASE reply[p] = 0
    BY <1>5, <2>1, DenyPromised
  <2>2. CASE reply[p] = 1
    BY <1>5, <2>2 DEF Answer, Replied, Verdict, VerdictOf, IInv, TypeOK
  <2>. QED  BY <2>1, <2>2 DEF IInv, TypeOK
<1>6. ASSUME NEW p \in Calls, Lose(p) PROVE Hidden
  BY <1>6 DEF Lose, Answered, Verdict, VerdictOf, IInv, TypeOK
<1>. HIDE DEF Hidden
<1>7. CASE \E p \in Calls : Allow(p)
  BY <1>3, <1>4, <1>5, <1>6, <1>7 DEF Allow, Promise!Next, Promise!vars, Hidden
<1>. QED  BY <1>1, <1>2, <1>7 DEF Next, Promise!vars, Hidden

\* Every step of Allow is a step of what ports.RateLimitService promises, or one
\* it does not see, although replies are lost and scripts sent again, unless
\* clocks differ, two grants share a second, a grant that was lost is denied by
\* the script sent again, or retries are exhausted, which lets the request through.
\* Resets the promise does not know.
THEOREM WhatBreaksPromise ==
    Spec /\ [][~Reset]_vars /\ [](Spaced /\ Answered) => KeepsPromise
<1>1. Init => Promise!Init /\ Replied
  BY DEF Init, Promise!Init, Verdict, VerdictOf, Replied
<1>2. [Next]_vars /\ [~Reset]_vars => [Next /\ ~Reset]_vars
  OBVIOUS
<1>3. IInv /\ IInv' /\ [Next /\ ~Reset]_vars /\ Replied => Replied'
  BY RepliedStep
<1>4. IInv /\ [Next /\ ~Reset]_vars /\ Replied /\ Spaced /\ Answered /\ Answered'
          => [Promise!Next]_(Promise!vars)
  BY PromiseStep
<1>. QED  BY <1>1, <1>2, <1>3, <1>4, InvariantInit, InvariantStep, PTL DEF Spec, KeepsPromise
=============================================================================
