--------------------------- MODULE RedisRateLimiter ---------------------------
(***************************************************************************)
(* The Redis rate limiter, internal/infrastructure/ratelimit/              *)
(* redis_ratelimit.go, behind the middleware of                            *)
(* internal/middleware/ratelimit.go, for the key of one client.  Keys do   *)
(* not touch one another.                                                  *)
(*                                                                         *)
(* Each call is a request in one of the replicas, which read their own     *)
(* clocks, in whole seconds, before they send the script.  The script runs *)
(* alone in Redis.  The client library sends it again when the connection  *)
(* fails, with the same arguments, whether it ran or not.                  *)
(***************************************************************************)
EXTENDS Integers, FiniteSets

CONSTANTS
    Calls,       \* the requests of one client; each is made once
    Limit,       \* requests allowed in a window
    Window,      \* the window, in whole seconds
    Skews,       \* how far a replica's clock may be from Redis' own
    MaxRetries,  \* how often the library sends a command again (REDIS_MAX_RETRIES)
    MaxTime      \* bound: the clock stops here

ASSUME CallsAssumption == IsFiniteSet(Calls)
ASSUME NumbersAssumption == /\ Limit \in Nat /\ Window \in Nat \ {0} /\ Skews \subseteq Int
                            /\ MaxRetries \in Nat /\ MaxTime \in Nat

VARIABLES
    skew,     \* the deviation of the clock of the replica each request is in
    clock,    \* the time in Redis, in seconds
    pc,       \* where each request is
    now,      \* the second each one sends (line 86)
    tries,    \* how often each one's script was sent again
    reply,    \* what the script returned that has not arrived yet
    zset,     \* the sorted set of the client's key: its members are its scores
    expires,  \* when the key expires
    granted   \* history: the requests for which the script returned 1 since the last reset

vars == <<skew, clock, pc, now, tries, reply, zset, expires, granted>>

Init ==
    /\ skew \in [Calls -> Skews]
    /\ clock = 0
    /\ pc = [p \in Calls |-> "idle"]
    /\ now = [p \in Calls |-> 0]
    /\ tries = [p \in Calls |-> 0]
    /\ reply = [p \in Calls |-> 0]
    /\ zset = {}
    /\ expires = 0
    /\ granted = {}

\* EXPIRE counts from within a second, so the key goes at some point of the
\* second it names, and is gone when that second is over.
Expire ==
    /\ zset # {}
    /\ clock >= expires
    /\ zset' = {}
    /\ UNCHANGED <<skew, clock, pc, now, tries, reply, expires, granted>>

Tick ==
    /\ clock < MaxTime
    /\ zset = {} \/ clock < expires
    /\ clock' = clock + 1
    /\ UNCHANGED <<skew, pc, now, tries, reply, zset, expires, granted>>

-----------------------------------------------------------------------------
Send(p) ==
    /\ pc[p] = "idle"
    /\ pc' = [pc EXCEPT ![p] = "sent"]
    /\ now' = [now EXCEPT ![p] = clock + skew[p]]
    /\ UNCHANGED <<skew, clock, tries, reply, zset, expires, granted>>

\* The members that ZREMRANGEBYSCORE leaves.
Current(second) == {t \in zset : t > second - Window}

\* Slip: <= for <.
RoomOffByOne(second) == Cardinality(Current(second)) <= Limit

\* Slip: the request itself is counted before it is added.
RoomStrict(second) == Cardinality(Current(second)) + 1 < Limit

Room(second) == Cardinality(Current(second)) < Limit

\* The script.  The member it adds is the second itself, so that a second that
\* is there already is added once.
Evaluate(p) ==
    /\ pc[p] = "sent"
    /\ pc' = [pc EXCEPT ![p] = "evaluated"]
    /\ \/ /\ Room(now[p])
          /\ zset' = Current(now[p]) \cup {now[p]}
          /\ expires' = clock + Window
          /\ reply' = [reply EXCEPT ![p] = 1]
          /\ granted' = granted \cup {p}
       \/ /\ ~Room(now[p])
          /\ zset' = Current(now[p])
          /\ reply' = [reply EXCEPT ![p] = 0]
          /\ UNCHANGED <<expires, granted>>
    /\ UNCHANGED <<skew, clock, now, tries>>

\* Allow returns, and the middleware serves the request or answers 429.
Answer(p) ==
    /\ pc[p] = "evaluated"
    /\ pc' = [pc EXCEPT ![p] = IF reply[p] = 1 THEN "served" ELSE "limited"]
    /\ UNCHANGED <<skew, clock, now, tries, reply, zset, expires, granted>>

\* The connection fails, before the script runs or before its reply arrives:
\* the script is sent again, or Allow returns the error and the middleware
\* serves the request (ratelimit.go:44-52).
Lose(p) ==
    /\ pc[p] \in {"sent", "evaluated"}
    /\ IF tries[p] < MaxRetries
       THEN /\ tries' = [tries EXCEPT ![p] = @ + 1]
            /\ pc' = [pc EXCEPT ![p] = "sent"]
       ELSE /\ pc' = [pc EXCEPT ![p] = "unlimited"]
            /\ UNCHANGED tries
    /\ reply' = [reply EXCEPT ![p] = 0]
    /\ UNCHANGED <<skew, clock, now, zset, expires, granted>>

Allow(p) == Send(p) \/ Evaluate(p) \/ Answer(p) \/ Lose(p)

\* Reset deletes the key, whatever scripts are on their way.
Reset ==
    /\ zset # {}
    /\ zset' = {}
    /\ granted' = {}
    /\ UNCHANGED <<skew, clock, pc, now, tries, reply, expires>>

Next == Tick \/ Expire \/ Reset \/ \E p \in Calls : Allow(p)

Spec == Init /\ [][Next]_vars

-----------------------------------------------------------------------------
Stages == {"idle", "sent", "evaluated", "served", "limited", "unlimited"}

\* Every variable has its type, and a set that has members has been given a
\* time to expire: no key stays in Redis for ever.
TypeOK ==
    /\ clock \in 0 .. MaxTime
    /\ pc \in [Calls -> Stages]
    /\ skew \in [Calls -> Skews]
    /\ now \in [Calls -> Int]
    /\ tries \in [Calls -> 0 .. MaxRetries]
    /\ reply \in [Calls -> {0, 1}]
    /\ zset \subseteq {now[p] : p \in granted}
    /\ expires \in 0 .. MaxTime + Window
    /\ granted \subseteq Calls
    /\ zset # {} => expires >= Window

\* The seconds in which a request was granted, after second t.
SecondsAfter(t) == {now[p] : p \in {q \in granted : now[q] > t}}

\* What the limiter bounds is the number of SECONDS in which it granted anything,
\* however late a script arrives and however often it is sent, in a window that
\* is shorter by as much as a replica's clock is ahead of Redis', which expires
\* the key by its own (lines 70-79).
SecondsLimit ==
    \A s \in Skews :
        (\A p \in Calls : skew[p] <= s) => Cardinality(SecondsAfter(clock + s - Window)) <= Limit

\* The script denies a request only when the window that ends with it holds
\* Limit seconds with a grant that no reset has forgiven; its own may be one of
\* them, when the reply was lost and the script was sent again (lines 73-83).
RejectionsJustified ==
    [][\A p \in Calls : (pc[p] = "sent" /\ pc'[p] = "evaluated" /\ reply'[p] = 0) =>
           Cardinality(SecondsAfter(now[p] - Window)) >= Limit]_vars

-----------------------------------------------------------------------------
\* "The total allowed requests should not exceed the limit"
\* (features/rate_limiting.feature:77).
TotalLimited ==
    Cardinality({p \in granted : now[p] > clock - Window}) <= Limit
=============================================================================
