---------------------------- MODULE SlidingWindow ----------------------------
(***************************************************************************)
(* What ports.RateLimitService promises of Allow (internal/core/ports/     *)
(* weather.go and the comment at memory_rate_limiter.go:44-54), with no    *)
(* map, no lock and no stored history: a request is decided in one step    *)
(* against the grants there have been, and every request is decided.       *)
(***************************************************************************)
EXTENDS Integers, FiniteSets

CONSTANTS
    Calls,        \* the requests to be decided
    Identifiers,  \* who makes them
    Limit,        \* requests allowed in a window
    Window,       \* its length
    MaxTime       \* bound on the clock

VARIABLES
    clock,    \* the time
    ident,    \* who makes each request
    stamp,    \* when each request was made
    verdict   \* what is known of it

vars == <<clock, ident, stamp, verdict>>

Verdicts == {"none", "pending", "allowed", "denied", "error"}

Init ==
    /\ clock = 0
    /\ ident \in [Calls -> Identifiers]
    /\ stamp = [p \in Calls |-> 0]
    /\ verdict = [p \in Calls |-> "none"]

Tick ==
    /\ clock < MaxTime
    /\ clock' = clock + 1
    /\ UNCHANGED <<ident, stamp, verdict>>

\* A request is made, or is given up before it is looked at.
Request(p) ==
    /\ verdict[p] = "none"
    /\ \/ /\ verdict' = [verdict EXCEPT ![p] = "pending"]
          /\ stamp' = [stamp EXCEPT ![p] = clock]
       \/ /\ verdict' = [verdict EXCEPT ![p] = "error"]
          /\ UNCHANGED stamp
    /\ UNCHANGED <<clock, ident>>

\* The grants to id that are newer than time t.
GrantsAfter(id, t) ==
    {q \in Calls : verdict[q] = "allowed" /\ ident[q] = id /\ stamp[q] > t}

\* Granted only while the window that ends now has room for it ...
Grant(p) ==
    /\ verdict[p] = "pending"
    /\ Cardinality(GrantsAfter(ident[p], clock - Window)) < Limit
    /\ verdict' = [verdict EXCEPT ![p] = "allowed"]
    /\ UNCHANGED <<clock, ident, stamp>>

\* ... and denied only when the grants since the window before the request
\* fill it.  Between the two a late request may go either way.
Deny(p) ==
    /\ verdict[p] = "pending"
    /\ Cardinality(GrantsAfter(ident[p], stamp[p] - Window)) >= Limit
    /\ verdict' = [verdict EXCEPT ![p] = "denied"]
    /\ UNCHANGED <<clock, ident, stamp>>

Next == Tick \/ \E p \in Calls : Request(p) \/ Grant(p) \/ Deny(p)

Spec == Init /\ [][Next]_vars /\ \A p \in Calls : WF_vars(Grant(p) \/ Deny(p))
=============================================================================
