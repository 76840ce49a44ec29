-------------------------- MODULE MemoryRateLimiter --------------------------
(***************************************************************************)
(* The in-memory sliding-window rate limiter,                              *)
(* internal/middleware/memory_rate_limiter.go.                             *)
(*                                                                         *)
(* Every call of Allow is a goroutine that runs once.  It reads the clock  *)
(* and THEN takes its locks, first rl.mu for the map of clients and then   *)
(* the mutex of one clientInfo, so calls overtake one another between the  *)
(* steps below.  A critical section is one step: nothing it reads can      *)
(* change while its lock is held.  A clientInfo object is named by the     *)
(* call that allocated it, and its slice of timestamps by the set of the   *)
(* calls that appended them (the slice is only filtered and counted, so    *)
(* its order is irrelevant, and two calls may carry one timestamp).        *)
(***************************************************************************)
EXTENDS Integers, FiniteSets

CONSTANTS
    Calls,        \* the calls of Allow; each runs once
    Identifiers,  \* client identifiers, as GetClientIP returns them
    Limit,        \* requests allowed in a window (RATE_LIMIT_RPS, any integer)
    Window,       \* length of the window, in ticks of the clock
    MaxTime,      \* bound: the clock stops here
    Resettable,   \* the identifiers Reset is called for
    Sweeper,      \* the goroutine of cleanup
    None          \* no client, no lock holder

ASSUME CallsAssumption == IsFiniteSet(Calls)
ASSUME NumbersAssumption == Limit \in Int /\ Window \in Nat /\ MaxTime \in Nat
ASSUME NamesAssumption == /\ Resettable \subseteq Identifiers
                          /\ None \notin Calls
                          /\ Sweeper \notin Calls
                          /\ Sweeper # None

VARIABLES
    clock,     \* the time
    pc,        \* where each call is
    now,       \* each call's reading of the clock (line 63)
    ident,     \* the identifier each call is made for
    ref,       \* each call's local pointer client, None while nil
    clients,   \* rl.clients: identifier -> clientInfo, None when absent
    requests,  \* clientInfo -> the calls whose timestamps it holds
    writer,    \* who holds rl.mu for writing across steps
    sweep,     \* identifiers a running cleanup has still to visit
    forgiven,  \* history: the allowed calls a Reset erased
    swept      \* history: the cleanup ticker has fired

vars == <<clock, pc, now, ident, ref, clients, requests, writer, sweep, forgiven, swept>>

Init ==
    /\ clock = 0
    /\ pc = [p \in Calls |-> "idle"]
    /\ now = [p \in Calls |-> 0]
    /\ ident \in [Calls -> Identifiers]
    /\ ref = [p \in Calls |-> None]
    /\ clients = [id \in Identifiers |-> None]
    /\ requests = [c \in Calls |-> {}]
    /\ writer = None
    /\ sweep = {}
    /\ forgiven = {}
    /\ swept = FALSE

Tick ==
    /\ clock < MaxTime
    /\ clock' = clock + 1
    /\ UNCHANGED <<pc, now, ident, ref, clients, requests, writer, sweep, forgiven, swept>>

-----------------------------------------------------------------------------
\* Allow, called with a live context: time.Now() before any lock.
Arrive(p) ==
    /\ pc[p] = "idle"
    /\ pc' = [pc EXCEPT ![p] = "lookup"]
    /\ now' = [now EXCEPT ![p] = clock]
    /\ UNCHANGED <<clock, ident, ref, clients, requests, writer, sweep, forgiven, swept>>

\* Allow, called with a context that is done: (false, ctx.Err()).
ArriveCanceled(p) ==
    /\ pc[p] = "idle"
    /\ pc' = [pc EXCEPT ![p] = "error"]
    /\ UNCHANGED <<clock, now, ident, ref, clients, requests, writer, sweep, forgiven, swept>>

\* The lookup under rl.mu.RLock.
Lookup(p) ==
    /\ pc[p] = "lookup"
    /\ writer = None
    /\ ref' = [ref EXCEPT ![p] = clients[ident[p]]]
    /\ pc' = [pc EXCEPT ![p] = IF clients[ident[p]] = None THEN "create" ELSE "admit"]
    /\ UNCHANGED <<clock, now, ident, clients, requests, writer, sweep, forgiven, swept>>

\* Slip: create without looking again.
CreateUnchecked(p) ==
    /\ pc[p] = "create"
    /\ writer = None
    /\ clients' = [clients EXCEPT ![ident[p]] = p]
    /\ ref' = [ref EXCEPT ![p] = p]
    /\ pc' = [pc EXCEPT ![p] = "admit"]
    /\ UNCHANGED <<clock, now, ident, requests, writer, sweep, forgiven, swept>>

\* Slip: no rl.mu.Unlock on the path that finds the client.
CreateKeepsLock(p) ==
    /\ pc[p] = "create"
    /\ writer = None
    /\ clients' = [clients EXCEPT ![ident[p]] = IF @ = None THEN p ELSE @]
    /\ ref' = [ref EXCEPT ![p] = clients'[ident[p]]]
    /\ pc' = [pc EXCEPT ![p] = "admit"]
    /\ writer' = IF clients[ident[p]] = None THEN None ELSE p
    /\ UNCHANGED <<clock, now, ident, requests, sweep, forgiven, swept>>

\* The second lookup, under rl.mu.Lock, and the new clientInfo when it misses.
\* make panics on a negative capacity, and the Lock is not deferred: a call
\* that panics here holds rl.mu for ever.
Create(p) ==
    /\ pc[p] = "create"
    /\ writer = None
    /\ IF clients[ident[p]] = None /\ Limit < 0
       THEN /\ pc' = [pc EXCEPT ![p] = "panicked"]
            /\ writer' = p
            /\ UNCHANGED <<clients, ref>>
       ELSE /\ clients' = [clients EXCEPT ![ident[p]] = IF @ = None THEN p ELSE @]
            /\ ref' = [ref EXCEPT ![p] = clients'[ident[p]]]
            /\ pc' = [pc EXCEPT ![p] = "admit"]
            /\ UNCHANGED writer
    /\ UNCHANGED <<clock, now, ident, requests, sweep, forgiven, swept>>

\* Slip: no pruning at all.
RetainedAll(p) == requests[ref[p]]

\* The timestamps after the cutoff of the call, which is taken from ITS now.
Retained(p) == {q \in requests[ref[p]] : now[q] > now[p] - Window}

\* Slip: > for >=.
FullOffByOne(p) == Cardinality(Retained(p)) > Limit

Full(p) == Cardinality(Retained(p)) >= Limit

\* Under client.mu: prune, then append and return true ...
Grant(p) ==
    /\ pc[p] = "admit"
    /\ ~Full(p)
    /\ requests' = [requests EXCEPT ![ref[p]] = Retained(p) \cup {p}]
    /\ pc' = [pc EXCEPT ![p] = "allowed"]
    /\ UNCHANGED <<clock, now, ident, ref, clients, writer, sweep, forgiven, swept>>

\* ... or prune and return false.
Deny(p) ==
    /\ pc[p] = "admit"
    /\ Full(p)
    /\ requests' = [requests EXCEPT ![ref[p]] = Retained(p)]
    /\ pc' = [pc EXCEPT ![p] = "denied"]
    /\ UNCHANGED <<clock, now, ident, ref, clients, writer, sweep, forgiven, swept>>

Allow(p) ==
    Arrive(p) \/ ArriveCanceled(p) \/ Lookup(p) \/ Create(p) \/ Grant(p) \/ Deny(p)

-----------------------------------------------------------------------------
\* Reset: the history of the client that is in the map now, and no other.
Reset(id) ==
    /\ writer = None
    /\ clients[id] # None
    /\ forgiven' = forgiven \cup requests[clients[id]]
    /\ requests' = [requests EXCEPT ![clients[id]] = {}]
    /\ UNCHANGED <<clock, pc, now, ident, ref, clients, writer, sweep, swept>>

\* cleanup holds rl.mu from SweepLock to SweepUnlock and one client.mu at a time.
SweepLock ==
    /\ writer = None
    /\ swept' = TRUE
    /\ writer' = Sweeper
    /\ sweep' = {id \in Identifiers : clients[id] # None}
    /\ UNCHANGED <<clock, pc, now, ident, ref, clients, requests, forgiven>>

\* Slip: drop a client that has been granted something.
IdleByCount(id) == Cardinality(requests[clients[id]]) <= 1

\* The test of line 148: nothing recorded, whatever the age of what is.
Idle(id) == requests[clients[id]] = {}

SweepClient(id) ==
    /\ writer = Sweeper
    /\ id \in sweep
    /\ sweep' = sweep \ {id}
    /\ clients' = IF Idle(id) THEN [clients EXCEPT ![id] = None] ELSE clients
    /\ UNCHANGED <<clock, pc, now, ident, ref, requests, writer, forgiven, swept>>

SweepUnlock ==
    /\ writer = Sweeper
    /\ sweep = {}
    /\ writer' = None
    /\ UNCHANGED <<clock, pc, now, ident, ref, clients, requests, sweep, forgiven, swept>>

Cleanup == SweepLock \/ (\E id \in Identifiers : SweepClient(id)) \/ SweepUnlock

Next ==
    \/ Tick
    \/ \E p \in Calls : Allow(p)
    \/ \E id \in Resettable : Reset(id)
    \/ Cleanup

Spec == Init /\ [][Next]_vars

\* A goroutine that can run does.  A call waiting for a mutex gets it in the
\* end (sync.Mutex hands over to a waiter after a millisecond, and a released
\* RWMutex lets the readers that wait in first), which is strong fairness of
\* the two steps that take rl.mu.  No call has to arrive, no time has to pass.
Fairness ==
    /\ \A p \in Calls : /\ SF_vars(Lookup(p)) /\ SF_vars(Create(p))
                        /\ WF_vars(Grant(p) \/ Deny(p))
    /\ SF_vars(SweepLock)
    /\ WF_vars(\E id \in Identifiers : SweepClient(id))
    /\ WF_vars(SweepUnlock)

FairSpec == Spec /\ Fairness

-----------------------------------------------------------------------------
Stages == {"idle", "lookup", "create", "admit", "allowed", "denied", "error", "panicked"}

\* The calls that may still return something.
Running(p) == pc[p] \in {"lookup", "create", "admit"}

\* Every variable has its type, and a call that is about to lock a client has
\* a pointer to one (line 85 dereferences it).
TypeOK ==
    /\ clock \in 0 .. MaxTime
    /\ pc \in [Calls -> Stages]
    /\ now \in [Calls -> 0 .. MaxTime]
    /\ ident \in [Calls -> Identifiers]
    /\ ref \in [Calls -> Calls \cup {None}]
    /\ clients \in [Identifiers -> Calls \cup {None}]
    /\ requests \in [Calls -> SUBSET Calls]
    /\ writer \in Calls \cup {None, Sweeper}
    /\ sweep \subseteq Identifiers
    /\ forgiven \subseteq Calls
    /\ swept \in BOOLEAN
    /\ \A p \in Calls : pc[p] \in {"admit", "allowed", "denied"} => ref[p] \in Calls
    /\ \A id \in sweep : clients[id] \in Calls

Capacity == IF Limit > 0 THEN Limit ELSE 0

\* The calls granted on clientInfo c in the window that ends now.
CurrentGrants(c) ==
    {p \in Calls \ forgiven : /\ pc[p] = "allowed"
                              /\ ref[p] = c
                              /\ now[p] > clock - Window}

\* A clientInfo never grants more than the limit in the window that ends now,
\* however late the calls that were granted got its mutex (lines 85-105: a
\* call with an old cutoff keeps more timestamps, never fewer).
WindowLimit == \A c \in Calls : Cardinality(CurrentGrants(c)) <= Capacity

\* The same for an identifier, whatever clientInfo its calls were granted on:
\* the promise of line 49.
IdentifierWindowLimit ==
    \A id \in Identifiers :
        Cardinality({p \in Calls \ forgiven : /\ pc[p] = "allowed"
                                              /\ ident[p] = id
                                              /\ now[p] > clock - Window}) <= Capacity

\* A call is denied only against Limit other calls that were granted on the
\* same clientInfo and are newer than its own cutoff (lines 89-102): no
\* phantom entry ever costs a client a request.
DenialsJustified ==
    \A p \in Calls : pc[p] = "denied" =>
        Cardinality({q \in Calls \ {p} : /\ pc[q] = "allowed"
                                         /\ ref[q] = ref[p]
                                         /\ now[q] > now[p] - Window}) >= Limit

\* No step takes a clientInfo that holds a timestamp of the current window out
\* of the map or puts another in its place: neither the creation of line 79
\* nor the removal of line 149.
HistoriesKept ==
    [][\A id \in Identifiers :
          (clients[id] # None /\ \E p \in requests[clients[id]] : now[p] > clock - Window)
              => clients'[id] = clients[id]]_vars

\* Every call returns, and so neither the cleanup nor another call keeps the
\* locks that line 65 and line 72 wait for.
EveryCallReturns == \A p \in Calls : Running(p) ~> ~Running(p)

\* The record of a client whose timestamps are all out of the window.
Stale(id) ==
    /\ clients[id] # None
    /\ \A p \in requests[clients[id]] : now[p] <= clock - Window

\* A client that stops sending requests is removed in the end, "to prevent
\* memory leaks from inactive clients" (comment of cleanup, line 137).
IdleClientsRemoved == \A id \in Identifiers : Stale(id) ~> ~Stale(id)

-----------------------------------------------------------------------------
\* Until the cleanup ticker first fires, five minutes after the start, no
\* identifier gets more than the limit in the window that ends now (line 49):
\* two first calls of a client share one clientInfo (line 74).
EarlyLimit == swept \/ IdentifierWindowLimit

\* The limiter as its promise sees it: where a call is on its way through the
\* locks is all it adds.
VerdictOf(stage) ==
    IF stage = "idle" THEN "none"
    ELSE IF stage \in {"allowed", "denied", "error"} THEN stage
    ELSE "pending"

Verdict == [p \in Calls |-> VerdictOf(pc[p])]

Promise == INSTANCE SlidingWindow WITH stamp <- now, verdict <- Verdict

\* Until then, and as long as nobody was reset (the promise knows no resets),
\* every step of Allow (lines 55-106) is a step of what RateLimitService
\* promises or none it sees: a grant within the limit, a denial at the limit.
\* That every call is decided too is EveryCallReturns.
EarlyPromise == [][swept' \/ forgiven' # {} \/ Promise!Next]_(Promise!vars)
=============================================================================
