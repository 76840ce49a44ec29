------------------------------ MODULE MCPipeline ------------------------------
(* Instances of Pipeline for TLC.                                            *)
EXTENDS Pipeline, TLC

CONSTANTS r1, r2, r3,   \* requests
          alice,        \* a client
          p, q          \* the proxies it comes through

ThreeRequests == {r1, r2, r3}
Names == {alice, p, q}

Via(proxy) == [forwarded |-> <<alice, proxy>>, realIP |-> None, remote |-> proxy]
Named(proxy) == [forwarded |-> <<None>>, realIP |-> alice, remote |-> proxy]
Place == [lat |-> 1, lon |-> 2]

Ask(from, form, point) == [client |-> alice, from |-> from, form |-> form, point |-> point]

PlaceViaP == Ask(Via(p), "given", Place)
NoNumber == Ask(Via(q), "given", [lat |-> NaN, lon |-> 0])
Missing == Ask(Named(q), "missing", Place)
OutOfBounds == Ask(Via(q), "given", [lat |-> 90001, lon |-> 0])

AllAsks == {PlaceViaP, NoNumber, Missing, OutOfBounds}

\* Places and bad queries in any mixture, or one NaN among bad queries.
Mixtures ==
    {f \in [Requests -> AllAsks] :
        LET odd == {r \in Requests : f[r] = NoNumber}
        IN  odd = {} \/ (Cardinality(odd) = 1 /\ \A r \in Requests : f[r] # PlaceViaP)}

Symmetry == Permutations(Requests)
=============================================================================
