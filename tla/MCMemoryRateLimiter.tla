------------------------- MODULE MCMemoryRateLimiter -------------------------
(* Instances of MemoryRateLimiter for TLC.                                  *)
EXTENDS MemoryRateLimiter, TLC

CONSTANTS a, b, c,   \* calls
          x          \* an identifier

ThreeCalls == {a, b, c}
TwoCalls == {a, b}
OneClient == {x}
NoClients == {}

\* Calls are interchangeable.
Symmetry == Permutations(Calls)
=============================================================================
