--------------------------- MODULE MCCircuitBreaker ---------------------------
(* Instances of CircuitBreaker for TLC.                                      *)
EXTENDS CircuitBreaker, TLC

CONSTANTS c1, c2, c3, c4, c5, c6   \* calls

SixCalls == {c1, c2, c3, c4, c5, c6}

\* What the weather API answers: a forecast, or an error of any kind.
Unreliable == {"ok", "error"}

Symmetry == Permutations(Calls)
=============================================================================
