-------------------------- MODULE MCRedisRateLimiter --------------------------
(* Instances of RedisRateLimiter for TLC.                                    *)
EXTENDS RedisRateLimiter, TLC

CONSTANTS q1, q2, q3   \* requests

ThreeCalls == {q1, q2, q3}

\* Replicas a second behind Redis, in step with it, or a second ahead.
Near == {-1, 0, 1}
Exact == {0}

Symmetry == Permutations(Calls)
=============================================================================
