SPECIFICATION Spec
CHECK_DEADLOCK FALSE
INVARIANT NoRequestPanics
CONSTANTS
    r1 = r1  r2 = r2
    Requests <- TwoRequests
    Grace = 1
