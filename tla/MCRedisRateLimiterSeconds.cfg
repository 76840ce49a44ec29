SPECIFICATION Spec
SYMMETRY Symmetry
CHECK_DEADLOCK FALSE
INVARIANT TotalLimited
CONSTANTS
    q1 = q1  q2 = q2  q3 = q3
    Calls <- ThreeCalls
    Limit = 2
    Window = 2
    Skews <- Exact
    MaxRetries = 0
    MaxTime = 2
