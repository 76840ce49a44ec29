SPECIFICATION Spec
SYMMETRY Symmetry
CHECK_DEADLOCK FALSE
INVARIANT SecondsLimit
PROPERTY RejectionsJustified
CONSTANTS
    q1 = q1  q2 = q2  q3 = q3
    Calls <- ThreeCalls
    Limit = 1
    Window = 2
    Skews <- Near
    MaxRetries = 1
    MaxTime = 3
