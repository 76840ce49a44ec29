SPECIFICATION Spec
SYMMETRY Symmetry
CHECK_DEADLOCK FALSE
INVARIANTS AnswersMatchLocation FailsOnlyWithUpstream RowsTruthful StatsMissOnlyOverlaps
PROPERTIES HitsAreFresh RefetchOnlyAfterExpiry
CONSTANTS
    r1 = r1  r2 = r2  r3 = r3
    None = None
    NaN = NaN
    Calls <- ThreeCalls
    Points <- Nearby
    TTL = 1
    MaxTime = 2
    Backends = {"redis", "memory"}
    LogFails = TRUE
