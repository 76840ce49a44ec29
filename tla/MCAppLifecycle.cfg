SPECIFICATION FairSpec
CHECK_DEADLOCK FALSE
INVARIANTS TypeOK CutOnlyLate LogsReachDatabase RequestsObserved
PROPERTIES NoneAcceptedLate StopTerminates
CONSTANTS
    r1 = r1  r2 = r2
    Requests <- TwoRequests
    Grace = 2
