SPECIFICATION Spec
SYMMETRY Symmetry
CHECK_DEADLOCK FALSE
INVARIANTS CountsExact HalfOpenAdmission HalfOpenNeverStuck TripsWhenDue
PROPERTIES StateChangesJustified CooldownRespected
CONSTANTS
    c1 = c1  c2 = c2  c3 = c3
    c4 = c4  c5 = c5  c6 = c6
    Calls <- SixCalls
    Outcomes <- Unreliable
    MaxRequests = 2
    Interval = 1
    Timeout = 1
    TripAt = 3
    MaxTime = 3
