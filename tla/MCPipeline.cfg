SPECIFICATION Spec
SYMMETRY Symmetry
CHECK_DEADLOCK FALSE
INVARIANTS TypeOK ClientsLimited NoRequestStuck
PROPERTIES ImplementsApi OutageSparesCached RefusalsEnd
CONSTANTS
    r1 = r1  r2 = r2  r3 = r3
    alice = alice  p = p  q = q
    None = None  NaN = NaN
    Requests <- ThreeRequests
    Asks <- AllAsks
    Scenarios <- Mixtures
    Addresses <- Names
    Limit = 1
    Window = 1
    TTL = 1
    MaxRequests = 1
    Interval = 2
    Timeout = 1
    TripAt = 1
    MaxTime = 2
