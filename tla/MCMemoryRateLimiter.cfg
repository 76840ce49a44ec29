SPECIFICATION FairSpec
CHECK_DEADLOCK FALSE
INVARIANTS WindowLimit DenialsJustified EarlyLimit
PROPERTIES HistoriesKept EveryCallReturns EarlyPromise
CONSTANTS
    a = a  b = b  c = c
    x = x
    None = None
    Sweeper = Sweeper
    Calls <- ThreeCalls
    Identifiers <- OneClient
    Limit = 1
    Window = 1
    MaxTime = 1
    Resettable <- OneClient
