SPECIFICATION FairSpec
CHECK_DEADLOCK FALSE
PROPERTY IdleClientsRemoved
CONSTANTS
    a = a  b = b  c = c
    x = x
    None = None
    Sweeper = Sweeper
    Calls <- TwoCalls
    Identifiers <- OneClient
    Limit = 1
    Window = 1
    MaxTime = 1
    Resettable <- OneClient
