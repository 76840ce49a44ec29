SPECIFICATION Spec
SYMMETRY Symmetry
CHECK_DEADLOCK FALSE
INVARIANT IdentifierWindowLimit
CONSTANTS
    a = a  b = b  c = c
    x = x
    None = None
    Sweeper = Sweeper
    Calls <- ThreeCalls
    Identifiers <- OneClient
    Limit = 1
    Window = 1
    MaxTime = 0
    Resettable <- NoClients
