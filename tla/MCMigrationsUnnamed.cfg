SPECIFICATION Spec
CHECK_DEADLOCK FALSE
INVARIANT StartsCreateSchema
CONSTANTS
    r1 = r1  r2 = r2  r3 = r3
    None = None
    Runners <- ThreeRunners
    Loads <- StartsOnly
    Files <- BothFiles
    Found <- NoneFound
