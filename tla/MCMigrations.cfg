SPECIFICATION FairSpec
CHECK_DEADLOCK FALSE
INVARIANTS RecordNeverAhead SuccessMeansSchema StartsCreateSchema
PROPERTIES LiveRunKeepsRecord RunsHeadForTarget EveryRunEnds
CONSTANTS
    r1 = r1  r2 = r2  r3 = r3
    None = None
    Runners <- ThreeRunners
    Loads <- MixedLoads
    Files <- BothFiles
    Found <- BothFiles
