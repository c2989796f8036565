CONSTANTS
    o1 = o1
    o2 = o2
    Op = {o1, o2}
    MaxPatches = 3
    Flag = {f1, f2}
    V1Flag = {f1}
    Pattern = {f1}
    Cases <- MCCases
    Batch = 1
    None = None
CHECK_DEADLOCK FALSE
SPECIFICATION FairSpec
INVARIANTS PurgedWasChosen ListedUntilDeleted MigrationKeepsData
PROPERTIES DoneStays RunsEnd
