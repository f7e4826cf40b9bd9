SPECIFICATION FairSpec
CONSTANTS
    Job = {j1, j2}
    Load = {1, 2, 3}
    Month = {1, 2, 3}
    Kind <- MCKind
    Ages = {0, 72}
    Dates = {"listed", "inferred", "none"}
    Threshold = 60
    MaxStarts = 2
    MaxKpis = 2
    MaxFaults = 1
    Limit = 1
    Window = 4
    TicksPerSecond = 2
    Clock = {0, 1, 2, 3, 4, 5, 6, 7, 8}
    MaxAsked = 4
    Asked <- MCAsked
INVARIANTS
    SyncLeavesOrder
    KpisNeedAPass
    
    BurstAtMostTwice
PROPERTY
    FirstKpisCome
CHECK_DEADLOCK FALSE
