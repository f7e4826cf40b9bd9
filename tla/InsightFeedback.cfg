SPECIFICATION Spec
CONSTANTS
    u1 = u1
    u2 = u2
    j1 = j1
    j2 = j2
    User = {u1, u2}
    NoUser = NoUser
    Job = {j1, j2}
    Similar <- MCSimilar
    MinFeedback = 1
    MinDownUsers = 2
    FirstPeriod = 2
    MaxPeriods = 3
    MaxInsights = 4
    MaxStarts = 3
    MaxFaults = 1
    Level <- MCLevel
    MaxSpread = 1
    MaxMonths = 7
    MIN_SNAPSHOTS = 3
    MIN_ZSCORE_HISTORY = 3
    Z_THRESHOLD = 2
    SLOPE_THRESHOLD = 5
SYMMETRY SymmetryAll
INVARIANTS
    DetectionIsSound
    NoVoteEscapes
    BellsFollowVotes
    AnomaliesAreJumps
CHECK_DEADLOCK FALSE
