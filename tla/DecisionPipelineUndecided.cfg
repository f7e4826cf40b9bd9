SPECIFICATION FairSpec
CONSTANTS
    Insight = {i1, i2}
    Feature <- CriticalAndSteep
    Worker = {w1}
    Req = {r1}
    NoInsight = NoInsight
    MaxFaults = 0
PROPERTIES
    EveryInsightDecided
CHECK_DEADLOCK FALSE
