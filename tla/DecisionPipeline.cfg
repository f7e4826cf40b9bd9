SPECIFICATION FairSpec
CONSTANTS
    Insight = {i1}
    Feature <- EveryFeature
    Worker = {w1}
    Req = {r1, r2}
    NoInsight = NoInsight
    MaxFaults = 2
INVARIANTS
    DecisionsAreSound
    P1NeedsExecutive
PROPERTIES
    FinalForGood
    AnchorIsCompleted
CHECK_DEADLOCK FALSE
