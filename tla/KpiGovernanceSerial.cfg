SPECIFICATION FairSpec
CONSTANTS
    Kpi = {k1, k2}
    Ar = {a1, a2, a3}
    Req = {r1}
    NoKpi = NoKpi
    NoAr = NoAr
    MaxRows = 2
    MaxFaults = 1
INVARIANT
    SerialIsSound
PROPERTY
    GeneratedIsReviewed
CHECK_DEADLOCK FALSE
