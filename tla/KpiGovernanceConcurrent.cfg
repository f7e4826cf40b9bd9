SPECIFICATION FairSpec
CONSTANTS
    Kpi = {k1}
    Ar = {a1, a2}
    Req = {r1, r2}
    NoKpi = NoKpi
    NoAr = NoAr
    MaxRows = 2
    MaxFaults = 1
INVARIANTS
    TypeOK
    VerdictsAreInOrder
    LedgerIsSound
PROPERTIES
    GeneratedIsReviewed
    ResolvedStaysResolved
    ImplementsContract
CHECK_DEADLOCK FALSE
