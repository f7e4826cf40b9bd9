SPECIFICATION Spec
CONSTANTS
    u1 = u1
    u2 = u2
    u3 = u3
    r1 = r1
    r2 = r2
    User = {u1, u2, u3}
    Dashboard = {d1, d2}
    Widget = {w1, w2}
    Req = {r1, r2}
    Staff <- MCStaff
    Hosts <- MCHosts
    Nobody = Nobody
    Removed = Removed
    MaxStarts = 3
    MaxFaults = 1
    MaxKpis = 6
    KpiLists <- MCKpiLists
SYMMETRY Symmetry
INVARIANTS
    ExecutivesAreFounders
    ListingIsAccess
    WritersAreEntitled
    SharingIsShown
    LayoutsAreClean
CHECK_DEADLOCK FALSE
