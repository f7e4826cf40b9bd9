SPECIFICATION ReportsSpec
CONSTANTS
    k1 = k1
    k2 = k2
    m1 = m1
    a1 = a1
    d1 = d1
    d2 = d2
    ds1 = ds1
    ds2 = ds2
    r1 = r1
    r2 = r2
    Kpi = {k1, k2}
    Dataset = {ds1, ds2}
    DatasetOf <- MCDatasetOf
    CategoryOf <- MCCategoryOf
    Row <- MCRow
    Rows <- MCRows
    Gone <- MCGone
    Scope <- MCScope
    Freshness <- MCFreshness
    Told = 1
    Mailed = 1
    Cap = 2
    Report = {"p1"}
    Staff = {m1, a1}
    StaffRole <- MCRole
    Dashboard = {d1, d2}
    Owner <- MCOwner
    Shows <- MCShows
    Req = {r1, r2}
    SnapshotLimit = 15
    Series <- MCSeries
    Anomalies <- MCAnomalies
    MaxInsights = 3
    MaxBegun = 2
    MaxChanges = 1
    MaxFailures = 1
INVARIANTS
    ReportsAreSound
    MailAgreesWithReport
PROPERTIES
    ReportSettles
    MailGoesOut
    ReadLeavesReceipt
CHECK_DEADLOCK FALSE
