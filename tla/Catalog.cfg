SPECIFICATION Spec
CONSTANTS
    c1 = c1
    c2 = c2
    d1 = d1
    d2 = d2
    d3 = d3
    k1 = k1
    k2 = k2
    l1 = l1
    j1 = j1
    j2 = j2
    Connector = {c1, c2}
    Dataset = {d1, d2, d3}
    Kpi = {k1, k2}
    Leaf = {l1}
    Table = {"orders", "returns"}
    Present = {c1, d1, k1, d2}
    NoRow = NoRow
    Job = {j1, j2}
    ParentOf <- MCParentOf
    NameOf <- MCNameOf
    TableOf <- MCTableOf
    Window = 1
    MaxClock = 3
    MaxStarts = 4
SYMMETRY SymmetryJob
INVARIANTS
    CatalogIsSound
    RestorableIsWhole
    CardIsExact
CHECK_DEADLOCK FALSE
