----------------------------- MODULE MCReports -----------------------------
(* Model checking of Reports: two KPIs of two datasets, a manager and an
   analyst with a dashboard each, two pieces of work at a time.  What a report
   and a mail make of their data are functions: they are checked for every small
   input. *)
EXTENDS Reports, TLC

CONSTANTS k1, k2, m1, a1, d1, d2, ds1, ds2, r1, r2

MCDatasetOf == (k1 :> ds1) @@ (k2 :> ds2)
MCCategoryOf == (k1 :> {"financial", "revenue"}) @@ (k2 :> {})
MCRole == (m1 :> "manager") @@ (a1 :> "analyst")
MCOwner == (d1 :> a1) @@ (d2 :> m1)
MCShows == (d1 :> {k1}) @@ (d2 :> {k2})
Found(k, sev, anomaly, z, slope) ==
    [kpi |-> k, severity |-> sev, anomaly |-> anomaly, z |-> z, slope |-> slope]
MCRow == {Found(k2, "none", TRUE, 3, 0)}
MCRows == {<<Found(k1, "critical", FALSE, 0, 9), Found(k2, "none", TRUE, 2, 0)>>}
MCGone == {{}, {ds2}}
MCScope == {"global", d1, ds2}
MCFreshness == {[quality |-> 80, age |-> 24]}

Snapshot(at, computed, dead) ==
    [at |-> at, computed |-> computed, value |-> computed, deleted |-> dead]
\* Months in a row, and with them a row over all records, two without a period
\* and a month deleted and computed again.
MCSeries ==
    {{Snapshot(m, m, FALSE) : m \in 1 .. n} \cup more :
        n \in 0 .. 15,
        more \in SUBSET {Snapshot(1, 20, FALSE), Snapshot(99, 21, FALSE),
                         Snapshot(99, 22, FALSE), Snapshot(3, 2, TRUE)}}
MCAnomalies ==
    [severity : {"none", "info", "warning", "critical"}, anomaly : {TRUE}, z : 0 .. 4]
=============================================================================
