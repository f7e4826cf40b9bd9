---------------------------- MODULE KpiSnapshots ----------------------------
(***************************************************************************)
(* The snapshots of one KPI (services/kpi_calculation_service.py): a run   *)
(* finds the months the records cover and the months that have a row, and  *)
(* computes the missing ones, each in a statement and a commit of its own; *)
(* when it has made none it computes one row over all the records.         *)
(*                                                                         *)
(* The records belong to the dataset: the actions here take what they      *)
(* cover as a parameter, and DatasetPipeline says when they change.        *)
(***************************************************************************)
EXTENDS Naturals, FiniteSetsExt

CONSTANT Month  \* calendar months, as numbers

ASSUME SnapshotAssumption == Month \subseteq Nat \ {0} /\ IsFiniteSet(Month)

VARIABLES
    dates,   \* how the date column is known: from the schema's metadata, from the records, not
    series   \* the live kpi_snapshots rows; rows without a period are all alike

Monthly(m) == [shape |-> "month", from |-> m, to |-> m]
\* From the first to the last date: it starts in the first month.
FullRange(months) == [shape |-> "range", from |-> Min(months), to |-> Max(months)]
Undated == [shape |-> "undated", from |-> 0, to |-> 0]
SnapshotRow == [shape : {"month", "range", "undated"}, from : Month \cup {0}, to : Month \cup {0}]

SeriesTypeOK == dates \in {"listed", "inferred", "none"} /\ series \subseteq SnapshotRow

Months(rows) == {r.from : r \in {s \in rows : s.shape = "month"}}

\* mutant: a row counts as its month's when it starts in it
MonthsToCompute_by_start(covered) == {m \in covered : \A r \in series : r.from # m}
\* compute_monthly_snapshots: the months in the records that have no row yet.
MonthsToCompute(covered) == covered \ Months(series)

\* create_snapshot: two rows of one period break the unique index, unless
\* they have no period.
Insertable(new) == new = Undated \/ new \notin series

\* The row of compute_and_snapshot over records that cover these months.
\* derive_snapshot_period knows the date column from the metadata only.
FullRow(covered) ==
    IF dates = "listed" /\ covered # {} THEN FullRange(covered) ELSE Undated

\* "Return monthly snapshots for a KPI in chronological order": what the
\* detection reads are the rows with a period_start, and each is a month.
_get_monthly_snapshots_asc == {r \in series : r.shape # "undated"}
SeriesIsMonthly == \A r \in _get_monthly_snapshots_asc : r.shape = "month"
=============================================================================
