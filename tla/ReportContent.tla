--------------------------- MODULE ReportContent ---------------------------
(***************************************************************************)
(* What a report (services/report_generation_service.py) and a mail        *)
(* (services/personalized_report_service.py) make of KPIs and insights.    *)
(* An insight has a KPI, a severity the model gave it (or none), the       *)
(* anomaly flag and |z|; a larger id is a later insight, of a later month. *)
(* Titles, formats and units are left out.                                 *)
(***************************************************************************)
EXTENDS Integers, Sequences, FiniteSets

CONSTANTS
    CategoryOf,   \* the categories whose keywords a KPI's category mentions
    Told,         \* 3: insights of a section the narrative is told about
    Mailed,       \* 5: actions in a weekly mail
    SnapshotLimit,\* 100: snapshots of a KPI a report reads
    Series,       \* the snapshots a KPI may have
    Anomalies     \* anomalies that a report and a mail may tell of

ASSUME ContentAssumption ==
    /\ Told \in Nat /\ Mailed \in Nat /\ SnapshotLimit \in Nat
    /\ \A rows \in Series :
           /\ IsFiniteSet(rows)
           /\ rows \subseteq [at : Nat, computed : Nat, value : Int, deleted : BOOLEAN]
    /\ Anomalies \subseteq
           [severity : {"none", "info", "warning", "critical"}, anomaly : {TRUE}, z : Nat]

\* The n elements of S that come first.
First(n, S, Before(_, _)) == {x \in S : Cardinality({y \in S : Before(y, x)}) < n}

order == <<"revenue", "operational", "customer", "financial", "other">>
_normalize_category(raw) ==
    order[CHOOSE i \in 1 .. 5 :
              /\ order[i] \in raw \/ i = 5
              /\ \A j \in 1 .. i - 1 : order[j] \notin raw]

severity(e) ==
    CASE e.severity # "none" -> e.severity
      [] e.severity = "none" /\ e.anomaly -> "critical"
      [] OTHER -> "info"
sev_rank == [critical |-> 0, warning |-> 1, info |-> 2]
Notable(e) == e.anomaly \/ e.severity \in {"critical", "warning"}

\* The order of a section: severity, anomalies first, then newest first.
_sort_key(a, b) ==
    \/ sev_rank[severity(a)] < sev_rank[severity(b)]
    \/ severity(a) = severity(b) /\ a.anomaly /\ ~b.anomaly
    \/ severity(a) = severity(b) /\ a.anomaly = b.anomaly /\ a.id > b.id

_build_insight_sections(events, kpis) ==
    LET listed == {e \in events : e.kpi \in kpis}
        category(e) == _normalize_category(CategoryOf[e.kpi])
    IN  [c \in {category(e) : e \in listed} |-> {e \in listed : category(e) = c}]

\* The latest insight of each KPI that has one.
_build_time_intelligence(events, kpis) ==
    LET latest == {e \in events : e.kpi \in kpis /\ \A f \in events : f.kpi = e.kpi => f.id <= e.id}
    IN  [k \in {e.kpi : e \in latest} |-> CHOOSE e \in latest : e.kpi = k]

_priority(e) ==
    CASE e.severity = "critical" \/ e.z >= 3 -> 1
      [] e.severity # "critical" /\ e.z < 3 /\ (e.severity = "warning" \/ e.z >= 2) -> 2
      [] OTHER -> 3
_build_decision_actions(events, kpis) ==
    [e \in {f \in events : Notable(f) /\ f.kpi \in kpis} |-> _priority(e)]

_build_narrative_context(sections) ==
    UNION {First(Told, sections[c], _sort_key) : c \in DOMAIN sections}

_build_appendix(kpis, events, sources) ==
    [kpis |-> Cardinality(kpis), anomalies |-> Cardinality({e \in events : e.anomaly}),
     sources |-> sources]

ReportData(kpis, events, sources) ==
    LET sections == _build_insight_sections(events, kpis) IN
    [kpis |-> kpis,
     sections |-> sections,
     trends |-> _build_time_intelligence(events, kpis),
     actions |-> _build_decision_actions(events, kpis),
     told |-> _build_narrative_context(sections),
     appendix |-> _build_appendix(kpis, events, sources)]

-----------------------------------------------------------------------------
(* The mail *)

_mail_priority(e) ==
    CASE e.severity = "critical" \/ e.z >= 3 -> 1
      [] e.severity = "warning" /\ e.z < 3 -> 2
      [] OTHER -> 3
_shape_actions(events) == [e \in {f \in events : f.anomaly} |-> _mail_priority(e)]
_shape_anomalies(events) == {e \in events : Notable(e)}

\* More urgent, then newer.
Sooner(a, b) ==
    \/ _mail_priority(a) < _mail_priority(b)
    \/ _mail_priority(a) = _mail_priority(b) /\ a.id > b.id

build_user_weekly_data(role, certified, pending, events) ==
    LET actions == _shape_actions(events) IN
    [kpis |-> certified,
     anomalies |-> _shape_anomalies(events),
     actions |-> First(Mailed, {e \in DOMAIN actions : actions[e] < 3}, Sooner),
     pending |-> IF role = "analyst" THEN pending ELSE {}]

build_user_monthly_data(role, certified, pending, events) ==
    [kpis |-> certified,
     anomalies |-> {e \in events : e.anomaly},
     actions |-> First(2 * Mailed, DOMAIN _shape_actions(events), Sooner),
     pending |-> {}]

-----------------------------------------------------------------------------
(* The snapshots of one KPI: period_start, computed_at and value.  Rows       *)
(* without a period come after all others, in either order.  Both read the   *)
(* values that stand at some place from the newest on: each operator gives   *)
(* those that may, none if there are fewer rows.                             *)

Earlier(a, b) == a.at < b.at \/ (a.at = b.at /\ a.computed < b.computed)

\* The default limit, and the oldest first: the newest are left out.
list_snapshots(rows) ==
    LET live == {r \in rows : ~r.deleted}
    IN  {r \in live : Cardinality({s \in live : Earlier(s, r)}) < SnapshotLimit}

Back(read, n) ==
    {r.value : r \in {x \in read :
        /\ Cardinality({y \in read : Earlier(x, y)}) < n
        /\ n <= Cardinality({y \in read : ~Earlier(y, x)})}}
_build_scorecard(rows) ==
    LET read == list_snapshots(rows)
    IN  [current |-> Back(read, 1), previous |-> Back(read, 2),
         quarter |-> Back(read, 4), year |-> Back(read, 13)]

\* The newest first, deleted or not, and those of one period in any order.
_fetch_snapshots(rows, limit) ==
    [n \in 1 .. limit |->
        {r.value : r \in {x \in rows :
            /\ Cardinality({y \in rows : y.at > x.at}) < n
            /\ n <= Cardinality({y \in rows : y.at >= x.at})}}]

\* The value at some place, if as many were asked for.
Nth(newest, n) == IF n \in DOMAIN newest THEN newest[n] ELSE {}

\* mutant: the twelfth value is a year ago
_shape_kpi_changes_eleven(newest) ==
    [current |-> Nth(newest, 1), previous |-> Nth(newest, 2), year |-> Nth(newest, 12)]
_shape_kpi_changes(newest) ==
    [current |-> Nth(newest, 1), previous |-> Nth(newest, 2), year |-> Nth(newest, 13)]

-----------------------------------------------------------------------------
\* Report and mails of the same snapshots, none deleted and no more than a
\* report reads.  What the report shows is something the mail may show, and
\* nothing else may be if no two snapshots begin at the same time.
ValuesAgree(rows) ==
    (\A r \in rows : ~r.deleted) /\ Cardinality(rows) <= SnapshotLimit =>
        LET card == _build_scorecard(rows)
            weekly == _shape_kpi_changes(_fetch_snapshots(rows, 2))
            monthly == _shape_kpi_changes(_fetch_snapshots(rows, 13))
            unique == \A r, s \in rows : r.at = s.at => r = s
        IN  /\ weekly = [monthly EXCEPT !.year = {}]
            /\ card.current \subseteq monthly.current
            /\ card.previous \subseteq monthly.previous
            /\ card.year \subseteq monthly.year
            /\ unique => monthly = [current |-> card.current, previous |-> card.previous,
                                     year |-> card.year]

\* Report and mail of the same anomaly.
PrioritiesAgree(e) ==
    _mail_priority(e) >= _priority(e) /\ (_mail_priority(e) = 1 <=> _priority(e) = 1)
=============================================================================
