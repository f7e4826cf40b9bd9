------------------------------ MODULE Receipts ------------------------------
(***************************************************************************)
(* The explainability receipts (services/explainability_service.py,        *)
(* crud/explanation.py): the agent builds one for each insight it hears    *)
(* of, a reader who finds none builds it on the spot, and both wait for a  *)
(* model between reading and writing.  Meanwhile KPIs are reviewed,        *)
(* insights detected, and datasets deleted and restored.                   *)
(***************************************************************************)
EXTENDS Integers, Sequences, FiniteSets

CONSTANTS
    Kpi, Dataset, DatasetOf,
    Row,          \* what a detection can find
    Freshness,    \* what a sync leaves behind: a quality score and an age in hours
    Req,          \* requests, jobs and handlers that can run at the same time
    MaxInsights,  \* bound: insights
    MaxBegun,     \* bound: requests, jobs and handlers
    MaxChanges,   \* bound: changes of KPIs, insights, datasets and users
    MaxFailures   \* bound: failures

\* What a detection finds about a KPI: a severity the model gave it (or none),
\* whether it is an anomaly, |z| and the size of the slope.
Finding ==
    [kpi : Kpi, severity : {"none", "info", "warning", "critical"}, anomaly : BOOLEAN,
     z : Nat, slope : Nat]

ASSUME ReceiptsAssumption ==
    /\ DatasetOf \in [Kpi -> Dataset]
    /\ Row \subseteq Finding
    /\ Freshness \subseteq [quality : 0 .. 100, age : Nat]
    /\ {MaxInsights, MaxBegun, MaxChanges, MaxFailures} \subseteq Nat

VARIABLES
    status,    \* the status of each KPI
    deleted,   \* datasets that are soft-deleted, with their KPIs and insights
    facts,     \* the state of each dataset
    insight,   \* the insights, oldest first
    unheard,   \* insights whose event the agent has not taken yet
    receipt,   \* the receipt of each insight
    job, begun, changes, failures,
    lost       \* history: work that died or failed on the way

data == <<status, deleted, facts, insight>>
counters == <<begun, changes, failures>>

Id == 1 .. MaxInsights
Insight(i, row) ==
    [id |-> i, kpi |-> row.kpi, severity |-> row.severity, anomaly |-> row.anomaly,
     z |-> row.z, slope |-> row.slope]
Unknown == [quality |-> -1, age |-> -1]
NoReceipt == [score |-> -1, live |-> FALSE]
Idle == [op |-> "none", pc |-> "idle"]
Live(k) == DatasetOf[k] \notin deleted
certified == {k \in Kpi : Live(k) /\ status[k] = "certified"}
Events == {insight[i] : i \in 1 .. Len(insight)}
LiveEvents == {e \in Events : Live(e.kpi)}

\* Some insights may be of a deleted dataset, which took their receipts along.
ReceiptsInit(rows, gone) ==
    /\ status = [k \in Kpi |-> "certified"]
    /\ deleted = gone
    /\ facts = [ds \in Dataset |-> Unknown]
    /\ insight = [i \in 1 .. Len(rows) |-> Insight(i, rows[i])]
    /\ unheard = {i \in DOMAIN insight : Live(insight[i].kpi)}
    /\ receipt = [i \in Id |->
           IF i \in DOMAIN insight \ unheard THEN [score |-> 50, live |-> FALSE] ELSE NoReceipt]
    /\ job = [r \in Req |-> Idle]
    /\ begun = 0 /\ changes = 0 /\ failures = 0 /\ lost = {}

At(r, op, pc) == job[r].op = op /\ job[r].pc = pc
MayBegin(r) == job[r] = Idle /\ begun < MaxBegun
Begin(r, work) == job' = [job EXCEPT ![r] = work] /\ begun' = begun + 1
Goto(r, pc) == job' = [job EXCEPT ![r].pc = pc]
Finish(r) == job' = [job EXCEPT ![r] = Idle]
Fault == failures < MaxFailures /\ failures' = failures + 1 /\ UNCHANGED <<begun, changes>>

-----------------------------------------------------------------------------
(* services/confidence_service.py, in per cent; 50 when nothing is known *)

AtMost(bound, x) == IF x > bound THEN bound ELSE x
_statistical_strength(e) ==
    LET z == AtMost(100, (100 * e.z) \div 4)
        trend == AtMost(100, (100 * e.slope) \div 20)
    IN  30 + (70 * (IF z > trend THEN z ELSE trend)) \div 100
\* mutant: the score is taken for a share
_data_quality_raw(d) == IF d.quality < 0 THEN 50 ELSE 100 * d.quality
\* A share is expected: a score of one, of a hundred, counts as all.
_data_quality(d) == IF d.quality < 0 THEN 50 ELSE 100 * AtMost(1, d.quality)
_freshness(d) ==
    CASE d.age < 0 -> 50
      [] d.age \in 0 .. 1 -> 100
      [] d.age >= 168 -> 0
      [] OTHER -> 100 - (100 * (d.age - 1)) \div 167
_history_depth(n) == AtMost(100, (100 * n) \div 12)
compute_confidence(e, d, n) ==
    (40 * _statistical_strength(e) + 30 * _data_quality(d)
       + 20 * _freshness(d) + 10 * _history_depth(n)) \div 100

-----------------------------------------------------------------------------
get_by_insight(i) == receipt[i].live

Gather(op, i) == [op |-> op, pc |-> "gather", insight |-> i, score |-> -1]
handle_event(r, i) ==
    /\ i \in unheard
    /\ Begin(r, Gather("agent", i))
    /\ unheard' = unheard \ {i}
    /\ UNCHANGED <<data, receipt, changes, failures, lost>>
get_insight_explanation(r, i) ==
    /\ Live(insight[i].kpi) /\ ~get_by_insight(i)
    /\ Begin(r, Gather("reader", i))
    /\ UNCHANGED <<data, unheard, receipt, changes, failures, lost>>

Builds(r, pc) == job[r].op \in {"agent", "reader"} /\ job[r].pc = pc

\* Everything is read before the model is awaited; the insight's number stands
\* for the months of history by then.
build_explanation(r) ==
    LET e == insight[job[r].insight] IN
    /\ Builds(r, "gather")
    /\ job' = [job EXCEPT ![r] = [@ EXCEPT !.pc = "upsert",
           !.score = compute_confidence(e, facts[DatasetOf[e.kpi]], e.id)]]
    /\ UNCHANGED <<data, unheard, receipt, counters, lost>>

\* The model has answered, or has not: the receipt goes in all the same.
Write(r) == receipt' = [receipt EXCEPT ![job[r].insight] = [score |-> job[r].score, live |-> TRUE]]
upsert_explanation(r) ==
    /\ Builds(r, "upsert")
    /\ IF get_by_insight(job[r].insight)
       THEN Write(r) /\ Finish(r)
       ELSE Goto(r, "insert") /\ UNCHANGED receipt
    /\ UNCHANGED <<data, unheard, counters, lost>>

\* One row for each insight, counting a deleted one: the later insert fails.
insert_explanation(r) ==
    /\ Builds(r, "insert")
    /\ IF receipt[job[r].insight] = NoReceipt THEN Write(r) ELSE UNCHANGED receipt
    /\ Finish(r)
    /\ UNCHANGED <<data, unheard, counters, lost>>

\* The database fails, or the agent's process dies.
build_fails(r) ==
    /\ job[r].op \in {"agent", "reader"}
    /\ Fault
    /\ lost' = lost \cup {<<"receipt", job[r].insight>>}
    /\ Finish(r)
    /\ UNCHANGED <<data, unheard, receipt>>

-----------------------------------------------------------------------------
(* What others do meanwhile *)

Change == changes < MaxChanges /\ changes' = changes + 1
Aside == UNCHANGED <<job, begun, failures, lost>>

review(k) ==
    /\ status' = [status EXCEPT ![k] = IF @ = "certified" THEN "pending_review" ELSE "certified"]
    /\ UNCHANGED <<deleted, facts, insight, unheard, receipt>>
detect(k, row) ==
    /\ k \in certified /\ row.kpi = k
    /\ Len(insight) < MaxInsights
    /\ insight' = Append(insight, Insight(Len(insight) + 1, row))
    /\ unheard' = unheard \cup {Len(insight) + 1}
    /\ UNCHANGED <<status, deleted, facts, receipt>>
sync(ds) ==
    /\ facts[ds] \notin Freshness
    /\ \E f \in Freshness : facts' = [facts EXCEPT ![ds] = f]
    /\ UNCHANGED <<status, deleted, insight, unheard, receipt>>

\* With the receipts of its insights, those that there are by then.
Hidden(ds, live) ==
    [i \in Id |-> IF /\ receipt[i] # NoReceipt
                     /\ DatasetOf[insight[i].kpi] = ds
                  THEN [receipt[i] EXCEPT !.live = live] ELSE receipt[i]]
delete_dataset(ds) ==
    /\ ds \notin deleted
    /\ deleted' = deleted \cup {ds}
    /\ receipt' = Hidden(ds, FALSE)
    /\ UNCHANGED <<status, facts, insight, unheard>>
\* mutant: what hangs on the insights stays deleted
Restored_insights(ds) == receipt
Restored(ds) == Hidden(ds, TRUE)
restore_dataset(ds) ==
    /\ ds \in deleted
    /\ deleted' = deleted \ {ds}
    /\ receipt' = Restored(ds)
    /\ UNCHANGED <<status, facts, insight, unheard>>

Meanwhile ==
    /\ Change /\ Aside
    /\ \/ \E k \in Kpi : review(k) \/ \E row \in Row : detect(k, row)
       \/ \E ds \in Dataset : delete_dataset(ds) \/ restore_dataset(ds) \/ sync(ds)

ReceiptStep(r) == build_explanation(r) \/ upsert_explanation(r) \/ insert_explanation(r)

-----------------------------------------------------------------------------
(* Properties *)

\* Whoever reads an insight finds, or leaves, a receipt, whatever the model
\* answers and whoever else builds it at the time: a lost race leaves the
\* winner's, and deletion and restoration of the dataset do not hide it.
ReadLeavesReceipt ==
    \A i \in Id :
        (\E r \in Req : job[r].op = "reader" /\ job[r].insight = i)
            ~> (\/ get_by_insight(i) \/ i > Len(insight)
                \/ ~Live(insight[i].kpi) \/ <<"receipt", i>> \in lost)
=============================================================================
