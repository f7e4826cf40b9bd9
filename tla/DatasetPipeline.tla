--------------------------- MODULE DatasetPipeline ---------------------------
(***************************************************************************)
(* From a sync to KPIs, for one dataset: the sync replaces the records,    *)
(* marks the dataset, scores it and publishes (services/dataset_service.py,*)
(* services/data_quality_service.py); the quality agent scores what did    *)
(* not pass again (agents/data_quality_agent.py); the KPI agent and a      *)
(* background task generate KPIs (agents/kpi_agent.py) and snapshot them,  *)
(* as requests do that ask for KPIs (routers/kpis.py).                     *)
(*                                                                         *)
(* Each commit is a step.  A statement sees what was committed when it     *)
(* began: the rows a delete or a stamp will reach are fixed by then.       *)
(* Requests to generate KPIs or snapshots come through the rate limit.     *)
(***************************************************************************)
EXTENDS KpiSnapshots, RateLimit

CONSTANTS
    Job,        \* requests, agents and background tasks that can run at the same time
    Load,       \* identities of what one extraction brings
    Kind,       \* what the source may answer: counts, months covered, months that break the KPI
    Dates,      \* how the date column may be known
    Threshold,  \* DATA_QUALITY_THRESHOLD, in per cent
    Ages,       \* hours since the last sync a check on request or by the agent may see
    MaxStarts,  \* bound: requests
    MaxKpis,    \* bound: batches of KPIs
    MaxFaults   \* bound: failures

ASSUME PipelineAssumption ==
    /\ Kind \subseteq [rows : Nat, filled : Nat, typed : Nat,
                      months : SUBSET Month, broken : SUBSET Month]
    /\ \A k \in Kind :
           /\ k.typed <= k.filled /\ k.filled <= k.rows
           /\ k.broken \subseteq k.months
    /\ Load # {} /\ IsFiniteSet(Load)
    /\ {MaxStarts, MaxKpis, MaxFaults} \subseteq Nat /\ MaxKpis > 0
    /\ Threshold \in 0 .. 100
    /\ 0 \in Ages /\ Ages \subseteq Nat
    /\ Dates \subseteq {"listed", "inferred", "none"}

VARIABLES
    dataset,    \* live, synced (last_synced_at is set), status, quality_score
    records,    \* the records of each load: not there, live or soft-deleted
    kind,       \* what each load holds
    job,
    passed,     \* dataset_quality_passed events not consumed
    resynced,   \* dataset_synced events not consumed
    queued,     \* background generations not begun
    kpis,       \* batches of KPIs made
    starts, faults,
    marred,     \* history: since the last sync that met no one, some job met another or failed
    justified,  \* history: a check passed, or failed to run, since the last quarantine that
                \* found nothing else under way
    promised    \* history: a first sync that met no one ended in a pass, and no deletion since

history == <<marred, justified, promised>>
events == <<passed, resynced, queued>>
vars == <<dataset, records, kind, job, events, kpis, starts, faults, history, dates, series>>

NoKind == [rows |-> 0, filled |-> 0, typed |-> 0, months |-> {}, broken |-> {}]
Idle == [op |-> "none", pc |-> "idle", first |-> FALSE, met |-> FALSE, holds |-> NoKind,
         seen |-> {}, score |-> 0, pass |-> FALSE, todo |-> {}, made |-> FALSE]

TypeOK ==
    /\ dataset \in [live : BOOLEAN, synced : BOOLEAN, status : {"active", "quarantined"},
                    score : 0 .. 100]
    /\ records \in [Load -> {"none", "live", "dead"}]
    /\ \A j \in Job : job[j].seen \subseteq Load /\ job[j].todo \subseteq Month
    /\ kpis \in 0 .. MaxKpis /\ faults \in 0 .. MaxFaults /\ starts \in 0 .. MaxStarts
    /\ SeriesTypeOK

Share(part, whole) == IF whole = 0 THEN 100 ELSE (100 * part) \div whole
_recency_score(hours) ==
    CASE hours < 1   -> 100
      [] hours < 24  /\ hours >= 1  -> 100 - (30 * (hours - 1)) \div 23
      [] hours < 72  /\ hours >= 24 -> 70 - (40 * (hours - 24)) \div 48
      [] hours < 168 /\ hours >= 72 -> 30 - (30 * (hours - 72)) \div 96
      [] hours >= 168 -> 0
measured(rows, filled, typed, recency) ==
    [completeness |-> IF rows = 0 THEN 0 ELSE Share(filled, rows),
     consistency |-> IF rows = 0 THEN 0 ELSE Share(typed, filled),
     recency |-> recency]
overall_score(v) == (40 * v.completeness + 30 * v.consistency + 30 * v.recency) \div 100
should_quarantine(score) == score < Threshold

\* A dataset that was never synced, or one that was and has its first KPIs,
\* without snapshots so far: a failure to make them is swallowed.
Init ==
    /\ \E k \in Kind, old \in BOOLEAN :
           LET l == CHOOSE i \in Load : TRUE
               score == overall_score(measured(k.rows, k.filled, k.typed, 100))
           IN  /\ ~should_quarantine(score)
               /\ kind = [i \in Load |-> IF old /\ i = l THEN k ELSE NoKind]
               /\ records = [i \in Load |-> IF old /\ i = l THEN "live" ELSE "none"]
               /\ dataset = [live |-> TRUE, synced |-> old, status |-> "active",
                             score |-> IF old THEN score ELSE 0]
               /\ kpis = IF old THEN 1 ELSE 0
               /\ justified = old
    /\ job = [j \in Job |-> Idle]
    /\ passed = 0 /\ resynced = 0 /\ queued = 0
    /\ starts = 0 /\ faults = 0
    /\ marred = FALSE /\ promised = FALSE
    /\ dates \in Dates /\ series = {}

-----------------------------------------------------------------------------
(* Quality: profile, validation, score *)

In(state) == {l \in Load : records[l] = state}
Covered == UNION {kind[l].months : l \in In("live")}
Broken == UNION {kind[l].broken : l \in In("live")}

\* profile_dataset, for one column: how many rows, filled cells, cells of the
\* dominant type, each among the first of its load.
Cells(upto) == UNION {{l} \X (1 .. upto[l]) : l \in In("live")}
Rows == Cardinality(Cells([l \in Load |-> kind[l].rows]))
Filled == Cardinality(Cells([l \in Load |-> kind[l].filled]))
Typed == Cardinality(Cells([l \in Load |-> kind[l].typed]))

validate_profile(hours) ==
    measured(Rows, Filled, Typed, IF dataset.synced THEN _recency_score(hours) ELSE 0)
Score(hours) == overall_score(validate_profile(hours))

-----------------------------------------------------------------------------
(* Jobs *)

At(j, pc) == job[j].pc = pc
Busy == {j \in Job : ~At(j, "idle")}
Begin(j, op, pc) ==
    /\ At(j, "idle")
    /\ job' = [k \in Job |->
           IF k = j THEN [Idle EXCEPT !.op = op, !.pc = pc, !.first = ~dataset.synced,
                                      !.met = Busy # {}, !.seen = In("live")]
           ELSE [job[k] EXCEPT !.met = k \in Busy]]
Request(j, op, pc) ==
    /\ Begin(j, op, pc)
    /\ starts < MaxStarts
    /\ starts' = starts + 1
    /\ UNCHANGED <<dataset, records, kind, events, kpis, faults, history, dates, series>>
Worker(j, op) == \A k \in Job \ {j} : job[k].op # op
Goto(j, pc) == job' = [job EXCEPT ![j].pc = pc]
Finish(j) == job' = [job EXCEPT ![j] = Idle]
Fault == faults < MaxFaults /\ faults' = faults + 1
NoFault == UNCHANGED faults
Mar(j) == marred' = (marred \/ job[j].met)

crash(j) ==
    /\ ~At(j, "idle")
    /\ Fault
    /\ Finish(j)
    /\ marred' = TRUE
    /\ UNCHANGED <<dataset, records, kind, events, kpis, starts, justified, promised,
                   dates, series>>

-----------------------------------------------------------------------------
(* Sync *)

sync_dataset(j) == dataset.live /\ Request(j, "sync", "extract")

\* The rows are in hand, and the DELETE has found what it will remove.
extract_rows(j) ==
    /\ At(j, "extract")
    /\ \E k \in Kind :
           job' = [job EXCEPT ![j].pc = "replace", ![j].holds = k, ![j].seen = In("live")]
    /\ UNCHANGED <<dataset, records, kind, events, kpis, starts, faults, history,
                   dates, series>>

\* The source does not answer: an error in the log, and 400.
extract_failed(j) ==
    /\ At(j, "extract")
    /\ Finish(j)
    /\ UNCHANGED <<dataset, records, kind, events, kpis, starts, faults, history,
                   dates, series>>

FreeLoad == CHOOSE l \in Load : records[l] = "none" /\ \A k \in Job : l \notin job[k].seen

\* mutant: the rows of the last sync are kept
Replaced_kept(j) == [records EXCEPT ![FreeLoad] = "live"]
\* The live rows the DELETE saw go; rows another request has stamped stay.
Replaced(j) ==
    [l \in Load |-> CASE l = FreeLoad -> "live"
                      [] l # FreeLoad /\ l \in job[j].seen \cap In("live") -> "none"
                      [] OTHER -> records[l]]

replace_dataset_records(j) ==
    /\ At(j, "replace")
    /\ records' = Replaced(j)
    /\ kind' = [kind EXCEPT ![FreeLoad] = job[j].holds]
    /\ Mar(j)
    /\ job' = [job EXCEPT ![j].pc = "mark", ![j].seen = {}, ![j].holds = NoKind]
    /\ UNCHANGED <<dataset, events, kpis, starts, faults, justified, promised,
                   dates, series>>

mark_synced(j) ==
    /\ At(j, "mark")
    /\ dataset' = [dataset EXCEPT !.synced = TRUE]
    /\ Goto(j, "check")
    /\ UNCHANGED <<records, kind, events, kpis, starts, faults, history, dates, series>>

-----------------------------------------------------------------------------
(* The quality pipeline: in a sync, on request, and by the agent *)

run_quality_check(j) == dataset.live /\ Request(j, "check", "check")

\* A dataset_synced event: the agent scores once more.
handle_dataset_synced(j) ==
    /\ resynced > 0 /\ resynced' = resynced - 1
    /\ Worker(j, "recheck")
    /\ Begin(j, "recheck", "check")
    /\ UNCHANGED <<dataset, records, kind, passed, queued, kpis, starts, faults, history,
                   dates, series>>

run_quality_pipeline(j) ==
    /\ At(j, "check")
    /\ dataset.live
    /\ \E hours \in IF job[j].op = "sync" THEN {0} ELSE Ages :
           job' = [job EXCEPT ![j].pc = "apply", ![j].score = Score(hours),
                              ![j].pass = ~should_quarantine(Score(hours))]
    /\ UNCHANGED <<dataset, records, kind, events, kpis, starts, faults, history,
                   dates, series>>

\* The pipeline raises: a sync takes that for a pass, the others end.
quality_failed(j) ==
    /\ At(j, "check")
    /\ (~dataset.live /\ NoFault) \/ Fault
    /\ marred' = TRUE
    /\ IF job[j].op = "sync"
       THEN /\ job' = [job EXCEPT ![j].pc = "announce", ![j].pass = TRUE]
            /\ justified' = TRUE
       ELSE Finish(j) /\ UNCHANGED justified
    /\ UNCHANGED <<dataset, records, kind, events, kpis, starts, promised, dates, series>>

\* No other job, event or task is left that an earlier pass might have let through.
NothingElse(j) == Busy = {j} /\ passed = 0 /\ queued = 0

\* The verdict is stored on the dataset, if it is still there.
apply_quality_result(j) ==
    /\ At(j, "apply")
    /\ dataset' = IF dataset.live
                  THEN [dataset EXCEPT !.score = job[j].score,
                                       !.status = IF job[j].pass THEN "active" ELSE "quarantined"]
                  ELSE dataset
    /\ justified' = (job[j].pass \/ ~dataset.live \/ (justified /\ ~NothingElse(j)))
    /\ marred' = (job[j].met \/ (marred /\ job[j].op # "sync"))
    /\ IF job[j].op = "check" THEN Finish(j) ELSE Goto(j, "announce")
    /\ UNCHANGED <<records, kind, events, kpis, starts, faults, promised, dates, series>>

\* mutant: the agent's answer is a pass whatever the verdict
Announced_always(j) == IF job[j].op = "sync" THEN job[j].pass ELSE TRUE
Announced(j) == job[j].pass

\* dataset_quality_passed, or dataset_synced after a sync that did not pass
\* (the agent's dataset_quarantined has no reader here).
publish(j) ==
    /\ At(j, "announce")
    /\ passed' = IF Announced(j) THEN passed + 1 ELSE passed
    /\ resynced' = IF ~Announced(j) /\ job[j].op = "sync" THEN resynced + 1 ELSE resynced
    /\ IF job[j].op = "sync" THEN Goto(j, "respond") ELSE Finish(j)
    /\ UNCHANGED <<dataset, records, kind, queued, kpis, starts, faults, history,
                   dates, series>>

\* A sync swallows the failure; the agent's handler raises.
publish_failed(j) ==
    /\ At(j, "announce")
    /\ Fault
    /\ IF job[j].op = "sync" THEN Goto(j, "respond") ELSE Finish(j)
    /\ UNCHANGED <<dataset, records, kind, events, kpis, starts, history, dates, series>>

\* mutant: asked after the sync has marked the dataset
is_first_sync_late(j) == ~dataset.synced
is_first_sync(j) == job[j].first

\* The router: KPIs are generated after the first sync, unless quarantined.
respond(j) ==
    /\ At(j, "respond")
    /\ queued' = IF is_first_sync(j) /\ dataset.status # "quarantined" /\ kpis = 0
                 THEN queued + 1 ELSE queued
    /\ promised' = (promised \/ (job[j].first /\ job[j].pass /\ ~job[j].met))
    /\ Finish(j)
    /\ UNCHANGED <<dataset, records, kind, passed, resynced, kpis, starts, faults,
                   marred, justified, dates, series>>

-----------------------------------------------------------------------------
(* Generation *)

\* A dataset_quality_passed event, or the background task: nothing happens for
\* a dataset that is gone.
Generate(j, op) ==
    IF dataset.live THEN Begin(j, op, "model") ELSE At(j, "idle") /\ UNCHANGED job

handle_quality_passed(j) ==
    /\ passed > 0 /\ passed' = passed - 1
    /\ Worker(j, "generate")
    /\ Generate(j, "generate")
    /\ UNCHANGED <<dataset, records, kind, resynced, queued, kpis, starts, faults, history,
                   dates, series>>

auto_generate_kpis(j) ==
    /\ queued > 0 /\ queued' = queued - 1
    /\ Generate(j, "auto")
    /\ UNCHANGED <<dataset, records, kind, passed, resynced, kpis, starts, faults, history,
                   dates, series>>

\* Whoever asks for KPIs gets them whatever the checks said: from the model, or
\* one he has written down himself.
generate_kpis(j) == dataset.live /\ Request(j, "request", "model")
create_kpi_manual(j) == dataset.live /\ Request(j, "manual", "model")

\* The model has answered, or the form is in; the snapshots followed here are
\* those of the first batch.
generate_kpis_for_dataset(j) ==
    /\ At(j, "model")
    /\ kpis < MaxKpis
    /\ kpis' = kpis + 1
    /\ IF kpis = 0 THEN Goto(j, "snapshot") ELSE Finish(j)
    /\ UNCHANGED <<dataset, records, kind, events, starts, faults, history, dates, series>>

generation_failed(j) ==
    /\ At(j, "model")
    /\ Fault \/ (kpis = MaxKpis /\ NoFault)
    /\ Finish(j)
    /\ UNCHANGED <<dataset, records, kind, events, kpis, starts, history, dates, series>>

-----------------------------------------------------------------------------
(* Snapshots of the first KPI *)

KpiIsLive == dataset.live /\ kpis > 0
\* For a dataset: a monthly run.  For one KPI: a row over all records.
recompute_kpis_for_dataset(j) == KpiIsLive /\ Request(j, "recompute", "snapshot")
recompute_snapshot(j) == KpiIsLive /\ Request(j, "recompute", "full")

snapshot_kpi(j) ==
    /\ At(j, "snapshot")
    /\ IF dates = "none" THEN Goto(j, "full")
       ELSE job' = [job EXCEPT ![j].pc = "months", ![j].todo = MonthsToCompute(Covered)]
    /\ UNCHANGED <<dataset, records, kind, events, kpis, starts, faults, history,
                   dates, series>>

\* One month.  A statement that fails leaves the transaction aborted, and
\* nothing rolls it back before the next month: those left fail as well.  A
\* month another run has inserted meanwhile ends this one.
compute_month(j) ==
    LET m == Min(job[j].todo)
    IN  /\ At(j, "months") /\ job[j].todo # {}
        /\ \/ m \notin Covered
              /\ job' = [job EXCEPT ![j].todo = @ \ {m}] /\ UNCHANGED series
           \/ m \in Broken
              /\ (IF job[j].made THEN job' = [job EXCEPT ![j].todo = {}] ELSE Finish(j))
              /\ UNCHANGED series
           \/ m \in Covered \ Broken /\ Insertable(Monthly(m))
              /\ series' = series \cup {Monthly(m)}
              /\ job' = [job EXCEPT ![j].todo = @ \ {m}, ![j].made = TRUE]
           \/ m \in Covered \ Broken /\ ~Insertable(Monthly(m))
              /\ Finish(j) /\ UNCHANGED series
        /\ UNCHANGED <<dataset, records, kind, events, kpis, starts, faults, history, dates>>

months_done(j) ==
    /\ At(j, "months") /\ job[j].todo = {}
    /\ IF job[j].made THEN Finish(j) ELSE Goto(j, "full")
    /\ UNCHANGED <<dataset, records, kind, events, kpis, starts, faults, history,
                   dates, series>>

\* Without records, with an expression that fails, or for a period that has
\* its row, there is an error and no row.
compute_and_snapshot(j) ==
    LET new == FullRow(Covered)
    IN  /\ At(j, "full")
        /\ \/ Rows > 0 /\ Insertable(new) /\ series' = series \cup {new}
           \/ (Rows = 0 \/ Broken # {} \/ ~Insertable(new)) /\ UNCHANGED series
        /\ Finish(j)
        /\ UNCHANGED <<dataset, records, kind, events, kpis, starts, faults, history, dates>>

-----------------------------------------------------------------------------
(* Deletion *)

delete_dataset(j) == dataset.live /\ Request(j, "delete", "stamp")

stamp_records(j) ==
    /\ At(j, "stamp")
    /\ dataset' = [dataset EXCEPT !.live = FALSE]
    /\ records' = [l \in Load |-> IF l \in job[j].seen \cap In("live") THEN "dead" ELSE records[l]]
    /\ Mar(j)
    /\ promised' = FALSE
    /\ Finish(j)
    /\ UNCHANGED <<kind, events, kpis, starts, faults, justified, dates, series>>

restore_dataset(j) ==
    /\ ~dataset.live
    /\ At(j, "idle")
    /\ dataset' = [dataset EXCEPT !.live = TRUE]
    /\ records' = [l \in Load |-> IF records[l] = "dead" THEN "live" ELSE records[l]]
    /\ marred' = (marred \/ Busy # {})
    /\ job' = [k \in Job |-> [job[k] EXCEPT !.met = k \in Busy]]
    /\ UNCHANGED <<kind, events, kpis, starts, faults, justified, promised, dates, series>>

-----------------------------------------------------------------------------
Arrive(j) ==
    \/ sync_dataset(j) \/ run_quality_check(j) \/ delete_dataset(j) \/ restore_dataset(j)
    \/ generate_kpis(j) \/ create_kpi_manual(j)
    \/ recompute_kpis_for_dataset(j) \/ recompute_snapshot(j)
TakeUp(j) == handle_dataset_synced(j) \/ handle_quality_passed(j) \/ auto_generate_kpis(j)
Proceed(j) ==
    \/ extract_rows(j) \/ extract_failed(j) \/ replace_dataset_records(j) \/ mark_synced(j)
    \/ run_quality_pipeline(j) \/ quality_failed(j) \/ apply_quality_result(j)
    \/ publish(j) \/ publish_failed(j) \/ respond(j)
    \/ generate_kpis_for_dataset(j) \/ generation_failed(j)
    \/ snapshot_kpi(j) \/ compute_month(j) \/ months_done(j) \/ compute_and_snapshot(j)
    \/ stamp_records(j)

Next == \E j \in Job : Arrive(j) \/ TakeUp(j) \/ Proceed(j) \/ crash(j)

Spec == Init /\ [][Next]_vars

\* What has begun goes on, and the workers and the event loop take up what waits.
Fairness == WF_vars(\E j \in Job : TakeUp(j) \/ Proceed(j))
FairSpec == Spec /\ Fairness

-----------------------------------------------------------------------------
(* Properties *)

\* A sync that met no other request and no failure puts everything right,
\* whatever came before it: the dataset holds the rows of one extraction,
\* live as long as it is, and its score and status are those of these rows.
SyncSettles ==
    ~marred /\ Busy = {} =>
        /\ Cardinality(In("live") \cup In("dead")) <= 1
        /\ ~dataset.live => In("live") = {}
        /\ dataset.live /\ dataset.synced =>
               /\ \E hours \in Ages : dataset.score = Score(hours)
               /\ dataset.status = "quarantined" <=> should_quarantine(dataset.score)

\* What a dataset is after a sync, its score and its months within bounds.
SyncLeavesOrder == TypeOK /\ SyncSettles

\* "So the KPI pipeline knows what to process": after a quarantine that found
\* nothing else under way no KPIs come but those somebody asks for, and no event
\* or task that leads to any, until a check passes or fails to run.
KpisNeedAPass ==
    passed + queued > 0 \/ (\E j \in Job : At(j, "model") /\ job[j].op \in {"generate", "auto"})
        => justified

\* A monthly run that met no one leaves no month out, but for the months from
\* the first one on that breaks the expression.
MonthsAreCovered ==
    \A j \in Job :
        At(j, "months") /\ job[j].todo = {} /\ ~job[j].met =>
            \A m \in Covered : m \in Months(series) \/ \E b \in Broken : b <= m

\* However the requests for KPIs come, no more than twice the limit is let
\* through in the length of a window, the end of one and the start of the next
\* together, but for what passes while Redis does not answer; and one who waits
\* as long as he is told comes back less than a second before the next window
\* at worst (code: _retry_after, which cuts the fraction off).  The counters
\* meet no other state: the initial states stand for all.
BurstAtMostTwice ==
    starts = 0 =>
        \A asked \in Asked :
            /\ \A t \in Clock : AtMostTwice(asked, t)
            /\ \A i \in DOMAIN asked : WaitSuffices(asked, i)

\* The event and the background task lead to KPIs each on its own: no single
\* failure keeps a dataset whose first sync passed without KPIs.
FirstKpisCome == promised ~> (kpis > 0 \/ ~promised)
=============================================================================
