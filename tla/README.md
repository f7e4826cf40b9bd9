# Verification of the agentic BI backend

TLA+ models of the backend in `src/app`, the TLC runs that check them on small
instances, and TLAPS proofs of what matters most for every size. The code is a
FastAPI server, PostgreSQL through SQLAlchemy, and a set of agent workers that
talk over Redis Streams. Its hard part is not any one endpoint but what several
of them, and the agents, do to one row at the same time.

## 1. The system

### How it runs

* **Sessions.** `SessionLocal` has autocommit and autoflush off and leaves
  `expire_on_commit` on (`core/database.py:19`). The database runs at READ
  COMMITTED and no query locks a row. So a SELECT sees the latest commit; an
  UPDATE goes out by primary key with the attributes that were set, whatever
  the row has become; an UPDATE of a row that is gone fails; after a commit an
  object is read again from the database, which fails when the row is gone or
  the session is closed. Nearly every CRUD helper commits on its own.
* **Threads.** Plain `def` endpoints run in a thread pool, side by side;
  `async def` ones share the event loop and interleave where they await. Agents
  are processes of their own. Background tasks, the two schedulers and the
  notification fan-out run inside the server.
* **Bus.** `agents/messaging.py`: one Redis stream per event type, one consumer
  group per agent, a poll loop with nothing around `handle_event`.

### Components

| Component | State | Operations | What makes it correct | Modelled in |
|---|---|---|---|---|
| KPI review | `kpi_definitions.status/version`, `kpi_versions`, `approval_requests`, audit, events | create, certify, reject, edit, delete, regen, seed, approve, decline, HITL agent | verdict before its traces; version rows explain the status; one pending request per KPI; legal moves | `KpiGovernance`, `ReviewContract` |
| Agent messaging | streams, groups, pending entries | publish, poll, hand over, acknowledge, restart | at most once, in order, nothing skipped, what a death loses | `AgentStream` |
| Decisions | `decision_records` | make (agent, trigger), approve, reject | one maker per insight; P1 only with an executive; final is final | `DecisionPipeline` |
| Insight detection | `insight_events` | detect, narrate, score, publish | one row per KPI and period as far as requests do not overlap; an anomaly is a jump | `InsightFeedback`, `InsightMath` |
| Feedback, guidance | `insight_feedback`, vectors, bell rows, guidance versions | rate, retract, suppress, summarise | nobody silences a KPI alone; no vote escapes a summary; the bell tells the vote that stands | `InsightFeedback` |
| Explainability | `insight_explanations` | build from agent, build on read | one receipt per insight, and a reader always finds it | `Receipts` |
| Datasets, connectors | `datasets`, records, `data_connectors`, schema metadata, descriptions | create, sync, delete, archive, restore, purge | no live row under a deleted one; what can be restored is whole | `Catalog`, `DatasetPipeline` |
| Data quality | scorecards, `datasets.status/quality_score` | score, quarantine | the verdict is about the rows that are there; quarantined data feeds nothing | `DatasetPipeline` |
| KPI generation, calculation | `kpi_definitions`, `kpi_snapshots` | generate, snapshot by month, recompute | first KPIs come; every month has its row | `DatasetPipeline`, `KpiSnapshots`, `Catalog` |
| Reports and mails | `reports` | request, generate, delete, weekly and monthly job | a report settles and agrees with itself; a job mails everyone it listed | `Reports`, `ReportContent` |
| Users | users, org settings | sign up, Google sign-in, create, change roles | executives are founders | `Accounts` |
| Dashboards | dashboards, widgets, grants, layout | create, duplicate, change, share, revoke, list | who writes is entitled to; the listing is the access; clients show the grants | `Dashboards`, `DashboardLayout` |
| Live feeds, notifications | a position per stream, notification rows | tail, fan out, push to a client | no gap, no double, an event rings for its roles | `LiveFeeds` |
| Rate limit | counters in Redis | check | twice the limit in any window's length at most | `RateLimit` |
| Copilot | `chat_sessions`, `chat_messages` | create, rename, delete, send a message | titles survive what overlaps; every message is answered or fails | `Copilot` |
| RAG, e-mail, OAuth, encryption, tracing | mostly none | calls to services | out of scope, I/O | |

### Interaction

```
dataset sync -> dataset_quality_passed -> KPIAgent -> kpi_generated -> HITLWorkflowAgent
             -> dataset_synced (did not pass) -> DataQualityAgent -> dataset_quality_passed
             -> background generation after the first sync
HITLWorkflowAgent -> kpi_pending_review
detection    -> insight_detected -> DecisionAgent -> decision_made, decision_approval_required
                                 -> ExplainabilityAgent
every stream -> notification fan-out -> one bell row per user of the event's roles
insight, dashboard streams -> open SSE connections
votes -> suppression of the next detection, guidance of the next narration
KPIs, snapshots, insights -> reports, mails
delete or archive -> everything below, receipts included; restore brings it back
a copilot's turn, waiting for its models -> the row of its session -> the event loop
```

Requests and agents share the tables; there is no other coordination. The KPI
agent subscribes to `dataset_refreshed` as well, which nothing publishes.

### What is hard

Check-then-write on a copy of a row; look-then-insert without a constraint;
several commits per operation with a crash between any two; swallowed audit and
publish failures; objects read after their session was closed; a batch that
dies with its worker; waits for a language model between a check and its write;
cascades that collect rows first and stamp them later; two code paths that must
agree (a listing and a permission check, a card and a restore, a mail and a
report). `PROJECT.json` lists each of these at its line, with the property that
covers it.

## 2. The modules

A request, agent handler or background task in flight is a `job` with a program
counter. Its steps are the stretches of code between which another request, a
crash or a deletion can come: a step ends at a commit, or at a read whose result
is used later. What a job read it keeps until it writes, which is how a stale
copy gets back into a table.

### KpiGovernance (`ReviewContract`, `MCKpiGovernance`, `KpiGovernanceProofs`)

The life of a KPI definition under review.

| Operation of the code | Steps of a job |
|---|---|
| certify, reject (`kpi_service`) | `get_or_404`, `certify_kpi` / `reject_kpi`, `record_audit` |
| approve, decline (`hitl_workflow_service`) | `get_approval_request`, `get_kpi`, `certify_kpi` / `reject_kpi`, `close_approval`, `record_audit`, `publish` |
| edit, delete | `get_or_404`, `update_kpi` / `delete_kpi`, `record_audit` |
| regen | `get_or_404`, `reset_to_pending_review` (or `regen_pending`), `get_approval_by_entity`, `create_approval_request` |
| create (form, endpoint) | `create_kpi`, `record_audit`, `get_approval_by_entity`, `create_approval_request` |
| KPI agent | the same for each KPI of its model's answer (`create_next_kpi`), then one `publish` for all |
| seed | `seed_approvals`, then as `create_kpi_approval` |
| HITL agent | `handle_kpi_generated`, then as `create_kpi_approval` for each KPI of the event (`generate_kpi_approvals`), then `publish` or `publish_raises` |

`row_gone` is the failure of an UPDATE or of a refresh of a deleted row; `crash`
ends a job anywhere; `approval_creation_failed` is the agent's swallowed
failure. `decided` is a history variable: the verdicts ever committed on a KPI.

`queue` holds the events the HITL worker has not begun, each the KPIs of one
generation. The worker opens the requests of an event in one session, closes the
session and then names the requests in an event of its own, outside its `try`
(`hitl_workflow_agent.py:66-73`). A request it was given before a later one was
committed has been expired by that commit (`stale`), and reading it then raises:
`publish_raises`, after which the worker has left its loop (`polling`) and what
the same poll gave it besides is lost. Nothing in the code restarts it; `run` is
somebody who does.

`ReviewContract` is the abstract specification: a verdict is committed, and
only then may the approval request be closed, the audit record written and the
event published, the event after the close. It knows no requests and no
crashes; `ImplementsContract` is the refinement.

### AgentStream (`MCAgentStream`, `StreamAndReportProofs`)

The bus. `entries` are the streams, `cursor` and `pel` what Redis keeps for a
group, `worker` what a process is doing and the rest of its batch. `poll_once`
moves the cursor and fills the pending list at once, as XREADGROUP does with
`>`; `enter_handler`, `handler_returns` and `xack` walk the batch; `die` is a
crash or an exception, anywhere; `ensure_consumer_groups` is a start or a
restart. `attempted` and `returned` are history variables. What Redis does
(`Advanced`) is modelled from how the code calls it.

### DecisionPipeline (`MCDecisionPipeline`, `DecisionPipelineProofs`)

Composes the decision agent, the trigger endpoint and the executive's endpoints
with the bus: `Bus == INSTANCE AgentStream`, whose actions it uses for polling,
hand-over, acknowledgement and death. `make_decision` is
`get_decision_by_insight` (the guard), `create_decision` (the insight, if it is
found, rules and anchor, unique per insight), `update_decision` (after the
model has answered or not) and `record_audit`, for a worker and a request
alike. `hidden` are the insights deleted with their dataset, which the catalog
may delete and restore at any time (`delete_dataset`, `restore_dataset`). The
worker then reads the decision after its session was closed: for one it has
just made that raises, so its `record_audit` ends with `Bus!die`; for one it
found it publishes. The rule engine is two operators over the features a rule
looks at (`anomaly`, `severity`, and whether the slope is beyond the
threshold).

### InsightFeedback (`MCInsightFeedback`, `InsightFeedbackProofs`)

One KPI's insights and the votes on them. `stamp` stands for `created_at`:
PostgreSQL's `now()` is the start of the transaction, so a row carries the time
of the request and not of its commit, and the guidance's cut-off compares such
stamps.

| Operation of the code | Steps of a job |
|---|---|
| detection (`insight_service`) | `detect_for_kpi` up to the wait for the narration, `store_insight` |
| rate (`insight_feedback_service`) | `submit_feedback`, `find`, `upsert` or `upsert_conflict`, `_store_suppression_vector` for a thumbs down, `_notify_feedback_recorded` |
| retract | `retract_feedback`, `soft_delete`, `_suppress_unread_feedback_notification` |
| guidance (`insight_guidance_service`) | `generate_guidance` up to the wait for the model, `create_guidance` or `no_summary` |

`find` is the second look of `upsert`. SQLAlchemy does not refresh an object
the session already holds, so a row that is still the same keeps the rating it
was loaded with; `Written` is what the flush then does: an insert (refused by
the partial unique index when there is a live row), an UPDATE by primary key of
what differs from the loaded attributes, or nothing. The score of the
suppression heuristic is a difference of cosine weights between 0.85 and 1;
`Suppressible` gives the verdicts the counts of matches allow, both where the
weights decide. `Similar` says which periods' insights read alike.

### LiveFeeds (`MCLiveFeeds`, `StreamAndReportProofs`)

The readers without a consumer group: `notification_fanout` and the loops of
the two SSE endpoints. A `reader` has a position per stream (`End` is `"$"`),
the rest of the response it is working on and, for the fan-out, the users still
to be notified. A response is a sequence of blocks, one for each stream that has
more, in any order of the streams; a block is the first and the last number of
the messages it has of its stream. `xread` resolves `"$"` at the moment of the
call, a `publish_event` wakes the readers blocked on its stream, `block_ends` is
the timeout or a failed call. `write_notifications` moves the position before any row is written,
`create_notification` commits one row, `write_fails` is the logged failure that
ends the event. Accounts change under it (`update_user`).

### Catalog (`MCCatalog`, `CatalogProofs`)

The tree connector, dataset, KPI and leaf (insights, snapshots, versions and
receipts: what the cascades reach through KPI identities), with the day each
row was soft-deleted, the metadata of each dataset and the description of each
source table.

| Operation of the code | Steps of a job |
|---|---|
| archive a connector, delete a dataset | `delete_connector` / `delete_dataset` collect live identities, `stamp` |
| restore either | `restore_connector` / `restore_dataset` compare with the window and collect, `restore` |
| create a dataset, generate a KPI, detect an insight | look at the parent, `insert` or `insert_refused` |
| create a connector, describe a table | `create_connector`, `detect` |
| purge by age, delete a connector for good | `purge_expired_soft_deletes`, `purge_connector` |

`hurried`, `revived` and `taken` are history variables: rows made live by a
request that met another one, datasets restored on their own under an archived
connector, and the rows each deletion stamped, until they are restored.
`Reached` is what a cascade's UPDATEs hit: some tables by the collected
identities, some by the parent, at the time of the stamp. `WithBelow` is what
the foreign keys delete along; that of a dataset to its connector refuses
instead (`PurgeRefused`). A day passes only while nothing is under way.

### DatasetPipeline and KpiSnapshots (`MCDatasetPipeline`, `DatasetPipelineProofs`)

One dataset from a sync to KPIs and their monthly rows. `DatasetPipeline`
EXTENDS `KpiSnapshots`, which has the series of one KPI.

| Operation of the code | Steps of a job |
|---|---|
| sync (`dataset_service`, router) | `sync_dataset`, `extract_rows` or `extract_failed`, `replace_dataset_records`, `mark_synced`, `run_quality_pipeline` or `quality_failed`, `apply_quality_result`, `publish`, `respond` |
| quality check on request, quality agent | `run_quality_check` / `handle_dataset_synced`, then the same pipeline |
| generation (agent, background task) | `handle_quality_passed` / `auto_generate_kpis`, `generate_kpis_for_dataset`, `snapshot_kpi` |
| KPIs on request (from the model, or a form) | `generate_kpis` / `create_kpi_manual`, then the same |
| recompute | `snapshot_kpi`, `compute_month` for each month, `months_done`, `compute_and_snapshot` |
| delete, restore | `delete_dataset`, `stamp_records`; `restore_dataset` |

The three scores are the code's formulas in integer per cent over what the
records hold (`Rows`, `Filled`, `Typed`), the weights and the steps of recency
included. A DELETE or UPDATE reaches the rows that were there when the statement
began (`seen`). A request for KPIs asks no verdict: who wants them gets them from
a quarantined dataset too. `compute_month` has the aborted transaction: a formula that
fails on one month fails on those after it.

### Accounts, Dashboards, DashboardLayout (`MCDashboards`, `DashboardsProofs`)

`Accounts` has the users, each request a check (`signup_user`,
`login_with_google`, `create_user`, `update_user`) and a commit (`insert_user`,
`store_user`). `Dashboards` EXTENDS it and shares its request slots, so a role
may change between the check and the commit of a request about a dashboard.

| Operation of the code | Steps of a job |
|---|---|
| create, duplicate | the check, `commit_dashboard`, `create_widgets` |
| update, add, change or drop a widget, delete | the check, `commit_content` / `commit_delete` |
| grant, revoke | the check, `read_permission`, `upsert_permission` / `delete_permission`, `record_audit`, `_publish_permission_change` |

`commit_refused` is a row that went meanwhile. A grant over an existing row
writes of it only what differs from the copy it read (`Granted`). `shown` is what a client that
follows the stream shows: an event tells it to fetch, and it gets what is there
by then. `DashboardLayout` is the packing of a new dashboard's widgets: `Place`
is one turn of the loop, `Layouts` the layout after each turn.

### Reports, Receipts, ReportContent (`MCReports`, `StreamAndReportProofs`)

`Reports` EXTENDS `Receipts` and `ReportContent`: report tasks, mail jobs and
the receipt builders read the same KPIs and insights while others (`Meanwhile`)
review, detect, sync, delete and restore.

| Operation of the code | Steps of a job |
|---|---|
| report (`report_generation_service`) | `generate_report`, `fetch_kpis` (or `report_not_found`), `fetch_events` (sections built, model awaited), `persist_report`; `generation_fails`, `database_fails` |
| mails (`report_scheduler`, `personalized_report_service`) | `run_job`, `list_users`, `skip_user` / `build_mail`, `send_personalized_report` or `send_fails`, `job_ends`; `job_fails` |
| receipts (`explainability_service`) | `handle_event` / `get_insight_explanation`, `build_explanation` (confidence), `upsert_explanation`, `insert_explanation`; `build_fails` |

`ReportContent` has what a report and a mail make of their data: categories,
severities, sort orders, priorities, trends, the previous months' values. The
report takes these from `list_snapshots`, live rows, the oldest 100 of them by
period and time of computation; the mail from `_fetch_snapshots`, the newest by
period alone, deleted rows included. Where the order is open each operator gives
the values that may stand there. `lost` is a history variable: work that died on the way.

### InsightMath, RateLimit

Pure functions. `InsightMath`, which `InsightFeedback` EXTENDS, is least squares,
z-score, slope and classification in exact integers: fractions are compared by
cross multiplication, the square root by squares. `RateLimit`, which `DatasetPipeline`
EXTENDS since its requests are among the limited ones, gives the outcome of a
sequence of requests, each with the time at which it read the clock and whether
Redis answered.

What a run says of a function it says of its initial states (`starts = 0 => ...`,
`begun = 0 => ...`, `clock = 0 => ...`): no step changes a function, so these stand for all states.

### Copilot (`MCCopilot`, `CopilotProofs`)

One server process, its event loop, and conversations in the database. A turn is
one transaction: `Begin` (authentication), `load_session`, `flush` (context and
question are written, the history is read, the classifier is awaited),
`classify_intent`, `handle`, `commit`; `turn_fails` is an exception or a client
that goes away, and rolls back. Between awaits a turn holds `loop`, also while it
waits for the database. `lock` is the row lock of an UPDATE, which a turn takes
at `flush` when its screen context differs from the one it loaded, and at
`commit` for the title; renaming and deleting run in threads and take it for one
statement. `kept` is a history variable: the title last given by the user when no
turn was in flight that could undo it. The server runs one process
(`Dockerfile:12`).

## 3. The runs

Several invariants are conjunctions of named parts, given here in brackets.

| Run | Bounds | Shows |
|---|---|---|
| `kpi_concurrent` | 1 KPI, 2 approval requests, 2 jobs, no write starts at 2 version rows, 1 fault, fairness | `VerdictsAreInOrder` (`VerdictFirst`, `AnnouncedAfterClosed`), `LedgerIsSound` (`LedgerExplainsStatus`, `LedgerRowsLegal`), `ResolvedStaysResolved`, `GeneratedIsReviewed`; refines `ReviewContract` |
| `kpi_serial` | 2 KPIs in one event or two, 3 approval requests, 1 job, no write starts at 2 version rows in all, 1 fault, fairness | `SerialIsSound` (`OnePendingPerKpi`, `VersionCountsRows`, `ReviewIsQueued`) when requests come one at a time; `GeneratedIsReviewed`, with a worker that ends at its own event |
| `agent_stream` | 2 workers of one group, 2 streams of 2 entries, 2 deaths, fairness | `DeliveryIsSound` (`AtMostOnce`, `AckedWasHandled`, `NothingSkipped`, `LostOnlyByDeath`, `HandedOverInOrder`), `EveryEntryHandled` |
| `decision` | 1 insight, deleted and restored at will, 3 features, 1 worker, 2 requests, 2 faults, fairness | `DecisionsAreSound` (`AnchorHasOneMaker`, `TracesFollowRecord`), `P1NeedsExecutive`, `FinalForGood`, `AnchorIsCompleted` |
| `decision_undecided` | 2 insights, 1 worker, no fault, fairness | violation of `EveryInsightDecided` |
| `insight_feedback` | 2 users, 2 jobs, 3 requests, 2 periods with an insight and a third to come, 4 insights, 1 fault; lines of up to 7 months, levels and slopes -6 to 6, 3 or 4 months within 1 of a level | `DetectionIsSound` (`DuplicatesOverlap`, `SuppressedByTwo`), `NoVoteEscapes`, `BellsFollowVotes`, `AnomaliesAreJumps` |
| `live_feeds` | the fan-out on 2 streams and a client on 1, 2 users, 2 messages per stream, 2 starts, 1 account change, 1 fault, fairness | `FeedsAreSound` (`TailIsGapless`, `BellsOnceInOrder`), `AudienceIsNotified` |
| `catalog` | 2 connectors of one name, 3 datasets (two read one table), 2 KPIs, 1 leaf, 2 jobs, 4 requests, 3 days with a window of 1 | `CatalogIsSound` (`NothingOutlives`), `RestorableIsWhole`, `CardIsExact` (but for connectors one of whose datasets came alive while another request ran) |
| `dataset_pipeline` | 2 jobs, 3 extractions of 3 kinds (clean, thin, bad), 3 months, ages 0 and 72 hours, threshold 60, 2 requests, 2 batches of KPIs, 1 fault, fairness; sequences of 4 requests in 9 ticks | `SyncLeavesOrder` (`SyncSettles`), `KpisNeedAPass`, `FirstKpisCome`, `MonthsAreCovered`, `BurstAtMostTwice` |
| `dashboards` | 3 users, 2 dashboards, 2 widgets, 2 jobs, 3 requests, 1 fault; layouts of up to 6 KPIs | `ExecutivesAreFounders`, `ListingIsAccess`, `WritersAreEntitled` (`WritingStartsAtOwner`, `OnlyWritersWrite`), `SharingIsShown`, `LayoutsAreClean` |
| `reports` | 2 KPIs of 2 datasets, a manager and an analyst with a dashboard each, 2 jobs, 2 pieces of work, 1 change, 1 fault, 3 insights, cap 2, fairness; functions: a report reads 15 snapshots, series of up to 15 months with a second row of the first month, a deleted month computed again, and two rows without a period | `ReportsAreSound` (`ReportsAddUp`), `ReportSettles`, `MailGoesOut`, `ReadLeavesReceipt`, `MailAgreesWithReport` |
| `copilot` | 1 conversation, 2 requests at a time, 4 in all, 2 screen contexts, window of 3 messages, 2 of them for the classifier, 1 fault, fairness | `ConversationsAreSound` (`TitlesHaveSource`, `RenamesStay`), `RequestsEnd` |

**Why the bounds are enough.** The races are between two jobs at one row; every
pair of operations is explored at every interleaving of their steps. Jobs at
different KPIs share nothing but approval request identities and the event of
one generation, which `kpi_serial` covers with two KPIs: two are what it takes
for one request to be expired by the commit of the next, and three approval
requests leave one for a review after that. Two approval requests are what a
duplicate takes, two version rows what a renumbering takes. On the bus, two
workers and two streams of two entries give batches that span streams, batches
split between workers, and deaths with part of a batch. One insight and three
callers show every race for the anchor; the second insight of
`decision_undecided` is the rest of a batch. Of insights, two with votes and
two detections of a third period are what a suppression and a duplicate take;
three requests in any overlap are a vote, a generation and a vote between them,
or a vote, its retraction and the next vote. `MinFeedback` is 1 where the code
has 10: the properties are about which votes are counted, not how many it
takes. `FirstPeriod` periods stand for the history of three snapshots a
detection needs. Two starts are a restart of the fan-out half-way through an
event.

In `catalog` a window of one day in three is enough for a row to be deleted,
restored, deleted again and to expire while its parent is younger; four requests
are a delete and a restore at each of two levels, and the shared name and table
are the two ways in which subtrees meet. In `dataset_pipeline` the thin kind
scores just above the threshold when it is fresh and below it at 72 hours, so a
verdict changes with age alone; three extractions are two syncs that overlap
after an earlier one. In `dashboards` the three users have the three roles, or
there is nobody yet; a chain of grants is owner to guest to a third, whose
request may be checked before a revocation and committed after. Six KPIs take
the layout past its tile quota and into a third row. In `reports` the cap of 2
(200 in the code) is below the number of insights, and 1 stands for the 3 of
`Told` and the 5 of `Mailed`. Fifteen months pass the thirteenth value, which is
the one compared with, and with the other rows they pass the 15 snapshots that
stand for the 100 a report reads. `Limit`, `Window` and the ticks cover three windows. In
`copilot` conversations share only the loop, so one is enough; two turns hold
each other up, a third and a fourth request rename, delete, or talk past the
window.

`MaxRows`, `MaxEntries`, `MaxMessages`, `MaxFaults`, `MaxFailures`, `MaxDeaths`,
`MaxStarts`, `MaxBegun`, `MaxUpdates`, `MaxPeriods`, `MaxInsights`, `MaxClock`,
`MaxKpis`, `MaxChanges`, the number of approval requests (`ArLeft`) and the identities that can be used up
(`FreeLoad`, `FreeDashboard`, `Report`) are the only bounds in guards;
`MaxLevel`, `MaxJump`, `MaxAsked`, `Clock`, `Series` and `Anomalies` bound the inputs
of functions. The
runs switch deadlock checking off because a system nobody asks anything of, or
one that has used up a bound, stops.

**What the violation says.** `decision_undecided`: a worker that makes a
decision ends with the rest of its batch; even if somebody always restarts it,
those insights are never offered again. An insight that was deleted at some time
owes no decision and is no part of it.

**Stated, false of the code, and not run.** These definitions say what a
comment, a docstring or the design of the code promises, and TLC refutes them
when they are put into the configuration named.

| Property | Put into | What TLC shows |
|---|---|---|
| `StatusMovesLegally` | `KpiGovernanceConcurrent.cfg` | a certify and a reject both load a KPI in review; both commit, and a rejected KPI is certified (`crud/kpi.py:87`) |
| `OnePendingPerKpi` | `KpiGovernanceConcurrent.cfg` | two callers of `create_kpi_approval` both find nothing pending (`hitl_workflow_service.py:59`) |
| `HitlGoesOn` | `KpiGovernanceSerial.cfg` | the KPI agent fails to look up the request of one of its two KPIs and leaves it without one; the HITL worker finds that of the other, opens the missing one, whose commit expires what it found, and naming that ends the worker (`hitl_workflow_agent.py:73`) |
| `LifeCycle` | `DecisionPipeline.cfg` | an approval and a rejection both answer 200 and the later one stands (`routers/decisions.py:100`) |
| `NothingMissed` | `LiveFeeds.cfg` | a block that times out on a stream without a first message asks again from `"$"`, and what was published between the calls is behind it (`notification_fanout.py:189`) |
| `DescriptionIsOwn` | `Catalog.cfg` | the description of a table is one row for all datasets that read it: deleting one hides that of the other |
| `EveryMessageAnswered` | `Copilot.cfg` | a message with a new screen context waits for a model with the row of its session locked; the next message to the session blocks the event loop on that row, and the server stops (`copilot_service.py:176`) |
| `ClassifierSeesLatest` | `Copilot.cfg` | the history is the first 20 messages of the session, so past the tenth turn the classifier's "last 6" stay those of the eighth to the tenth (`copilot_service.py:192`, `intent_router.py:62`) |
| `GrowthIsNotDecline` | `InsightFeedback.cfg` | the slope is divided by the mean with its sign: -10, -8, -6, -4 is `trend_down` (`insight_math_service.py:135`, against its lines 9 and 10) |
| `SeriesIsMonthly` | `DatasetPipeline.cfg` | a row over all records has a period and joins the monthly series that detection reads |

**Facts the models keep to**, which a reader might take for slips:

* A receipt's data quality takes the score, 0 to 100, for a share and clamps it
  to 1 (`confidence_service.py:55`), so any score from 1 on counts as all.
* A report looks at the last 200 insights before it keeps those in scope, so a
  quiet scope can lose its insights to a busy one. A database error leaves a
  report generating: the session that would mark it failed cannot write
  (`database_fails`, excused in `ReportSettles`).
* A report reads the oldest 100 snapshots of a KPI (`crud/kpi.py:152`): past
  that it shows the hundredth as current while a mail shows the newest. A mail
  counts soft-deleted snapshots, a report does not. Where a row over all records
  begins with the first month a mail takes the two in any order, a report in the
  order of their computation. `MailAgreesWithReport` leaves these cases out, and
  says so in its hypotheses.
* A conversation renamed while its first message is being answered gets the
  message as its title. The two messages of a turn have one `created_at`, so
  their order in a listing is open.
* Two mail jobs that overlap send twice. A mail is about the dashboards its
  reader owns or outranks; shares do not count.
* The slower of two receipt builders overwrites the facts of the faster one.
* Two first signups at once are both executives, each with an organisation;
  `ExecutivesAreFounders` counts both.
* The wait a limited caller is told is cut to whole seconds and may end less
  than a second early. Between the clock's reading and the counter nothing is
  modelled.
* With floating point an exactly linear series of decimals leaves a residue
  that can be taken for spread, and so for a spike or dip; `InsightMath` is
  exact, and `AnomaliesAreJumps` is about the formula, not its rounding. A jump
  after exactly linear months is never an anomaly, since there is no spread.

**Over-approximations.** Two `trigger` requests of one server process cannot
interleave between the guard and the anchor, since nothing is awaited there;
the model lets them, as two server processes could. In `KpiGovernance`
a batch may be of any size and in any order, and what a poll gave the HITL
worker besides the event in hand is any part of the queue. `die` may
strike a worker between any two steps. In `InsightFeedback` two detections of
one process may overlap, as a request and the scheduled task can, and the
heuristic's weights are only known to lie in their interval. In `Dashboards` a
new dashboard may get any of the free widgets.

**Fairness.** `KpiGovernance`: a handler that has begun is run to its end
(`WF` of `Continue`), and the HITL worker takes up its events while it is in its
loop; it competes for a bounded number of jobs in the model, so its hand-over is
strongly fair. It leaves the loop when it is killed or the broker fails, and by
its own doing (`publish_raises`); from then on it is owed nothing, nobody has to
restart it, and `GeneratedIsReviewed` excuses what is still in its stream. What
the property does say of a worker that ends is about the event it ended with:
all requests of it have been opened by then. A crash is a fault and bounded.
Users owe nothing.
`AgentStream`: a live worker goes on polling, every worker is started once, and
a dead one is not restarted, since `run()` has no supervision and
`docker-compose.yml` gives no restart policy. `DecisionPipeline` instead lets a
dead worker be restarted always, which makes the violation of
`EveryInsightDecided` stronger: it is not for want of a restart. `LiveFeeds`: a
reader that runs goes on with its loop (`WF` of `Loop`), as both loops catch
what a call raises; nobody has to publish, start or stop, and a write is not
owed to succeed (`AudienceIsNotified` excuses a fault, a stop and an account
change). `DatasetPipeline`: what has begun goes on, and the workers and the
event loop take up what waits (one `WF`); requests, failures and crashes are
not owed. `Reports`: each piece of work goes on (`WF` of `Step`), which assumes
that the model and the mail server answer, with something or an error; the
model calls have no timeout of their own, so a call that never returns would
leave a report generating. `Copilot`: each request goes on unless it is blocked
(`WF` of `Proceed`), as the loop's queue is first in, first out and the models
answer or fail; a lock that is never released is owed nothing, which is what
`Stalled` names.

## 4. The proofs

Each proof module EXTENDS its component and proves it for every value of the
constants, from the component's assumption only, which TLC evaluates in the
runs. None of the invariants is inductive alone: a request writes without
looking again at what it checked, so the inductive invariant `IInv` of each
module says what a request in flight still knows. TLC checked each `IInv` on
its run's instance before it was proved.

| Property (a run checks it) | Theorem | For every |
|---|---|---|
| `TypeOK`, `VerdictsAreInOrder`, `LedgerIsSound`, `ResolvedStaysResolved` | `KpiGovernanceProofs`: `TypeCorrect`, `VerdictsAlwaysInOrder`, `LedgerAlwaysSound`, `ClosedForGood` | KPIs, approval requests, jobs, bounds |
| `ImplementsContract` | `KpiGovernanceProofs`: `Refinement` | the same |
| `SerialIsSound` | `KpiGovernanceProofs`: `SerialAlwaysSound` | the same, but one job at a time |
| `DeliveryIsSound` | `StreamAndReportProofs`: `DeliveryAlwaysSound` | streams, groups, workers, subscriptions, batch sizes, deaths |
| `FeedsAreSound` | `StreamAndReportProofs`: `FeedsAlwaysSound` | streams, readers, users, sizes of a read, restarts, failures |
| `ReportsAreSound` | `StreamAndReportProofs`: `ReportsAlwaysSound` | KPIs, datasets, users, dashboards, findings, caps, requests, failures |
| `MailAgreesWithReport` | `StreamAndReportProofs`: `MailAlwaysAgrees` | sets of snapshots within what a report reads, that limit, sizes of an anomaly |
| `DecisionsAreSound`, `P1NeedsExecutive`, `FinalForGood` | `DecisionPipelineProofs`: `DecisionsAlwaysSound`, `P1AlwaysNeedsExecutive`, `FinalStaysFinal` | insights, features, workers, requests, faults |
| `ExecutivesAreFounders`, `ListingIsAccess`, `WritersAreEntitled`, `SharingIsShown` | `DashboardsProofs`: `ExecutivesAlwaysFounders`, `ListingIsAlwaysAccess`, `WritersAlwaysEntitled`, `SharingAlwaysShown` | users, roles, dashboards, widgets, requests |
| `LayoutsAreClean` | `DashboardsProofs`: `LayoutsAlwaysClean` | numbers and kinds of KPIs |
| `CatalogIsSound`, `RestorableIsWhole`, `CardIsExact` | `CatalogProofs`: `CatalogAlwaysSound`, `RestorableAlwaysWhole`, `CardAlwaysExact` | trees of rows, names, tables, windows, requests |
| `DetectionIsSound`, `NoVoteEscapes`, `BellsFollowVotes` | `InsightFeedbackProofs`: `DetectionAlwaysSound`, `NoVoteEverEscapes`, `BellsAlwaysFollowVotes` | users, periods, insights, thresholds, similarities, requests |
| `AnomaliesAreJumps` | `InsightFeedbackProofs`: `AnomaliesAlwaysJumps` | levels, slopes, lengths of a line, spreads; snapshots needed up to 4, history needed up to 3, z threshold up to 2 |
| `SyncLeavesOrder`, `KpisNeedAPass`, `MonthsAreCovered` | `DatasetPipelineProofs`: `SyncAlwaysLeavesOrder`, `KpisAlwaysNeedAPass`, `MonthsAlwaysCovered` | kinds and numbers of loads, months, ages, thresholds, requests |
| `ConversationsAreSound` | `CopilotProofs`: `ConversationsAlwaysSound` | sessions, contexts, requests, windows |
| `BurstAtMostTwice` | `DatasetPipelineProofs`: `BurstAlwaysBounded`, from `BurstAlwaysAtMostTwice` and `WaitAlwaysSuffices` | limits, windows, clocks, sequences of requests |

`LedgerOnlyGrows` (`KpiGovernanceProofs`) is an action property that no run
repeats: while a KPI exists its version rows are only appended to.

**KpiGovernance.** `IInv` is `TInv` (types, and that a job at work is about a
KPI and its approval request about the same one), `Evidence` (past its write a
verdict's job has its verdict in `decided`; past the close its approval request
is closed; before the write the copy it carries passed the transition check),
`Traces` (`VerdictFirst`, `AnnouncedAfterClosed`) and `Ledgers`. `Evidence`
survives the steps of other jobs because verdicts are never taken back and a
closed request never reopens (`Monotone`). `LedgerSteps` reduces every step to
one of four shapes (nothing, a creation, an append with its outcome, a
deletion), from which the ledger invariants follow. `ContractStep` maps each
step to a step of the contract or to a stutter. `SerialAlwaysSound` has the
hypothesis `Alone`, that no two jobs exist at a time, which is what the `kpi_serial`
run has; without it the code does not keep the property (section 3). Its
invariant `Serial` adds that what the job has read is still true when it
writes, that nothing is pending when it inserts, and that a KPI in review is
pending, or is one the job is about to ask for.

**AgentStream.** What a group was given is what lies behind its cursors
(`CursorBehind`); a batch is part of the unacknowledged list, that list and the
attempted entries are part of what was given, and a handler returns only for
what it was entered with (`BookIsOrdered`); and of a worker's batch at most the
entry in hand has been attempted (`WorkersOK`). `HandedOverInOrder` needs all
of it: a poll gives out the next entries of each stream, and a worker takes the
oldest of its batch first. The assumption has that a group subscribes to a
stream once, since the streams of a poll are the keys of a dict
(`messaging.py:90`).

**LiveFeeds.** `ReadersOK` says where a reader stands in its response: each block
is of a watched stream and of no other block's, ends within what was published,
and goes on from the position, at it while the message in hand is being written
and past it before; and a blocked reader is at the end of every stream it has a
position on, so the message that wakes it is the next one. That carries
`TailIsGapless`. For the bells, `BellsOK` keeps every bell of a user behind the
fan-out: behind its position on the stream, and while it has none, or writes to
that very user, behind what it has in its response. It survives a restart since
a reader that starts asks for what is published after its call, and it is the
reason for two clauses of the assumption: there is one fan-out at a time, the
task of the application's lifespan, and a read names finitely many streams. Two
fan-outs would ring twice.

**Reports and receipts.** `ReportsInv` has the contents of a report as one set,
`Contents`: what `ReportData` makes of some KPIs and of insights about these. A
task holds KPIs after its first read and a member of `Contents` after the second
(`WorkOK`), whatever is reviewed, detected, deleted or restored between the two,
and a page has a member of `Contents` when and only when it is ready (`PagesOK`).
`ContentsAddUp` then proves `ReportsAddUp` of every member, so the parts agree
for any number of insights and any cap. It needs that a KPI with an insight has
a latest one (`LatestExists`, by a minimal counterexample) and that every
category is one of five. A receipt under way is about an insight that there is;
that its confidence is a percentage is `ScoreIsPercentage`, four bounded shares
and their weights.

**ReportContent.** As long as no row is deleted and there are no more than a
report reads, it reads them all (`AllAreRead`, from `FewerThan`: what comes
before a row is fewer than all of them). A row that may stand at a place counted
back from the report's end may stand there in the mail's newest-first list
(`SamePlace`), since the mail's order leaves open what the report's decides, and
with distinct periods the two orders are one. `FetchedValues` says what the list
holds at each place: these values when the limit reaches there, none otherwise.

**DecisionPipeline.** `RecordsOK` ties status and type to the priority, which
is what the rules make of the insight (`PriorityRule`); `JobsOK` says what the
program counter of a worker or request tells of its row: the one that completes
an anchor finds it pending, a verdict only comes back to one that awaited
approval. `OneMaker` is the unique insert, `PendingIsMade` that without a fault
a pending row has its maker. `LifeCycleOfOneJudge` is the life of a decision as the comment on
its status column has it (`LifeCycle`), under the hypothesis `OneJudge`, that no
two requests are at a verdict on the same decision: without it both find the
decision awaiting approval, and the later verdict replaces the earlier. Its
invariant `JudgesOK` is that a request at its verdict finds the decision still
awaiting approval.

**Accounts and Dashboards.** A signup that will make an executive saw no user,
and a request that changes a user changes none who is an executive, nor makes
one (`AccountJobOK`): this is what makes executives and founders one. A request
about a dashboard names one its actor has been able to write, and a widget that
is on it or gone (`BoardJobOK`), whatever has been revoked since; who can write
now is among those who ever could (`WritersOK`). `ListingIsAccess` needs no
invariant beyond types; it is an equality of two code paths. The assumption has
that there are finitely many executives to begin with (the organisations are
counted) and that the two null values differ.

**DashboardLayout.** `Clean` is the invariant of the loop: each widget lies above
the row, or in it and left of where the next one goes (`Packed`), no two overlap,
and the two counters are the numbers of tiles and of promoted charts so far. A
turn of the loop keeps it (`PlaceKeepsClean`), as the row is as high as its
highest widget. That it holds after every turn is an induction over a set of
numbers, those after which the layout is clean (`InductiveSet`, from the
well-foundedness of the naturals), since the provers cannot do one over a
formula; `LayoutsByTurns` shows in the same way that the loop's function exists.

**Catalog.** The heart is what a cascade that has collected and not stamped yet
knows (`StampOK`): whatever under its target it will miss came alive while both
were under way, so it is in `hurried`; `RestoreOK` is the same for a restore.
`AllMet` says that of two requests under way both count as having met another.
With days that pass only while nothing runs, a row is never deleted later than
what it hangs on (`NothingOutlives`), and what a deletion took is not purged
before it (`TakenOK`): every row between a taken row and the target was deleted
no earlier. The proof corrected two
properties, which TLC's bounds had let pass: a restore of a connector that
overtakes the deletion of one of its datasets brings the dataset back without
its KPIs (`connector_service.py:223-270`). So the card of an archived connector
can count KPIs that a restore does not bring back (three requests at a time,
seven in all), which `CardIsExact` now excepts, and `taken` has to be reset by a
restore (`RestorableIsWhole`, two at a time, five in all).

**InsightFeedback.** `RoomIsLeft` reserves a place for each insight being
narrated. `BatchesAreWhole` is the strengthening behind `NoVoteEscapes`: a
generation that awaits its model will, once stored, have accounted for every
vote that is not younger than itself, those counted as late included, and
`WritesAreSeen` that no vote still to be written is older than the cut-off
without having been noted. `BellsOK` follows the one request of a user who
waits for each answer through its steps (`Told`): before the write its bell
rows tell the vote that stands, after it they will by its end.

**DatasetPipeline.** `Fresh` is what a job that has met no other has read and
still holds: the rows it will replace, the score over the rows that are there,
the months it has left; `MetOK` makes it survive, since of two jobs under way
both have met. `Settled` is the verdict: unless something was marred, or a sync
has brought rows and not judged them, the rows are those of one load and status
and score are theirs. `LetThrough` follows a pass from the check to the event
and the task to the model, and `PassedOn` is its part about the events and
tasks nobody has begun: a quarantine takes the justification back only when it
finds neither of these nor another job, so nothing is left that would need it.
A request for KPIs needs none, and leads to no event and no task. That the
minimum and maximum of finitely many months exist is proved by a minimal
counterexample, from the well-foundedness of the naturals. The proof showed
that the initial state gave an empty load a score it does not have in the code,
where completeness is 0 without rows (`data_quality_service.py:109`); it now
uses the same formula (`measured`).

**Copilot.** A title that a turn has found is never taken away (`TitlesLast`),
and while a turn is under way that has found none, no title of the user counts
as kept (`UndoableIsNotKept`); a locked row is locked by a turn past its flush
(`LocksOK`).

**InsightMath.** The code's sums are one recursive function, `Partials`. That
such a function exists, and that two of them add up (`Combines`), is an
induction, which the library's theorems cannot be instantiated for; it is done
on a set instead, from the well-foundedness of the naturals (`InductiveSet`).
With it the residuals of a line are zero for every length (`LineFits`), so there
is no spread to be far from. For three and four months the residuals are
multiples of one and two quantities of the series (`ResidualsOfThree`,
`ResidualsOfFour`); a far value's deviation exceeds them linearly, and `Squares`
carries that over to the variance. A z threshold of 2, and 4 times the spread,
are what the code's constants and these lengths allow: `MathAssumption` bounds
the thresholds, and the code's 3, 3 and 2.0 lie in it.

**RateLimit.** The last request admitted in a window has found all of them in
its counter, so they are no more than the limit (`OfOneWindow`), and any time of
a window's length meets two windows. The requests need not come in the order of
their clocks, as in the run. The section stands in `DatasetPipelineProofs`,
where the greatest element of a finite set of numbers is; the generation and
recomputation of KPIs are among the limited requests. The two theorems it rests
on hold of any natural number as a time, not only of the members of `Clock`.

**Only model-checked** is liveness, since fairness is out of the prover's
reach: `GeneratedIsReviewed`, `EveryEntryHandled`, `AnchorIsCompleted`,
`AudienceIsNotified`, `FirstKpisCome`, `ReportSettles`, `MailGoesOut`,
`ReadLeavesReceipt`, `RequestsEnd`.

Every other invariant and action property of a passing run is a theorem.

## 5. Not modelled

* **KPI review**: the overdue listing and its events and `advance_stage` (no
  second stage exists).
* **Decisions**: owner role and due date (configuration lookups), the unrouted
  batch backfill.
* **Insights**: rolling averages, the narration, the replay of insights to a
  client that reconnects, comments on feedback, the 90 days a score looks back.
* **Feeds**: the filter of the dashboard stream by user.
* **Datasets and connectors**: previews and listings, types of cells, sync
  logs, schema fingerprints, connection tests, browsing of source tables,
  uploads, the SQL drivers, the issues listed on a scorecard.
* **Snapshots**: the evaluation of a formula, abstracted to the months it
  breaks on.
* **Dashboards**: pins, categories and their backfill, the data of a widget,
  which is a query.
* **Users**: the linking of a Google subject to an account, passwords, tokens.
* **Reports**: titles, formats, headline metrics, the prompt;
  `_shape_weekly` and `_shape_monthly` of `report_scheduler.py` have no caller.
* **Rate limit**: the choice of tier and caller, the parsing of a rate.
* **Copilot**: what its handlers read and prompt and the SQL they generate, the
  pool of connections, of which each turn holds one while it waits, the listings.
* **Retrieval, e-mail, OAuth, encryption, tracing**: I/O or library code.
* **Schemas, migrations, scripts, seeds**: declarations and one-off scripts.
