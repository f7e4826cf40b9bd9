-------------------------- MODULE DecisionPipeline --------------------------
(***************************************************************************)
(* From a detected insight to an executive's verdict:                      *)
(* app/services/decision_service.py, app/crud/decision.py,                 *)
(* app/agents/decision_agent.py and app/routers/decisions.py, on top of    *)
(* the event bus of AgentStream.                                           *)
(*                                                                         *)
(* make_decision is run by a worker of the decision agent for an           *)
(* insight_detected event, or by POST /decisions/trigger; both can be at   *)
(* it for the same insight.  Its anchor (a pending row) is committed       *)
(* before the language model is awaited, the outcome after.                *)
(*                                                                         *)
(* A session whose last commit expired the record is closed before the     *)
(* worker reads it: for a decision it has just made the handler raises,    *)
(* and only for one it found is anything published.                        *)
(***************************************************************************)
EXTENDS Naturals, Sequences, FiniteSets

CONSTANTS
    Insight,    \* identities of insight events
    Feature,    \* what the rules look at: anomaly, severity, steep
    Worker,     \* workers of the decision agent
    Req,        \* HTTP requests that can run at the same time
    NoInsight,
    MaxFaults   \* bound: crashes and swallowed failures in a behaviour

ASSUME DecisionAssumption ==
    /\ Worker \cap Req = {}
    /\ NoInsight \notin Insight \cup Feature
    /\ Feature \subseteq [anomaly : BOOLEAN, severity : {"critical", "warning", "info"},
                          steep : BOOLEAN]
    /\ MaxFaults \in Nat

VARIABLES
    insight,    \* insight_events: the features of a row, or none
    hidden,     \* the insights that are deleted, and their decisions with them
    record,     \* decision_records, one per insight
    job,        \* the requests and handlers in flight
    audit,      \* audit_logs, decision.<action>: <<action, insight>>
    announced,  \* events published: <<type, insight, status in the payload>>
    faults,
    entries, groups, cursor, pel, worker, attempted, returned, deaths

busVars == <<entries, groups, cursor, pel, worker, attempted, returned, deaths>>
tables == <<insight, hidden, record, audit>>
vars == <<insight, hidden, record, job, audit, announced, faults, busVars>>

Channel == "insight_detected"

\* Each insight is published once at most; a worker dies of an entry or of a fault.
Bus == INSTANCE AgentStream WITH
    Message <- Insight,
    Stream <- {Channel},
    Group <- {"decision-agent"},
    GroupOf <- [w \in Worker |-> "decision-agent"],
    Subscribed <- [g \in {"decision-agent"} |-> <<Channel>>],
    Count <- 10,
    MaxEntries <- Cardinality(Insight),
    MaxDeaths <- Cardinality(Insight) + MaxFaults

Proc == Worker \cup Req
Priority == {"P1", "P2", "P3"}
ActionType == {"monitor", "investigate", "optimize", "escalate"}
DecisionType == {"approval_required", "corrective", "preventive", "informational"}
Status == {"pending", "decided", "awaiting_approval", "approved", "rejected"}

NoRecord == [status |-> "none", priority |-> "P3", type |-> "none"]
Record == [status : Status, priority : Priority, type : DecisionType \cup {"none"}]
Step == {"idle", "emit", "guard", "anchor", "update", "audit", "announce", "escalate", "done",
         "approved", "rejected", "audit_approved", "audit_rejected"}
Job == [pc : Step, insight : Insight \cup {NoInsight}, seen : Record \cup {NoRecord}]
Idle == [pc |-> "idle", insight |-> NoInsight, seen |-> NoRecord]

TypeOK ==
    /\ insight \in [Insight -> Feature \cup {NoInsight}]
    /\ hidden \subseteq Insight
    /\ record \in [Insight -> Record \cup {NoRecord}]
    /\ job \in [Proc -> Job]
    /\ audit \subseteq {"created", "approved", "rejected"} \X Insight
    /\ announced \subseteq {"decision_made", "decision_approval_required"} \X Insight \X Status
    /\ faults \in 0 .. MaxFaults

Init ==
    /\ insight = [i \in Insight |-> NoInsight]
    /\ hidden = {}
    /\ record = [i \in Insight |-> NoRecord]
    /\ job = [p \in Proc |-> Idle]
    /\ audit = {}
    /\ announced = {}
    /\ faults = 0
    /\ Bus!Init

-----------------------------------------------------------------------------
(* The rule engine *)

derive_priority_by_severity(f) == \* mutant: the anomaly flag is not looked at
    IF f.severity = "critical" THEN "P1"
    ELSE IF f.severity = "warning" \/ f.steep THEN "P2" ELSE "P3"

\* First match wins.
derive_priority(f) ==
    CASE f.anomaly /\ f.severity = "critical" -> "P1"
      [] f.anomaly /\ f.severity = "warning"  -> "P2"
      [] ~ f.anomaly /\ f.steep               -> "P2"
      [] OTHER                                -> "P3"

\* action is "none" when the language model gave no usable answer.
derive_decision_type(priority, action) ==
    CASE priority = "P1"                                            -> "approval_required"
      [] priority = "P2" /\ action \in {"investigate", "optimize"}  -> "corrective"
      [] priority = "P3" /\ action = "optimize"                     -> "preventive"
      [] OTHER                                                      -> "informational"

-----------------------------------------------------------------------------
(* Helpers *)

At(p, pc) == job[p].pc = pc
Goto(p, pc) == job' = [job EXCEPT ![p].pc = pc]
Finish(p) == job' = [job EXCEPT ![p] = Idle]

\* How make_decision ends without a decision of its own: a handler returns to
\* the poll loop, a request answers.
Leave(p) == IF p \in Worker THEN Goto(p, "done") ELSE Finish(p)

-----------------------------------------------------------------------------
(* Detection, as far as the decision pipeline sees it *)

detect(r, i, f) ==
    /\ At(r, "idle")
    /\ insight[i] = NoInsight
    /\ insight' = [insight EXCEPT ![i] = f]
    /\ job' = [job EXCEPT ![r] = [Idle EXCEPT !.pc = "emit", !.insight = i]]
    /\ UNCHANGED <<hidden, record, audit, announced, faults, busVars>>

\* The catalog deletes an insight with its dataset, and its decision with it,
\* and brings both back.
delete_dataset(i) ==
    /\ insight[i] # NoInsight
    /\ hidden' = hidden \cup {i}
    /\ UNCHANGED <<insight, record, job, audit, announced, faults, busVars>>

restore_dataset(i) ==
    /\ hidden' = hidden \ {i}
    /\ UNCHANGED <<insight, record, job, audit, announced, faults, busVars>>

\* The insight is committed; telling the agents about it is best effort.
publish_insight(r) ==
    /\ At(r, "emit")
    /\ Finish(r)
    /\ \/ Bus!publish(Channel, job[r].insight) /\ UNCHANGED faults
       \/ /\ faults < MaxFaults
          /\ faults' = faults + 1
          /\ UNCHANGED busVars
    /\ UNCHANGED <<tables, announced>>

-----------------------------------------------------------------------------
(* Deciding *)

\* POST /decisions/trigger/{insight_id}: make_decision finds out whether the
\* insight is there; one that never was is the same as no request.
trigger_decision(r, i) ==
    /\ At(r, "idle")
    /\ insight[i] # NoInsight
    /\ job' = [job EXCEPT ![r] = [Idle EXCEPT !.pc = "guard", !.insight = i]]
    /\ UNCHANGED <<tables, announced, faults, busVars>>

\* DecisionAgent.handle_event is entered with the next entry of the batch.
handle_event(w) ==
    /\ Bus!enter_handler(w)
    /\ \E e \in Bus!Entry :
           /\ Bus!IsCurrent(w, e)
           /\ job' = [job EXCEPT ![w] = [Idle EXCEPT !.pc = "guard",
                                                     !.insight = entries[Channel][e[2]]]]
    /\ UNCHANGED <<tables, announced, faults>>

\* make_decision, step 1: a record that exists, in whatever status, is returned
\* as it was read.
get_decision_by_insight(p) ==
    /\ At(p, "guard")
    /\ LET i == job[p].insight
       IN  IF record[i] = NoRecord \/ i \in hidden THEN Goto(p, "anchor")
           ELSE IF p \in Worker
           THEN job' = [job EXCEPT ![p].pc = "announce", ![p].seen = record[i]]
           ELSE Finish(p)
    /\ UNCHANGED <<tables, announced, faults, busVars>>

create_decision_upsert(p) == \* mutant: no unique constraint on insight_event_id
    /\ At(p, "anchor")
    /\ LET i == job[p].insight
       IN  record' = [record EXCEPT ![i] = [status |-> "pending", type |-> "none",
                                            priority |-> derive_priority(insight[i])]]
    /\ Goto(p, "update")
    /\ UNCHANGED <<insight, hidden, audit, announced, faults, busVars>>

create_decision_abandoned(p) == \* mutant: the caller stops at its anchor
    /\ At(p, "anchor")
    /\ LET i == job[p].insight
       IN  record' = IF i \in hidden \/ record[i] # NoRecord THEN record
                     ELSE [record EXCEPT ![i] = [status |-> "pending", type |-> "none",
                                                 priority |-> derive_priority(insight[i])]]
    /\ Leave(p)
    /\ UNCHANGED <<insight, hidden, audit, announced, faults, busVars>>

\* Steps 2 to 6, the anchor.  There is nothing to decide when the insight is not
\* found.  insight_event_id is unique: the later of two inserts fails, which a
\* handler logs and a request answers with 500.
create_decision(p) ==
    /\ At(p, "anchor")
    /\ LET i == job[p].insight
       IN  IF i \in hidden \/ record[i] # NoRecord THEN Leave(p) /\ UNCHANGED record
           ELSE /\ record' = [record EXCEPT ![i] =
                       [status |-> "pending", type |-> "none",
                        priority |-> derive_priority(insight[i])]]
                /\ Goto(p, "update")
    /\ UNCHANGED <<insight, hidden, audit, announced, faults, busVars>>

\* Steps 7 to 9: the language model has answered, or has not; either way the
\* row is completed, by primary key.
update_decision(p) ==
    /\ At(p, "update")
    /\ \E action \in ActionType \cup {"none"} :
           LET i == job[p].insight
               priority == record[i].priority
           IN  record' = [record EXCEPT ![i] =
                   [status |-> IF priority = "P1" THEN "awaiting_approval" ELSE "decided",
                    priority |-> priority,
                    type |-> derive_decision_type(priority, action)]]
    /\ Goto(p, "audit")
    /\ UNCHANGED <<insight, hidden, audit, announced, faults, busVars>>

AuditOrNot(p, action) ==
    \/ audit' = audit \cup {<<action, job[p].insight>>} /\ UNCHANGED faults
    \/ /\ faults < MaxFaults
       /\ faults' = faults + 1
       /\ UNCHANGED audit

\* The audit record is written, or is rolled back and swallowed: both expire
\* the decision.  A request's session is open and loads it again; the handler
\* has closed its session, so it raises, and the worker ends with its batch.
record_audit(p) ==
    /\ At(p, "audit")
    /\ AuditOrNot(p, "created")
    /\ Finish(p)
    /\ IF p \in Worker THEN Bus!die(p) ELSE UNCHANGED busVars
    /\ UNCHANGED <<insight, hidden, record, announced>>

\* A decision that was found is announced as it was read.
publish_decision_made(w) ==
    /\ At(w, "announce")
    /\ announced' = announced \cup {<<"decision_made", job[w].insight, job[w].seen.status>>}
    /\ Goto(w, IF job[w].seen.priority = "P1" THEN "escalate" ELSE "done")
    /\ UNCHANGED <<tables, faults, busVars>>

publish_approval_required(w) ==
    /\ At(w, "escalate")
    /\ announced' = announced \cup
           {<<"decision_approval_required", job[w].insight, job[w].seen.status>>}
    /\ Goto(w, "done")
    /\ UNCHANGED <<tables, faults, busVars>>

handler_returns(w) ==
    /\ At(w, "done")
    /\ Bus!handler_returns(w)
    /\ Finish(w)
    /\ UNCHANGED <<tables, announced, faults>>

-----------------------------------------------------------------------------
(* The executive *)

get_decision_unchecked(r, i, verdict) == \* mutant: any decision can be approved
    /\ At(r, "idle")
    /\ i \notin hidden
    /\ record[i] # NoRecord
    /\ job' = [job EXCEPT ![r] = [Idle EXCEPT !.pc = verdict, !.insight = i]]
    /\ UNCHANGED <<tables, announced, faults, busVars>>

\* POST /decisions/{id}/approve and /reject: the status is checked on the row
\* as loaded.
get_decision(r, i, verdict) ==
    /\ At(r, "idle")
    /\ i \notin hidden
    /\ record[i].status = "awaiting_approval"
    /\ job' = [job EXCEPT ![r] = [Idle EXCEPT !.pc = verdict, !.insight = i]]
    /\ UNCHANGED <<tables, announced, faults, busVars>>

Audit(verdict) == IF verdict = "approved" THEN "audit_approved" ELSE "audit_rejected"

\* Written by primary key, whatever the row has become.
approve_or_reject(r, verdict) ==
    /\ At(r, verdict)
    /\ record' = [record EXCEPT ![job[r].insight].status = verdict]
    /\ Goto(r, Audit(verdict))
    /\ UNCHANGED <<insight, hidden, audit, announced, faults, busVars>>

\* Under the verdict this request gave, which the row may not hold any more.
audit_verdict(r, verdict) ==
    /\ At(r, Audit(verdict))
    /\ AuditOrNot(r, verdict)
    /\ Finish(r)
    /\ UNCHANGED <<insight, hidden, record, announced, busVars>>

-----------------------------------------------------------------------------
(* Failure *)

\* An error inside make_decision: the handler logs it and returns, so the
\* event is acknowledged all the same.
processing_failed(w) ==
    /\ faults < MaxFaults
    /\ job[w].pc \in {"guard", "anchor", "update"}
    /\ faults' = faults + 1
    /\ Goto(w, "done")
    /\ UNCHANGED <<tables, announced, busVars>>

\* A request ends with an error, or its process does.
request_failed(r) ==
    /\ faults < MaxFaults
    /\ job[r].pc # "idle"
    /\ faults' = faults + 1
    /\ Finish(r)
    /\ UNCHANGED <<tables, announced, busVars>>

\* A worker is killed, or the broker fails it in a publish, a poll or an
\* acknowledgement.
worker_died(w) ==
    /\ faults < MaxFaults
    /\ faults' = faults + 1
    /\ Bus!die(w)
    /\ Finish(w)
    /\ UNCHANGED <<tables, announced>>

-----------------------------------------------------------------------------
Poll(w) ==
    /\ Bus!poll_once(w) \/ Bus!xack(w)
    /\ UNCHANGED <<tables, job, announced, faults>>

Deploy(w) ==
    /\ Bus!ensure_consumer_groups(w)
    /\ UNCHANGED <<tables, job, announced, faults>>

Decide(p) ==
    \/ get_decision_by_insight(p)
    \/ create_decision(p)
    \/ update_decision(p)
    \/ record_audit(p)

Serve(r) ==
    \/ publish_insight(r)
    \/ Decide(r)
    \/ \E verdict \in {"approved", "rejected"} :
           approve_or_reject(r, verdict) \/ audit_verdict(r, verdict)

Handle(w) ==
    \/ handle_event(w)
    \/ Decide(w)
    \/ publish_decision_made(w)
    \/ publish_approval_required(w)
    \/ handler_returns(w)

Start(r) ==
    \/ \E i \in Insight, f \in Feature : detect(r, i, f)
    \/ \E i \in Insight : trigger_decision(r, i)
    \/ \E i \in Insight, verdict \in {"approved", "rejected"} : get_decision(r, i, verdict)

Next ==
    \/ \E i \in Insight : delete_dataset(i) \/ restore_dataset(i)
    \/ \E r \in Req : Start(r) \/ Serve(r) \/ request_failed(r)
    \/ \E w \in Worker : \/ Deploy(w)
                          \/ Poll(w)
                          \/ Handle(w)
                          \/ processing_failed(w)
                          \/ worker_died(w)

Spec == Init /\ [][Next]_vars

\* The server finishes the requests it has begun, a worker that runs goes on,
\* and one that is down is started again, by whoever looks after it.
FairSpec ==
    /\ Spec
    /\ \A r \in Req : WF_vars(Serve(r))
    /\ \A w \in Worker : WF_vars(Deploy(w) \/ Poll(w) \/ Handle(w))

-----------------------------------------------------------------------------
(* Properties *)

Exists(i) == record[i] # NoRecord
Final == {"decided", "approved", "rejected"}
Makers(i) == {p \in Proc : At(p, "update") /\ job[p].insight = i}

\* An anchored decision belongs to the one caller that anchored it: of a
\* worker and requests that decide the same insight at once exactly one gets
\* past the insert, it finds the row pending still, and a pending row that
\* has no maker any more was left by a failure.
AnchorHasOneMaker ==
    \A i \in Insight :
        /\ Cardinality(Makers(i)) <= 1
        /\ Makers(i) # {} => record[i].status = "pending"
        /\ record[i].status = "pending" /\ faults = 0 => Makers(i) # {}

\* No P1 decision takes effect without an executive, and no other decision is
\* ever put before one.
P1NeedsExecutive ==
    \A i \in Insight : Exists(i) =>
        LET P1 == insight[i].anomaly /\ insight[i].severity = "critical"
        IN  /\ record[i].status = "decided" => ~ P1
            /\ record[i].status \in {"awaiting_approval", "approved", "rejected"} => P1
            /\ record[i].status # "pending" => (record[i].type = "approval_required") = P1

\* An audit record or an event never runs ahead of the table it speaks of,
\* and only a P1 decision is announced as one that needs approval.
TracesFollowRecord ==
    /\ \A a \in audit :
           IF a[1] = "created" THEN record[a[2]].status \notin {"none", "pending"}
           ELSE record[a[2]].status \in {"approved", "rejected"}
    /\ \A e \in announced :
           /\ Exists(e[2])
           /\ e[1] = "decision_approval_required" => record[e[2]].priority = "P1"

\* What the table of decisions and its traces say at any time: one maker for each
\* decision, and no trace ahead of its record.
DecisionsAreSound == TypeOK /\ AnchorHasOneMaker /\ TracesFollowRecord

\* A decision that was final stays final, and its priority and type stand:
\* late makers, second verdicts and replays cannot reopen it.
FinalForGood ==
    [][\A i \in Insight : record[i].status \in Final =>
          /\ record'[i].priority = record[i].priority
          /\ record'[i].type = record[i].type
          /\ IF record[i].status = "decided" THEN record'[i].status = "decided"
             ELSE record'[i].status \in {"approved", "rejected"}]_vars

\* An anchor is completed, whatever the language model does, unless something
\* failed.
AnchorIsCompleted ==
    \A i \in Insight : record[i].status = "pending" ~>
                          (record[i].status # "pending" \/ faults > 0)

\* The life cycle in the comment on DecisionRecord.status: in particular a
\* verdict is given once.
LifeCycle ==
    [][\A i \in Insight : record'[i].status # record[i].status =>
          <<record[i].status, record'[i].status>> \in
              {<<"none", "pending">>, <<"pending", "decided">>,
               <<"pending", "awaiting_approval">>, <<"awaiting_approval", "approved">>,
               <<"awaiting_approval", "rejected">>}]_vars

\* The worker consumes insight_detected events and produces decision records:
\* every insight that is published is decided, unless it is deleted at some time.
EveryInsightDecided ==
    \A i \in Insight : <>(\E n \in DOMAIN entries[Channel] : entries[Channel][n] = i)
                          => <>(record[i].status \notin {"none", "pending"} \/ i \in hidden)
=============================================================================
