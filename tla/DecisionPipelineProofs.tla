------------------------- MODULE DecisionPipelineProofs -------------------------
(***************************************************************************)
(* Proofs about DecisionPipeline for every set of insights, workers and    *)
(* requests and every bound on faults.                                     *)
(***************************************************************************)
EXTENDS DecisionPipeline, FiniteSetTheorems, TLAPS

(* The inductive invariant *)

ToApprove == {"awaiting_approval", "approved", "rejected"}

\* What the bus carries was detected, and a batch holds entries that exist.
BusOK ==
    /\ entries \in [{Channel} -> Seq(Insight)]
    /\ worker \in [Worker -> [state : Bus!WorkerState, batch : SUBSET Bus!Entry]]
    /\ \A n \in DOMAIN entries[Channel] : insight[entries[Channel][n]] # NoInsight
    /\ \A w \in Worker : \A e \in worker[w].batch : e[2] \in DOMAIN entries[Channel]

\* A record is of a detected insight, has its priority, and is what the rules
\* make of that priority.
RecordOK(i) ==
    Exists(i) =>
        /\ insight[i] # NoInsight
        /\ record[i].priority = derive_priority(insight[i])
        /\ record[i].status = "decided" => record[i].priority # "P1"
        /\ record[i].status \in ToApprove => record[i].priority = "P1"
        /\ record[i].status # "pending" =>
               (record[i].type = "approval_required" <=> record[i].priority = "P1")
RecordsOK == \A i \in Insight : RecordOK(i)

\* Where a handler or a request is tells what the row it works on has become.
JobOK(p) ==
    LET i == job[p].insight
    IN  job[p].pc # "idle" =>
            /\ p \in Worker => worker[p].state = "handling"
            /\ i \in Insight /\ insight[i] # NoInsight
            /\ job[p].pc = "update" => record[i].status = "pending"
            /\ job[p].pc = "audit" => record[i].status \notin {"none", "pending"}
            /\ job[p].pc \in {"approved", "rejected"} => record[i].status \in ToApprove
            /\ job[p].pc \in {"audit_approved", "audit_rejected"} =>
                   record[i].status \in {"approved", "rejected"}
            /\ job[p].pc \in {"announce", "escalate"} =>
                   /\ job[p].seen # NoRecord
                   /\ Exists(i)
                   /\ job[p].seen.priority = record[i].priority
            /\ job[p].pc = "escalate" => job[p].seen.priority = "P1"
JobsOK == \A p \in Proc : JobOK(p)

OneMaker == \A p, q \in Proc : At(p, "update") /\ At(q, "update") /\ job[p].insight = job[q].insight
                               => p = q
PendingIsMade ==
    faults = 0 => \A i \in Insight : record[i].status = "pending" =>
                      \E p \in Proc : At(p, "update") /\ job[p].insight = i

IInv ==
    /\ TypeOK /\ BusOK /\ RecordsOK /\ JobsOK
    /\ OneMaker /\ PendingIsMade /\ TracesFollowRecord

-----------------------------------------------------------------------------
(* The rule engine *)

\* P1 is an anomaly of critical severity and nothing else.
LEMMA PriorityRule ==
  ASSUME NEW f \in Feature
  PROVE  /\ derive_priority(f) \in Priority
         /\ derive_priority(f) = "P1" <=> f.anomaly /\ f.severity = "critical"
  BY DecisionAssumption DEF derive_priority, Priority

\* A decision of type approval_required is a P1, whatever the model answers.
LEMMA TypeRule ==
  ASSUME NEW priority \in Priority, NEW action \in ActionType \cup {"none"}
  PROVE  /\ derive_decision_type(priority, action) \in DecisionType
         /\ derive_decision_type(priority, action) = "approval_required" <=> priority = "P1"
  BY DEF derive_decision_type, Priority, DecisionType, ActionType

-----------------------------------------------------------------------------
(* What a step does to a record *)

Anchored(i) == [status |-> "pending", type |-> "none", priority |-> derive_priority(insight[i])]
Completed(i, action) ==
    [status |-> IF record[i].priority = "P1" THEN "awaiting_approval" ELSE "decided",
     priority |-> record[i].priority,
     type |-> derive_decision_type(record[i].priority, action)]

Moves(i) ==
    \/ record'[i] = record[i]
    \/ record[i] = NoRecord /\ insight[i] # NoInsight /\ record'[i] = Anchored(i)
    \/ /\ record[i].status = "pending"
       /\ \E action \in ActionType \cup {"none"} : record'[i] = Completed(i, action)
    \/ /\ record[i].status \in ToApprove
       /\ \E verdict \in {"approved", "rejected"} :
              record'[i] = [record[i] EXCEPT !.status = verdict]

LEMMA MoveFacts ==
  ASSUME IInv, NEW i \in Insight, Moves(i),
         insight[i] # NoInsight => insight'[i] = insight[i]
  PROVE  /\ record'[i] \in Record \cup {NoRecord}
         /\ RecordOK(i)'
         /\ Exists(i) => Exists(i)' /\ record'[i].priority = record[i].priority
         /\ record[i].status \notin {"none", "pending"} =>
                record'[i].status \notin {"none", "pending"} /\ record'[i].type = record[i].type
         /\ record[i].status \in ToApprove => record'[i].status \in ToApprove
         /\ record[i].status \in {"approved", "rejected"} =>
                record'[i].status \in {"approved", "rejected"}
         /\ record[i].status = "decided" => record'[i] = record[i]
         /\ record'[i].status = "pending" => record'[i] = record[i] \/ record[i] = NoRecord
<1> USE DEF IInv
<1>1. record[i] \in Record \cup {NoRecord} /\ RecordOK(i) /\ insight[i] \in Feature \cup {NoInsight}
  BY DEF TypeOK, RecordsOK
<1>2. \A r \in Record : r # NoRecord /\ r.status # "none" /\ r.priority \in Priority /\ r.status \in Status
  BY DEF Record, NoRecord, Status
<1>3. NoRecord.status = "none"
  BY DEF NoRecord
<1>4. CASE record'[i] = record[i]
  BY <1>1, <1>4 DEF RecordOK, Exists
<1>5. CASE record[i] = NoRecord /\ insight[i] # NoInsight /\ record'[i] = Anchored(i)
  <2>1. derive_priority(insight[i]) \in Priority /\ insight'[i] = insight[i]
    BY <1>1, <1>5, PriorityRule
  <2>2. /\ record'[i] \in Record /\ record'[i].status = "pending"
        /\ record'[i].priority = derive_priority(insight[i])
    BY <1>5, <2>1 DEF Anchored, Record, Status
  <2>3. RecordOK(i)'
    BY <1>5, <2>1, <2>2 DEF RecordOK, ToApprove
  <2> QED
    BY <1>3, <1>5, <2>2, <2>3 DEF Exists, ToApprove
<1>6. ASSUME record[i].status = "pending", NEW action \in ActionType \cup {"none"},
             record'[i] = Completed(i, action)
      PROVE  /\ record'[i] \in Record
             /\ record'[i].priority = record[i].priority
             /\ record'[i].status \in {"awaiting_approval", "decided"}
             /\ RecordOK(i)'
  <2>1. record[i] \in Record
    BY <1>1, <1>3, <1>6
  <2> DEFINE priority == record[i].priority
  <2>2. /\ priority \in Priority
        /\ derive_decision_type(priority, action) \in DecisionType
        /\ derive_decision_type(priority, action) = "approval_required" <=> priority = "P1"
    BY <1>2, <2>1, TypeRule
  <2>3. /\ record'[i].priority = priority
        /\ record'[i].status = IF priority = "P1" THEN "awaiting_approval" ELSE "decided"
        /\ record'[i].type = derive_decision_type(priority, action)
        /\ record'[i] \in Record
    BY <1>6, <2>2 DEF Completed, Record, Status
  <2>4. Exists(i) /\ insight'[i] = insight[i] /\ insight[i] # NoInsight
    BY <1>1, <1>2, <2>1 DEF RecordOK, Exists
  <2> QED
    BY <1>1, <2>2, <2>3, <2>4 DEF RecordOK, ToApprove
<1>7. ASSUME record[i].status \in ToApprove, NEW verdict \in {"approved", "rejected"},
             record'[i] = [record[i] EXCEPT !.status = verdict]
      PROVE  /\ record'[i] \in Record
             /\ record'[i].priority = record[i].priority /\ record'[i].type = record[i].type
             /\ record'[i].status = verdict
             /\ RecordOK(i)'
  <2>1. record[i] \in Record
    BY <1>1, <1>3, <1>7 DEF ToApprove
  <2>2. /\ record'[i] \in Record
        /\ record'[i].priority = record[i].priority /\ record'[i].type = record[i].type
        /\ record'[i].status = verdict
    BY <1>7, <2>1 DEF Record, Status
  <2>3. Exists(i) /\ insight'[i] = insight[i] /\ insight[i] # NoInsight
    BY <1>1, <1>2, <2>1 DEF RecordOK, Exists
  <2> QED
    BY <1>1, <1>7, <2>2, <2>3 DEF RecordOK, ToApprove
<1>8. CASE record[i].status = "pending" /\
           \E action \in ActionType \cup {"none"} : record'[i] = Completed(i, action)
  BY <1>2, <1>6, <1>8 DEF Exists, ToApprove
<1>9. CASE record[i].status \in ToApprove /\
           \E verdict \in {"approved", "rejected"} :
               record'[i] = [record[i] EXCEPT !.status = verdict]
  BY <1>2, <1>7, <1>9 DEF Exists, ToApprove
<1> QED
  BY <1>4, <1>5, <1>8, <1>9 DEF Moves

-----------------------------------------------------------------------------
(* What a step of one handler or request leaves to the others *)

Frame(p) ==
    /\ \A q \in Proc \ {p} : job'[q] = job[q]
    /\ \A w \in Worker \ {p} : worker'[w] = worker[w]
    /\ \A i \in Insight : insight[i] # NoInsight => insight'[i] = insight[i]
    /\ UNCHANGED hidden

\* p becomes the maker of a record that was not there, stays one, completes
\* its record, or fails.
StaysMaker(p) == At(p, "update") /\ At(p, "update")' /\ job'[p].insight = job[p].insight
MakerFollows(p) ==
    /\ At(p, "update")' => StaysMaker(p) \/ record[job'[p].insight] = NoRecord
    /\ faults' = 0 =>
           /\ faults = 0
           /\ At(p, "update") => StaysMaker(p) \/ record'[job[p].insight].status # "pending"
           /\ \A i \in Insight : record'[i] # record[i] /\ record'[i].status = "pending" =>
                                  At(p, "update")' /\ job'[p].insight = i

LEMMA StepHolds ==
  ASSUME IInv, NEW p \in Proc, Frame(p), \A i \in Insight : Moves(i), MakerFollows(p),
         \A q \in Proc \ {p} : At(q, "update") =>
             record'[job[q].insight] = record[job[q].insight],
         TypeOK', BusOK', JobOK(p)',
         \A a \in audit' \ audit :
             IF a[1] = "created" THEN record[a[2]].status \notin {"none", "pending"}
             ELSE record[a[2]].status \in {"approved", "rejected"},
         \A e \in announced' \ announced :
             /\ Exists(e[2])
             /\ e[1] = "decision_approval_required" => record[e[2]].priority = "P1"
  PROVE  IInv'
<1> USE DEF IInv
<1>1. RecordsOK'
  BY MoveFacts DEF RecordsOK, Frame
<1>2. JobsOK'
  <2> SUFFICES ASSUME NEW q \in Proc \ {p} PROVE JobOK(q)'
    BY DEF JobsOK
  <2>1. JobOK(q) /\ job'[q] = job[q]
    BY DEF JobsOK, Frame
  <2>2. CASE job[q].pc = "idle"
    BY <2>1, <2>2 DEF JobOK
  <2>3. CASE job[q].pc # "idle"
    <3> DEFINE i == job[q].insight
    <3>1. i \in Insight /\ insight[i] # NoInsight /\ insight'[i] = insight[i]
      BY <2>1, <2>3 DEF JobOK, Frame
    <3>2. q \in Worker => worker'[q].state = "handling"
      BY <2>1, <2>3 DEF JobOK, Frame
    <3>3. /\ Exists(i) => Exists(i)' /\ record'[i].priority = record[i].priority
          /\ record[i].status \notin {"none", "pending"} =>
                record'[i].status \notin {"none", "pending"}
          /\ record[i].status \in ToApprove => record'[i].status \in ToApprove
          /\ record[i].status \in {"approved", "rejected"} =>
                record'[i].status \in {"approved", "rejected"}
      BY <3>1, MoveFacts DEF Frame
    <3>4. job[q].pc = "update" => record'[i] = record[i]
      BY DEF At
    <3> QED
      BY <2>1, <2>3, <3>1, <3>2, <3>3, <3>4 DEF JobOK
  <2> QED
    BY <2>2, <2>3
<1>3. OneMaker'
  <2> SUFFICES ASSUME NEW q \in Proc, q # p, At(p, "update")', At(q, "update")',
                      job'[p].insight = job'[q].insight
               PROVE  FALSE
    <3>1. \A q, r \in Proc \ {p} : /\ At(q, "update")' = At(q, "update")
                                  /\ At(r, "update")' = At(r, "update")
                                  /\ job'[q].insight = job[q].insight
                                  /\ job'[r].insight = job[r].insight
      BY DEF Frame, At
    <3> QED
      BY <3>1 DEF OneMaker
  <2>1. At(q, "update") /\ job'[q].insight = job[q].insight
    BY DEF Frame, At
  <2>2. record[job[q].insight].status = "pending"
    BY <2>1 DEF JobsOK, JobOK, At
  <2>3. StaysMaker(p)
    BY <2>1, <2>2 DEF MakerFollows, NoRecord
  <2> QED
    BY <2>1, <2>3 DEF OneMaker, StaysMaker
<1>4. PendingIsMade'
  <2> SUFFICES ASSUME faults' = 0, NEW i \in Insight, record'[i].status = "pending"
               PROVE  \E q \in Proc : At(q, "update")' /\ job'[q].insight = i
    BY DEF PendingIsMade
  <2>1. CASE record'[i] # record[i]
    BY <2>1 DEF MakerFollows
  <2>2. CASE record'[i] = record[i]
    <3>1. PICK q \in Proc : At(q, "update") /\ job[q].insight = i
      BY <2>2 DEF PendingIsMade, MakerFollows
    <3>2. CASE q = p
      BY <3>1, <3>2 DEF MakerFollows, StaysMaker
    <3>3. CASE q # p
      BY <3>1, <3>3 DEF Frame, At
    <3> QED
      BY <3>2, <3>3
  <2> QED
    BY <2>1, <2>2
<1>5. TracesFollowRecord'
  <2>1. ASSUME NEW a \in audit'
        PROVE  IF a[1] = "created" THEN record'[a[2]].status \notin {"none", "pending"}
               ELSE record'[a[2]].status \in {"approved", "rejected"}
    <3>1. a[2] \in Insight
      BY DEF TypeOK
    <3>2. IF a[1] = "created" THEN record[a[2]].status \notin {"none", "pending"}
          ELSE record[a[2]].status \in {"approved", "rejected"}
      BY DEF TracesFollowRecord
    <3> QED
      BY <3>1, <3>2, MoveFacts DEF Frame
  <2>2. ASSUME NEW e \in announced'
        PROVE  /\ Exists(e[2])'
               /\ e[1] = "decision_approval_required" => record'[e[2]].priority = "P1"
    <3>1. e[2] \in Insight
      BY DEF TypeOK
    <3>2. /\ Exists(e[2])
          /\ e[1] = "decision_approval_required" => record[e[2]].priority = "P1"
      BY DEF TracesFollowRecord
    <3> QED
      BY <3>1, <3>2, MoveFacts DEF Frame
  <2> QED
    BY <2>1, <2>2 DEF TracesFollowRecord
<1> QED
  BY <1>1, <1>2, <1>3, <1>4, <1>5

LEMMA GotoFacts ==
  ASSUME TypeOK, NEW p \in Proc, NEW pc \in Step, Goto(p, pc)
  PROVE  /\ job' \in [Proc -> Job]
         /\ job'[p].pc = pc
         /\ job'[p].insight = job[p].insight /\ job'[p].seen = job[p].seen
         /\ \A q \in Proc \ {p} : job'[q] = job[q]
  BY DEF TypeOK, Goto, Job

LEMMA FinishFacts ==
  ASSUME TypeOK, NEW p \in Proc, Finish(p)
  PROVE  /\ job' \in [Proc -> Job]
         /\ job'[p].pc = "idle"
         /\ \A q \in Proc \ {p} : job'[q] = job[q]
  BY DEF TypeOK, Finish, Job, Idle, Step

LEMMA LeaveFacts ==
  ASSUME TypeOK, NEW p \in Proc, Leave(p)
  PROVE  /\ job' \in [Proc -> Job]
         /\ job'[p].pc \in {"done", "idle"}
         /\ job'[p].pc = "done" => job'[p].insight = job[p].insight
         /\ \A q \in Proc \ {p} : job'[q] = job[q]
  BY GotoFacts, FinishFacts DEF Leave, Step

\* A step that touches neither the decisions nor their traces, of a handler or
\* request that makes no decision after it.
LEMMA JobStepHolds ==
  ASSUME IInv, NEW p \in Proc, Frame(p), UNCHANGED <<record, audit, announced>>,
         insight' \in [Insight -> Feature \cup {NoInsight}],
         job' \in [Proc -> Job],
         faults' \in 0 .. MaxFaults, BusOK', JobOK(p)',
         job'[p].pc # "update",
         faults' = 0 => faults = 0 /\ job[p].pc # "update"
  PROVE  IInv'
<1>1. TypeOK'
  BY DEF TypeOK, IInv, Frame
<1>2. \A i \in Insight : Moves(i)
  BY DEF Moves
<1>3. MakerFollows(p)
  BY DEF MakerFollows, At
<1> QED
  BY <1>1, <1>2, <1>3, StepHolds

-----------------------------------------------------------------------------
(* What a step does to the bus *)

LEMMA BusStays ==
  ASSUME BusOK, UNCHANGED busVars, \A i \in Insight : insight[i] # NoInsight => insight'[i] # NoInsight
  PROVE  BusOK'
<1>1. entries' = entries /\ worker' = worker
  BY DEF busVars
<1>2. \A n \in DOMAIN entries[Channel] : entries[Channel][n] \in Insight
  BY DEF BusOK
<1> QED
  BY <1>1, <1>2 DEF BusOK

LEMMA PublishedOK ==
  ASSUME BusOK, NEW i \in Insight, insight[i] # NoInsight, insight' = insight,
         Bus!publish(Channel, i)
  PROVE  BusOK' /\ worker' = worker
<1> DEFINE old == entries[Channel]
           new == entries'[Channel]
<1>1. old \in Seq(Insight) /\ new = Append(old, i) /\ worker' = worker
  BY DEF BusOK, Bus!publish
<1>2. entries' \in [{Channel} -> Seq(Insight)]
  BY <1>1 DEF BusOK, Bus!publish
<1>3. DOMAIN old \subseteq DOMAIN new
  BY <1>1
<1>4. ASSUME NEW n \in DOMAIN new PROVE insight[new[n]] # NoInsight
  <2>1. CASE n = Len(old) + 1
    BY <1>1, <2>1
  <2>2. CASE n # Len(old) + 1
    <3>1. n \in DOMAIN old /\ new[n] = old[n]
      BY <1>1, <2>2
    <3> QED
      BY <3>1 DEF BusOK
  <2> QED
    BY <2>1, <2>2
<1> QED
  BY <1>1, <1>2, <1>3, <1>4 DEF BusOK

\* A step of a worker on the bus gives it entries that exist.
WorkerStep(w) ==
    \/ Bus!ensure_consumer_groups(w) \/ Bus!poll_once(w) \/ Bus!enter_handler(w)
    \/ Bus!handler_returns(w) \/ Bus!xack(w) \/ Bus!die(w)

LEMMA WorkerStepFacts ==
  ASSUME BusOK, NEW w \in Worker, WorkerStep(w), insight' = insight
  PROVE  BusOK' /\ \A v \in Worker \ {w} : worker'[v] = worker[v]
<1> USE DEF BusOK, Bus!WorkerState
<1>1. entries' = entries
  BY DEF WorkerStep, Bus!ensure_consumer_groups, Bus!poll_once, Bus!enter_handler,
     Bus!handler_returns, Bus!xack, Bus!die
<1>2. ASSUME NEW state \in Bus!WorkerState, NEW batch \in SUBSET Bus!Entry,
             worker' = [worker EXCEPT ![w] = [state |-> state, batch |-> batch]],
             \A e \in batch : e[2] \in DOMAIN entries[Channel]
      PROVE  BusOK' /\ \A v \in Worker \ {w} : worker'[v] = worker[v]
  BY <1>1, <1>2
<1>3. CASE Bus!ensure_consumer_groups(w)
  BY <1>2, <1>3 DEF Bus!ensure_consumer_groups
<1>4. CASE Bus!poll_once(w)
  <2> DEFINE R == Bus!Response("decision-agent")
  <2>1. worker' = [worker EXCEPT ![w] = [state |-> "ready", batch |-> R]]
    BY <1>4 DEF Bus!poll_once
  <2>2. R \subseteq Bus!Entry
    BY DEF Bus!Response, Bus!Fresh
  <2>3. ASSUME NEW e \in R PROVE e[2] \in DOMAIN entries[Channel]
    <3>1. e \in Bus!Entry /\ e[1] = Channel /\ e[2] <= Len(entries[e[1]])
      BY <2>2 DEF Bus!Response, Bus!Fresh, Bus!Entry
    <3>2. e[2] \in Nat /\ e[2] >= 1
      BY <3>1 DEF Bus!Entry
    <3> QED
      BY <3>1, <3>2
  <2> HIDE DEF R
  <2> QED
    BY <1>2, <2>1, <2>2, <2>3
<1>5. CASE Bus!enter_handler(w) \/ Bus!handler_returns(w)
  <2>1. PICK state \in Bus!WorkerState : worker' = [worker EXCEPT ![w].state = state]
    BY <1>5 DEF Bus!enter_handler, Bus!handler_returns, Bus!Become
  <2>2. /\ worker' \in [Worker -> [state : Bus!WorkerState, batch : SUBSET Bus!Entry]]
        /\ \A v \in Worker : worker'[v].batch = worker[v].batch
        /\ \A v \in Worker \ {w} : worker'[v] = worker[v]
    BY <2>1
  <2> QED
    BY <1>1, <2>2
<1>6. CASE Bus!xack(w)
  <2>1. PICK e \in Bus!Entry :
            worker' = [worker EXCEPT ![w] =
                [state |-> IF @.batch = {e} THEN "polling" ELSE "ready",
                 batch |-> @.batch \ {e}]]
    BY <1>6 DEF Bus!xack
  <2> QED
    BY <1>2, <2>1
<1>7. CASE Bus!die(w)
  BY <1>2, <1>7 DEF Bus!die
<1> QED
  BY <1>3, <1>4, <1>5, <1>6, <1>7 DEF WorkerStep

-----------------------------------------------------------------------------
(* One lemma for each action *)

Idles(p) == job[p].pc = "idle"

\* A request begins with an insight that is there.
LEMMA BeginKeeps ==
  ASSUME IInv, NEW r \in Req, Idles(r), NEW i \in Insight, NEW pc \in {"emit", "guard", "approved", "rejected"},
         job' = [job EXCEPT ![r] = [Idle EXCEPT !.pc = pc, !.insight = i]],
         insight' \in [Insight -> Feature \cup {NoInsight}],
         \A k \in Insight : insight[k] # NoInsight => insight'[k] = insight[k],
         insight'[i] # NoInsight,
         pc \in {"approved", "rejected"} => record[i].status = "awaiting_approval",
         UNCHANGED <<hidden, record, audit, announced, faults, busVars>>
  PROVE  IInv'
<1>1. r \in Proc /\ r \notin Worker /\ worker' = worker
  BY DecisionAssumption DEF Proc, busVars
<1>2. /\ job' \in [Proc -> Job] /\ job'[r].pc = pc /\ job'[r].insight = i
      /\ \A q \in Proc \ {r} : job'[q] = job[q]
  BY <1>1 DEF IInv, TypeOK, Job, Idle, Step
<1>3. Frame(r)
  BY <1>1, <1>2 DEF Frame
<1>4. BusOK'
  BY BusStays DEF IInv
<1>5. JobOK(r)'
  BY <1>1, <1>2 DEF JobOK, ToApprove
<1>6. faults' \in 0 .. MaxFaults
  BY DEF IInv, TypeOK
<1> QED
  BY <1>1, <1>2, <1>3, <1>4, <1>5, <1>6, JobStepHolds DEF Idles

LEMMA StartKeeps ==
  ASSUME IInv, NEW r \in Req, Start(r)
  PROVE  IInv'
<1> USE DEF IInv
<1>1. ASSUME NEW i \in Insight, NEW f \in Feature, detect(r, i, f) PROVE IInv'
  <2>1. f # NoInsight
    BY DecisionAssumption
  <2>2. /\ insight' \in [Insight -> Feature \cup {NoInsight}]
        /\ \A k \in Insight : insight[k] # NoInsight => insight'[k] = insight[k]
        /\ insight'[i] # NoInsight
    BY <1>1, <2>1 DEF detect, TypeOK
  <2> QED
    BY <1>1, <2>2, BeginKeeps DEF detect, Idles, At
<1>2. ASSUME NEW i \in Insight, trigger_decision(r, i) PROVE IInv'
  BY <1>2, BeginKeeps DEF trigger_decision, Idles, At, tables, TypeOK
<1>3. ASSUME NEW i \in Insight, NEW verdict \in {"approved", "rejected"},
             get_decision(r, i, verdict)
      PROVE  IInv'
  <2>1. Exists(i)
    BY <1>3 DEF get_decision, Exists, NoRecord
  <2>2. insight[i] # NoInsight
    BY <2>1 DEF RecordsOK, RecordOK
  <2> QED
    BY <1>3, <2>2, BeginKeeps DEF get_decision, Idles, At, tables, TypeOK
<1> QED
  BY <1>1, <1>2, <1>3 DEF Start

LEMMA PublishKeeps ==
  ASSUME IInv, NEW r \in Req, publish_insight(r)
  PROVE  IInv'
<1> USE DEF IInv
<1>1. r \in Proc /\ r \notin Worker /\ JobOK(r) /\ job[r].pc = "emit"
  BY DecisionAssumption DEF Proc, JobsOK, publish_insight, At
<1>2. job[r].insight \in Insight /\ insight[job[r].insight] # NoInsight
  BY <1>1 DEF JobOK
<1>3. UNCHANGED <<insight, hidden, record, audit, announced>>
  BY DEF publish_insight, tables
<1>4. BusOK' /\ worker' = worker
  <2>1. CASE Bus!publish(Channel, job[r].insight)
    BY <1>2, <1>3, <2>1, PublishedOK
  <2>2. CASE UNCHANGED busVars
    BY <1>3, <2>2, BusStays DEF busVars
  <2> QED
    BY <2>1, <2>2 DEF publish_insight
<1>5. faults' \in 0 .. MaxFaults /\ (faults' = 0 => faults = 0)
  BY DecisionAssumption DEF publish_insight, TypeOK
<1>6. /\ job' \in [Proc -> Job] /\ job'[r].pc = "idle"
      /\ \A q \in Proc \ {r} : job'[q] = job[q]
  BY <1>1, FinishFacts DEF publish_insight
<1>7. Frame(r) /\ JobOK(r)'
  BY <1>3, <1>4, <1>6 DEF Frame, JobOK
<1>8. insight' \in [Insight -> Feature \cup {NoInsight}]
  BY <1>3 DEF TypeOK
<1> QED
  BY <1>1, <1>3, <1>4, <1>5, <1>6, <1>7, <1>8, JobStepHolds

\* A worker with no handler running moves on the bus.
LEMMA BusStepKeeps ==
  ASSUME IInv, NEW w \in Worker, WorkerStep(w), Idles(w),
         UNCHANGED <<tables, job, announced, faults>>
  PROVE  IInv'
<1>1. w \in Proc /\ UNCHANGED <<insight, hidden, record, audit>>
  BY DEF Proc, tables
<1>2. BusOK' /\ \A v \in Worker \ {w} : worker'[v] = worker[v]
  BY <1>1, WorkerStepFacts DEF IInv
<1>3. Frame(w) /\ JobOK(w)'
  BY <1>1, <1>2 DEF Frame, JobOK, Idles
<1>4. /\ insight' \in [Insight -> Feature \cup {NoInsight}] /\ job' \in [Proc -> Job]
      /\ faults' \in 0 .. MaxFaults
  BY <1>1 DEF IInv, TypeOK
<1> QED
  BY <1>1, <1>2, <1>3, <1>4, JobStepHolds DEF Idles

LEMMA DeployAndPollKeep ==
  ASSUME IInv, NEW w \in Worker, Deploy(w) \/ Poll(w)
  PROVE  IInv'
<1>1. WorkerStep(w) /\ worker[w].state # "handling" /\ UNCHANGED <<tables, job, announced, faults>>
  BY DEF Deploy, Poll, WorkerStep, Bus!ensure_consumer_groups, Bus!poll_once, Bus!xack, Bus!In
<1>2. Idles(w)
  BY <1>1 DEF IInv, JobsOK, JobOK, Proc, Idles
<1> QED
  BY <1>1, <1>2, BusStepKeeps

LEMMA HandleEventKeeps ==
  ASSUME IInv, NEW w \in Worker, handle_event(w)
  PROVE  IInv'
<1> USE DEF IInv
<1>1. w \in Proc /\ UNCHANGED <<insight, hidden, record, audit, announced, faults>>
  BY DEF Proc, handle_event, tables
<1>2. PICK e \in Bus!Entry :
          /\ e \in worker[w].batch
          /\ job' = [job EXCEPT ![w] = [Idle EXCEPT !.pc = "guard",
                                                   !.insight = entries[Channel][e[2]]]]
  BY DEF handle_event, Bus!IsCurrent
<1>3. WorkerStep(w) /\ worker[w].state = "ready"
  BY DEF handle_event, WorkerStep, Bus!enter_handler, Bus!In
<1>4. BusOK' /\ \A v \in Worker \ {w} : worker'[v] = worker[v]
  BY <1>1, <1>3, WorkerStepFacts
<1>5. worker'[w].state = "handling"
  BY DEF handle_event, Bus!enter_handler, Bus!Become, BusOK
<1>6. Idles(w)
  BY <1>1, <1>3 DEF JobsOK, JobOK, Idles
<1> DEFINE i == entries[Channel][e[2]]
<1>7. i \in Insight /\ insight[i] # NoInsight
  BY <1>2 DEF BusOK
<1>8. /\ job' \in [Proc -> Job] /\ job'[w].pc = "guard" /\ job'[w].insight = i
      /\ \A q \in Proc \ {w} : job'[q] = job[q]
  <2> HIDE DEF i
  <2>1. job' = [job EXCEPT ![w] = [Idle EXCEPT !.pc = "guard", !.insight = i]]
    BY <1>2 DEF i
  <2> QED
    BY <1>1, <1>7, <2>1 DEF TypeOK, Job, Idle, Step
<1> HIDE DEF i
<1>9. Frame(w) /\ JobOK(w)'
  BY <1>1, <1>4, <1>5, <1>7, <1>8 DEF Frame, JobOK
<1>10. insight' \in [Insight -> Feature \cup {NoInsight}] /\ faults' \in 0 .. MaxFaults
  BY <1>1 DEF TypeOK
<1> QED
  BY <1>1, <1>4, <1>6, <1>8, <1>9, <1>10, JobStepHolds DEF Idles

LEMMA GuardKeeps ==
  ASSUME IInv, NEW p \in Proc, get_decision_by_insight(p)
  PROVE  IInv'
<1> USE DEF IInv
<1> DEFINE i == job[p].insight
<1>1. /\ job[p].pc = "guard" /\ JobOK(p) /\ i \in Insight /\ insight[i] # NoInsight
      /\ UNCHANGED <<insight, hidden, record, audit, announced, faults, entries, worker>>
  BY DEF get_decision_by_insight, At, JobsOK, JobOK, tables, busVars
<1>2. BusOK'
  BY <1>1, BusStays DEF get_decision_by_insight
<1>3. /\ job' \in [Proc -> Job]
      /\ job'[p].pc \in {"idle", "anchor", "announce"}
      /\ job'[p].pc # "idle" => job'[p].insight = i
      /\ job'[p].pc = "announce" => Exists(i) /\ job'[p].seen = record[i]
      /\ \A q \in Proc \ {p} : job'[q] = job[q]
  <2>1. CASE record[i] = NoRecord \/ i \in hidden
    BY <2>1, GotoFacts DEF get_decision_by_insight, Step
  <2>2. CASE record[i] # NoRecord /\ i \notin hidden /\ p \in Worker
    <3>1. job' = [job EXCEPT ![p].pc = "announce", ![p].seen = record[i]]
      BY <2>2 DEF get_decision_by_insight
    <3>2. record[i] \in Record /\ job \in [Proc -> Job]
      BY <1>1, <2>2 DEF TypeOK
    <3> DEFINE new == [job[p] EXCEPT !.pc = "announce", !.seen = record[i]]
    <3>3. job' = [job EXCEPT ![p] = new]
      BY <3>1, <3>2
    <3>4. /\ new \in Job /\ new.pc = "announce" /\ new.seen = record[i]
          /\ new.insight = job[p].insight
      BY <3>2 DEF Job, Step
    <3> QED
      BY <2>2, <3>2, <3>3, <3>4 DEF Exists
  <2>3. CASE record[i] # NoRecord /\ i \notin hidden /\ p \notin Worker
    BY <2>3, FinishFacts DEF get_decision_by_insight
  <2> QED
    BY <2>1, <2>2, <2>3
<1>4. Frame(p) /\ JobOK(p)'
  BY <1>1, <1>3 DEF Frame, JobOK, Exists
<1>5. insight' \in [Insight -> Feature \cup {NoInsight}] /\ faults' \in 0 .. MaxFaults
  BY <1>1 DEF TypeOK
<1> QED
  BY <1>1, <1>2, <1>3, <1>4, <1>5, JobStepHolds

\* A step that writes one record, of the insight of its job.
LEMMA RecordStepHolds ==
  ASSUME IInv, NEW p \in Proc, Frame(p), MakerFollows(p), job[p].pc # "idle",
         UNCHANGED <<insight, hidden, audit, announced, faults, busVars>>,
         Moves(job[p].insight),
         record' = [record EXCEPT ![job[p].insight] = record'[job[p].insight]],
         job' \in [Proc -> Job], JobOK(p)',
         job[p].pc = "update" \/ record[job[p].insight].status # "pending"
  PROVE  IInv'
<1> USE DEF IInv
<1> DEFINE i == job[p].insight
<1>1. i \in Insight
  BY DEF JobsOK, JobOK
<1>2. record \in [Insight -> Record \cup {NoRecord}]
  BY DEF TypeOK
<1>3. \A k \in Insight \ {i} : record'[k] = record[k]
  BY <1>1, <1>2
<1>4. \A k \in Insight : Moves(k)
  BY <1>3 DEF Moves
<1>5. record'[i] \in Record \cup {NoRecord}
  BY <1>1, MoveFacts
<1>6. TypeOK'
  BY <1>1, <1>2, <1>5 DEF TypeOK, Frame
<1>7. BusOK'
  BY BusStays
<1>8. ASSUME NEW q \in Proc \ {p}, At(q, "update")
      PROVE  record'[job[q].insight] = record[job[q].insight]
  <2>1. job[q].insight \in Insight /\ record[job[q].insight].status = "pending"
    BY <1>8 DEF JobsOK, JobOK, At
  <2>2. job[q].insight # i
    BY <1>8, <2>1 DEF OneMaker, At
  <2> QED
    BY <1>3, <2>1, <2>2
<1> QED
  BY <1>4, <1>6, <1>7, <1>8, StepHolds

LEMMA AnchorKeeps ==
  ASSUME IInv, NEW p \in Proc, create_decision(p)
  PROVE  IInv'
<1> USE DEF IInv
<1> DEFINE i == job[p].insight
<1>1. /\ job[p].pc = "anchor" /\ JobOK(p) /\ i \in Insight /\ insight[i] # NoInsight
      /\ UNCHANGED <<insight, hidden, audit, announced, faults, busVars, entries, worker>>
  BY DEF create_decision, At, JobsOK, JobOK, busVars
<1>2. CASE i \in hidden \/ record[i] # NoRecord
  <2>1. record' = record
    BY <1>2 DEF create_decision
  <2>2. /\ job' \in [Proc -> Job]
        /\ job'[p].pc \in {"done", "idle"}
        /\ job'[p].pc = "done" => job'[p].insight = i
        /\ \A q \in Proc \ {p} : job'[q] = job[q]
    BY <1>2, LeaveFacts DEF create_decision
  <2>3. BusOK'
    BY <1>1, BusStays
  <2>4. Frame(p) /\ JobOK(p)'
    BY <1>1, <2>1, <2>2 DEF Frame, JobOK
  <2>5. insight' \in [Insight -> Feature \cup {NoInsight}] /\ faults' \in 0 .. MaxFaults
    BY <1>1 DEF TypeOK
  <2> QED
    BY <1>1, <2>1, <2>2, <2>3, <2>4, <2>5, JobStepHolds
<1>3. CASE i \notin hidden /\ record[i] = NoRecord
  <2>1. record' = [record EXCEPT ![i] = Anchored(i)] /\ Goto(p, "update")
    BY <1>3 DEF create_decision, Anchored
  <2>2. record'[i] = Anchored(i) /\ record'[i].status = "pending"
    BY <1>1, <2>1 DEF TypeOK, Anchored
  <2>3. /\ job' \in [Proc -> Job] /\ job'[p].pc = "update" /\ job'[p].insight = i
        /\ \A q \in Proc \ {p} : job'[q] = job[q]
    BY <2>1, GotoFacts DEF Step
  <2>4. Frame(p) /\ JobOK(p)'
    BY <1>1, <2>2, <2>3 DEF Frame, JobOK
  <2>5. MakerFollows(p)
    <3>1. \A k \in Insight \ {i} : record'[k] = record[k]
      BY <2>1 DEF TypeOK
    <3> QED
      BY <1>1, <1>3, <2>3, <3>1 DEF MakerFollows, At
  <2>6. Moves(i) /\ record[i].status # "pending"
    BY <1>1, <1>3, <2>2 DEF Moves, NoRecord
  <2> QED
    BY <1>1, <2>1, <2>2, <2>3, <2>4, <2>5, <2>6, RecordStepHolds
<1> QED
  BY <1>2, <1>3

LEMMA UpdateKeeps ==
  ASSUME IInv, NEW p \in Proc, update_decision(p)
  PROVE  IInv'
<1> USE DEF IInv
<1> DEFINE i == job[p].insight
<1>1. /\ job[p].pc = "update" /\ JobOK(p) /\ i \in Insight /\ insight[i] # NoInsight
      /\ record[i].status = "pending"
      /\ UNCHANGED <<insight, hidden, audit, announced, faults, busVars, entries, worker>>
  BY DEF update_decision, At, JobsOK, JobOK, busVars
<1>2. PICK action \in ActionType \cup {"none"} :
          record' = [record EXCEPT ![i] = Completed(i, action)]
  BY DEF update_decision, Completed
<1>3. record'[i] = Completed(i, action) /\ record'[i].status \in {"awaiting_approval", "decided"}
  BY <1>1, <1>2 DEF TypeOK, Completed
<1>4. /\ job' \in [Proc -> Job] /\ job'[p].pc = "audit" /\ job'[p].insight = i
      /\ \A q \in Proc \ {p} : job'[q] = job[q]
  BY GotoFacts DEF update_decision, Step
<1>5. Frame(p) /\ JobOK(p)'
  BY <1>1, <1>3, <1>4 DEF Frame, JobOK
<1>6. MakerFollows(p)
  <2>1. \A k \in Insight \ {i} : record'[k] = record[k]
    BY <1>2 DEF TypeOK
  <2> QED
    BY <1>1, <1>3, <1>4, <2>1 DEF MakerFollows, At
<1>7. Moves(i)
  BY <1>1, <1>3 DEF Moves
<1> HIDE DEF IInv
<1> QED
  BY <1>1, <1>2, <1>3, <1>4, <1>5, <1>6, <1>7, RecordStepHolds

LEMMA VerdictKeeps ==
  ASSUME IInv, NEW r \in Req, NEW verdict \in {"approved", "rejected"},
         approve_or_reject(r, verdict)
  PROVE  IInv'
<1> USE DEF IInv
<1> DEFINE i == job[r].insight
<1>1. /\ r \in Proc /\ r \notin Worker /\ job[r].pc = verdict
      /\ i \in Insight /\ insight[i] # NoInsight
      /\ record[i].status \in ToApprove
      /\ UNCHANGED <<insight, hidden, audit, announced, faults, busVars, entries, worker>>
  BY DecisionAssumption DEF approve_or_reject, At, JobsOK, JobOK, Proc, busVars
<1>2. record' = [record EXCEPT ![i].status = verdict]
  BY DEF approve_or_reject
<1>3. record[i] \in Record
  BY <1>1 DEF TypeOK, NoRecord, ToApprove
<1>4. record'[i] = [record[i] EXCEPT !.status = verdict] /\ record'[i].status = verdict
  BY <1>1, <1>2, <1>3 DEF TypeOK, Record
<1>5. record' = [record EXCEPT ![i] = record'[i]]
  BY <1>1, <1>2, <1>4 DEF TypeOK
<1>6. Audit(verdict) \in {"audit_approved", "audit_rejected"}
  BY DEF Audit
<1>7. /\ job' \in [Proc -> Job] /\ job'[r].pc = Audit(verdict) /\ job'[r].insight = i
      /\ \A q \in Proc \ {r} : job'[q] = job[q]
  BY <1>1, <1>6, GotoFacts DEF approve_or_reject, Step
<1>8. Frame(r) /\ JobOK(r)'
  BY <1>1, <1>4, <1>6, <1>7 DEF Frame, JobOK
<1>9. MakerFollows(r)
  <2>1. \A k \in Insight \ {i} : record'[k] = record[k]
    BY <1>2 DEF TypeOK
  <2> QED
    BY <1>1, <1>4, <1>6, <1>7, <2>1 DEF MakerFollows, At
<1>10. Moves(i)
  BY <1>1, <1>4 DEF Moves
<1> HIDE DEF IInv
<1> QED
  BY <1>1, <1>5, <1>7, <1>8, <1>9, <1>10, RecordStepHolds DEF ToApprove

\* A step that leaves a trace of the record of its job.
LEMMA TraceStepHolds ==
  ASSUME IInv, NEW p \in Proc, Frame(p), UNCHANGED <<insight, hidden, record>>,
         job[p].pc \notin {"idle", "update"}, job'[p].pc # "update",
         job' \in [Proc -> Job], faults' \in 0 .. MaxFaults, faults' = 0 => faults = 0,
         BusOK', JobOK(p)',
         NEW action \in {"created", "approved", "rejected"},
         audit' \in {audit, audit \cup {<<action, job[p].insight>>}},
         audit' # audit =>
             IF action = "created" THEN record[job[p].insight].status \notin {"none", "pending"}
             ELSE record[job[p].insight].status \in {"approved", "rejected"},
         NEW type \in {"decision_made", "decision_approval_required"}, NEW status \in Status,
         announced' \in {announced, announced \cup {<<type, job[p].insight, status>>}},
         announced' # announced =>
             /\ Exists(job[p].insight)
             /\ type = "decision_approval_required" => record[job[p].insight].priority = "P1"
  PROVE  IInv'
<1> USE DEF IInv
<1>1. job[p].insight \in Insight
  BY DEF JobsOK, JobOK
<1>2. TypeOK'
  BY <1>1 DEF TypeOK, Frame
<1>3. \A i \in Insight : Moves(i)
  BY DEF Moves
<1>4. MakerFollows(p)
  BY DEF MakerFollows, At
<1> HIDE DEF IInv
<1>5. \A a \in audit' \ audit :
          IF a[1] = "created" THEN record[a[2]].status \notin {"none", "pending"}
          ELSE record[a[2]].status \in {"approved", "rejected"}
  OBVIOUS
<1>6. \A e \in announced' \ announced :
          /\ Exists(e[2])
          /\ e[1] = "decision_approval_required" => record[e[2]].priority = "P1"
  OBVIOUS
<1> QED
  BY <1>2, <1>3, <1>4, <1>5, <1>6, StepHolds

LEMMA AuditOrNotFacts ==
  ASSUME TypeOK, NEW p \in Proc, NEW action, AuditOrNot(p, action)
  PROVE  /\ audit' \in {audit, audit \cup {<<action, job[p].insight>>}}
         /\ faults' \in 0 .. MaxFaults /\ (faults' = 0 => faults = 0)
  BY DecisionAssumption DEF AuditOrNot, TypeOK

LEMMA AuditKeeps ==
  ASSUME IInv, NEW p \in Proc, record_audit(p)
  PROVE  IInv'
<1> USE DEF IInv
<1>1. /\ job[p].pc = "audit" /\ record[job[p].insight].status \notin {"none", "pending"}
      /\ UNCHANGED <<insight, hidden, record, announced>>
  BY DEF record_audit, At, JobsOK, JobOK
<1>2. /\ audit' \in {audit, audit \cup {<<"created", job[p].insight>>}}
      /\ faults' \in 0 .. MaxFaults /\ (faults' = 0 => faults = 0)
  BY AuditOrNotFacts DEF record_audit
<1>3. /\ job' \in [Proc -> Job] /\ job'[p].pc = "idle"
      /\ \A q \in Proc \ {p} : job'[q] = job[q]
  BY FinishFacts DEF record_audit
<1>4. BusOK' /\ \A w \in Worker \ {p} : worker'[w] = worker[w]
  <2>1. CASE p \in Worker
    BY <1>1, <2>1, WorkerStepFacts DEF record_audit, WorkerStep
  <2>2. CASE p \notin Worker
    BY <1>1, <2>2, BusStays DEF record_audit, busVars
  <2> QED
    BY <2>1, <2>2
<1>5. Frame(p) /\ JobOK(p)'
  BY <1>1, <1>3, <1>4 DEF Frame, JobOK
<1> HIDE DEF IInv
<1> QED
  BY <1>1, <1>2, <1>3, <1>4, <1>5, TraceStepHolds DEF Status

LEMMA AuditVerdictKeeps ==
  ASSUME IInv, NEW r \in Req, NEW verdict \in {"approved", "rejected"}, audit_verdict(r, verdict)
  PROVE  IInv'
<1> USE DEF IInv
<1>1. /\ r \in Proc /\ job[r].pc \in {"audit_approved", "audit_rejected"}
      /\ record[job[r].insight].status \in {"approved", "rejected"}
      /\ UNCHANGED <<insight, hidden, record, announced, busVars, worker>>
  BY DEF audit_verdict, Audit, At, JobsOK, JobOK, Proc, busVars
<1>2. /\ audit' \in {audit, audit \cup {<<verdict, job[r].insight>>}}
      /\ faults' \in 0 .. MaxFaults /\ (faults' = 0 => faults = 0)
  BY <1>1, AuditOrNotFacts DEF audit_verdict
<1>3. /\ job' \in [Proc -> Job] /\ job'[r].pc = "idle"
      /\ \A q \in Proc \ {r} : job'[q] = job[q]
  BY <1>1, FinishFacts DEF audit_verdict
<1>4. Frame(r) /\ JobOK(r)' /\ BusOK'
  BY <1>1, <1>3, BusStays DEF Frame, JobOK
<1> HIDE DEF IInv
<1> QED
  BY <1>1, <1>2, <1>3, <1>4, TraceStepHolds DEF Status

LEMMA AnnounceKeeps ==
  ASSUME IInv, NEW w \in Worker, publish_decision_made(w) \/ publish_approval_required(w)
  PROVE  IInv'
<1> USE DEF IInv
<1> DEFINE i == job[w].insight
           seen == job[w].seen
<1>1. /\ w \in Proc /\ job[w].pc \in {"announce", "escalate"} /\ worker[w].state = "handling"
      /\ i \in Insight /\ insight[i] # NoInsight /\ Exists(i)
      /\ seen # NoRecord /\ seen.priority = record[i].priority
      /\ job[w].pc = "escalate" => seen.priority = "P1"
      /\ UNCHANGED <<insight, hidden, record, audit, faults, busVars, worker>>
  BY DEF publish_decision_made, publish_approval_required, At, JobsOK, JobOK, Proc, tables, busVars
<1>2. seen.status \in Status
  BY <1>1 DEF TypeOK, Job, Record
<1>3. \E type \in {"decision_made", "decision_approval_required"} :
          /\ announced' = announced \cup {<<type, i, seen.status>>}
          /\ type = "decision_approval_required" => job[w].pc = "escalate"
  BY DEF publish_decision_made, publish_approval_required, At
<1>4. PICK pc \in {"escalate", "done"} :
          Goto(w, pc) /\ (pc = "escalate" => seen.priority = "P1")
  BY DEF publish_decision_made, publish_approval_required
<1>5. /\ job' \in [Proc -> Job] /\ job'[w].pc = pc
      /\ job'[w].insight = i /\ job'[w].seen = seen
      /\ \A q \in Proc \ {w} : job'[q] = job[q]
  BY <1>1, <1>4, GotoFacts DEF Step
<1>6. Frame(w) /\ JobOK(w)' /\ BusOK'
  BY <1>1, <1>4, <1>5, BusStays DEF Frame, JobOK, Exists
<1>7. faults' \in 0 .. MaxFaults /\ (faults' = 0 => faults = 0)
  BY <1>1 DEF TypeOK
<1> HIDE DEF IInv
<1> QED
  BY <1>1, <1>2, <1>3, <1>5, <1>6, <1>7, TraceStepHolds

LEMMA ReturnKeeps ==
  ASSUME IInv, NEW w \in Worker, handler_returns(w)
  PROVE  IInv'
<1> USE DEF IInv
<1>1. /\ w \in Proc /\ job[w].pc = "done" /\ WorkerStep(w)
      /\ UNCHANGED <<insight, hidden, record, audit, announced, faults>>
  BY DEF handler_returns, At, Proc, tables, WorkerStep
<1>2. /\ job' \in [Proc -> Job] /\ job'[w].pc = "idle"
      /\ \A q \in Proc \ {w} : job'[q] = job[q]
  BY <1>1, FinishFacts DEF handler_returns
<1>3. BusOK' /\ \A v \in Worker \ {w} : worker'[v] = worker[v]
  BY <1>1, WorkerStepFacts
<1>4. Frame(w) /\ JobOK(w)'
  BY <1>1, <1>2, <1>3 DEF Frame, JobOK
<1>5. insight' \in [Insight -> Feature \cup {NoInsight}] /\ faults' \in 0 .. MaxFaults
  BY <1>1 DEF TypeOK
<1> QED
  BY <1>1, <1>2, <1>3, <1>4, <1>5, JobStepHolds

LEMMA FailureKeeps ==
  ASSUME IInv, NEW p \in Proc,
         \/ p \in Worker /\ (processing_failed(p) \/ worker_died(p))
         \/ p \in Req /\ request_failed(p)
  PROVE  IInv'
<1> USE DEF IInv
<1>1. /\ UNCHANGED <<insight, hidden, record, audit, announced>>
      /\ faults' \in 0 .. MaxFaults /\ faults' # 0
  BY DecisionAssumption DEF processing_failed, worker_died, request_failed, tables, TypeOK
<1>2. /\ job' \in [Proc -> Job]
      /\ job'[p].pc \in {"done", "idle"}
      /\ job'[p].pc = "done" => p \in Worker /\ processing_failed(p) /\ job'[p].insight = job[p].insight
      /\ \A q \in Proc \ {p} : job'[q] = job[q]
  <2>1. CASE p \in Worker /\ processing_failed(p)
    BY <2>1, GotoFacts DEF processing_failed, Step
  <2>2. CASE Finish(p)
    BY <2>2, FinishFacts
  <2> QED
    BY <2>1, <2>2 DEF worker_died, request_failed
<1>3. BusOK' /\ \A w \in Worker \ {p} : worker'[w] = worker[w]
  <2>1. CASE p \in Worker /\ worker_died(p)
    BY <1>1, <2>1, WorkerStepFacts DEF worker_died, WorkerStep
  <2>2. CASE UNCHANGED busVars
    BY <1>1, <2>2, BusStays DEF busVars
  <2> QED
    BY <2>1, <2>2 DEF processing_failed, request_failed
<1>4. Frame(p) /\ JobOK(p)'
  <2>1. CASE job'[p].pc = "idle"
    BY <1>1, <1>2, <1>3, <2>1 DEF Frame, JobOK
  <2>2. CASE job'[p].pc = "done"
    <3>1. JobOK(p) /\ job[p].pc # "idle" /\ UNCHANGED worker
      BY <1>2, <2>2 DEF processing_failed, JobsOK, busVars
    <3> QED
      BY <1>1, <1>2, <1>3, <2>2, <3>1 DEF Frame, JobOK
  <2> QED
    BY <1>2, <2>1, <2>2
<1>5. insight' \in [Insight -> Feature \cup {NoInsight}]
  BY <1>1 DEF TypeOK
<1> QED
  BY <1>1, <1>2, <1>3, <1>4, <1>5, JobStepHolds

-----------------------------------------------------------------------------
(* Every step *)

LEMMA InitEstablishes == Init => IInv
<1> SUFFICES ASSUME Init PROVE IInv
  OBVIOUS
<1> USE DEF Init, Bus!Init
<1>1. TypeOK
  BY DecisionAssumption DEF TypeOK, Job, Idle, Step
<1>2. BusOK
  BY DEF BusOK, Bus!WorkerState
<1>3. RecordsOK /\ JobsOK
  BY DEF RecordsOK, RecordOK, Exists, JobsOK, JobOK, Idle
<1>4. OneMaker /\ PendingIsMade /\ TracesFollowRecord
  BY DEF OneMaker, PendingIsMade, TracesFollowRecord, At, Idle, NoRecord
<1> QED
  BY <1>1, <1>2, <1>3, <1>4 DEF IInv

LEMMA DecideKeeps ==
  ASSUME IInv, NEW p \in Proc, Decide(p)
  PROVE  IInv'
  BY GuardKeeps, AnchorKeeps, UpdateKeeps, AuditKeeps DEF Decide

LEMMA ServeKeeps ==
  ASSUME IInv, NEW r \in Req, Serve(r)
  PROVE  IInv'
<1>1. r \in Proc
  BY DEF Proc
<1> QED
  BY <1>1, PublishKeeps, DecideKeeps, VerdictKeeps, AuditVerdictKeeps DEF Serve

LEMMA HandleKeeps ==
  ASSUME IInv, NEW w \in Worker, Handle(w)
  PROVE  IInv'
<1>1. w \in Proc
  BY DEF Proc
<1> QED
  BY <1>1, HandleEventKeeps, DecideKeeps, AnnounceKeeps, ReturnKeeps DEF Handle

LEMMA StepKeeps == IInv /\ [Next]_vars => IInv'
<1> SUFFICES ASSUME IInv, [Next]_vars PROVE IInv'
  OBVIOUS
<1>1. CASE UNCHANGED vars
  <2> USE <1>1 DEF vars, busVars, IInv
  <2>1. TypeOK' /\ BusOK' /\ RecordsOK'
    BY DEF TypeOK, BusOK, RecordsOK, RecordOK, Exists
  <2>2. JobsOK'
    BY DEF JobsOK, JobOK, Exists
  <2>3. OneMaker' /\ PendingIsMade' /\ TracesFollowRecord'
    BY DEF OneMaker, PendingIsMade, TracesFollowRecord, At, Exists
  <2> QED
    BY <2>1, <2>2, <2>3
<1>2. ASSUME NEW r \in Req, Start(r) \/ Serve(r) \/ request_failed(r) PROVE IInv'
  BY <1>2, StartKeeps, ServeKeeps, FailureKeeps DEF Proc
<1>3. ASSUME NEW w \in Worker,
             Deploy(w) \/ Poll(w) \/ Handle(w) \/ processing_failed(w) \/ worker_died(w)
      PROVE  IInv'
  BY <1>3, DeployAndPollKeep, HandleKeeps, FailureKeeps DEF Proc
<1>4. ASSUME NEW i \in Insight, delete_dataset(i) \/ restore_dataset(i) PROVE IInv'
  <2>1. /\ UNCHANGED <<insight, record, job, audit, announced, faults, busVars>>
        /\ hidden' \in SUBSET (hidden \cup {i})
    BY <1>4 DEF delete_dataset, restore_dataset
  <2> USE <2>1 DEF busVars, IInv
  <2>2. TypeOK' /\ BusOK' /\ RecordsOK'
    BY DEF TypeOK, BusOK, RecordsOK, RecordOK, Exists
  <2>3. JobsOK'
    BY DEF JobsOK, JobOK, Exists
  <2>4. OneMaker' /\ PendingIsMade' /\ TracesFollowRecord'
    BY DEF OneMaker, PendingIsMade, TracesFollowRecord, At, Exists
  <2> QED
    BY <2>2, <2>3, <2>4
<1> QED
  BY <1>1, <1>2, <1>3, <1>4 DEF Next

LEMMA InsightsStay ==
  ASSUME IInv, [Next]_vars, NEW i \in Insight, insight[i] # NoInsight
  PROVE  insight'[i] = insight[i]
<1>1. ASSUME NEW r \in Req, NEW k \in Insight, NEW f \in Feature, detect(r, k, f)
      PROVE  insight'[i] = insight[i]
  BY <1>1 DEF detect, IInv, TypeOK
<1>2. ASSUME NEW r \in Req, Start(r) \/ Serve(r) \/ request_failed(r)
      PROVE  insight'[i] = insight[i]
  BY <1>1, <1>2 DEF Start, trigger_decision, get_decision, Serve, publish_insight, Decide,
     get_decision_by_insight, create_decision, update_decision, record_audit,
     approve_or_reject, audit_verdict, request_failed, tables
<1>3. ASSUME NEW w \in Worker,
             Deploy(w) \/ Poll(w) \/ Handle(w) \/ processing_failed(w) \/ worker_died(w)
      PROVE  insight'[i] = insight[i]
  BY <1>3 DEF Deploy, Poll, Handle, handle_event, Decide, get_decision_by_insight,
     create_decision, update_decision, record_audit, publish_decision_made,
     publish_approval_required, handler_returns, processing_failed, worker_died, tables
<1> QED
  BY <1>2, <1>3 DEF Next, vars, delete_dataset, restore_dataset

\* Only an anchor, its completion and a verdict write a record.
LEMMA EveryRecordMoves == IInv /\ [Next]_vars => \A i \in Insight : Moves(i)
<1> SUFFICES ASSUME IInv, [Next]_vars, NEW i \in Insight PROVE Moves(i)
  OBVIOUS
<1> USE DEF IInv
<1>1. CASE record' = record
  BY <1>1 DEF Moves
<1>2. ASSUME NEW p \in Proc, create_decision(p) \/ update_decision(p) PROVE Moves(i)
  <2> DEFINE k == job[p].insight
  <2>1. k \in Insight /\ insight[k] # NoInsight
    BY <1>2 DEF create_decision, update_decision, At, JobsOK, JobOK
  <2>2. CASE i # k
    BY <1>2, <2>2 DEF create_decision, update_decision, TypeOK, Moves
  <2>3. CASE i = k /\ create_decision(p)
    BY <2>1, <2>3 DEF create_decision, TypeOK, Moves, Anchored
  <2>4. CASE i = k /\ update_decision(p)
    <3>1. record[k].status = "pending"
      BY <2>4 DEF update_decision, At, JobsOK, JobOK
    <3>2. \E action \in ActionType \cup {"none"} : record'[k] = Completed(k, action)
      BY <2>1, <2>4 DEF update_decision, Completed, TypeOK
    <3> QED
      BY <2>4, <3>1, <3>2 DEF Moves
  <2> QED
    BY <1>2, <2>2, <2>3, <2>4
<1>3. ASSUME NEW r \in Req, NEW verdict \in {"approved", "rejected"}, approve_or_reject(r, verdict)
      PROVE  Moves(i)
  <2> DEFINE k == job[r].insight
  <2>1. k \in Insight /\ record[k].status \in ToApprove
    BY <1>3 DEF approve_or_reject, At, JobsOK, JobOK, Proc
  <2>2. record' = [record EXCEPT ![k].status = verdict]
    BY <1>3 DEF approve_or_reject
  <2>3. CASE i # k
    BY <2>2, <2>3 DEF TypeOK, Moves
  <2>4. CASE i = k
    BY <2>1, <2>2, <2>4 DEF TypeOK, Moves
  <2> QED
    BY <2>3, <2>4
<1>4. CASE UNCHANGED vars \/ \E k \in Insight : delete_dataset(k) \/ restore_dataset(k)
  BY <1>1, <1>4 DEF vars, delete_dataset, restore_dataset
<1>5. ASSUME NEW r \in Req, Start(r) \/ Serve(r) \/ request_failed(r) PROVE Moves(i)
  BY <1>1, <1>2, <1>3, <1>5 DEF Start, detect, trigger_decision, get_decision, Serve,
     publish_insight, Decide, get_decision_by_insight, record_audit, audit_verdict,
     request_failed, tables, Proc
<1>6. ASSUME NEW w \in Worker,
             Deploy(w) \/ Poll(w) \/ Handle(w) \/ processing_failed(w) \/ worker_died(w)
      PROVE  Moves(i)
  BY <1>1, <1>2, <1>6 DEF Deploy, Poll, Handle, handle_event, Decide, get_decision_by_insight,
     record_audit, publish_decision_made, publish_approval_required, handler_returns,
     processing_failed, worker_died, tables, Proc
<1> QED
  BY <1>4, <1>5, <1>6 DEF Next

-----------------------------------------------------------------------------
(* One verdict at a time *)

\* A request that has found the decision awaiting approval and is to write.
Judging(p) == job[p].pc \in {"approved", "rejected"}
OneJudge ==
    \A p, q \in Proc :
        Judging(p) /\ Judging(q) /\ job[p].insight = job[q].insight => p = q
JudgesOK == \A p \in Proc : Judging(p) => record[job[p].insight].status = "awaiting_approval"

\* A decision that was completed is written by a request that judges it, which
\* with that judges no longer.
LEMMA WhoWrites ==
  ASSUME IInv, [Next]_vars, NEW i \in Insight, record'[i] # record[i]
  PROVE  \/ record[i].status \in {"none", "pending"}
         \/ \E p \in Proc : Judging(p) /\ job[p].insight = i /\ ~Judging(p)'
<1> USE DEF IInv
<1>1. ASSUME NEW p \in Proc, create_decision(p) \/ update_decision(p)
      PROVE  record[i].status \in {"none", "pending"}
  <2>1. record' # record => job[p].insight \in Insight
    BY <1>1 DEF create_decision, update_decision, At, JobsOK, JobOK
  <2>2. i = job[p].insight
    BY <1>1, <2>1 DEF create_decision, update_decision, TypeOK
  <2>3. CASE create_decision(p)
    BY <2>2, <2>3 DEF create_decision, NoRecord
  <2>4. CASE update_decision(p)
    BY <2>2, <2>4 DEF update_decision, At, JobsOK, JobOK
  <2> QED
    BY <1>1, <2>3, <2>4
<1>2. ASSUME NEW r \in Req, NEW verdict \in {"approved", "rejected"}, approve_or_reject(r, verdict)
      PROVE  Judging(r) /\ job[r].insight = i /\ ~Judging(r)'
  <2>1. Judging(r) /\ r \in Proc
    BY <1>2 DEF approve_or_reject, At, Judging, Proc
  <2>2. job[r].insight = i
    BY <1>2, <2>1 DEF approve_or_reject, TypeOK, JobsOK, JobOK, Judging
  <2>3. job'[r].pc \in {"audit_approved", "audit_rejected"}
    BY <1>2, <2>1 DEF approve_or_reject, Goto, Audit, TypeOK, Job
  <2> QED
    BY <2>1, <2>2, <2>3 DEF Judging
<1> DEFINE Written == \/ record[i].status \in {"none", "pending"}
                      \/ \E p \in Proc : Judging(p) /\ job[p].insight = i /\ ~Judging(p)'
<1> HIDE DEF Written
<1>3. ASSUME record' = record PROVE Written
  BY <1>3
<1>4. ASSUME UNCHANGED vars \/ \E k \in Insight : delete_dataset(k) \/ restore_dataset(k)
      PROVE  Written
  BY <1>3, <1>4 DEF vars, delete_dataset, restore_dataset
<1>5. ASSUME NEW p \in Proc, Decide(p) PROVE Written
  <2>1. CASE get_decision_by_insight(p) \/ record_audit(p)
    <3>1. record' = record
      BY <2>1 DEF get_decision_by_insight, record_audit, tables
    <3> QED
      BY <1>3, <3>1
  <2>2. CASE create_decision(p) \/ update_decision(p)
    BY <1>1, <2>2 DEF Written
  <2> QED
    BY <1>5, <2>1, <2>2 DEF Decide
<1>6. ASSUME NEW r \in Req, Start(r) \/ Serve(r) \/ request_failed(r) PROVE Written
  <2>1. Start(r) => record' = record
    <3>1. \A k \in Insight, f \in Feature : detect(r, k, f) => record' = record
      BY DEF detect
    <3>2. \A k \in Insight : trigger_decision(r, k) => record' = record
      BY DEF trigger_decision, tables
    <3>3. \A k \in Insight, verdict \in {"approved", "rejected"} :
              get_decision(r, k, verdict) => record' = record
      BY DEF get_decision, tables
    <3> QED
      BY <3>1, <3>2, <3>3 DEF Start
  <2>2. publish_insight(r) \/ request_failed(r) => record' = record
    BY DEF publish_insight, request_failed, tables
  <2>3. \A verdict \in {"approved", "rejected"} :
            /\ audit_verdict(r, verdict) => record' = record
            /\ approve_or_reject(r, verdict) => Written
    BY <1>2 DEF audit_verdict, Written, Proc
  <2> QED
    BY <1>3, <1>5, <1>6, <2>1, <2>2, <2>3 DEF Serve, Proc
<1>7. ASSUME NEW w \in Worker,
             Deploy(w) \/ Poll(w) \/ Handle(w) \/ processing_failed(w) \/ worker_died(w)
      PROVE  Written
  <2>1. Deploy(w) \/ Poll(w) \/ processing_failed(w) \/ worker_died(w) => record' = record
    BY DEF Deploy, Poll, processing_failed, worker_died, tables
  <2>2. handle_event(w) => record' = record
    BY DEF handle_event, tables
  <2>3. publish_decision_made(w) \/ publish_approval_required(w) \/ handler_returns(w)
        => record' = record
    BY DEF publish_decision_made, publish_approval_required, handler_returns, tables
  <2> QED
    BY <1>3, <1>5, <1>7, <2>1, <2>2, <2>3 DEF Handle, Proc
<1> QED
  BY <1>4, <1>6, <1>7 DEF Next, Written

\* Who judges did so before, or has just found the decision awaiting approval.
LEMMA WhoJudges ==
  ASSUME IInv, [Next]_vars, NEW p \in Proc, Judging(p)'
  PROVE  \/ job'[p] = job[p]
         \/ record' = record /\ record[job'[p].insight].status = "awaiting_approval"
<1> USE DEF IInv
<1>1. CASE UNCHANGED vars \/ \E k \in Insight : delete_dataset(k) \/ restore_dataset(k)
  BY <1>1 DEF vars, delete_dataset, restore_dataset
<1>2. ASSUME NEW q \in Proc, NEW pc \in Step \ {"approved", "rejected"}, Goto(q, pc) \/ Finish(q)
      PROVE  job'[p] = job[p]
  BY <1>2, GotoFacts, FinishFacts DEF Judging
<1>3. ASSUME NEW r \in Req, Start(r)
      PROVE  \/ job'[p] = job[p]
             \/ record' = record /\ record[job'[p].insight].status = "awaiting_approval"
  <2>1. ASSUME NEW i \in Insight, NEW f \in Feature, detect(r, i, f) PROVE job'[p] = job[p]
    BY <2>1 DEF detect, TypeOK, Judging, Proc
  <2>2. ASSUME NEW i \in Insight, trigger_decision(r, i) PROVE job'[p] = job[p]
    BY <2>2 DEF trigger_decision, TypeOK, Judging, Proc
  <2>3. ASSUME NEW i \in Insight, NEW verdict \in {"approved", "rejected"},
               get_decision(r, i, verdict), job'[p] # job[p]
        PROVE  record' = record /\ record[job'[p].insight].status = "awaiting_approval"
    BY <2>3 DEF get_decision, tables, TypeOK, Idle, Proc
  <2> QED
    BY <1>3, <2>1, <2>2, <2>3 DEF Start
<1>4. ASSUME NEW q \in Proc, Decide(q) PROVE job'[p] = job[p]
  <2>1. CASE get_decision_by_insight(q)
    BY <1>2, <2>1 DEF get_decision_by_insight, TypeOK, Judging, Step, Job
  <2>2. CASE create_decision(q) \/ update_decision(q) \/ record_audit(q)
    BY <1>2, <2>2 DEF create_decision, update_decision, record_audit, Leave, Step
  <2> QED
    BY <1>4, <2>1, <2>2 DEF Decide
<1>5. ASSUME NEW r \in Req, Serve(r) \/ request_failed(r) PROVE job'[p] = job[p]
  BY <1>2, <1>4, <1>5 DEF Serve, publish_insight, approve_or_reject, audit_verdict,
     request_failed, Audit, Step, Proc
<1>6. ASSUME NEW w \in Worker,
             Deploy(w) \/ Poll(w) \/ Handle(w) \/ processing_failed(w) \/ worker_died(w)
      PROVE  job'[p] = job[p]
  <2>1. CASE handle_event(w)
    BY <2>1 DEF handle_event, TypeOK, Judging, Proc
  <2>2. CASE Deploy(w) \/ Poll(w)
    BY <2>2 DEF Deploy, Poll
  <2>3. CASE \/ publish_decision_made(w) \/ publish_approval_required(w)
             \/ handler_returns(w) \/ processing_failed(w) \/ worker_died(w)
    BY <1>2, <2>3 DEF publish_decision_made, publish_approval_required, handler_returns,
       processing_failed, worker_died, Step, Proc
  <2> QED
    BY <1>4, <1>6, <2>1, <2>2, <2>3 DEF Handle, Proc
<1> QED
  BY <1>1, <1>3, <1>5, <1>6 DEF Next

LEMMA JudgesStayOK == IInv /\ OneJudge /\ JudgesOK /\ [Next]_vars => JudgesOK'
<1> SUFFICES ASSUME IInv, OneJudge, JudgesOK, [Next]_vars, NEW p \in Proc, Judging(p)'
             PROVE  record'[job'[p].insight].status = "awaiting_approval"
  BY DEF JudgesOK
<1>1. CASE record' = record /\ record[job'[p].insight].status = "awaiting_approval"
  BY <1>1
<1>2. CASE job'[p] = job[p]
  <2> DEFINE i == job[p].insight
  <2>1. Judging(p) /\ i \in Insight /\ record[i].status = "awaiting_approval"
    BY <1>2 DEF Judging, JudgesOK, IInv, JobsOK, JobOK
  <2>2. record'[i] = record[i]
    BY <2>1, WhoWrites DEF OneJudge
  <2> QED
    BY <1>2, <2>1, <2>2
<1> QED
  BY <1>1, <1>2, WhoJudges

-----------------------------------------------------------------------------
(* Theorems *)

LEMMA Invariance == Spec => []IInv
<1>1. Init => IInv
  BY InitEstablishes
<1>2. IInv /\ [Next]_vars => IInv'
  BY StepKeeps
<1> QED
  BY <1>1, <1>2, PTL DEF Spec

LEMMA AtMostOne ==
  ASSUME NEW S, \A x, y \in S : x = y
  PROVE  Cardinality(S) <= 1
<1>1. CASE S = {}
  BY <1>1, FS_EmptySet
<1>2. CASE S # {}
  <2>1. PICK x \in S : S = {x}
    BY <1>2
  <2> QED
    BY <2>1, FS_Singleton
<1> QED
  BY <1>1, <1>2

\* However many workers and requests decide the same insight at once, one of
\* them anchors the decision and completes it, a pending row without a maker was
\* left by a failure, and no audit record or event runs ahead of the table
\* (make_decision, with the unique insight_event_id).
THEOREM DecisionsAlwaysSound == Spec => []DecisionsAreSound
<1>1. ASSUME IInv PROVE AnchorHasOneMaker
  <2> SUFFICES ASSUME NEW i \in Insight
               PROVE  /\ Cardinality(Makers(i)) <= 1
                      /\ Makers(i) # {} => record[i].status = "pending"
                      /\ record[i].status = "pending" /\ faults = 0 => Makers(i) # {}
    BY DEF AnchorHasOneMaker
  <2>1. \A p, q \in Makers(i) : p = q
    BY <1>1 DEF IInv, OneMaker, Makers
  <2>2. Makers(i) # {} => record[i].status = "pending"
    BY <1>1 DEF IInv, JobsOK, JobOK, Makers, At
  <2>3. record[i].status = "pending" /\ faults = 0 => Makers(i) # {}
    BY <1>1 DEF IInv, PendingIsMade, Makers
  <2> HIDE DEF Makers
  <2> QED
    BY <2>1, <2>2, <2>3, AtMostOne
<1>2. IInv => DecisionsAreSound
  BY <1>1 DEF IInv, DecisionsAreSound
<1> QED
  BY <1>2, Invariance, PTL

\* A P1 decision takes effect by an executive's verdict only and nothing else
\* is put before one, whichever caller anchored the record and whatever the
\* language model answered (_derive_priority, _derive_decision_type, approve).
THEOREM P1AlwaysNeedsExecutive == Spec => []P1NeedsExecutive
<1>1. ASSUME IInv PROVE P1NeedsExecutive
  <2> SUFFICES ASSUME NEW i \in Insight, Exists(i)
               PROVE  LET P1 == insight[i].anomaly /\ insight[i].severity = "critical"
                      IN  /\ record[i].status = "decided" => ~ P1
                          /\ record[i].status \in {"awaiting_approval", "approved", "rejected"} => P1
                          /\ record[i].status # "pending" => (record[i].type = "approval_required") = P1
    BY DEF P1NeedsExecutive
  <2> DEFINE P1 == insight[i].anomaly /\ insight[i].severity = "critical"
  <2>1. RecordOK(i) /\ insight[i] \in Feature \cup {NoInsight}
    BY <1>1 DEF IInv, RecordsOK, TypeOK
  <2>2. record[i].priority = "P1" <=> P1
    BY <2>1, PriorityRule DEF RecordOK
  <2> HIDE DEF P1
  <2>3. P1 \in BOOLEAN
    BY DEF P1
  <2>4. /\ record[i].status = "decided" => ~ P1
        /\ record[i].status \in {"awaiting_approval", "approved", "rejected"} => P1
        /\ record[i].status # "pending" => (record[i].type = "approval_required" <=> P1)
    BY <2>1, <2>2 DEF RecordOK, ToApprove
  <2>5. record[i].status # "pending" => (record[i].type = "approval_required") = P1
    BY <2>3, <2>4, Zenon
  <2> QED
    BY <2>4, <2>5, Zenon DEF P1
<1> QED
  BY <1>1, Invariance, PTL

\* A decision that was final stays final with its priority and type: a late
\* maker, a second verdict or a replayed event cannot reopen it
\* (update_decision, approve_decision, reject_decision).
THEOREM FinalStaysFinal == Spec => FinalForGood
<1>1. ASSUME IInv, [Next]_vars
      PROVE  \A i \in Insight : record[i].status \in Final =>
                 /\ record'[i].priority = record[i].priority
                 /\ record'[i].type = record[i].type
                 /\ IF record[i].status = "decided" THEN record'[i].status = "decided"
                    ELSE record'[i].status \in {"approved", "rejected"}
  <2> SUFFICES ASSUME NEW i \in Insight, record[i].status \in Final
               PROVE  /\ record'[i].priority = record[i].priority
                      /\ record'[i].type = record[i].type
                      /\ IF record[i].status = "decided" THEN record'[i].status = "decided"
                         ELSE record'[i].status \in {"approved", "rejected"}
    OBVIOUS
  <2>1. Moves(i)
    BY <1>1, EveryRecordMoves
  <2>2. Exists(i)
    BY DEF Exists, NoRecord, Final
  <2>3. insight[i] # NoInsight => insight'[i] = insight[i]
    BY <1>1, InsightsStay
  <2> QED
    BY <1>1, <2>1, <2>2, <2>3, MoveFacts DEF Final
<1> QED
  BY <1>1, Invariance, PTL DEF Spec, FinalForGood

\* While no two requests are at a verdict on the same decision at once, a decision
\* goes through its life as the comment on DecisionRecord.status has it, from
\* pending on and with one verdict, whoever else decides, fails and dies
\* (approve_decision and reject_decision in routers/decisions.py).
THEOREM LifeCycleOfOneJudge == Spec /\ []OneJudge => LifeCycle
<1> DEFINE Legal ==
        \A i \in Insight : record'[i].status # record[i].status =>
            <<record[i].status, record'[i].status>> \in
                {<<"none", "pending">>, <<"pending", "decided">>,
                 <<"pending", "awaiting_approval">>, <<"awaiting_approval", "approved">>,
                 <<"awaiting_approval", "rejected">>}
<1>1. Init => JudgesOK
  BY DEF Init, JudgesOK, Judging, Idle
<1>2. ASSUME IInv, JudgesOK, [Next]_vars PROVE Legal
  <2> SUFFICES ASSUME NEW i \in Insight, record'[i].status # record[i].status
               PROVE  <<record[i].status, record'[i].status>> \in
                          {<<"none", "pending">>, <<"pending", "decided">>,
                           <<"pending", "awaiting_approval">>, <<"awaiting_approval", "approved">>,
                           <<"awaiting_approval", "rejected">>}
    OBVIOUS
  <2>1. Moves(i)
    BY <1>2, EveryRecordMoves
  <2>2. record[i] \in Record \cup {NoRecord}
    BY <1>2 DEF IInv, TypeOK
  <2>3. CASE record[i] = NoRecord /\ record'[i] = Anchored(i)
    BY <2>3 DEF NoRecord, Anchored
  <2>4. CASE record[i].status = "pending" /\ \E action \in ActionType \cup {"none"} :
                 record'[i] = Completed(i, action)
    BY <2>4 DEF Completed
  <2>5. CASE /\ record[i].status \in ToApprove
             /\ \E verdict \in {"approved", "rejected"} :
                    record'[i] = [record[i] EXCEPT !.status = verdict]
    <3>1. record[i].status = "awaiting_approval"
      BY <1>2, <2>5, WhoWrites DEF JudgesOK, ToApprove
    <3>2. record'[i].status \in {"approved", "rejected"}
      BY <2>2, <2>5 DEF Record, NoRecord
    <3> QED
      BY <3>1, <3>2
  <2> QED
    BY <2>1, <2>3, <2>4, <2>5 DEF Moves
<1> QED
  BY <1>1, <1>2, Invariance, JudgesStayOK, PTL DEF Spec, LifeCycle
=============================================================================
