------------------------- MODULE KpiGovernanceProofs -------------------------
(***************************************************************************)
(* Proofs about KpiGovernance for every set of KPIs, approval requests and *)
(* concurrent requests, and every bound on rows and faults.                *)
(***************************************************************************)
EXTENDS KpiGovernance, FiniteSetTheorems, TLAPS

\* A job at work is about a KPI and, when it came through an approval request,
\* that request is about the same KPI and the KPI is the only one; only such a
\* job closes one.
JobHasSubject ==
    \A r \in Req : job[r].pc # "idle" =>
        /\ job[r].kpi \in Kpi
        /\ job[r].op \in {"approve", "decline"} =>
               /\ job[r].ar \in Ar /\ ar[job[r].ar].kpi = job[r].kpi
               /\ job[r].done = {}
        /\ job[r].pc = "close" => job[r].op \in {"approve", "decline"}
ArHasSubject == \A a \in Ar : ar[a].state # "unused" <=> ar[a].kpi \in Kpi

TInv == TypeOK /\ JobHasSubject /\ ArHasSubject

-----------------------------------------------------------------------------
(* What the two ways to move a job on leave of it *)

LEMMA GotoFacts ==
  ASSUME job \in [Req -> Job], NEW r \in Req, NEW pc \in Step, Goto(r, pc)
  PROVE  /\ job' \in [Req -> Job]
         /\ job'[r].pc = pc
         /\ job'[r].op = job[r].op
         /\ job'[r].kpi = job[r].kpi
         /\ job'[r].ar = job[r].ar
         /\ job'[r].status = job[r].status
         /\ job'[r].version = job[r].version
         /\ job'[r].todo = job[r].todo
         /\ job'[r].done = job[r].done
         /\ \A q \in Req : q # r => job'[q] = job[q]
<1> DEFINE moved == [job[r] EXCEPT !.pc = pc]
<1>1. job[r] \in Job
  OBVIOUS
<1>2. moved \in Job
  BY <1>1 DEF Job
<1>3. job' = [job EXCEPT ![r] = moved]
  BY DEF Goto
<1> QED
  BY <1>1, <1>2, <1>3 DEF Job

LEMMA FinishFacts ==
  ASSUME job \in [Req -> Job], NEW r \in Req, Finish(r)
  PROVE  /\ job' \in [Req -> Job]
         /\ job'[r] = Idle
         /\ \A q \in Req : q # r => job'[q] = job[q]
  BY DEF Finish, Idle, Job, Step, Op, Review

\* A job that begins is about what it was given.
LEMMA BeginFacts ==
  ASSUME job \in [Req -> Job], NEW r \in Req, NEW pc \in Step, NEW op \in Op, NEW k \in Kpi,
         NEW a \in Ar \cup {NoAr}, Begin(r, pc, op, k, a)
  PROVE  /\ job' \in [Req -> Job]
         /\ job'[r].pc = pc /\ job'[r].op = op /\ job'[r].kpi = k /\ job'[r].ar = a
         /\ job'[r].done = {}
         /\ \A q \in Req : q # r => job'[q] = job[q]
<1> DEFINE new == [Idle EXCEPT !.pc = pc, !.op = op, !.kpi = k, !.ar = a]
<1>1. new \in Job /\ new.pc = pc /\ new.op = op /\ new.kpi = k /\ new.ar = a /\ new.done = {}
  BY DEF Idle, Job, Review
<1>2. job' = [job EXCEPT ![r] = new]
  BY DEF Begin
<1> HIDE DEF new
<1> QED
  BY <1>1, <1>2

LEMMA LoadFacts ==
  ASSUME TypeOK, NEW r \in Req, NEW k \in Kpi,
         NEW op \in {"certify", "reject", "regen", "update", "delete"}, get_or_404(r, op, k)
  PROVE  /\ job' \in [Req -> Job]
         /\ job'[r].pc = "write" /\ job'[r].op = op /\ job'[r].kpi = k
         /\ job'[r].status = status[k] /\ job'[r].version = version[k]
         /\ \A q \in Req : q # r => job'[q] = job[q]
<1> DEFINE new == [Idle EXCEPT !.pc = "write", !.op = op, !.kpi = k,
                               !.status = status[k], !.version = version[k]]
<1>1. status[k] \in Review /\ version[k] \in Nat /\ job \in [Req -> Job]
  BY DEF TypeOK, get_or_404, Exists
<1>2. /\ new \in Job /\ new.pc = "write" /\ new.op = op /\ new.kpi = k
      /\ new.status = status[k] /\ new.version = version[k]
  BY <1>1 DEF Idle, Job, Step, Op
<1>3. job' = [job EXCEPT ![r] = new]
  BY DEF get_or_404
<1> HIDE DEF new
<1> QED
  BY <1>1, <1>2, <1>3

LEMMA HandleFacts ==
  ASSUME TypeOK, NEW r \in Req, NEW e \in queue, handle_kpi_generated(r, e)
  PROVE  /\ job' \in [Req -> Job]
         /\ job'[r].pc = "find" /\ job'[r].op = "hitl" /\ job'[r].kpi \in Kpi
         /\ \A q \in Req : q # r => job'[q] = job[q]
<1> PICK k \in e : job' = [job EXCEPT ![r] = [Idle EXCEPT !.pc = "find", !.op = "hitl",
                                                          !.kpi = k, !.todo = e \ {k}]]
  BY DEF handle_kpi_generated
<1> DEFINE new == [Idle EXCEPT !.pc = "find", !.op = "hitl", !.kpi = k, !.todo = e \ {k}]
<1>1. e \subseteq Kpi /\ k \in Kpi /\ job \in [Req -> Job]
  BY DEF TypeOK
<1>2. new \in Job /\ new.pc = "find" /\ new.op = "hitl" /\ new.kpi = k
  BY <1>1 DEF Idle, Job, Step, Op, Review
<1>3. job' = [job EXCEPT ![r] = new]
  OBVIOUS
<1> HIDE DEF new
<1> QED
  BY <1>1, <1>2, <1>3

LEMMA TypeInit == Init => TInv
  BY GovernanceAssumption
  DEF Init, TInv, TypeOK, JobHasSubject, ArHasSubject, Idle, Job, Step, Op, Review,
         ApprovalRequest, KpiVersion, Verdict

\* The new approval request expires what the HITL worker held.
Expires(r) ==
    /\ job[r].op = "hitl"
    /\ job' = [job EXCEPT ![r] = [@ EXCEPT !.pc = "publish", !.stale = TRUE]]

LEMMA ExpiresFacts ==
  ASSUME job \in [Req -> Job], NEW r \in Req, Expires(r)
  PROVE  /\ job' \in [Req -> Job]
         /\ job'[r].pc = "publish"
         /\ job'[r].op = "hitl" /\ job[r].op = "hitl"
         /\ job'[r].kpi = job[r].kpi
         /\ job'[r].ar = job[r].ar
         /\ job'[r].todo = job[r].todo
         /\ \A q \in Req : q # r => job'[q] = job[q]
<1> DEFINE moved == [job[r] EXCEPT !.pc = "publish", !.stale = TRUE]
<1>1. job[r] \in Job
  OBVIOUS
<1>2. moved \in Job
  BY <1>1 DEF Job, Step
<1>3. job' = [job EXCEPT ![r] = moved]
  BY DEF Expires
<1> QED
  BY <1>1, <1>2, <1>3 DEF Job, Expires

\* Every step of a job under way moves it on or ends it.
Moves(r) ==
    /\ job[r].pc # "idle"
    /\ \/ Finish(r)
       \/ \E pc \in Step \ {"idle"} :
              Goto(r, pc) /\ (pc = "close" => job[r].op \in {"approve", "decline"})
       \/ Expires(r)
    /\ \A a \in Ar : ar[a].kpi \in Kpi => ar'[a].kpi = ar[a].kpi

JobOK == job \in [Req -> Job] /\ JobHasSubject

LEMMA MovesKeep ==
  ASSUME JobOK, NEW r \in Req, Moves(r)
  PROVE  JobOK'
<1>1. CASE Finish(r)
  BY <1>1, FinishFacts DEF JobOK, JobHasSubject, Idle, Moves
<1>2. CASE \E pc \in Step \ {"idle"} :
              Goto(r, pc) /\ (pc = "close" => job[r].op \in {"approve", "decline"})
  <2> PICK pc \in Step \ {"idle"} :
              Goto(r, pc) /\ (pc = "close" => job[r].op \in {"approve", "decline"})
    BY <1>2
  <2>1. /\ job' \in [Req -> Job]
        /\ job'[r].op = job[r].op /\ job'[r].kpi = job[r].kpi /\ job'[r].ar = job[r].ar
        /\ job'[r].pc = pc /\ job'[r].done = job[r].done
        /\ \A q \in Req : q # r => job'[q] = job[q]
    BY GotoFacts DEF JobOK
  <2>2. job[r].pc # "idle"
    BY DEF Moves
  <2> QED
    BY <2>1, <2>2 DEF JobOK, JobHasSubject, Moves
<1>3. CASE Expires(r)
  BY <1>3, ExpiresFacts DEF JobOK, JobHasSubject, Moves
<1> QED
  BY <1>1, <1>2, <1>3 DEF Moves

\* A batch goes on with its next KPI.
GoesOn(r) == generate_kpi_approvals(r) \/ \E k \in Kpi : create_next_kpi(r, k)

LEMMA GoesOnFacts ==
  ASSUME JobOK, NEW r \in Req, GoesOn(r)
  PROVE  /\ job' \in [Req -> Job]
         /\ job[r].pc = "publish" /\ job'[r].kpi \in Kpi /\ job'[r].op = job[r].op
         /\ \/ job[r].op = "hitl" /\ job'[r].pc = "find" /\ UNCHANGED <<status, version>>
            \/ /\ job[r].op = "generate" /\ job'[r].pc = "audit" /\ status[job'[r].kpi] = "absent"
               /\ status' = [status EXCEPT ![job'[r].kpi] = "pending_review"]
               /\ version' = [version EXCEPT ![job'[r].kpi] = 1]
         /\ \A q \in Req : q # r => job'[q] = job[q]
         /\ UNCHANGED <<ledger, ar, audit, events, queue, polling, faults, decided>>
<1>1. job \in [Req -> Job] /\ job[r] \in Job /\ job[r].pc = "publish"
  BY DEF JobOK, GoesOn, generate_kpi_approvals, create_next_kpi, At
<1>2. job[r].kpi \in Kpi /\ job[r].done \subseteq Kpi /\ job[r].todo \subseteq Kpi
  BY <1>1 DEF JobOK, JobHasSubject, Job
<1>3. CASE generate_kpi_approvals(r)
  <2> PICK k \in job[r].todo :
           job' = [job EXCEPT ![r] = [@ EXCEPT !.pc = "find", !.kpi = k, !.todo = job[r].todo \ {k},
                                               !.done = job[r].done \cup {job[r].kpi}]]
    BY <1>3 DEF generate_kpi_approvals
  <2> DEFINE moved == [job[r] EXCEPT !.pc = "find", !.kpi = k, !.todo = job[r].todo \ {k},
                                     !.done = job[r].done \cup {job[r].kpi}]
  <2>1. job' = [job EXCEPT ![r] = moved]
    OBVIOUS
  <2>2. moved \in Job /\ moved.pc = "find" /\ moved.kpi = k /\ moved.op = job[r].op /\ k \in Kpi
    BY <1>1, <1>2 DEF Job, Step
  <2> HIDE DEF moved
  <2> QED
    BY <1>1, <1>3, <2>1, <2>2 DEF generate_kpi_approvals, rows
<1>4. ASSUME NEW k \in Kpi, create_next_kpi(r, k)
      PROVE  /\ job' \in [Req -> Job]
             /\ job'[r].kpi = k /\ job'[r].op = job[r].op /\ job'[r].pc = "audit"
             /\ \A q \in Req : q # r => job'[q] = job[q]
  <2> DEFINE moved == [job[r] EXCEPT !.pc = "audit", !.kpi = k, !.done = job[r].done \cup {job[r].kpi}]
  <2>1. job' = [job EXCEPT ![r] = moved]
    BY <1>4 DEF create_next_kpi
  <2>2. moved \in Job /\ moved.pc = "audit" /\ moved.kpi = k /\ moved.op = job[r].op
    BY <1>1, <1>2 DEF Job, Step
  <2> HIDE DEF moved
  <2> QED
    BY <1>1, <2>1, <2>2
<1>5. CASE \E k \in Kpi : create_next_kpi(r, k)
  BY <1>1, <1>4, <1>5 DEF create_next_kpi, insert_kpi
<1> QED
  BY <1>3, <1>5 DEF GoesOn

LEMMA GoesOnKeeps ==
  ASSUME JobOK, NEW r \in Req, GoesOn(r)
  PROVE  JobOK'
  BY GoesOnFacts DEF JobOK, JobHasSubject

LEMMA ContinueMoves ==
  ASSUME TInv, NEW r \in Req, Continue(r) \/ approval_creation_failed(r) \/ crash(r),
         ~ get_kpi(r), ~ GoesOn(r)
  PROVE  Moves(r)
<1>0. ar \in [Ar -> ApprovalRequest] /\ ArHasSubject
  BY DEF TInv, TypeOK
<1> USE DEF Moves, At, Step, rows
<1>1. CASE get_approval_by_entity(r)
  BY <1>1 DEF get_approval_by_entity, AfterApproval
<1>2. CASE create_approval_request(r)
  BY <1>0, <1>2 DEF create_approval_request, AfterApproval, Unused, ArHasSubject, Expires
<1>3. CASE certify_kpi(r)
  BY <1>3 DEF certify_kpi, snapshot_version, AfterVerdict
<1>4. CASE reject_kpi(r)
  BY <1>4 DEF reject_kpi, snapshot_version, AfterVerdict
<1>5. CASE reset_to_pending_review(r)
  BY <1>5 DEF reset_to_pending_review, snapshot_version
<1>6. CASE update_kpi(r)
  BY <1>6 DEF update_kpi, snapshot_version
<1>7. CASE delete_kpi(r)
  BY <1>7 DEF delete_kpi
<1>8. CASE row_gone(r)
  BY <1>8 DEF row_gone
<1>9. CASE close_approval(r)
  BY <1>0, <1>9 DEF close_approval, ApprovalRequest
<1>10. CASE record_audit(r)
  BY <1>10 DEF record_audit
<1>11. CASE publish(r)
  BY <1>11 DEF publish
<1>12. CASE approval_creation_failed(r)
  BY <1>12 DEF approval_creation_failed
<1>13. CASE crash(r)
  BY <1>13 DEF crash
<1>14. CASE publish_raises(r)
  BY <1>14 DEF publish_raises
<1> QED
  BY <1>1, <1>2, <1>3, <1>4, <1>5, <1>6, <1>7, <1>8, <1>9, <1>10, <1>11, <1>12, <1>13, <1>14
  DEF Continue, GoesOn

DataOK ==
    /\ status \in [Kpi -> Review \cup {"absent", "gone"}]
    /\ version \in [Kpi -> Nat]
    /\ ledger \in [Kpi -> Seq(KpiVersion)]
    /\ ar \in [Ar -> ApprovalRequest]
    /\ audit \subseteq (Verdict \cup {"created", "updated", "deleted"}) \X Kpi
    /\ events \subseteq (Verdict \cup {"pending_review", "generated"}) \X Kpi \X (Ar \cup {NoAr})
    /\ queue \subseteq SUBSET Kpi
    /\ polling \in BOOLEAN
    /\ faults \in Nat
    /\ decided \in [Kpi -> SUBSET Verdict]
    /\ ArHasSubject

LEMMA Parts == (TInv <=> JobOK /\ DataOK) /\ (TInv' <=> JobOK' /\ DataOK')
  BY DEF TInv, TypeOK, JobOK, DataOK

\* The fields of a job at work.
LEMMA AtWork ==
  ASSUME JobOK, NEW r \in Req, job[r].pc # "idle"
  PROVE  /\ job[r].kpi \in Kpi
         /\ job[r].op \in Op
         /\ job[r].ar \in Ar \cup {NoAr}
         /\ job[r].op \in {"approve", "decline"} =>
                job[r].ar \in Ar /\ ar[job[r].ar].kpi = job[r].kpi
         /\ job[r].pc = "close" => job[r].op \in {"approve", "decline"}
         /\ job[r].status \in Review
         /\ job[r].version \in Nat
         /\ job[r].done \subseteq Kpi
  BY DEF JobOK, JobHasSubject, Job

\* A job that begins keeps the others' subjects.
LEMMA FreshKeeps ==
  ASSUME JobOK, NEW r \in Req, job' \in [Req -> Job], job'[r].kpi \in Kpi,
         \A q \in Req : q # r => job'[q] = job[q], ar' = ar, job'[r].pc # "close",
         job'[r].op \in {"approve", "decline"} =>
             job'[r].ar \in Ar /\ ar[job'[r].ar].kpi = job'[r].kpi /\ job'[r].done = {}
  PROVE  JobOK'
  BY DEF JobOK, JobHasSubject

LEMMA StartKeepsType ==
  ASSUME TInv, NEW r \in Req, Start(r) \/ (\E e \in queue : handle_kpi_generated(r, e))
  PROVE  TInv'
<1>0. TypeOK /\ JobOK /\ DataOK /\ job \in [Req -> Job]
  BY Parts DEF TInv, TypeOK
<1>1. ASSUME NEW k \in Kpi, NEW op \in {"create", "generate"}, create_kpi(r, k, op)
      PROVE  JobOK' /\ DataOK'
  <2>1. DataOK'
    BY <1>0, <1>1 DEF create_kpi, insert_kpi, Review, DataOK, ArHasSubject
  <2>2. Begin(r, "audit", op, k, NoAr) /\ op \in Op /\ "audit" \in Step /\ ar' = ar
    BY <1>1 DEF create_kpi, insert_kpi, Op, Step
  <2>3. /\ job' \in [Req -> Job] /\ job'[r].pc = "audit" /\ job'[r].op = op /\ job'[r].kpi = k
        /\ \A q \in Req : q # r => job'[q] = job[q]
    BY <1>0, <2>2, BeginFacts
  <2> QED
    BY <1>0, <2>1, <2>2, <2>3, FreshKeeps
<1>2. ASSUME NEW k \in Kpi, seed_approvals(r, k) \/ regen_pending(r, k)
      PROVE  JobOK' /\ DataOK'
  <2>1. DataOK'
    BY <1>0, <1>2 DEF seed_approvals, regen_pending, DataOK, ArHasSubject, rows
  <2>2. Begin(r, "find", "seed", k, NoAr) /\ "seed" \in Op /\ "find" \in Step /\ ar' = ar
    BY <1>2 DEF seed_approvals, regen_pending, Op, Step
  <2>3. /\ job' \in [Req -> Job] /\ job'[r].pc = "find" /\ job'[r].op = "seed" /\ job'[r].kpi = k
        /\ \A q \in Req : q # r => job'[q] = job[q]
    BY <1>0, <2>2, BeginFacts
  <2> QED
    BY <1>0, <2>1, <2>2, <2>3, FreshKeeps
<1>3. ASSUME NEW e \in queue, handle_kpi_generated(r, e) PROVE JobOK' /\ DataOK'
  <2>1. DataOK' /\ ar' = ar
    BY <1>0, <1>3 DEF handle_kpi_generated, DataOK, ArHasSubject, rows
  <2>2. /\ job' \in [Req -> Job] /\ job'[r].pc = "find" /\ job'[r].op = "hitl" /\ job'[r].kpi \in Kpi
        /\ \A q \in Req : q # r => job'[q] = job[q]
    BY <1>0, <1>3, HandleFacts
  <2> QED
    BY <1>0, <2>1, <2>2, FreshKeeps
<1>4. ASSUME NEW k \in Kpi, NEW op \in {"certify", "reject", "regen", "update", "delete"},
             get_or_404(r, op, k)
      PROVE  JobOK' /\ DataOK'
  <2>1. DataOK' /\ ar' = ar
    BY <1>0, <1>4 DEF get_or_404, DataOK, ArHasSubject, rows
  <2>2. /\ job' \in [Req -> Job] /\ job'[r].pc = "write" /\ job'[r].op = op /\ job'[r].kpi = k
        /\ \A q \in Req : q # r => job'[q] = job[q]
    BY <1>0, <1>4, LoadFacts
  <2> QED
    BY <1>0, <2>1, <2>2, FreshKeeps
<1>5. ASSUME NEW a \in Ar, NEW op \in {"approve", "decline"}, get_approval_request(r, a, op)
      PROVE  JobOK' /\ DataOK'
  <2>1. ar[a].kpi \in Kpi /\ ar' = ar
    BY <1>0, <1>5 DEF get_approval_request, ApprovalRequest, DataOK, ArHasSubject
  <2>2. DataOK'
    BY <1>0, <1>5 DEF get_approval_request, DataOK, ArHasSubject, rows
  <2>3. Begin(r, "load", op, ar[a].kpi, a) /\ op \in Op /\ "load" \in Step
    BY <1>5 DEF get_approval_request, Op, Step
  <2>4. /\ job' \in [Req -> Job] /\ job'[r].pc = "load" /\ job'[r].op = op
        /\ job'[r].kpi = ar[a].kpi /\ job'[r].ar = a /\ job'[r].done = {}
        /\ \A q \in Req : q # r => job'[q] = job[q]
    BY <1>0, <2>1, <2>3, BeginFacts
  <2> QED
    BY <1>0, <2>1, <2>2, <2>4, FreshKeeps
<1> QED
  BY <1>1, <1>2, <1>3, <1>4, <1>5, Parts DEF Start

LEMMA GetKpiKeepsType ==
  ASSUME TInv, NEW r \in Req, get_kpi(r)
  PROVE  TInv'
<1> DEFINE k == job[r].kpi
<1>1. JobOK /\ DataOK /\ job[r].pc = "load"
  BY Parts DEF get_kpi, At
<1>2. CASE Finish(r)
  <2>1. Moves(r)
    BY <1>1, <1>2 DEF Moves, get_kpi
  <2> QED
    BY <1>1, <2>1, MovesKeep, Parts DEF get_kpi, rows, DataOK, ArHasSubject
<1>3. CASE /\ Exists(k)
           /\ job' = [job EXCEPT ![r] = [@ EXCEPT !.pc = "write", !.status = status[k],
                                                  !.version = version[k]]]
  <2> DEFINE new == [job[r] EXCEPT !.pc = "write", !.status = status[k], !.version = version[k]]
  <2>1. job[r] \in Job /\ status[k] \in Review /\ version[k] \in Nat
    BY <1>1, <1>3, AtWork DEF JobOK, DataOK, Exists
  <2>2. new \in Job /\ new.op = job[r].op /\ new.kpi = job[r].kpi /\ new.ar = job[r].ar /\ new.pc = "write"
        /\ new.done = job[r].done
    BY <2>1 DEF Job, Step
  <2>3. job' = [job EXCEPT ![r] = new]
    BY <1>3
  <2>4. JobOK'
    BY <1>1, <2>2, <2>3 DEF JobOK, JobHasSubject, get_kpi
  <2> QED
    BY <1>1, <2>4, Parts DEF get_kpi, rows, DataOK, ArHasSubject
<1> QED
  BY <1>2, <1>3 DEF get_kpi

\* A version row is added, and the version of its KPI counts on from it.
LEMMA SnapshotFacts ==
  ASSUME DataOK, NEW r \in Req, NEW reason \in Reason, snapshot_version(r, reason),
         job[r].kpi \in Kpi, job[r].status \in Review, job[r].version \in Nat
  PROVE  version' \in [Kpi -> Nat] /\ ledger' \in [Kpi -> Seq(KpiVersion)]
<1> DEFINE row == [version |-> job[r].version, status |-> job[r].status, reason |-> reason]
<1>1. row \in KpiVersion
  BY DEF KpiVersion
<1>2. Append(ledger[job[r].kpi], row) \in Seq(KpiVersion)
  BY <1>1 DEF DataOK
<1> QED
  BY <1>2 DEF snapshot_version, DataOK

LEMMA ContinueKeepsType ==
  ASSUME TInv, NEW r \in Req, Continue(r) \/ approval_creation_failed(r) \/ crash(r),
         ~ get_kpi(r), ~ GoesOn(r)
  PROVE  TInv'
<1> SUFFICES DataOK'
  BY ContinueMoves, MovesKeep, Parts
<1>0. /\ DataOK /\ job[r].pc # "idle" /\ job[r].kpi \in Kpi
      /\ job[r].ar \in Ar \cup {NoAr}
      /\ job[r].op \in {"approve", "decline"} =>
             job[r].ar \in Ar /\ ar[job[r].ar].kpi = job[r].kpi
      /\ job[r].pc = "close" => job[r].op \in {"approve", "decline"}
      /\ job[r].op \in Op /\ job[r].status \in Review /\ job[r].version \in Nat
  BY ContinueMoves, Parts, AtWork DEF Moves
<1> USE <1>0 DEF DataOK, ArHasSubject, rows
<1>1. CASE get_approval_by_entity(r)
  BY <1>1 DEF get_approval_by_entity
<1>2. CASE create_approval_request(r)
  BY <1>2 DEF create_approval_request, Unused, ApprovalRequest
<1>3. CASE certify_kpi(r)
  BY <1>3, SnapshotFacts DEF certify_kpi, SetStatus, Reason, Verdict, Review
<1>4. CASE reject_kpi(r)
  BY <1>4, SnapshotFacts DEF reject_kpi, SetStatus, Reason, Verdict, Review
<1>5. CASE reset_to_pending_review(r)
  BY <1>5, SnapshotFacts DEF reset_to_pending_review, SetStatus, Reason, Verdict, Review
<1>6. CASE update_kpi(r)
  BY <1>6, SnapshotFacts DEF update_kpi, Reason, Verdict, Review
<1>7. CASE delete_kpi(r)
  BY <1>7 DEF delete_kpi, SetStatus
<1>8. CASE row_gone(r)
  BY <1>8 DEF row_gone
<1>9. CASE close_approval(r)
  <2> DEFINE closed == [ar[job[r].ar] EXCEPT
                            !.state = IF job[r].op = "approve" THEN "approved" ELSE "rejected"]
  <2>1. ar' = [ar EXCEPT ![job[r].ar] = closed]
    BY <1>9 DEF close_approval
  <2>2. ar[job[r].ar] \in ApprovalRequest /\ ar[job[r].ar].kpi \in Kpi /\ job[r].ar \in Ar
    BY <1>9 DEF close_approval, At
  <2>3. closed \in ApprovalRequest /\ closed.kpi = ar[job[r].ar].kpi /\ closed.state # "unused"
    BY <2>2 DEF ApprovalRequest
  <2> QED
    BY <1>9, <2>1, <2>2, <2>3 DEF close_approval
<1>10. CASE record_audit(r)
  BY <1>10 DEF record_audit, AuditAction, Verdict
<1>11. CASE publish(r)
  <2> DEFINE batch == job[r].done \cup {job[r].kpi}
  <2>1. batch \subseteq Kpi
    BY Parts, AtWork
  <2>2. EventType(job[r].op) \in Verdict \cup {"pending_review", "generated"}
    BY DEF EventType, Verdict
  <2>3. /\ events' = events \cup {<<EventType(job[r].op), k, job[r].ar>> : k \in batch}
        /\ queue' \subseteq queue \cup {batch}
        /\ UNCHANGED <<rows, ar, audit, polling, faults>>
    BY <1>11 DEF publish
  <2> HIDE DEF batch
  <2>4. events' \subseteq (Verdict \cup {"pending_review", "generated"}) \X Kpi \X (Ar \cup {NoAr})
    <3> SUFFICES ASSUME NEW e \in events', e \notin events
                 PROVE  e \in (Verdict \cup {"pending_review", "generated"}) \X Kpi \X (Ar \cup {NoAr})
      OBVIOUS
    <3>1. PICK k \in batch : e = <<EventType(job[r].op), k, job[r].ar>>
      BY <2>3
    <3> QED
      BY <2>1, <2>2, <3>1
  <2>5. queue' \subseteq SUBSET Kpi
    BY <2>1, <2>3
  <2> QED
    BY <2>3, <2>4, <2>5
<1>12. CASE approval_creation_failed(r)
  BY <1>12 DEF approval_creation_failed
<1>13. CASE crash(r)
  <2>1. UNCHANGED <<rows, ar, audit, events>> /\ faults' \in Nat
    BY <1>13 DEF crash
  <2>2. worker_ends \/ UNCHANGED <<queue, polling>>
    BY <1>13 DEF crash
  <2>3. queue' \subseteq queue /\ polling' \in BOOLEAN
    BY <2>2 DEF worker_ends
  <2> QED
    BY <2>1, <2>3
<1>14. CASE publish_raises(r)
  BY <1>14 DEF publish_raises, worker_ends
<1> QED
  BY <1>1, <1>2, <1>3, <1>4, <1>5, <1>6, <1>7, <1>8, <1>9, <1>10, <1>11, <1>12, <1>13, <1>14
  DEF Continue, GoesOn

LEMMA GoesOnKeepsType ==
  ASSUME TInv, NEW r \in Req, GoesOn(r)
  PROVE  TInv'
<1>1. JobOK /\ DataOK
  BY Parts
<1>2. /\ status' \in [Kpi -> Review \cup {"absent", "gone"}]
      /\ version' \in [Kpi -> Nat]
  <2>1. job'[r].kpi \in Kpi
    BY <1>1, GoesOnFacts
  <2>2. CASE UNCHANGED <<status, version>>
    BY <1>1, <2>2 DEF DataOK
  <2>3. CASE /\ status' = [status EXCEPT ![job'[r].kpi] = "pending_review"]
             /\ version' = [version EXCEPT ![job'[r].kpi] = 1]
    BY <1>1, <2>1, <2>3 DEF DataOK, Review
  <2> QED
    BY <1>1, <2>2, <2>3, GoesOnFacts
<1>3. UNCHANGED <<ledger, ar, audit, events, queue, polling, faults, decided>>
  BY <1>1, GoesOnFacts
<1>4. DataOK'
  BY <1>1, <1>2, <1>3 DEF DataOK, ArHasSubject
<1> QED
  BY <1>1, <1>4, GoesOnKeeps, Parts

LEMMA TypeStep == TInv /\ [Next]_vars => TInv'
<1> SUFFICES ASSUME TInv, [Next]_vars PROVE TInv'
  OBVIOUS
<1>1. CASE Next
  <2>1. CASE run
    BY <2>1 DEF run, TInv, TypeOK, JobHasSubject, ArHasSubject, rows
  <2> QED
    BY <1>1, <2>1, StartKeepsType, GetKpiKeepsType, GoesOnKeepsType, ContinueKeepsType DEF Next
<1>2. CASE UNCHANGED vars
  BY <1>2 DEF vars, TInv, TypeOK, JobHasSubject, ArHasSubject
<1> QED
  BY <1>1, <1>2

-----------------------------------------------------------------------------
(* What is never undone *)

Closed == {"approved", "rejected"}
Monotone ==
    /\ \A a \in Ar : ar[a].kpi \in Kpi => ar'[a].kpi = ar[a].kpi
    /\ \A a \in Ar : ar[a].state \in Closed => ar'[a].state \in Closed
    /\ \A k \in Kpi : decided[k] \subseteq decided'[k]

LEMMA StepMonotone == TInv /\ [Next]_vars => Monotone
<1> SUFFICES ASSUME TInv, [Next]_vars PROVE Monotone
  OBVIOUS
<1>0. /\ ar \in [Ar -> ApprovalRequest] /\ ArHasSubject
      /\ decided \in [Kpi -> SUBSET Verdict]
  BY DEF TInv, TypeOK
<1> USE DEF Monotone, rows
<1>1. CASE UNCHANGED <<ar, decided>>
  BY <1>1
<1>2. ASSUME NEW r \in Req, certify_kpi(r) \/ reject_kpi(r) PROVE Monotone
  BY <1>0, <1>2 DEF certify_kpi, reject_kpi
<1>3. ASSUME NEW r \in Req, create_approval_request(r) PROVE Monotone
  BY <1>0, <1>3 DEF create_approval_request, Unused, ArHasSubject, Closed
<1>4. ASSUME NEW r \in Req, close_approval(r) PROVE Monotone
  <2>1. \A a \in Ar : ar'[a].kpi = ar[a].kpi /\ (a # job[r].ar => ar'[a] = ar[a])
    BY <1>0, <1>4 DEF close_approval, ApprovalRequest
  <2>2. job[r].ar \in Ar => ar'[job[r].ar].state \in Closed
    BY <1>0, <1>4 DEF close_approval, ApprovalRequest, Closed
  <2> QED
    BY <1>4, <2>1, <2>2 DEF close_approval
<1>5. ASSUME NEW r \in Req, ~ UNCHANGED <<ar, decided>>, Continue(r)
      PROVE  certify_kpi(r) \/ reject_kpi(r) \/ create_approval_request(r) \/ close_approval(r)
  BY <1>5 DEF Continue, get_approval_by_entity, get_kpi, reset_to_pending_review, update_kpi,
     delete_kpi, row_gone, record_audit, publish, publish_raises, create_next_kpi, insert_kpi,
     generate_kpi_approvals
<1>6. ASSUME NEW r \in Req,
             \/ Start(r) \/ approval_creation_failed(r) \/ crash(r)
             \/ \E e \in queue : handle_kpi_generated(r, e)
      PROVE  UNCHANGED <<ar, decided>>
  BY <1>6 DEF Start, create_kpi, insert_kpi, seed_approvals, get_or_404, regen_pending,
     get_approval_request, approval_creation_failed, crash, handle_kpi_generated
<1>7. CASE UNCHANGED vars \/ run
  BY <1>1, <1>7 DEF vars, run
<1> QED
  BY <1>1, <1>2, <1>3, <1>4, <1>5, <1>6, <1>7 DEF Next

-----------------------------------------------------------------------------
(* What a job at work proves about the rows *)

VerdictOp == {"certify", "approve", "reject", "decline"}
VerdictOf(op) == IF op \in {"certify", "approve"} THEN "certified" ELSE "rejected"

\* Past its write, the verdict of a job stands; past the close, its approval
\* request is closed; before the write, the copy it carries passed the check.
EvidenceOf(r) ==
    /\ job[r].pc \in {"close", "audit", "publish"} /\ job[r].op \in VerdictOp =>
           VerdictOf(job[r].op) \in decided[job[r].kpi]
    /\ job[r].pc \in {"audit", "publish"} /\ job[r].op \in {"approve", "decline"} =>
           ar[job[r].ar].state \in Closed
    /\ job[r].pc = "write" => MayApply(job[r].op, job[r].status)
Evidence == \A r \in Req : EvidenceOf(r)

LEMMA OthersKeepEvidence ==
  ASSUME TInv, Monotone, NEW r \in Req, EvidenceOf(r), job'[r] = job[r]
  PROVE  EvidenceOf(r)'
<1>1. CASE job[r].pc = "idle"
  BY <1>1 DEF EvidenceOf
<1>2. CASE job[r].pc # "idle"
  <2>1. /\ job[r].kpi \in Kpi
        /\ job[r].op \in {"approve", "decline"} => job[r].ar \in Ar
    BY <1>2 DEF TInv, JobHasSubject
  <2>2. MayApply(job[r].op, job[r].status)' <=> MayApply(job[r].op, job[r].status)
    BY DEF MayApply, assert_transition
  <2> QED
    BY <2>1, <2>2 DEF EvidenceOf, Monotone
<1> QED
  BY <1>1, <1>2

LEMMA OnlyOneJob ==
  ASSUME TInv, NEW r \in Req,
         \/ Start(r) \/ Continue(r) \/ approval_creation_failed(r) \/ crash(r)
         \/ \E e \in queue : handle_kpi_generated(r, e)
  PROVE  \A q \in Req : q # r => job'[q] = job[q]
<1>1. job \in [Req -> Job]
  BY DEF TInv, TypeOK
<1>2. CASE Start(r)
  BY <1>1, <1>2 DEF Start, create_kpi, insert_kpi, seed_approvals, get_or_404, regen_pending,
     get_approval_request, Begin
<1>3. CASE get_kpi(r)
  BY <1>1, <1>3 DEF get_kpi, Finish
<1>4. CASE (Continue(r) \/ approval_creation_failed(r) \/ crash(r)) /\ ~ get_kpi(r) /\ ~ GoesOn(r)
  BY <1>1, <1>4, ContinueMoves DEF Moves, Goto, Finish, Expires
<1>5. CASE \E e \in queue : handle_kpi_generated(r, e)
  BY <1>1, <1>5 DEF handle_kpi_generated
<1>6. CASE GoesOn(r)
  BY <1>6, GoesOnFacts, Parts
<1> QED
  BY <1>2, <1>3, <1>4, <1>5, <1>6

LEMMA StartEvidence ==
  ASSUME TInv, NEW r \in Req, Start(r) \/ (\E e \in queue : handle_kpi_generated(r, e))
  PROVE  EvidenceOf(r)'
<1>0. job \in [Req -> Job] /\ TypeOK
  BY DEF TInv, TypeOK
<1>1. ASSUME NEW k \in Kpi, NEW op \in {"create", "generate"}, create_kpi(r, k, op)
      PROVE  job'[r].pc = "audit" /\ job'[r].op \in {"create", "generate"}
  BY <1>0, <1>1, BeginFacts DEF create_kpi, Op, Step
<1>2. ASSUME NEW k \in Kpi, seed_approvals(r, k) \/ regen_pending(r, k)
      PROVE  job'[r].pc = "find"
  BY <1>0, <1>2, BeginFacts DEF seed_approvals, regen_pending, Op, Step
<1>3. ASSUME NEW e \in queue, handle_kpi_generated(r, e) PROVE job'[r].pc = "find"
  BY <1>0, <1>3, HandleFacts
<1>4. ASSUME NEW k \in Kpi, NEW op \in {"certify", "reject", "regen", "update", "delete"},
             get_or_404(r, op, k)
      PROVE  EvidenceOf(r)'
  <2>1. /\ job'[r].pc = "write" /\ job'[r].op = op /\ job'[r].status = status[k]
        /\ MayApply(op, status[k])
    BY <1>0, <1>4, LoadFacts DEF get_or_404
  <2>2. MayApply(job[r].op, job[r].status)'
    BY <2>1 DEF MayApply, assert_transition
  <2> QED
    BY <2>1, <2>2 DEF EvidenceOf
<1>5. ASSUME NEW a \in Ar, NEW op \in {"approve", "decline"}, get_approval_request(r, a, op)
      PROVE  job'[r].pc = "load"
  <2>1. ar[a].kpi \in Kpi
    BY <1>0, <1>5 DEF get_approval_request, ApprovalRequest, TInv, ArHasSubject, TypeOK
  <2> QED
    BY <1>0, <1>5, <2>1, BeginFacts DEF get_approval_request, Op, Step
<1>6. \/ job'[r].pc \in {"find", "load"}
      \/ job'[r].pc = "audit" /\ job'[r].op \in {"create", "generate"}
      \/ EvidenceOf(r)'
  BY <1>1, <1>2, <1>3, <1>4, <1>5 DEF Start
<1> QED
  BY <1>6 DEF EvidenceOf, VerdictOp

LEMMA FinishEvidence ==
  ASSUME job \in [Req -> Job], NEW r \in Req, Finish(r)
  PROVE  EvidenceOf(r)'
  BY FinishFacts DEF EvidenceOf, Idle

LEMMA ContinueEvidence ==
  ASSUME TInv, Monotone, NEW r \in Req, EvidenceOf(r),
         Continue(r) \/ approval_creation_failed(r) \/ crash(r)
  PROVE  EvidenceOf(r)'
<1>0. /\ job \in [Req -> Job]
      /\ decided \in [Kpi -> SUBSET Verdict]
      /\ ar \in [Ar -> ApprovalRequest]
      /\ job[r].pc # "idle" => job[r].kpi \in Kpi
      /\ job[r].pc # "idle" /\ job[r].op \in {"approve", "decline"} => job[r].ar \in Ar
      /\ job[r].pc = "close" => job[r].op \in {"approve", "decline"}
  BY DEF TInv, TypeOK, JobHasSubject
<1>1. CASE Finish(r)
  BY <1>0, <1>1, FinishEvidence
<1>2. ASSUME NEW pc \in {"find", "insert"}, Goto(r, pc) PROVE EvidenceOf(r)'
  BY <1>0, <1>2, GotoFacts DEF EvidenceOf, Step
<1>3. ASSUME Goto(r, "publish"), job[r].op \in {"generate", "hitl"} PROVE EvidenceOf(r)'
  BY <1>0, <1>3, GotoFacts DEF EvidenceOf, Step, VerdictOp
<1>4. CASE get_approval_by_entity(r) \/ create_approval_request(r)
  <2>1. CASE Expires(r)
    BY <1>0, <2>1, ExpiresFacts DEF EvidenceOf, VerdictOp
  <2> QED
    BY <1>1, <1>2, <1>3, <1>4, <2>1
    DEF get_approval_by_entity, create_approval_request, AfterApproval, Expires
<1>5. CASE get_kpi(r)
  <2>1. CASE Exists(job[r].kpi) /\ MayApply(job[r].op, status[job[r].kpi])
    <3> DEFINE k == job[r].kpi
               new == [job[r] EXCEPT !.pc = "write", !.status = status[k], !.version = version[k]]
    <3>1. job' = [job EXCEPT ![r] = new]
      BY <1>5, <2>1 DEF get_kpi
    <3>2. new.pc = "write" /\ new.op = job[r].op /\ new.status = status[k]
      BY <1>0 DEF Job
    <3> QED
      BY <1>0, <2>1, <3>1, <3>2 DEF EvidenceOf, MayApply, assert_transition
  <2>2. CASE Finish(r)
    BY <1>1, <2>2
  <2> QED
    BY <1>5, <2>1, <2>2 DEF get_kpi
<1>6. CASE certify_kpi(r) \/ reject_kpi(r)
  <2>1. /\ VerdictOf(job[r].op) \in decided'[job[r].kpi]
        /\ Goto(r, "close") \/ (Goto(r, "audit") /\ job[r].op \notin {"approve", "decline"})
    BY <1>0, <1>6 DEF certify_kpi, reject_kpi, snapshot_version, At, VerdictOf, AfterVerdict
  <2> QED
    BY <1>0, <2>1, GotoFacts DEF EvidenceOf, Step
<1>7. CASE reset_to_pending_review(r)
  BY <1>2, <1>7 DEF reset_to_pending_review
<1>8. CASE update_kpi(r) \/ delete_kpi(r)
  <2>1. Goto(r, "audit") /\ job[r].op \in {"update", "delete"}
    BY <1>8 DEF update_kpi, delete_kpi
  <2> QED
    BY <1>0, <2>1, GotoFacts DEF EvidenceOf, Step, VerdictOp
<1>9. CASE close_approval(r)
  <2>1. Goto(r, "audit") /\ job[r].pc = "close"
    BY <1>9 DEF close_approval, At
  <2>2. ar'[job[r].ar].state \in Closed /\ decided' = decided
    BY <1>0, <1>9, <2>1 DEF close_approval, ApprovalRequest, Closed, rows
  <2> QED
    BY <1>0, <2>1, <2>2, GotoFacts DEF EvidenceOf, Step
<1>10. CASE record_audit(r)
  <2>1. job[r].pc = "audit" /\ ar' = ar /\ decided' = decided
    BY <1>10 DEF record_audit, At, rows
  <2>2. CASE Goto(r, "publish")
    BY <1>0, <2>1, <2>2, GotoFacts DEF EvidenceOf, Step
  <2> QED
    BY <1>1, <1>2, <1>10, <2>2 DEF record_audit
<1>11. CASE row_gone(r) \/ publish(r) \/ publish_raises(r) \/ crash(r)
  BY <1>1, <1>11 DEF row_gone, publish, publish_raises, crash
<1>12. CASE approval_creation_failed(r)
  BY <1>3, <1>12 DEF approval_creation_failed
<1>13. CASE GoesOn(r)
  <2>1. job'[r].op \in {"generate", "hitl"} /\ job'[r].pc \in {"audit", "find"}
    BY <1>13, GoesOnFacts, Parts
  <2> QED
    BY <2>1 DEF EvidenceOf, VerdictOp
<1> QED
  BY <1>4, <1>5, <1>6, <1>7, <1>8, <1>9, <1>10, <1>11, <1>12, <1>13 DEF Continue, GoesOn

-----------------------------------------------------------------------------
(* The traces of a verdict *)

\* Only four steps touch the requests, the audit trail or the events.
LEMMA TraceSteps ==
  ASSUME [Next]_vars, ~ UNCHANGED <<ar, audit, events>>
  PROVE  \E r \in Req : create_approval_request(r) \/ close_approval(r)
                        \/ record_audit(r) \/ publish(r)
<1>1. ASSUME NEW r \in Req, Start(r) \/ (\E e \in queue : handle_kpi_generated(r, e))
      PROVE  FALSE
  BY <1>1 DEF Start, create_kpi, insert_kpi, seed_approvals, get_or_404, regen_pending,
     get_approval_request, handle_kpi_generated
<1>2. ASSUME NEW r \in Req, approval_creation_failed(r) \/ crash(r) PROVE FALSE
  BY <1>2 DEF approval_creation_failed, crash
<1>3. ASSUME NEW r \in Req, Continue(r)
      PROVE  create_approval_request(r) \/ close_approval(r) \/ record_audit(r) \/ publish(r)
  BY <1>3 DEF Continue, get_approval_by_entity, get_kpi, certify_kpi, reject_kpi,
     reset_to_pending_review, update_kpi, delete_kpi, row_gone, publish_raises,
     create_next_kpi, insert_kpi, generate_kpi_approvals
<1> QED
  BY <1>1, <1>2, <1>3 DEF Next, vars, run

Traces == VerdictFirst /\ AnnouncedAfterClosed

LEMMA TracesStep ==
  ASSUME TInv, Evidence, Traces, Monotone, [Next]_vars
  PROVE  Traces'
<1>0. /\ ar \in [Ar -> ApprovalRequest] /\ ArHasSubject
      /\ audit \subseteq (Verdict \cup {"created", "updated", "deleted"}) \X Kpi
      /\ events \subseteq (Verdict \cup {"pending_review", "generated"})
                           \X Kpi \X (Ar \cup {NoAr})
      /\ \A r \in Req : EvidenceOf(r)
      /\ JobHasSubject
  BY DEF TInv, TypeOK, Evidence
<1>1. \A o \in Verdict, a \in Ar : ar[a].state = Resolution(o) =>
          /\ ar[a].kpi \in Kpi /\ o \in decided'[ar[a].kpi] /\ o \in decided'[ar'[a].kpi]
  <2>1. \A o \in Verdict : Resolution(o) # "unused"
    BY DEF Resolution
  <2> QED
    BY <1>0, <2>1 DEF Traces, VerdictFirst, Monotone, ArHasSubject
<1>2. \A o \in Verdict, k \in Kpi : <<o, k>> \in audit => o \in decided'[k]
  BY DEF Traces, VerdictFirst, Monotone
<1>3. \A o \in Verdict, k \in Kpi, a \in Ar \cup {NoAr} :
          <<o, k, a>> \in events => o \in decided'[k]
  BY DEF Traces, VerdictFirst, Monotone
<1>4. CASE UNCHANGED <<ar, audit, events>>
  BY <1>1, <1>2, <1>3, <1>4 DEF Traces, VerdictFirst, AnnouncedAfterClosed
<1>5. ASSUME NEW r \in Req, create_approval_request(r) PROVE Traces'
  <2>1. \A a \in Ar, o \in Verdict : ar'[a].state = Resolution(o) => ar'[a] = ar[a]
    BY <1>0, <1>5 DEF create_approval_request, Unused, Resolution, ApprovalRequest
  <2>2. UNCHANGED <<audit, events>>
    BY <1>5 DEF create_approval_request
  <2>3. VerdictFirst'
    BY <1>1, <1>2, <1>3, <2>1, <2>2 DEF VerdictFirst
  <2>4. \A a \in Ar :
            ar[a].state \in {"approved", "rejected"} => ar'[a].state \in {"approved", "rejected"}
    BY <1>0, <1>5 DEF create_approval_request, Unused
  <2>5. AnnouncedAfterClosed'
    BY <1>0, <2>2, <2>4 DEF Traces, AnnouncedAfterClosed
  <2> QED
    BY <2>3, <2>5 DEF Traces
<1>6. ASSUME NEW r \in Req, close_approval(r) PROVE Traces'
  <2>1. job[r].pc = "close" /\ job[r].op \in {"approve", "decline"} /\ job[r].ar \in Ar
        /\ job[r].kpi \in Kpi /\ ar[job[r].ar].kpi = job[r].kpi
    BY <1>0, <1>6 DEF close_approval, At, JobHasSubject
  <2>2. VerdictOf(job[r].op) \in decided[job[r].kpi]
    BY <1>0, <2>1 DEF EvidenceOf, VerdictOp
  <2>3. /\ \A a \in Ar : a # job[r].ar => ar'[a] = ar[a]
        /\ ar'[job[r].ar].state = Resolution(VerdictOf(job[r].op))
        /\ ar'[job[r].ar].kpi = job[r].kpi
    BY <1>0, <1>6, <2>1 DEF close_approval, ApprovalRequest, Resolution, VerdictOf
  <2>4. UNCHANGED <<audit, events, decided>>
    BY <1>6 DEF close_approval, rows
  <2>5. \A o \in Verdict : Resolution(o) = Resolution(VerdictOf(job[r].op)) =>
            o = VerdictOf(job[r].op)
    BY DEF Verdict, Resolution, VerdictOf
  <2>6. VerdictFirst'
    BY <1>1, <1>2, <1>3, <2>1, <2>2, <2>3, <2>4, <2>5 DEF VerdictFirst
  <2>7. \A a \in Ar :
            ar[a].state \in {"approved", "rejected"} => ar'[a].state \in {"approved", "rejected"}
    BY <1>0, <1>6, <2>3 DEF close_approval, Resolution
  <2>8. AnnouncedAfterClosed'
    BY <1>0, <2>4, <2>7 DEF Traces, AnnouncedAfterClosed
  <2> QED
    BY <2>6, <2>8 DEF Traces
<1>7. ASSUME NEW r \in Req, record_audit(r) PROVE Traces'
  <2>1. /\ UNCHANGED <<ar, events, decided>> /\ job[r].pc = "audit"
        /\ audit' \subseteq audit \cup {<<AuditAction(job[r].op), job[r].kpi>>}
    BY <1>7 DEF record_audit, At, rows
  <2>2. AuditAction(job[r].op) \in Verdict => AuditAction(job[r].op) \in decided[job[r].kpi]
    BY <1>0, <2>1 DEF EvidenceOf, AuditAction, VerdictOp, VerdictOf, Verdict
  <2> QED
    BY <1>1, <1>2, <1>3, <2>1, <2>2 DEF Traces, VerdictFirst, AnnouncedAfterClosed
<1>8. ASSUME NEW r \in Req, publish(r) PROVE Traces'
  <2> DEFINE batch == job[r].done \cup {job[r].kpi}
  <2>1. /\ UNCHANGED <<ar, audit, decided>> /\ job[r].pc = "publish"
        /\ events' = events \cup {<<EventType(job[r].op), k, job[r].ar>> : k \in batch}
    BY <1>8 DEF publish, At, rows
  <2>2. EventType(job[r].op) \in Verdict =>
            /\ EventType(job[r].op) \in decided[job[r].kpi] /\ batch = {job[r].kpi}
            /\ job[r].ar \in Ar
            /\ ar[job[r].ar].state \in {"approved", "rejected"}
    BY <1>0, <2>1 DEF EvidenceOf, EventType, VerdictOp, VerdictOf, Verdict, Closed, JobHasSubject
  <2> HIDE DEF batch
  <2>3. \A e \in events' : e \in events \/ \E k \in batch : e = <<EventType(job[r].op), k, job[r].ar>>
    BY <2>1
  <2>4. ASSUME NEW o \in Verdict, NEW k \in Kpi, NEW a \in Ar \cup {NoAr}, <<o, k, a>> \in events'
        PROVE  o \in decided'[k]
    BY <1>3, <2>1, <2>2, <2>3, <2>4
  <2>5. VerdictFirst'
    BY <1>1, <1>2, <2>1, <2>4 DEF VerdictFirst
  <2>6. AnnouncedAfterClosed'
    BY <2>1, <2>2, <2>3 DEF Traces, AnnouncedAfterClosed
  <2> QED
    BY <2>5, <2>6 DEF Traces
<1> QED
  BY <1>4, <1>5, <1>6, <1>7, <1>8, TraceSteps

-----------------------------------------------------------------------------
(* The version rows *)

\* A step appends at most one row, and then by a write that changes the status
\* to the outcome of the row, or leaves it alone when the row is an edit; or it
\* deletes the KPI with its rows.
Appends(k, row) ==
    /\ ledger' = [ledger EXCEPT ![k] = Append(@, row)]
    /\ status' = [status EXCEPT ![k] = IF row.reason = "analyst_edit" THEN @
                                       ELSE Outcome(row.reason)]
    /\ row.reason # "analyst_edit" => Outcome(row.reason) \in VALID_TRANSITIONS[row.status]

LedgerStep ==
    \/ UNCHANGED <<ledger, status>>
    \/ \E k \in Kpi : status[k] = "absent" /\ status' = [status EXCEPT ![k] = "pending_review"]
                      /\ UNCHANGED ledger
    \/ \E k \in Kpi, row \in KpiVersion : Exists(k) /\ Appends(k, row)
    \/ \E k \in Kpi : /\ status' = [status EXCEPT ![k] = "gone"]
                      /\ ledger' = [ledger EXCEPT ![k] = <<>>]

LEMMA LedgerSteps ==
  ASSUME TInv, Evidence, [Next]_vars
  PROVE  LedgerStep
<1>0. /\ status \in [Kpi -> Review \cup {"absent", "gone"}]
      /\ \A r \in Req : EvidenceOf(r)
      /\ \A r \in Req : job[r].pc # "idle" =>
             job[r].kpi \in Kpi /\ job[r].status \in Review /\ job[r].version \in Nat
  BY Parts, AtWork DEF TInv, TypeOK, Evidence
<1>1. ASSUME NEW r \in Req, certify_kpi(r) PROVE LedgerStep
  <2> DEFINE row == [version |-> job[r].version, status |-> job[r].status, reason |-> "certified"]
  <2>1. /\ job[r].pc = "write" /\ job[r].kpi \in Kpi /\ Exists(job[r].kpi)
        /\ row \in KpiVersion
        /\ row.reason = "certified" /\ row.status = job[r].status
    BY <1>0, <1>1 DEF certify_kpi, snapshot_version, At, KpiVersion, Reason, Verdict
  <2>2. Outcome(row.reason) = "certified" /\ Outcome(row.reason) \in VALID_TRANSITIONS[row.status]
    BY <1>0, <1>1, <2>1 DEF certify_kpi, EvidenceOf, MayApply, assert_transition, Outcome
  <2>3. Appends(job[r].kpi, row)
    BY <1>1, <2>1, <2>2 DEF certify_kpi, snapshot_version, SetStatus, Appends
  <2> QED
    BY <2>1, <2>3 DEF LedgerStep
<1>2. ASSUME NEW r \in Req, reject_kpi(r) PROVE LedgerStep
  <2> DEFINE row == [version |-> job[r].version, status |-> job[r].status, reason |-> "rejected"]
  <2>1. /\ job[r].pc = "write" /\ job[r].kpi \in Kpi /\ Exists(job[r].kpi)
        /\ row \in KpiVersion
        /\ row.reason = "rejected" /\ row.status = job[r].status
    BY <1>0, <1>2 DEF reject_kpi, snapshot_version, At, KpiVersion, Reason, Verdict
  <2>2. Outcome(row.reason) = "rejected" /\ Outcome(row.reason) \in VALID_TRANSITIONS[row.status]
    BY <1>0, <1>2, <2>1 DEF reject_kpi, EvidenceOf, MayApply, assert_transition, Outcome
  <2>3. Appends(job[r].kpi, row)
    BY <1>2, <2>1, <2>2 DEF reject_kpi, snapshot_version, SetStatus, Appends
  <2> QED
    BY <2>1, <2>3 DEF LedgerStep
<1>3. ASSUME NEW r \in Req, reset_to_pending_review(r) PROVE LedgerStep
  <2> DEFINE row == [version |-> job[r].version, status |-> job[r].status,
                     reason |-> "regen_requested"]
  <2>1. /\ job[r].pc = "write" /\ job[r].kpi \in Kpi /\ Exists(job[r].kpi)
        /\ row \in KpiVersion
        /\ row.reason = "regen_requested" /\ row.status = job[r].status
    BY <1>0, <1>3 DEF reset_to_pending_review, snapshot_version, At, KpiVersion, Reason
  <2>2. Outcome(row.reason) = "pending_review" /\ Outcome(row.reason) \in VALID_TRANSITIONS[row.status]
    BY <1>0, <1>3, <2>1 DEF reset_to_pending_review, EvidenceOf, MayApply, assert_transition, Outcome
  <2>3. Appends(job[r].kpi, row)
    BY <1>3, <2>1, <2>2 DEF reset_to_pending_review, snapshot_version, SetStatus, Appends
  <2> QED
    BY <2>1, <2>3 DEF LedgerStep
<1>4. ASSUME NEW r \in Req, update_kpi(r) PROVE LedgerStep
  <2> DEFINE row == [version |-> job[r].version, status |-> job[r].status,
                     reason |-> "analyst_edit"]
  <2>1. /\ job[r].pc = "write" /\ job[r].kpi \in Kpi /\ Exists(job[r].kpi)
        /\ row \in KpiVersion /\ row.reason = "analyst_edit"
    BY <1>0, <1>4 DEF update_kpi, snapshot_version, At, KpiVersion, Reason
  <2>2. Appends(job[r].kpi, row)
    BY <1>0, <1>4, <2>1 DEF update_kpi, snapshot_version, Appends
  <2> QED
    BY <2>1, <2>2 DEF LedgerStep
<1>5. ASSUME NEW r \in Req, delete_kpi(r) PROVE LedgerStep
  BY <1>0, <1>5 DEF delete_kpi, SetStatus, At, LedgerStep
<1>6. ASSUME NEW r \in Req, Start(r) \/ (\E e \in queue : handle_kpi_generated(r, e))
      PROVE  LedgerStep
  BY <1>6 DEF Start, create_kpi, insert_kpi, seed_approvals, get_or_404, regen_pending,
     get_approval_request, handle_kpi_generated, rows, LedgerStep
<1>7. ASSUME NEW r \in Req,
             \/ get_approval_by_entity(r) \/ create_approval_request(r) \/ get_kpi(r)
             \/ row_gone(r) \/ close_approval(r) \/ record_audit(r) \/ publish(r)
             \/ publish_raises(r) \/ generate_kpi_approvals(r)
             \/ approval_creation_failed(r) \/ crash(r)
      PROVE  LedgerStep
  BY <1>7 DEF get_approval_by_entity, create_approval_request, get_kpi, row_gone,
     close_approval, record_audit, publish, publish_raises, generate_kpi_approvals,
     approval_creation_failed, crash, rows, LedgerStep
<1>8. CASE UNCHANGED vars \/ run
  BY <1>8 DEF vars, run, rows, LedgerStep
<1>9. ASSUME NEW r \in Req, NEW k \in Kpi, create_next_kpi(r, k) PROVE LedgerStep
  BY <1>9 DEF create_next_kpi, insert_kpi, LedgerStep
<1> QED
  BY <1>1, <1>2, <1>3, <1>4, <1>5, <1>6, <1>7, <1>8, <1>9 DEF Next, Continue

\* A KPI that was never created has no rows.
AbsentIsBlank == \A k \in Kpi : status[k] = "absent" => ledger[k] = <<>>
Ledgers == LedgerRowsLegal /\ LedgerExplainsStatus /\ AbsentIsBlank

LEMMA LedgersStep ==
  ASSUME TInv, Ledgers, LedgerStep
  PROVE  Ledgers'
<1>0. status \in [Kpi -> Review \cup {"absent", "gone"}] /\ ledger \in [Kpi -> Seq(KpiVersion)]
  BY DEF TInv, TypeOK
<1>1. CASE UNCHANGED <<ledger, status>>
  BY <1>1 DEF Ledgers, LedgerRowsLegal, LedgerExplainsStatus, Explained, LastMove, Exists, AbsentIsBlank
<1>2. ASSUME NEW k \in Kpi, status[k] = "absent", UNCHANGED ledger,
             status' = [status EXCEPT ![k] = "pending_review"]
      PROVE  Ledgers'
  <2>1. /\ ledger[k] = <<>> /\ status'[k] = "pending_review"
        /\ \A c \in Kpi : c # k => status'[c] = status[c]
    BY <1>0, <1>2 DEF Ledgers, AbsentIsBlank
  <2>2. LedgerRowsLegal' /\ AbsentIsBlank'
    BY <1>2, <2>1 DEF Ledgers, LedgerRowsLegal, AbsentIsBlank
  <2>3. LedgerExplainsStatus'
    BY <1>2, <2>1 DEF Ledgers, LedgerExplainsStatus, Explained, LastMove, Exists
  <2> QED
    BY <2>2, <2>3 DEF Ledgers
<1>3. ASSUME NEW k \in Kpi, NEW row \in KpiVersion, Exists(k), Appends(k, row)
      PROVE  Ledgers'
  <2>1. /\ ledger'[k] = Append(ledger[k], row)
        /\ \A c \in Kpi : c # k => ledger'[c] = ledger[c] /\ status'[c] = status[c]
        /\ status'[k] = IF row.reason = "analyst_edit" THEN status[k] ELSE Outcome(row.reason)
        /\ ledger[k] \in Seq(KpiVersion)
    BY <1>0, <1>3 DEF Appends
  <2>2. /\ DOMAIN ledger'[k] = DOMAIN ledger[k] \cup {Len(ledger[k]) + 1}
        /\ Len(ledger[k]) \in Nat /\ DOMAIN ledger[k] = 1 .. Len(ledger[k])
        /\ \A i \in DOMAIN ledger[k] : ledger'[k][i] = ledger[k][i] /\ i < Len(ledger[k]) + 1
        /\ ledger'[k][Len(ledger[k]) + 1] = row
    BY <2>1
  <2>3. LedgerRowsLegal'
    BY <1>3, <2>1, <2>2 DEF Ledgers, LedgerRowsLegal, Appends
  <2>4. AbsentIsBlank'
    <3>1. status'[k] # "absent"
      BY <1>3, <2>1 DEF Exists, Review, Outcome, KpiVersion, Reason, Verdict
    <3> QED
      BY <2>1, <3>1 DEF Ledgers, AbsentIsBlank
  <2>5. ASSUME NEW c \in Kpi, c # k, Exists(c)' PROVE Explained(c)'
    BY <2>1, <2>5 DEF Ledgers, LedgerExplainsStatus, Explained, LastMove, Exists
  <2>6. CASE row.reason = "analyst_edit"
    <3>1. status'[k] = status[k]
      BY <2>1, <2>6
    <3>2. ASSUME NEW i \in DOMAIN ledger[k], LastMove(k, i)
          PROVE  i \in DOMAIN ledger'[k] /\ LastMove(k, i)' /\ ledger'[k][i] = ledger[k][i]
      BY <2>2, <2>6, <3>2 DEF LastMove
    <3>3. Explained(k)'
      BY <1>3, <2>2, <2>6, <3>1, <3>2 DEF Ledgers, LedgerExplainsStatus, Explained
    <3> QED
      BY <2>3, <2>4, <2>5, <3>3 DEF Ledgers, LedgerExplainsStatus
  <2>7. CASE row.reason # "analyst_edit"
    <3> PICK last \in Nat : last = Len(ledger[k]) + 1
      BY <2>2
    <3>1. last \in DOMAIN ledger'[k] /\ \A j \in DOMAIN ledger'[k] : ~ (j > last)
      BY <2>2
    <3>2. ledger'[k][last] = row /\ status'[k] = Outcome(row.reason)
      BY <2>1, <2>2, <2>7
    <3>3. LastMove(k, last)'
      BY <2>7, <3>1, <3>2 DEF LastMove
    <3>4. Explained(k)'
      BY <3>1, <3>2, <3>3 DEF Explained
    <3> QED
      BY <2>3, <2>4, <2>5, <3>4 DEF Ledgers, LedgerExplainsStatus
  <2> QED
    BY <2>6, <2>7
<1>4. ASSUME NEW k \in Kpi, status' = [status EXCEPT ![k] = "gone"],
             ledger' = [ledger EXCEPT ![k] = <<>>]
      PROVE  Ledgers'
  <2>1. /\ ledger'[k] = <<>> /\ status'[k] = "gone"
        /\ \A c \in Kpi : c # k => status'[c] = status[c] /\ ledger'[c] = ledger[c]
    BY <1>0, <1>4
  <2>2. LedgerRowsLegal' /\ AbsentIsBlank'
    BY <2>1 DEF Ledgers, LedgerRowsLegal, AbsentIsBlank
  <2>3. ASSUME NEW c \in Kpi, Exists(c)' PROVE Explained(c)'
    <3>1. c # k
      BY <2>1, <2>3 DEF Exists, Review
    <3> QED
      BY <2>1, <2>3, <3>1 DEF Ledgers, LedgerExplainsStatus, Explained, LastMove, Exists
  <2> QED
    BY <2>2, <2>3 DEF Ledgers, LedgerExplainsStatus
<1> QED
  BY <1>1, <1>2, <1>3, <1>4 DEF LedgerStep

-----------------------------------------------------------------------------
(* The theorems *)

IInv == TInv /\ Evidence /\ Traces /\ Ledgers

LEMMA IInvInit == Init => IInv
<1> SUFFICES ASSUME Init PROVE IInv
  OBVIOUS
<1>1. TInv
  BY TypeInit
<1>2. Evidence
  BY DEF Init, Evidence, EvidenceOf, Idle
<1>3. Traces
  BY DEF Init, Traces, VerdictFirst, AnnouncedAfterClosed, Resolution
<1>4. Ledgers
  BY DEF Init, Ledgers, LedgerRowsLegal, LedgerExplainsStatus, Explained, AbsentIsBlank, Exists, Review
<1> QED
  BY <1>1, <1>2, <1>3, <1>4 DEF IInv

LEMMA IInvStep == IInv /\ [Next]_vars => IInv' /\ Monotone /\ LedgerStep
<1> SUFFICES ASSUME IInv, [Next]_vars PROVE IInv' /\ Monotone /\ LedgerStep
  OBVIOUS
<1>0. TInv /\ Evidence /\ Traces /\ Ledgers
  BY DEF IInv
<1>1. TInv' /\ Monotone
  BY <1>0, TypeStep, StepMonotone
<1>2. Evidence'
  <2>1. CASE UNCHANGED vars \/ run
    <3>1. \A r \in Req : job'[r] = job[r]
      BY <2>1 DEF vars, run
    <3> QED
      BY <1>0, <1>1, <3>1, OthersKeepEvidence DEF Evidence
  <2>2. ASSUME NEW r \in Req,
               \/ Start(r) \/ Continue(r) \/ approval_creation_failed(r) \/ crash(r)
               \/ \E e \in queue : handle_kpi_generated(r, e)
        PROVE  Evidence'
    <3>1. EvidenceOf(r)'
      BY <1>0, <1>1, <2>2, StartEvidence, ContinueEvidence DEF Evidence
    <3>2. ASSUME NEW q \in Req, q # r PROVE EvidenceOf(q)'
      <4>1. job'[q] = job[q]
        BY <1>0, <2>2, <3>2, OnlyOneJob
      <4> QED
        BY <1>0, <1>1, <4>1, OthersKeepEvidence DEF Evidence
    <3> QED
      BY <3>1, <3>2 DEF Evidence
  <2> QED
    BY <2>1, <2>2 DEF Next
<1>3. Traces'
  BY <1>0, <1>1, TracesStep
<1>4. LedgerStep
  BY <1>0, LedgerSteps
<1>5. Ledgers'
  BY <1>0, <1>4, LedgersStep
<1> QED
  BY <1>1, <1>2, <1>3, <1>4, <1>5 DEF IInv

LEMMA Invariance == Spec => []IInv
  BY IInvInit, IInvStep, PTL DEF Spec

\* The rows, approval requests, audit records, events and jobs keep their types.
THEOREM TypeCorrect == Spec => []TypeOK
<1>1. IInv => TypeOK
  BY DEF IInv, TInv
<1> QED
  BY Invariance, <1>1, PTL

\* Whatever interleaves or crashes, no request is closed, nothing recorded and
\* nothing announced but for a verdict that was committed, and an announced
\* verdict finds its approval request closed.
THEOREM VerdictsAlwaysInOrder == Spec => []VerdictsAreInOrder
<1>1. IInv => VerdictsAreInOrder
  BY DEF IInv, Traces, VerdictsAreInOrder
<1> QED
  BY Invariance, <1>1, PTL

\* The version rows always record legal moves and account for the status, lost
\* updates included.
THEOREM LedgerAlwaysSound == Spec => []LedgerIsSound
<1>1. IInv => LedgerIsSound
  BY DEF IInv, Ledgers, LedgerIsSound
<1> QED
  BY Invariance, <1>1, PTL

\* A closed approval request stays closed and about the same KPI.
THEOREM ClosedForGood == Spec => ResolvedStaysResolved
<1>1. IInv /\ [Next]_vars =>
          [\A a \in Ar : ar[a].state \in {"approved", "rejected"} =>
              ar'[a].state \in {"approved", "rejected"} /\ ar'[a].kpi = ar[a].kpi]_vars
  BY IInvStep DEF IInv, TInv, ArHasSubject, Monotone, Closed
<1> QED
  BY Invariance, <1>1, PTL DEF Spec, ResolvedStaysResolved

\* Version rows are only ever appended while their KPI exists.
THEOREM LedgerOnlyGrows == Spec => LedgerAppendOnly
<1> DEFINE Grows == \A k \in Kpi : status'[k] # "gone" =>
          /\ Len(ledger[k]) <= Len(ledger'[k])
          /\ \A i \in DOMAIN ledger[k] : ledger'[k][i] = ledger[k][i]
<1>1. TInv /\ LedgerStep => Grows
  <2> SUFFICES ASSUME TInv, LedgerStep, NEW k \in Kpi, status'[k] # "gone"
               PROVE  /\ Len(ledger[k]) <= Len(ledger'[k])
                      /\ \A i \in DOMAIN ledger[k] : ledger'[k][i] = ledger[k][i]
    OBVIOUS
  <2>0. ledger[k] \in Seq(KpiVersion) /\ ledger \in [Kpi -> Seq(KpiVersion)]
        /\ status \in [Kpi -> Review \cup {"absent", "gone"}]
    BY DEF TInv, TypeOK
  <2>1. CASE ledger'[k] = ledger[k]
    BY <2>0, <2>1
  <2>2. ASSUME NEW row \in KpiVersion, ledger'[k] = Append(ledger[k], row)
        PROVE  /\ Len(ledger[k]) <= Len(ledger'[k])
               /\ \A i \in DOMAIN ledger[k] : ledger'[k][i] = ledger[k][i]
    BY <2>0, <2>2
  <2> QED
    BY <2>0, <2>1, <2>2 DEF LedgerStep, Appends
<1>2. IInv /\ [Next]_vars => [Grows]_vars
  BY <1>1, IInvStep DEF IInv
<1> QED
  BY Invariance, <1>2, PTL DEF Spec, LedgerAppendOnly

-----------------------------------------------------------------------------
(* The contract *)

LEMMA ContractInit == Init => Contract!Init
  BY DEF Init, Contract!Init, Contract!Open, resolutions, recordedVerdicts, announcedVerdicts,
     Verdict

LEMMA ContractStep == IInv /\ [Next]_vars => [Contract!Next]_(Contract!vars)
<1> SUFFICES ASSUME IInv, [Next]_vars PROVE [Contract!Next]_(Contract!vars)
  OBVIOUS
<1>0. /\ TypeOK /\ JobHasSubject /\ ArHasSubject /\ \A r \in Req : EvidenceOf(r)
      /\ ar \in [Ar -> ApprovalRequest] /\ decided \in [Kpi -> SUBSET Verdict]
  BY DEF IInv, TInv, TypeOK, Evidence
<1>1. CASE UNCHANGED <<ar, audit, events, decided>>
  BY <1>1 DEF Contract!vars, resolutions, recordedVerdicts, announcedVerdicts
<1>2. ASSUME NEW r \in Req, certify_kpi(r) \/ reject_kpi(r) PROVE Contract!Next
  <2>1. job[r].kpi \in Kpi /\ UNCHANGED <<ar, audit, events>>
    BY <1>0, <1>2 DEF certify_kpi, reject_kpi, snapshot_version, At, JobHasSubject
  <2>2. UNCHANGED <<resolutions, recordedVerdicts, announcedVerdicts>>
    BY <2>1 DEF resolutions, recordedVerdicts, announcedVerdicts
  <2>3. \E v \in Contract!Verdict : Contract!Decide(job[r].kpi, v)
    BY <1>2, <2>2 DEF certify_kpi, reject_kpi, Contract!Decide, Contract!Verdict
  <2> QED
    BY <2>1, <2>3 DEF Contract!Next
<1>3. ASSUME NEW r \in Req, create_approval_request(r) PROVE UNCHANGED Contract!vars
  <2>1. \A a \in Ar : IF ar[a].state \in {"approved", "rejected"} THEN ar'[a] = ar[a]
                      ELSE ar'[a].state \notin {"approved", "rejected"}
    BY <1>0, <1>3 DEF create_approval_request, Unused
  <2>2. resolutions' = resolutions
    BY <2>1 DEF resolutions
  <2> QED
    BY <1>3, <2>2 DEF create_approval_request, rows, Contract!vars, recordedVerdicts,
       announcedVerdicts
<1>4. ASSUME NEW r \in Req, close_approval(r) PROVE Contract!Next
  <2> DEFINE a == job[r].ar
             k == job[r].kpi
             v == VerdictOf(job[r].op)
  <2>1. /\ job[r].pc = "close" /\ job[r].op \in {"approve", "decline"}
        /\ a \in Ar /\ k \in Kpi /\ ar[a].kpi = k
    BY <1>0, <1>4 DEF close_approval, At, JobHasSubject
  <2>2. v \in decided[k] /\ v \in Contract!Verdict
    BY <1>0, <2>1 DEF EvidenceOf, VerdictOp, VerdictOf, Contract!Verdict
  <2>3. ar' = [ar EXCEPT ![a] = [state |-> Contract!Resolution(v), kpi |-> k]]
    <3> DEFINE s == IF job[r].op = "approve" THEN "approved" ELSE "rejected"
    <3>1. ar' = [ar EXCEPT ![a] = [ar[a] EXCEPT !.state = s]]
      BY <1>4 DEF close_approval
    <3>2. [ar[a] EXCEPT !.state = s] = [state |-> s, kpi |-> k]
      BY <1>0, <2>1 DEF ApprovalRequest
    <3>3. s = Contract!Resolution(v)
      BY <2>1 DEF Contract!Resolution, VerdictOf
    <3> QED
      BY <3>1, <3>2, <3>3
  <2>4. resolutions' = [resolutions EXCEPT ![a] = [state |-> Contract!Resolution(v), kpi |-> k]]
    BY <1>0, <2>1, <2>3 DEF resolutions, Contract!Resolution
  <2>5. resolutions[a].kpi \in {NoKpi, k}
    BY <2>1 DEF resolutions
  <2>6. UNCHANGED <<decided, recordedVerdicts, announcedVerdicts>>
    BY <1>4 DEF close_approval, rows, recordedVerdicts, announcedVerdicts
  <2>7. Contract!Close(a, k, v)
    BY <2>2, <2>4, <2>5, <2>6 DEF Contract!Close
  <2> QED
    BY <2>1, <2>2, <2>7 DEF Contract!Next
<1>5. ASSUME NEW r \in Req, record_audit(r) PROVE [Contract!Next]_(Contract!vars)
  <2> DEFINE k == job[r].kpi
             v == AuditAction(job[r].op)
  <2>1. /\ job[r].pc = "audit" /\ k \in Kpi /\ UNCHANGED <<ar, events, decided>>
        /\ audit' = audit \/ audit' = audit \cup {<<v, k>>}
    BY <1>0, <1>5 DEF record_audit, At, JobHasSubject, rows
  <2>2. UNCHANGED <<decided, resolutions, announcedVerdicts>>
    BY <2>1 DEF resolutions, announcedVerdicts
  <2>3. CASE audit' = audit
    BY <2>2, <2>3 DEF Contract!vars, recordedVerdicts
  <2>4. CASE audit' = audit \cup {<<v, k>>} /\ v \notin Verdict
    <3>1. recordedVerdicts' = recordedVerdicts
      BY <2>4 DEF recordedVerdicts
    <3> QED
      BY <2>2, <3>1 DEF Contract!vars
  <2>5. CASE audit' = audit \cup {<<v, k>>} /\ v \in Verdict
    <3>1. recordedVerdicts' = recordedVerdicts \cup {<<k, v>>}
      BY <2>1, <2>5 DEF recordedVerdicts
    <3>2. v \in decided[k]
      BY <1>0, <2>1, <2>5 DEF EvidenceOf, AuditAction, VerdictOp, VerdictOf, Verdict
    <3>3. Contract!Record(k, v)
      BY <2>2, <3>1, <3>2 DEF Contract!Record
    <3> QED
      BY <2>1, <2>5, <3>3 DEF Contract!Next, Contract!Verdict, Verdict
  <2> QED
    BY <2>1, <2>3, <2>4, <2>5
<1>6. ASSUME NEW r \in Req, publish(r) PROVE [Contract!Next]_(Contract!vars)
  <2> DEFINE a == job[r].ar
             k == job[r].kpi
             v == EventType(job[r].op)
  <2> DEFINE batch == job[r].done \cup {k}
  <2>1. /\ job[r].pc = "publish" /\ k \in Kpi /\ UNCHANGED <<ar, audit, decided>>
        /\ events' = events \cup {<<v, h, a>> : h \in batch}
    BY <1>0, <1>6 DEF publish, At, JobHasSubject, rows
  <2>2. UNCHANGED <<decided, resolutions, recordedVerdicts>>
    BY <2>1 DEF resolutions, recordedVerdicts
  <2>3. CASE v \notin Verdict
    <3>1. announcedVerdicts' = announcedVerdicts
      <4> HIDE DEF v, a, batch
      <4>1. \A e \in Ar \X Kpi \X Verdict : <<e[3], e[2], e[1]>> \notin {<<v, h, a>> : h \in batch}
        BY <2>3
      <4> QED
        BY <2>1, <4>1 DEF announcedVerdicts
    <3> QED
      BY <2>2, <3>1 DEF Contract!vars
  <2>4. CASE v \in Verdict
    <3>1. /\ v \in decided[k] /\ a \in Ar /\ ar[a].kpi = k /\ batch = {k}
          /\ ar[a].state \in {"approved", "rejected"}
      BY <1>0, <2>1, <2>4 DEF EvidenceOf, EventType, VerdictOp, VerdictOf, Verdict, Closed,
         JobHasSubject
    <3>2. announcedVerdicts' = announcedVerdicts \cup {<<a, k, v>>}
      <4>1. events' = events \cup {<<v, k, a>>}
        BY <2>1, <3>1
      <4> QED
        BY <2>1, <2>4, <3>1, <4>1 DEF announcedVerdicts
    <3>3. resolutions[a].kpi = k
      BY <3>1 DEF resolutions
    <3>4. Contract!Announce(a, k, v)
      BY <2>2, <3>1, <3>2, <3>3 DEF Contract!Announce
    <3> QED
      BY <2>1, <2>4, <3>1, <3>4 DEF Contract!Next, Contract!Verdict, Verdict
  <2> QED
    BY <2>3, <2>4
<1>7. ASSUME NEW r \in Req, ~ UNCHANGED <<ar, audit, events, decided>>, Continue(r)
      PROVE  \/ certify_kpi(r) \/ reject_kpi(r) \/ create_approval_request(r)
             \/ close_approval(r) \/ record_audit(r) \/ publish(r)
  BY <1>7 DEF Continue, get_approval_by_entity, get_kpi, reset_to_pending_review, update_kpi,
     delete_kpi, row_gone, publish_raises, create_next_kpi, insert_kpi, generate_kpi_approvals, rows
<1>8. ASSUME NEW r \in Req,
             \/ Start(r) \/ approval_creation_failed(r) \/ crash(r)
             \/ \E e \in queue : handle_kpi_generated(r, e)
      PROVE  UNCHANGED <<ar, audit, events, decided>>
  BY <1>8 DEF Start, create_kpi, insert_kpi, seed_approvals, get_or_404, regen_pending,
     get_approval_request, approval_creation_failed, crash, handle_kpi_generated, rows
<1>9. CASE UNCHANGED vars \/ run
  BY <1>1, <1>9 DEF vars, run, rows
<1> QED
  BY <1>1, <1>2, <1>3, <1>4, <1>5, <1>6, <1>7, <1>8, <1>9 DEF Next

\* Every behaviour of the interleaved, crashing handlers is one the contract allows.
THEOREM Refinement == Spec => ImplementsContract
  BY Invariance, ContractInit, ContractStep, PTL DEF Spec, ImplementsContract, Contract!Spec

-----------------------------------------------------------------------------
(* One request at a time *)

\* Requests do not overlap.
Alone == \A r, s \in Req : r = s

\* The request is still going to see to it that a reviewer is asked about k.
OnItsWay(r, k) ==
    /\ job[r].kpi = k
    /\ \/ job[r].op \in {"create", "generate"} /\ job[r].pc \in {"audit", "find", "insert"}
       \/ job[r].op \in {"seed", "hitl", "regen"} /\ job[r].pc \in {"find", "insert"}

\* OnePendingPerKpi without counting.
OnePending ==
    \A a, b \in Ar : /\ ar[a].state = "pending" /\ ar[b].state = "pending"
                     /\ ar[a].kpi = ar[b].kpi
                     => a = b
\* Without failures a KPI in review is asked about, or somebody is on the way
\* to ask.
Asked ==
    faults = 0 =>
        \A k \in Kpi : status[k] = "pending_review" =>
            Pending(k) # {} \/ \E r \in Req : OnItsWay(r, k)

\* What the request read still holds when it writes.
StillTrue(r) ==
    /\ At(r, "write") => /\ Exists(job[r].kpi)
                         /\ job[r].status = status[job[r].kpi]
                         /\ job[r].version = version[job[r].kpi]
    /\ At(r, "insert") => Pending(job[r].kpi) = {}
    /\ At(r, "close") => status[job[r].kpi] # "pending_review"

\* What one request at a time keeps: each part needs the others, and what the
\* request has read.
Serial == OnePending /\ VersionCountsRows /\ Asked /\ \A r \in Req : StillTrue(r)

\* A step that leaves the rows alone and keeps what the request knows.
LEMMA QuietKeepsSerial ==
  ASSUME Alone, Serial, NEW r \in Req,
         UNCHANGED <<status, version, ledger, ar>>, faults' = 0 => faults = 0,
         StillTrue(r)',
         \A k \in Kpi : faults' = 0 /\ OnItsWay(r, k) =>
             OnItsWay(r, k)' \/ Pending(k) # {} \/ status[k] # "pending_review"
  PROVE  Serial'
<1>1. \A q \in Req : q = r
  BY DEF Alone
<1>2. \A k \in Kpi : Pending(k)' = Pending(k)
  BY DEF Pending
<1>3. Asked'
  BY <1>1, <1>2 DEF Serial, Asked
<1> QED
  BY <1>1, <1>3 DEF Serial, OnePending, VersionCountsRows, Exists

\* A KPI that is created is on its way to a reviewer.
LEMMA CreationKeepsSerial ==
  ASSUME Alone, TInv, Ledgers, Serial, NEW r \in Req, job[r].pc \in {"idle", "publish"},
         NEW k \in Kpi, insert_kpi(k),
         job'[r].pc = "audit", job'[r].op \in {"create", "generate"}, job'[r].kpi = k
  PROVE  Serial'
<1> USE DEF At
<1>0. /\ \A q \in Req : q = r
      /\ status \in [Kpi -> Review \cup {"absent", "gone"}] /\ version \in [Kpi -> Nat]
  BY DEF Alone, TInv, TypeOK
<1>1. /\ status' = [status EXCEPT ![k] = "pending_review"]
      /\ version' = [version EXCEPT ![k] = 1]
      /\ UNCHANGED <<ledger, ar, faults>> /\ status[k] = "absent"
  BY DEF insert_kpi
<1>2. /\ OnItsWay(r, k)' /\ \A h \in Kpi : ~ OnItsWay(r, h)
      /\ \A h \in Kpi : Pending(h)' = Pending(h)
  BY <1>1 DEF OnItsWay, Pending
<1>3. Asked'
  BY <1>0, <1>1, <1>2 DEF Serial, Asked
<1>4. VersionCountsRows'
  BY <1>0, <1>1 DEF Serial, VersionCountsRows, Exists, Ledgers, AbsentIsBlank, Review
<1> QED
  BY <1>0, <1>1, <1>3, <1>4 DEF Serial, OnePending, StillTrue

LEMMA StartKeepsSerial ==
  ASSUME Alone, TInv, Ledgers, Serial, NEW r \in Req,
         Start(r) \/ \E e \in queue : handle_kpi_generated(r, e)
  PROVE  Serial'
<1> USE DEF At
<1>0. /\ TypeOK /\ job \in [Req -> Job] /\ \A q \in Req : q = r
      /\ \A k \in Kpi, q \in Req : job[q].pc = "idle" => ~ OnItsWay(q, k)
      /\ status \in [Kpi -> Review \cup {"absent", "gone"}] /\ version \in [Kpi -> Nat]
  BY DEF Alone, TInv, TypeOK, OnItsWay
<1>1. ASSUME NEW k \in Kpi, NEW op \in {"create", "generate"}, create_kpi(r, k, op)
      PROVE  Serial'
  <2>1. job[r].pc = "idle" /\ insert_kpi(k)
    BY <1>1 DEF create_kpi
  <2>2. job'[r].pc = "audit" /\ job'[r].op = op /\ job'[r].kpi = k
    BY <1>0, <1>1, BeginFacts DEF create_kpi, Op, Step
  <2> QED
    BY <1>0, <2>1, <2>2, CreationKeepsSerial
<1>2. ASSUME NEW k \in Kpi, seed_approvals(r, k) \/ regen_pending(r, k) PROVE Serial'
  <2>1. job[r].pc = "idle" /\ UNCHANGED <<status, version, ledger, ar, faults>>
    BY <1>2 DEF seed_approvals, regen_pending, rows
  <2>2. job'[r].pc = "find"
    BY <1>0, <1>2, BeginFacts DEF seed_approvals, regen_pending, Op, Step
  <2> QED
    BY <1>0, <2>1, <2>2, QuietKeepsSerial DEF StillTrue
<1>3. ASSUME NEW e \in queue, handle_kpi_generated(r, e) PROVE Serial'
  <2>1. job[r].pc = "idle" /\ UNCHANGED <<status, version, ledger, ar, faults>>
    BY <1>3 DEF handle_kpi_generated, rows
  <2>2. job'[r].pc = "find"
    BY <1>0, <1>3, HandleFacts
  <2> QED
    BY <1>0, <2>1, <2>2, QuietKeepsSerial DEF StillTrue
<1>4. ASSUME NEW k \in Kpi, NEW op \in {"certify", "reject", "regen", "update", "delete"},
             get_or_404(r, op, k)
      PROVE  Serial'
  <2>1. job[r].pc = "idle" /\ Exists(k) /\ UNCHANGED <<status, version, ledger, ar, faults>>
    BY <1>4 DEF get_or_404, rows
  <2>2. /\ job'[r].pc = "write" /\ job'[r].kpi = k
        /\ job'[r].status = status[k] /\ job'[r].version = version[k]
    BY <1>0, <1>4, LoadFacts
  <2>3. StillTrue(r)'
    BY <2>1, <2>2 DEF StillTrue, Exists
  <2> QED
    BY <1>0, <2>1, <2>3, QuietKeepsSerial
<1>5. ASSUME NEW a \in Ar, NEW op \in {"approve", "decline"}, get_approval_request(r, a, op)
      PROVE  Serial'
  <2>1. /\ job[r].pc = "idle" /\ UNCHANGED <<status, version, ledger, ar, faults>>
        /\ ar[a].kpi \in Kpi
    BY <1>5, Parts DEF get_approval_request, rows, DataOK, ArHasSubject, ApprovalRequest
  <2>2. job'[r].pc = "load"
    BY <1>0, <1>5, <2>1, BeginFacts DEF get_approval_request, Op, Step
  <2> QED
    BY <1>0, <2>1, <2>2, QuietKeepsSerial DEF StillTrue
<1> QED
  BY <1>1, <1>2, <1>3, <1>4, <1>5 DEF Start

\* A batch goes on with nothing owed for the KPI it was at.
LEMMA GoesOnKeepsSerial ==
  ASSUME Alone, TInv, Ledgers, Serial, NEW r \in Req, GoesOn(r)
  PROVE  Serial'
<1> USE DEF At
<1>1. /\ job[r].pc = "publish" /\ job'[r].kpi \in Kpi /\ job'[r].op = job[r].op
      /\ UNCHANGED <<ledger, ar, faults>>
      /\ \/ job'[r].pc = "find" /\ UNCHANGED <<status, version>>
         \/ /\ job[r].op = "generate" /\ job'[r].pc = "audit" /\ status[job'[r].kpi] = "absent"
            /\ status' = [status EXCEPT ![job'[r].kpi] = "pending_review"]
            /\ version' = [version EXCEPT ![job'[r].kpi] = 1]
  BY GoesOnFacts, Parts
<1>2. CASE job'[r].pc = "find" /\ UNCHANGED <<status, version>>
  BY <1>1, <1>2, QuietKeepsSerial DEF StillTrue, OnItsWay
<1>3. CASE \E k \in Kpi : create_next_kpi(r, k)
  <2> PICK k \in Kpi : create_next_kpi(r, k)
    BY <1>3
  <2>1. insert_kpi(k) /\ job[r].op = "generate"
    BY DEF create_next_kpi
  <2>2. job'[r].pc = "audit" /\ job'[r].op = "generate" /\ job'[r].kpi = k
    <3> DEFINE moved == [job[r] EXCEPT !.pc = "audit", !.kpi = k,
                                       !.done = job[r].done \cup {job[r].kpi}]
    <3>1. job' = [job EXCEPT ![r] = moved] /\ job \in [Req -> Job]
      BY DEF create_next_kpi, TInv, TypeOK
    <3>2. moved.pc = "audit" /\ moved.op = job[r].op /\ moved.kpi = k
      BY <3>1 DEF Job
    <3> HIDE DEF moved
    <3> QED
      BY <2>1, <3>1, <3>2
  <2> QED
    BY <1>1, <2>1, <2>2, CreationKeepsSerial
<1>4. CASE generate_kpi_approvals(r)
  <2>1. UNCHANGED <<status, version>> /\ job[r].op = "hitl"
    BY <1>4 DEF generate_kpi_approvals, rows
  <2> QED
    BY <1>1, <1>2, <2>1
<1> QED
  BY <1>3, <1>4 DEF GoesOn

\* The steps between reads and writes: what they end, they end with the request
\* for approval pending, with the KPI gone or with a fault.
LEMMA QuietContinue ==
  ASSUME Alone, TInv, Serial, NEW r \in Req,
         \/ get_approval_by_entity(r) \/ get_kpi(r) \/ row_gone(r) \/ record_audit(r)
         \/ approval_creation_failed(r) \/ crash(r) \/ publish_raises(r)
  PROVE  Serial'
<1> USE DEF At
<1>0. job \in [Req -> Job] /\ faults \in Nat /\ job[r] \in Job
  BY DEF TInv, TypeOK
<1>1. CASE get_approval_by_entity(r)
  <2>1. /\ job[r].pc = "find" /\ UNCHANGED <<status, version, ledger, ar, faults>>
        /\ job[r].kpi \in Kpi /\ \A k \in Kpi : Pending(k)' = Pending(k)
    BY <1>1, Parts, AtWork DEF get_approval_by_entity, rows, Pending
  <2>2. CASE Pending(job[r].kpi) # {}
    <3>1. job'[r].pc \in {"idle", "publish"}
      BY <1>0, <1>1, <2>2, GotoFacts, FinishFacts
      DEF get_approval_by_entity, AfterApproval, Step, Idle
    <3> QED
      BY <2>1, <2>2, <3>1, QuietKeepsSerial DEF StillTrue, OnItsWay
  <2>3. CASE Pending(job[r].kpi) = {}
    <3>1. job'[r].pc = "insert" /\ job'[r].kpi = job[r].kpi /\ job'[r].op = job[r].op
      BY <1>0, <1>1, <2>3, GotoFacts DEF get_approval_by_entity, Step
    <3>2. \A k \in Kpi : OnItsWay(r, k) => OnItsWay(r, k)'
      BY <2>1, <3>1 DEF OnItsWay
    <3>3. StillTrue(r)'
      BY <2>1, <2>3, <3>1 DEF StillTrue, Pending
    <3> QED
      BY <2>1, <3>2, <3>3, QuietKeepsSerial
  <2> QED
    BY <2>2, <2>3
<1>2. CASE get_kpi(r)
  <2>1. /\ job[r].pc = "load" /\ UNCHANGED <<status, version, ledger, ar, faults>>
    BY <1>2 DEF get_kpi, rows
  <2>2. \/ job'[r].pc = "idle"
        \/ /\ job'[r].pc = "write" /\ job'[r].kpi = job[r].kpi /\ Exists(job[r].kpi)
           /\ job'[r].status = status[job[r].kpi] /\ job'[r].version = version[job[r].kpi]
    <3>1. CASE Finish(r)
      BY <1>0, <3>1, FinishFacts DEF Idle
    <3>2. CASE /\ Exists(job[r].kpi)
               /\ job' = [job EXCEPT ![r] = [@ EXCEPT !.pc = "write",
                                                      !.status = status[job[r].kpi],
                                                      !.version = version[job[r].kpi]]]
      <4> DEFINE new == [job[r] EXCEPT !.pc = "write", !.status = status[job[r].kpi],
                                       !.version = version[job[r].kpi]]
      <4>1. job'[r] = new
        BY <1>0, <3>2
      <4>2. /\ new.pc = "write" /\ new.kpi = job[r].kpi
            /\ new.status = status[job[r].kpi] /\ new.version = version[job[r].kpi]
        BY <1>0 DEF Job
      <4> QED
        BY <3>2, <4>1, <4>2
    <3> QED
      BY <1>2, <3>1, <3>2 DEF get_kpi
  <2> QED
    BY <2>1, <2>2, QuietKeepsSerial DEF StillTrue, OnItsWay, Exists
<1>3. CASE row_gone(r)
  <2>1. /\ job'[r].pc = "idle" /\ UNCHANGED <<status, version, ledger, ar, faults>>
    BY <1>0, <1>3, FinishFacts DEF row_gone, rows, Idle
  <2>2. \A k \in Kpi : OnItsWay(r, k) => status[k] # "pending_review"
    BY <1>3 DEF row_gone, OnItsWay, Exists, Review
  <2> QED
    BY <2>1, <2>2, QuietKeepsSerial DEF StillTrue
<1>4. CASE record_audit(r)
  <2>1. /\ job[r].pc = "audit" /\ UNCHANGED <<status, version, ledger, ar>>
        /\ faults' = 0 => faults = 0
    BY <1>0, <1>4 DEF record_audit, rows
  <2>2. job'[r].pc \in {"idle", "publish", "find"}
    BY <1>0, <1>4, GotoFacts, FinishFacts DEF record_audit, Step, Idle
  <2>3. \A k \in Kpi : OnItsWay(r, k) => OnItsWay(r, k)'
    <3>1. CASE job[r].op \in {"create", "generate"}
      <4>1. Goto(r, "find")
        BY <1>4, <3>1 DEF record_audit
      <4> QED
        BY <1>0, <3>1, <4>1, GotoFacts DEF OnItsWay, Step
    <3> QED
      BY <2>1, <3>1 DEF OnItsWay
  <2> QED
    BY <2>1, <2>2, <2>3, QuietKeepsSerial DEF StillTrue
<1>5. CASE approval_creation_failed(r) \/ crash(r)
  <2>1. /\ job'[r].pc \in {"idle", "publish"} /\ faults' # 0
        /\ UNCHANGED <<status, version, ledger, ar>>
    BY <1>0, <1>5, GotoFacts, FinishFacts
    DEF approval_creation_failed, crash, rows, Step, Idle
  <2> QED
    BY <2>1, QuietKeepsSerial DEF StillTrue
<1>6. CASE publish_raises(r)
  <2>1. /\ job'[r].pc = "idle" /\ job[r].pc = "publish"
        /\ UNCHANGED <<status, version, ledger, ar, faults>>
    BY <1>0, <1>6, FinishFacts DEF publish_raises, rows, Idle
  <2> QED
    BY <2>1, QuietKeepsSerial DEF StillTrue, OnItsWay
<1> QED
  BY <1>1, <1>2, <1>3, <1>4, <1>5, <1>6

\* A write back from a copy that is still true adds the row the version counts.
LEMMA WriteCounts ==
  ASSUME TInv, Serial, NEW r \in Req, NEW reason \in Reason, snapshot_version(r, reason),
         NEW s \in Review, status'[job[r].kpi] = s,
         \A k \in Kpi \ {job[r].kpi} : status'[k] = status[k]
  PROVE  VersionCountsRows'
<1> DEFINE k == job[r].kpi
           row == [version |-> job[r].version, status |-> job[r].status, reason |-> reason]
<1>1. /\ k \in Kpi /\ version \in [Kpi -> Nat] /\ ledger \in [Kpi -> Seq(KpiVersion)]
      /\ row \in KpiVersion
  BY Parts, AtWork DEF snapshot_version, At, DataOK, KpiVersion
<1>2. /\ version[k] = Len(ledger[k]) + 1 /\ row.version = version[k]
      /\ \A i \in DOMAIN ledger[k] : ledger[k][i].version = i
  BY <1>1 DEF Serial, StillTrue, snapshot_version, VersionCountsRows, At
<1>3. /\ ledger'[k] = Append(ledger[k], row) /\ version'[k] = row.version + 1
      /\ \A h \in Kpi \ {k} : ledger'[h] = ledger[h] /\ version'[h] = version[h]
  BY <1>1 DEF snapshot_version
<1>4. /\ version'[k] = Len(ledger'[k]) + 1
      /\ \A i \in DOMAIN ledger'[k] : ledger'[k][i].version = i
  BY <1>1, <1>2, <1>3
<1> QED
  BY <1>3, <1>4 DEF Serial, VersionCountsRows, Exists

LEMMA WriteKeepsSerial ==
  ASSUME Alone, TInv, Serial, NEW r \in Req,
         \/ certify_kpi(r) \/ reject_kpi(r) \/ reset_to_pending_review(r) \/ update_kpi(r)
         \/ delete_kpi(r)
  PROVE  Serial'
<1> USE DEF At
<1> DEFINE k == job[r].kpi
<1>0. /\ job \in [Req -> Job] /\ \A q \in Req : q = r
      /\ status \in [Kpi -> Review \cup {"absent", "gone"}] /\ k \in Kpi
      /\ job[r].pc = "write" /\ Exists(k)
      /\ ledger \in [Kpi -> Seq(KpiVersion)]
  <2>1. job[r].pc = "write"
    BY DEF certify_kpi, reject_kpi, reset_to_pending_review, update_kpi, delete_kpi,
           snapshot_version
  <2> QED
    BY <2>1, Parts, AtWork DEF Alone, JobOK, DataOK, Serial, StillTrue
<1>1. /\ UNCHANGED <<ar, faults>>
      /\ \A h \in Kpi \ {k} : status'[h] = status[h]
      /\ \A h \in Kpi : ~ OnItsWay(r, h) /\ Pending(h)' = Pending(h)
  BY <1>0 DEF certify_kpi, reject_kpi, reset_to_pending_review, update_kpi, delete_kpi, SetStatus,
              OnItsWay, Pending
<1>2. /\ job'[r].pc \in {"close", "audit", "find"}
      /\ job'[r].pc = "close" => certify_kpi(r) \/ reject_kpi(r)
      /\ job'[r].kpi = k /\ job'[r].op = job[r].op
  BY <1>0, GotoFacts DEF certify_kpi, reject_kpi, reset_to_pending_review, update_kpi,
                         delete_kpi, AfterVerdict, Step
<1>3. /\ certify_kpi(r) => status'[k] = "certified"
      /\ reject_kpi(r) => status'[k] = "rejected"
      /\ reset_to_pending_review(r) => status'[k] = "pending_review"
      /\ update_kpi(r) => status'[k] = status[k]
      /\ delete_kpi(r) => status'[k] = "gone"
  BY <1>0 DEF certify_kpi, reject_kpi, reset_to_pending_review, update_kpi, delete_kpi, SetStatus
<1>4. VersionCountsRows'
  <2>1. CASE delete_kpi(r)
    BY <1>0, <1>1, <1>3, <2>1 DEF delete_kpi, Serial, VersionCountsRows, Exists, Review
  <2>2. CASE ~ delete_kpi(r)
    <3>1. \E reason \in Reason : snapshot_version(r, reason)
      BY <2>2 DEF certify_kpi, reject_kpi, reset_to_pending_review, update_kpi, Reason, Verdict
    <3>2. status'[k] \in Review
      BY <1>0, <1>3, <2>2 DEF Exists, Review
    <3> QED
      BY <1>1, <3>1, <3>2, WriteCounts
  <2> QED
    BY <2>1, <2>2
<1>5. StillTrue(r)'
  BY <1>2, <1>3 DEF StillTrue
<1>6. Asked'
  <2>1. reset_to_pending_review(r) => OnItsWay(r, k)'
    <3>1. ASSUME reset_to_pending_review(r) PROVE OnItsWay(r, k)'
      <4>1. job'[r].pc = "find" /\ job[r].op = "regen"
        BY <1>0, <3>1, GotoFacts DEF reset_to_pending_review, Step
      <4> QED
        BY <1>2, <4>1 DEF OnItsWay
    <3> QED
      BY <3>1
  <2>2. status'[k] = "pending_review" => OnItsWay(r, k)' \/ status'[k] = status[k]
    BY <1>3, <2>1
  <2> QED
    BY <1>0, <1>1, <1>2, <2>2 DEF Serial, Asked
<1> QED
  BY <1>0, <1>1, <1>4, <1>5, <1>6 DEF Serial, OnePending

LEMMA ApprovalKeepsSerial ==
  ASSUME Alone, TInv, Serial, NEW r \in Req,
         create_approval_request(r) \/ close_approval(r) \/ publish(r)
  PROVE  Serial'
<1> USE DEF At
<1> DEFINE k == job[r].kpi
<1>0. /\ job \in [Req -> Job] /\ \A q \in Req : q = r
      /\ job[r].pc # "idle" /\ k \in Kpi /\ ar \in [Ar -> ApprovalRequest]
      /\ \A a \in Ar : ar[a].state = "unused" => ar[a].kpi \notin Kpi
      /\ job[r].pc = "close" => job[r].ar \in Ar /\ ar[job[r].ar].kpi = k
  <2>1. job[r].pc # "idle"
    BY DEF create_approval_request, close_approval, publish
  <2> QED
    BY <2>1, Parts, AtWork DEF Alone, JobOK, DataOK, ArHasSubject
<1>1. CASE create_approval_request(r)
  <2>1. PICK a \in Unused : ar' = [ar EXCEPT ![a] = [state |-> "pending", kpi |-> k]]
    BY <1>1 DEF create_approval_request
  <2>2. a \in Ar /\ ar[a].state = "unused" /\ Pending(k) = {}
    BY <1>1, <2>1 DEF Unused, create_approval_request, Serial, StillTrue
  <2>3. /\ ar'[a].state = "pending" /\ ar'[a].kpi = k
        /\ \A b \in Ar \ {a} : ar'[b] = ar[b]
    BY <1>0, <2>1, <2>2
  <2>4. /\ job'[r].pc \in {"idle", "publish"} /\ job[r].pc = "insert"
        /\ UNCHANGED <<status, version, ledger, faults>>
    <3>1. Expires(r) \/ AfterApproval(r)
      BY <1>1 DEF create_approval_request, Expires
    <3>2. job'[r].pc \in {"idle", "publish"}
      BY <1>0, <3>1, GotoFacts, FinishFacts, ExpiresFacts DEF AfterApproval, Step, Idle
    <3> QED
      BY <1>1, <3>2 DEF create_approval_request, rows
  <2>5. OnePending'
    BY <2>2, <2>3 DEF Serial, OnePending, Pending
  <2>6. \A h \in Kpi : /\ Pending(h) # {} => Pending(h)' # {}
                       /\ OnItsWay(r, h) => Pending(h)' # {}
    BY <2>2, <2>3 DEF Pending, OnItsWay
  <2>7. Asked'
    BY <1>0, <2>4, <2>6 DEF Serial, Asked
  <2> QED
    BY <1>0, <2>4, <2>5, <2>7 DEF Serial, VersionCountsRows, Exists, StillTrue
<1>2. CASE close_approval(r)
  <2>1. /\ job'[r].pc = "audit" /\ job[r].pc = "close"
        /\ UNCHANGED <<status, version, ledger, faults>>
    BY <1>0, <1>2, GotoFacts DEF close_approval, rows, Step
  <2>2. /\ \A b \in Ar \ {job[r].ar} : ar'[b] = ar[b]
        /\ ar'[job[r].ar].state # "pending" /\ ar'[job[r].ar].kpi = k
    BY <1>0, <1>2, <2>1 DEF close_approval, ApprovalRequest
  <2>3. /\ status[k] # "pending_review"
        /\ \A h \in Kpi : h # k => Pending(h)' = Pending(h)
    BY <1>0, <2>1, <2>2 DEF Serial, StillTrue, Pending
  <2>4. Asked'
    BY <1>0, <2>1, <2>3 DEF Serial, Asked, OnItsWay
  <2> QED
    BY <1>0, <2>1, <2>2, <2>4 DEF Serial, OnePending, VersionCountsRows, Exists, StillTrue
<1>3. CASE publish(r)
  <2>1. /\ job'[r].pc = "idle" /\ job[r].pc = "publish"
        /\ UNCHANGED <<status, version, ledger, ar, faults>>
    BY <1>0, <1>3, FinishFacts DEF publish, rows, Idle
  <2>2. \A h \in Kpi : Pending(h)' = Pending(h) /\ ~ OnItsWay(r, h)
    BY <2>1 DEF Pending, OnItsWay
  <2>3. Asked'
    BY <1>0, <2>1, <2>2 DEF Serial, Asked
  <2> QED
    BY <1>0, <2>1, <2>3 DEF Serial, OnePending, VersionCountsRows, Exists, StillTrue
<1> QED
  BY <1>1, <1>2, <1>3

LEMMA SerialInit == Init => Serial
  BY DEF Init, Serial, OnePending, VersionCountsRows, Exists, Review, Asked, StillTrue, At, Idle

LEMMA SerialStep == Alone /\ IInv /\ Serial /\ [Next]_vars => Serial'
<1> SUFFICES ASSUME Alone, IInv, Serial, [Next]_vars PROVE Serial'
  OBVIOUS
<1>0. TInv /\ Ledgers
  BY DEF IInv
<1>1. CASE UNCHANGED vars \/ run
  <2>1. UNCHANGED <<status, version, ledger, ar, faults, job>>
    BY <1>1 DEF vars, run, rows
  <2>2. /\ \A k \in Kpi : Pending(k)' = Pending(k)
        /\ \A r \in Req, k \in Kpi : OnItsWay(r, k)' <=> OnItsWay(r, k)
    BY <2>1 DEF Pending, OnItsWay
  <2>3. \A r \in Req : StillTrue(r) => StillTrue(r)'
    BY <2>1 DEF StillTrue, At, Exists, Pending
  <2> QED
    BY <2>1, <2>2, <2>3 DEF Serial, OnePending, VersionCountsRows, Exists, Asked
<1>2. ASSUME NEW r \in Req,
             \/ Start(r) \/ Continue(r) \/ approval_creation_failed(r) \/ crash(r)
             \/ \E e \in queue : handle_kpi_generated(r, e)
      PROVE  Serial'
  BY <1>0, <1>2, StartKeepsSerial, QuietContinue, WriteKeepsSerial, ApprovalKeepsSerial,
     GoesOnKeepsSerial
  DEF Continue, GoesOn
<1> QED
  BY <1>1, <1>2 DEF Next

LEMMA SerialShows ==
  ASSUME Serial
  PROVE  SerialIsSound
<1>1. OnePendingPerKpi
  <2> SUFFICES ASSUME NEW k \in Kpi PROVE Cardinality(Pending(k)) <= 1
    BY DEF OnePendingPerKpi
  <2>1. CASE Pending(k) = {}
    BY <2>1, FS_EmptySet
  <2>2. ASSUME NEW a \in Pending(k) PROVE Cardinality(Pending(k)) <= 1
    <3>1. Pending(k) = {a}
      BY <2>2 DEF Pending, Serial, OnePending
    <3> QED
      BY <3>1, FS_Singleton
  <2> QED
    BY <2>1, <2>2
<1>2. VersionCountsRows
  BY DEF Serial
<1>3. ReviewIsQueued
  BY DEF Serial, Asked, ReviewIsQueued, Settled, At, OnItsWay
<1> QED
  BY <1>1, <1>2, <1>3 DEF SerialIsSound

\* As long as one request is served at a time, whatever fails or crashes, a
\* reviewer is never asked twice about a KPI and version counts the version
\* rows; and while nothing fails, each KPI in review is asked about.
THEOREM SerialAlwaysSound == Alone => (Spec => []SerialIsSound)
<1>1. Alone /\ IInv /\ Serial /\ [Next]_vars => Serial'
  BY SerialStep
<1>2. Init => Serial
  BY SerialInit
<1>3. Serial => SerialIsSound
  BY SerialShows
<1> SUFFICES ASSUME Alone PROVE Spec => []SerialIsSound
  OBVIOUS
<1>4. IInv /\ Serial /\ [Next]_vars => Serial'
  BY <1>1
<1> QED
  BY <1>2, <1>3, <1>4, Invariance, PTL DEF Spec
=============================================================================
