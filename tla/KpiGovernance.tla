---------------------------- MODULE KpiGovernance ----------------------------
(***************************************************************************)
(* The life of a KPI definition under human review: app/crud/kpi.py,       *)
(* app/crud/approval_request.py, app/services/kpi_service.py,              *)
(* app/services/hitl_workflow_service.py and the routers and agents that   *)
(* call them.                                                              *)
(*                                                                         *)
(* Requests run concurrently in the server's thread pool.  Each has its    *)
(* own session: a SELECT sees the latest commit, an UPDATE is issued by    *)
(* primary key without re-reading the row, and every helper commits on its *)
(* own.  A request is therefore a job whose steps are the statements       *)
(* between which another request, or a crash, can come.  A job carries the *)
(* row it read (status, version) until it writes it back.                  *)
(*                                                                         *)
(* Roles: every endpoint that decides is behind require_manager, which     *)
(* admits exactly the roles the rank check of a certification_review       *)
(* accepts, so a job here is one that has passed both.                     *)
(***************************************************************************)
EXTENDS Naturals, Sequences, FiniteSets

CONSTANTS
    Kpi,        \* identities of KPI definitions
    Ar,         \* identities of approval requests (a bound: how many can be opened)
    Req,        \* requests and agent workers that can run at the same time
    NoKpi, NoAr,
    MaxRows,    \* bound: no write starts when there are this many version rows
    MaxFaults   \* bound: crashes and swallowed failures in a behaviour

ASSUME GovernanceAssumption ==
    /\ NoKpi \notin Kpi
    /\ NoAr \notin Ar
    /\ MaxRows \in Nat
    /\ MaxFaults \in Nat

VARIABLES
    status,     \* kpi_definitions.status, "absent" before the insert, "gone" after the delete
    version,    \* kpi_definitions.version
    ledger,     \* kpi_versions of the KPI in commit order
    ar,         \* approval_requests: state and the KPI it is about
    audit,      \* audit_logs, kpi.<action>: <<action, kpi>>
    events,     \* events published, kpi_<type>: <<type, kpi, approval request>>
    queue,      \* kpi_generated events the HITL worker has not begun, each the KPIs of a batch
    polling,    \* the HITL worker is in its poll loop
    job,        \* the requests in flight
    faults,
    decided     \* history: the verdicts ever committed on the KPI

rows == <<status, version, ledger, decided>>
vars == <<status, version, ledger, ar, audit, events, queue, polling, job, faults, decided>>

Review == {"draft", "pending_review", "certified", "rejected"}

\* The statuses a status may be moved to.
VALID_TRANSITIONS ==
    [s \in Review |->
        CASE s = "draft"          -> {"pending_review"}
          [] s = "pending_review" -> {"certified", "rejected"}
          [] s = "certified"      -> {"rejected", "pending_review"}
          [] s = "rejected"       -> {"pending_review"}]

Verdict == {"certified", "rejected"}
Reason == Verdict \cup {"regen_requested", "analyst_edit"}
Op == {"certify", "reject", "approve", "decline", "regen", "update", "delete",
       "create", "generate", "seed", "hitl"}
Step == {"idle", "load", "write", "close", "audit", "find", "insert", "publish"}

KpiVersion == [version : Nat, status : Review, reason : Reason]
ApprovalRequest == [state : {"unused", "pending", "approved", "rejected"}, kpi : Kpi \cup {NoKpi}]
Job == [pc : Step, op : Op, kpi : Kpi \cup {NoKpi}, ar : Ar \cup {NoAr},
        status : Review, version : Nat,
        done : SUBSET Kpi, todo : SUBSET Kpi, stale : BOOLEAN]

\* A batch (of the KPI agent, of the HITL worker) is at one KPI, past those in
\* done and before those in todo; stale: an approval request the HITL worker
\* holds has been expired by the commit of a later one.
Idle == [pc |-> "idle", op |-> "seed", kpi |-> NoKpi, ar |-> NoAr,
         status |-> "draft", version |-> 0, done |-> {}, todo |-> {}, stale |-> FALSE]

TypeOK ==
    /\ status \in [Kpi -> Review \cup {"absent", "gone"}]
    /\ version \in [Kpi -> Nat]
    /\ ledger \in [Kpi -> Seq(KpiVersion)]
    /\ ar \in [Ar -> ApprovalRequest]
    /\ audit \subseteq (Verdict \cup {"created", "updated", "deleted"}) \X Kpi
    /\ events \subseteq (Verdict \cup {"pending_review", "generated"})
                         \X Kpi \X (Ar \cup {NoAr})
    /\ queue \subseteq SUBSET Kpi
    /\ polling \in BOOLEAN
    /\ job \in [Req -> Job]
    /\ faults \in Nat
    /\ decided \in [Kpi -> SUBSET Verdict]

Init ==
    /\ status = [k \in Kpi |-> "absent"]
    /\ version = [k \in Kpi |-> 0]
    /\ ledger = [k \in Kpi |-> <<>>]
    /\ ar = [a \in Ar |-> [state |-> "unused", kpi |-> NoKpi]]
    /\ audit = {}
    /\ events = {}
    /\ queue = {}
    /\ polling = TRUE
    /\ job = [r \in Req |-> Idle]
    /\ faults = 0
    /\ decided = [k \in Kpi |-> {}]

-----------------------------------------------------------------------------
(* Helpers *)

Exists(k) == status[k] \in Review
At(r, pc) == job[r].pc = pc
Goto(r, pc) == job' = [job EXCEPT ![r].pc = pc]
Finish(r) == job' = [job EXCEPT ![r] = Idle]
Begin(r, pc, op, k, a) ==
    job' = [job EXCEPT ![r] = [Idle EXCEPT !.pc = pc, !.op = op, !.kpi = k, !.ar = a]]

Pending(k) == {a \in Ar : ar[a].state = "pending" /\ ar[a].kpi = k}
Unused == {a \in Ar : ar[a].state = "unused"}

\* The bound on approval requests: a job that may open one starts only while
\* an identity is left for it, besides one for each KPI that the HITL worker
\* will be asked about, so that the worker itself is never held up.
Opening == {r \in Req : job[r].op \in {"create", "generate", "seed", "hitl", "regen"}
                        /\ job[r].pc # "idle"}
Announced == UNION queue
Promised ==
    Announced \cup UNION {job[r].todo : r \in Req}
              \cup UNION {job[r].done \cup {job[r].kpi} : r \in {q \in Req : job[q].op = "generate"}}
ArLeft(n) == Cardinality(Opening) + Cardinality(Promised) + n <= Cardinality(Unused)

\* The bound on version rows, of all KPIs together.
RowsLeft == Cardinality({e \in Kpi \X (1 .. MaxRows) : e[2] \in DOMAIN ledger[e[1]]}) < MaxRows

\* The session re-reads an expired object before it goes on.
MustReload(r) ==
    \/ At(r, "audit") /\ job[r].op \in {"approve", "decline"}
    \/ At(r, "find") /\ job[r].op \in {"create", "generate"}
Readable(r) == MustReload(r) => Exists(job[r].kpi)

\* What the service checks on the row it loaded, before it writes.
assert_transition(s, target) == target \in VALID_TRANSITIONS[s]
MayApply(op, s) ==
    CASE op \in {"certify", "approve"} -> assert_transition(s, "certified")
      [] op \in {"reject", "decline"}  -> assert_transition(s, "rejected")
      [] op = "regen"                  -> assert_transition(s, "pending_review")
      [] op = "delete"                 -> s \in {"draft", "rejected"}
      [] OTHER                         -> TRUE

-----------------------------------------------------------------------------
(* Creation *)

\* POST /kpis, POST /datasets/{id}/kpis/generate ("create") and the KPI agent
\* ("generate"): the row is committed before anything is asked of a reviewer.
insert_kpi(k) ==
    /\ status[k] = "absent"
    /\ status' = [status EXCEPT ![k] = "pending_review"]
    /\ version' = [version EXCEPT ![k] = 1]
    /\ UNCHANGED <<ledger, ar, audit, events, queue, polling, faults, decided>>

create_kpi(r, k, op) ==
    /\ At(r, "idle")
    /\ ArLeft(IF op = "generate" THEN 2 ELSE 1)
    /\ insert_kpi(k)
    /\ Begin(r, "audit", op, k, NoAr)

\* The KPI agent goes on with the next definition of its model's answer.
create_next_kpi(r, k) ==
    /\ At(r, "publish")
    /\ job[r].op = "generate"
    /\ ArLeft(1)
    /\ insert_kpi(k)
    /\ job' = [job EXCEPT ![r] = [@ EXCEPT !.pc = "audit", !.kpi = k,
                                            !.done = job[r].done \cup {job[r].kpi}]]

\* POST /approvals/seed: any identity the client knows, live or deleted; it is
\* checked against nothing.
seed_approvals(r, k) ==
    /\ At(r, "idle")
    /\ ArLeft(1)
    /\ status[k] # "absent"
    /\ Begin(r, "find", "seed", k, NoAr)
    /\ UNCHANGED <<rows, ar, audit, events, queue, polling, faults>>

handle_kpi_generated_ignored(r, e) == \* mutant: the payload is not understood
    /\ polling
    /\ \A q \in Req : job[q].op # "hitl"
    /\ At(r, "idle")
    /\ e \in queue
    /\ queue' = queue \ {e}
    /\ UNCHANGED <<rows, ar, audit, events, polling, job, faults>>

\* The HITL worker begins with an event, one at a time: the event has left the
\* group's new entries and is never offered again.  It goes through the KPIs of
\* the event in one session.
handle_kpi_generated(r, e) ==
    /\ polling
    /\ \A q \in Req : job[q].op # "hitl"
    /\ At(r, "idle")
    /\ e \in queue
    /\ queue' = queue \ {e}
    /\ \E k \in e : job' = [job EXCEPT ![r] = [Idle EXCEPT !.pc = "find", !.op = "hitl",
                                                          !.kpi = k, !.todo = e \ {k}]]
    /\ UNCHANGED <<rows, ar, audit, events, polling, faults>>

generate_kpi_approvals(r) ==
    /\ At(r, "publish")
    /\ job[r].op = "hitl"
    /\ \E k \in job[r].todo :
           job' = [job EXCEPT ![r] = [@ EXCEPT !.pc = "find", !.kpi = k,
                                               !.todo = job[r].todo \ {k},
                                               !.done = job[r].done \cup {job[r].kpi}]]
    /\ UNCHANGED <<rows, ar, audit, events, queue, polling, faults>>

\* An exception leaves the poll loop, and the worker ends with the events of
\* the same poll; nothing restarts it, but somebody may.
worker_ends ==
    /\ polling' = FALSE
    /\ \E given \in SUBSET queue : queue' = queue \ given

run ==
    /\ ~ polling
    /\ polling' = TRUE
    /\ UNCHANGED <<rows, ar, audit, events, queue, job, faults>>

AfterApproval(r) ==
    IF job[r].op \in {"generate", "hitl"} THEN Goto(r, "publish") ELSE Finish(r)

get_approval_by_entity_closed(r) == \* mutant: a closed request counts as existing
    /\ At(r, "find")
    /\ Readable(r)
    /\ IF \E a \in Ar : ar[a].kpi = job[r].kpi THEN AfterApproval(r) ELSE Goto(r, "insert")
    /\ UNCHANGED <<rows, ar, audit, events, queue, polling, faults>>

\* create_kpi_approval, first half: an existing pending request is returned.
get_approval_by_entity(r) ==
    /\ At(r, "find")
    /\ Readable(r)
    /\ IF Pending(job[r].kpi) # {} THEN AfterApproval(r) ELSE Goto(r, "insert")
    /\ UNCHANGED <<rows, ar, audit, events, queue, polling, faults>>

create_approval_request_reopened(r) == \* mutant: a closed request is reused
    /\ At(r, "insert")
    /\ \E a \in Ar : /\ ar[a].state # "pending"
                    /\ ar' = [ar EXCEPT ![a] = [state |-> "pending", kpi |-> job[r].kpi]]
    /\ AfterApproval(r)
    /\ UNCHANGED <<rows, audit, events, queue, polling, faults>>

\* create_kpi_approval, second half: no constraint stops a second pending row.
\* The commit expires whatever the session holds.
create_approval_request(r) ==
    /\ At(r, "insert")
    /\ \E a \in Unused : ar' = [ar EXCEPT ![a] = [state |-> "pending", kpi |-> job[r].kpi]]
    /\ IF job[r].op = "hitl" /\ job[r].done # {}
       THEN job' = [job EXCEPT ![r] = [@ EXCEPT !.pc = "publish", !.stale = TRUE]]
       ELSE AfterApproval(r)
    /\ UNCHANGED <<rows, audit, events, queue, polling, faults>>

\* The KPI agent goes on when the SELECT of its own attempt fails.  (A failed
\* INSERT leaves the session unusable, the warning's own read of the KPI raises,
\* and the handler drops its event: that is a crash of the job.)
approval_creation_failed(r) ==
    /\ faults < MaxFaults
    /\ At(r, "find")
    /\ job[r].op = "generate"
    /\ faults' = faults + 1
    /\ Goto(r, "publish")
    /\ UNCHANGED <<rows, ar, audit, events, queue, polling>>

-----------------------------------------------------------------------------
(* Reading the row a request is about *)

\* POST /kpis/{id}/certify, /reject, /regen, PUT and DELETE /kpis/{id}: load
\* the row and check it; the write is a later statement.
get_or_404(r, op, k) ==
    /\ At(r, "idle")
    /\ RowsLeft
    /\ op = "regen" => ArLeft(1)
    /\ Exists(k)
    /\ MayApply(op, status[k])
    /\ job' = [job EXCEPT ![r] = [Idle EXCEPT !.pc = "write", !.op = op, !.kpi = k,
                                              !.status = status[k], !.version = version[k]]]
    /\ UNCHANGED <<rows, ar, audit, events, queue, polling, faults>>

\* regen_kpi returns a KPI already in review untouched: what is left to do is
\* what a seed does.
regen_pending(r, k) ==
    /\ At(r, "idle")
    /\ ArLeft(1)
    /\ status[k] = "pending_review"
    /\ Begin(r, "find", "seed", k, NoAr)
    /\ UNCHANGED <<rows, ar, audit, events, queue, polling, faults>>

\* process_approval ("approve") and process_rejection ("decline"): the
\* request must be pending when it is read.
get_approval_request(r, a, op) ==
    /\ At(r, "idle")
    /\ ar[a].state = "pending"
    /\ RowsLeft
    /\ Begin(r, "load", op, ar[a].kpi, a)
    /\ UNCHANGED <<rows, ar, audit, events, queue, polling, faults>>

get_kpi_lenient(r) == \* mutant: the transition error is swallowed
    /\ At(r, "load")
    /\ LET k == job[r].kpi
       IN  IF Exists(k) /\ MayApply(job[r].op, status[k])
           THEN job' = [job EXCEPT ![r] = [@ EXCEPT !.pc = "write",
                                                    !.status = status[k],
                                                    !.version = version[k]]]
           ELSE Goto(r, "close")
    /\ UNCHANGED <<rows, ar, audit, events, queue, polling, faults>>

\* A missing KPI (404) or a forbidden transition (ValueError) ends the
\* request and leaves the approval request pending.
get_kpi(r) ==
    /\ At(r, "load")
    /\ LET k == job[r].kpi
       IN  IF Exists(k) /\ MayApply(job[r].op, status[k])
           THEN job' = [job EXCEPT ![r] = [@ EXCEPT !.pc = "write",
                                                    !.status = status[k],
                                                    !.version = version[k]]]
           ELSE Finish(r)
    /\ UNCHANGED <<rows, ar, audit, events, queue, polling, faults>>

-----------------------------------------------------------------------------
(* Writing it back *)

\* One transaction: the version row of the copy that was read, and the new
\* version number computed from that copy.
snapshot_version(r, reason) ==
    /\ At(r, "write")
    /\ Exists(job[r].kpi)
    /\ ledger' = [ledger EXCEPT ![job[r].kpi] =
           Append(@, [version |-> job[r].version, status |-> job[r].status,
                      reason |-> reason])]
    /\ version' = [version EXCEPT ![job[r].kpi] = job[r].version + 1]

SetStatus(r, s) == status' = [status EXCEPT ![job[r].kpi] = s]

AfterVerdict(r) ==
    Goto(r, IF job[r].op \in {"approve", "decline"} THEN "close" ELSE "audit")

certify_kpi(r) ==
    /\ job[r].op \in {"certify", "approve"}
    /\ snapshot_version(r, "certified")
    /\ SetStatus(r, "certified")
    /\ decided' = [decided EXCEPT ![job[r].kpi] = @ \cup {"certified"}]
    /\ AfterVerdict(r)
    /\ UNCHANGED <<ar, audit, events, queue, polling, faults>>

reject_kpi(r) ==
    /\ job[r].op \in {"reject", "decline"}
    /\ snapshot_version(r, "rejected")
    /\ SetStatus(r, "rejected")
    /\ decided' = [decided EXCEPT ![job[r].kpi] = @ \cup {"rejected"}]
    /\ AfterVerdict(r)
    /\ UNCHANGED <<ar, audit, events, queue, polling, faults>>

reset_to_pending_review_unversioned(r) == \* mutant: no version row
    /\ job[r].op = "regen"
    /\ At(r, "write")
    /\ Exists(job[r].kpi)
    /\ SetStatus(r, "pending_review")
    /\ Goto(r, "find")
    /\ UNCHANGED <<version, ledger, ar, audit, events, queue, polling, faults, decided>>

reset_to_pending_review(r) ==
    /\ job[r].op = "regen"
    /\ snapshot_version(r, "regen_requested")
    /\ SetStatus(r, "pending_review")
    /\ Goto(r, "find")
    /\ UNCHANGED <<ar, audit, events, queue, polling, faults, decided>>

\* No field of the form sets the status, and the UPDATE leaves it alone.
update_kpi(r) ==
    /\ job[r].op = "update"
    /\ snapshot_version(r, "analyst_edit")
    /\ Goto(r, "audit")
    /\ UNCHANGED <<status, ar, audit, events, queue, polling, faults, decided>>

\* The version rows go with the KPI; its approval requests do not.
delete_kpi(r) ==
    /\ job[r].op = "delete"
    /\ At(r, "write")
    /\ SetStatus(r, "gone")
    /\ ledger' = [ledger EXCEPT ![job[r].kpi] = <<>>]
    /\ Goto(r, "audit")
    /\ UNCHANGED <<version, ar, audit, events, queue, polling, faults, decided>>

\* The row went away under the request: its UPDATE matches nothing, or a
\* later refresh of it fails.
row_gone(r) ==
    /\ \/ job[r].pc \in {"write", "close", "audit"} /\ job[r].op # "delete"
       \/ At(r, "find") /\ job[r].op \in {"create", "generate", "regen"}
       \/ At(r, "publish") /\ job[r].op = "generate"
    /\ ~ Exists(job[r].kpi)
    /\ Finish(r)
    /\ UNCHANGED <<rows, ar, audit, events, queue, polling, faults>>

-----------------------------------------------------------------------------
(* After the verdict *)

close_approval_misspelt(r) == \* mutant: a status no reader knows
    /\ At(r, "close")
    /\ ar' = [ar EXCEPT ![job[r].ar].state =
                  IF job[r].op = "approve" THEN "approved" ELSE "declined"]
    /\ Goto(r, "audit")
    /\ UNCHANGED <<rows, audit, events, queue, polling, faults>>

\* Written by primary key, whatever the request has become since it was read.
close_approval(r) ==
    /\ At(r, "close")
    /\ ar' = [ar EXCEPT ![job[r].ar].state =
                  IF job[r].op = "approve" THEN "approved" ELSE "rejected"]
    /\ Goto(r, "audit")
    /\ UNCHANGED <<rows, audit, events, queue, polling, faults>>

AuditAction_constant(op) == "certified" \* mutant
AuditAction(op) ==
    CASE op \in {"certify", "approve"} -> "certified"
      [] op \in {"reject", "decline"}  -> "rejected"
      [] op = "update"                 -> "updated"
      [] op = "delete"                 -> "deleted"
      [] OTHER                         -> "created"

\* A failed insert is swallowed and the operation goes on without its record.
record_audit(r) ==
    /\ At(r, "audit")
    /\ Readable(r)
    /\ \/ /\ audit' = audit \cup {<<AuditAction(job[r].op), job[r].kpi>>}
          /\ UNCHANGED faults
       \/ /\ faults < MaxFaults
          /\ faults' = faults + 1
          /\ UNCHANGED audit
    /\ CASE job[r].op \in {"approve", "decline"}  -> Goto(r, "publish")
         [] job[r].op \in {"create", "generate"}  -> Goto(r, "find")
         [] OTHER                                 -> Finish(r)
    /\ UNCHANGED <<rows, ar, events, queue, polling>>

EventType(op) ==
    CASE op = "approve"  -> "certified"
      [] op = "decline"  -> "rejected"
      [] op = "generate" -> "generated"
      [] OTHER           -> "pending_review"

\* A failed publish ends the job too: the router swallows it, an agent dies of it.
publish(r) ==
    /\ At(r, "publish")
    /\ job[r].todo = {}
    /\ ~ job[r].stale
    /\ LET batch == job[r].done \cup {job[r].kpi}
       IN  /\ events' = events \cup {<<EventType(job[r].op), k, job[r].ar>> : k \in batch}
           /\ queue' = IF job[r].op = "generate" THEN queue \cup {batch} ELSE queue
    /\ Finish(r)
    /\ UNCHANGED <<rows, ar, audit, polling, faults>>

\* The event of the HITL worker names the approval requests, which it reads
\* after their session was closed and outside the try: for one that was
\* expired, that raises.
publish_raises(r) ==
    /\ At(r, "publish")
    /\ job[r].todo = {}
    /\ job[r].stale
    /\ worker_ends
    /\ Finish(r)
    /\ UNCHANGED <<rows, ar, audit, events, faults>>

\* The process dies, or the database or broker fails, between two statements.
\* The HITL worker survives a failure of the database in its try: it drops the
\* event and goes on.
crash(r) ==
    /\ faults < MaxFaults
    /\ job[r].pc # "idle"
    /\ faults' = faults + 1
    /\ Finish(r)
    /\ \/ job[r].op = "hitl" /\ worker_ends
       \/ (job[r].op = "hitl" => ~ At(r, "publish")) /\ UNCHANGED <<queue, polling>>
    /\ UNCHANGED <<rows, ar, audit, events>>

-----------------------------------------------------------------------------
\* What a request in flight does next; a request is started by a user.
Continue(r) ==
    \/ \E k \in Kpi : create_next_kpi(r, k)
    \/ generate_kpi_approvals(r)
    \/ get_approval_by_entity(r)
    \/ create_approval_request(r)
    \/ get_kpi(r)
    \/ certify_kpi(r)
    \/ reject_kpi(r)
    \/ reset_to_pending_review(r)
    \/ update_kpi(r)
    \/ delete_kpi(r)
    \/ row_gone(r)
    \/ close_approval(r)
    \/ record_audit(r)
    \/ publish(r)
    \/ publish_raises(r)

Start(r) ==
    \/ \E k \in Kpi, op \in {"create", "generate"} : create_kpi(r, k, op)
    \/ \E k \in Kpi : seed_approvals(r, k)
    \/ \E k \in Kpi, op \in {"certify", "reject", "regen", "update", "delete"} :
           get_or_404(r, op, k)
    \/ \E k \in Kpi : regen_pending(r, k)
    \/ \E a \in Ar, op \in {"approve", "decline"} : get_approval_request(r, a, op)

Next ==
    \/ run
    \/ \E r \in Req :
        \/ Start(r)
        \/ \E e \in queue : handle_kpi_generated(r, e)
        \/ Continue(r)
        \/ approval_creation_failed(r)
        \/ crash(r)

Spec == Init /\ [][Next]_vars

\* A handler that has started is run by the thread pool to its end, and the
\* HITL worker takes up its events while it is in its loop; users owe nothing,
\* and nobody has to restart a worker that has ended.
FairSpec ==
    /\ Spec
    /\ \A r \in Req : WF_vars(Continue(r))
    /\ SF_vars(\E r \in Req, e \in queue : handle_kpi_generated(r, e))

-----------------------------------------------------------------------------
(* Properties *)

Settled == \A r \in Req : At(r, "idle")
Resolution(o) == IF o = "certified" THEN "approved" ELSE "rejected"

\* The verdict comes first: an approval request is closed, an audit record
\* written and an event published only for a verdict that was committed on
\* that KPI, whatever crashes, races or deletions come between the commits of
\* process_approval and process_rejection.
VerdictFirst ==
    \A o \in Verdict :
        /\ \A a \in Ar : ar[a].state = Resolution(o) => o \in decided[ar[a].kpi]
        /\ \A k \in Kpi : <<o, k>> \in audit => o \in decided[k]
        /\ \A k \in Kpi, a \in Ar \cup {NoAr} :
               <<o, k, a>> \in events => o \in decided[k]

\* An event of a verdict is published only after its approval request was
\* closed, so a consumer that reads the request never finds it pending.
AnnouncedAfterClosed ==
    \A e \in events :
        e[1] \in Verdict => e[3] \in Ar /\ ar[e[3]].state \in {"approved", "rejected"}

\* Verdict, close, audit record and event come in this order.
VerdictsAreInOrder == VerdictFirst /\ AnnouncedAfterClosed

Outcome(reason) == IF reason = "regen_requested" THEN "pending_review" ELSE reason
LastMove(k, i) ==
    /\ ledger[k][i].reason # "analyst_edit"
    /\ \A j \in DOMAIN ledger[k] : j > i => ledger[k][j].reason = "analyst_edit"
Explained(k) ==
    \/ \E i \in DOMAIN ledger[k] : LastMove(k, i) /\ status[k] = Outcome(ledger[k][i].reason)
    \/ /\ \A i \in DOMAIN ledger[k] : ledger[k][i].reason = "analyst_edit"
       /\ status[k] = "pending_review"

\* The version rows explain the status: it is the outcome of the last row that
\* changed it, in commit order, or pending_review when there is none.  A lost
\* update may renumber versions but never leaves a status no row accounts for.
LedgerExplainsStatus == \A k \in Kpi : Exists(k) => Explained(k)

\* Every version row records a legal move out of the status it snapshots, even
\* when the row was written from a stale copy of the KPI.
LedgerRowsLegal ==
    \A k \in Kpi : \A i \in DOMAIN ledger[k] :
        LET row == ledger[k][i]
        IN  row.reason # "analyst_edit" => Outcome(row.reason) \in VALID_TRANSITIONS[row.status]

\* The version rows are legal moves and account for the status.
LedgerIsSound == LedgerExplainsStatus /\ LedgerRowsLegal

\* The audit trail of versions is append-only while the KPI exists.
LedgerAppendOnly ==
    [][\A k \in Kpi : status'[k] # "gone" =>
          /\ Len(ledger[k]) <= Len(ledger'[k])
          /\ \A i \in DOMAIN ledger[k] : ledger'[k][i] = ledger[k][i]]_vars

\* A resolved approval request is never pending again and never about another KPI.
ResolvedStaysResolved ==
    [][\A a \in Ar : ar[a].state \in {"approved", "rejected"} =>
          ar'[a].state \in {"approved", "rejected"} /\ ar'[a].kpi = ar[a].kpi]_vars

\* A stored status moves only along the table of transitions, and only a draft
\* or rejected KPI is deleted.  The code keeps this for one request at a time
\* only, and no run checks it.
StatusMovesLegally ==
    [][\A k \in Kpi : status'[k] # status[k] =>
          \/ status[k] = "absent" /\ status'[k] = "pending_review"
          \/ status[k] \in {"draft", "rejected"} /\ status'[k] = "gone"
          \/ Exists(k) /\ status'[k] \in VALID_TRANSITIONS[status[k]]]_vars

\* One request at a time, crashes included: a KPI never has two pending
\* approval requests, so a reviewer cannot be asked twice for one decision.
OnePendingPerKpi == \A k \in Kpi : Cardinality(Pending(k)) <= 1

\* One request at a time: version counts the version rows, so (kpi, version)
\* identifies a row.
VersionCountsRows ==
    \A k \in Kpi : Exists(k) =>
        /\ version[k] = Len(ledger[k]) + 1
        /\ \A i \in DOMAIN ledger[k] : ledger[k][i].version = i

\* One request at a time and nothing failing: once no request is in flight, a
\* KPI in review has a pending approval request, although the HITL worker may
\* have ended.
ReviewIsQueued ==
    faults = 0 /\ Settled =>
        \A k \in Kpi : status[k] = "pending_review" => Pending(k) # {}

\* What the code keeps as long as requests do not overlap: a reviewer is asked
\* once for a KPI and is asked for each, and versions count the version rows.
SerialIsSound == OnePendingPerKpi /\ VersionCountsRows /\ ReviewIsQueued

\* A KPI that was announced is, in the end, in front of a reviewer, was decided,
\* or is gone, although the KPI agent's own attempt to open the request may have
\* failed: the HITL worker opens it, whatever comes of its other KPIs.  Excused
\* are a second failure and a worker that has ended, for what is still in its
\* stream then; if it is restarted, it owes again what it was not given yet.
GeneratedIsReviewed ==
    \A k \in Kpi : k \in Announced ~> \/ \E a \in Ar : ar[a].kpi = k
                                      \/ status[k] # "pending_review"
                                      \/ ~ polling
                                      \/ faults > 1

\* The HITL worker leaves its loop only when something else has failed: what it
\* does itself never ends it.  The code does not keep this, and no run checks it.
HitlGoesOn == [][polling /\ ~ polling' => faults' > faults]_vars

(* The contract this module implements *)

recordedVerdicts == {p \in Kpi \X Verdict : <<p[2], p[1]>> \in audit}
announcedVerdicts == {t \in Ar \X Kpi \X Verdict : <<t[3], t[2], t[1]>> \in events}

resolutions == [a \in Ar |-> IF ar[a].state \in {"approved", "rejected"} THEN ar[a]
                             ELSE [state |-> "open", kpi |-> NoKpi]]

Contract == INSTANCE ReviewContract WITH
    verdicts <- decided,
    resolution <- resolutions,
    recorded <- recordedVerdicts,
    announced <- announcedVerdicts

\* Every behaviour of the handlers, interleaved, crashed or deleted under,
\* keeps the order the contract promises.
ImplementsContract == Contract!Spec
=============================================================================
