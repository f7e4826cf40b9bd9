------------------------------ MODULE Reports ------------------------------
(***************************************************************************)
(* Reports (routers/reports.py, services/report_generation_service.py) and *)
(* report mails (services/report_scheduler.py), beside the receipts: all   *)
(* read the same KPIs and insights.  A report is a row, generating at      *)
(* first, and a background task of the server that turns it ready or       *)
(* failed; nothing picks the task up when it is lost.                      *)
(***************************************************************************)
EXTENDS Receipts, ReportContent

CONSTANTS
    Report,     \* identities of reports
    Scope,      \* what a report may be about: all, a dashboard or a database
    Staff, StaffRole, \* the users and the role of each
    Dashboard, Owner,
    Shows,      \* the KPIs on each dashboard at first
    Cap,        \* 200: insights a report looks at
    Rows, Gone  \* the insights there may be at first, and the deleted datasets

ASSUME ReportsAssumption ==
    /\ StaffRole \in [Staff -> {"executive", "manager", "analyst"}]
    /\ Owner \in [Dashboard -> Staff] /\ Shows \in [Dashboard -> SUBSET Kpi]
    /\ Scope \subseteq {"global"} \cup Dashboard \cup Dataset
    /\ Cap \in Nat \ {0}
    /\ \A rows \in Rows : rows \in Seq(Finding) /\ Len(rows) <= MaxInsights
    /\ \A gone \in Gone : gone \subseteq Dataset

VARIABLES
    report,     \* status and contents of each report
    shows,      \* the KPIs on each dashboard
    active,     \* users who are active
    mailed      \* history: the mails that went out

receipts == <<data, unheard, receipt>>
reportVars == <<receipts, job, counters, lost, report, shows, active, mailed>>

Empty == [kpis |-> {}]
Blank(st) == [status |-> st, body |-> Empty]
Kind == {"weekly", "monthly"}

ReportsInit ==
    /\ \E rows \in Rows, gone \in Gone : ReceiptsInit(rows, gone)
    /\ report = [p \in Report |-> Blank("none")]
    /\ shows = Shows
    /\ active = Staff
    /\ mailed = {}

ReportsTypeOK ==
    /\ \A p \in Report :
        report[p].status \in {"none", "generating", "ready", "failed", "deleted"}
    /\ \A p \in Report : (report[p].body # Empty) <=> report[p].status = "ready"
    /\ \A i \in Id : receipt[i].score \in -1 .. 100 /\ (receipt[i].live => i <= Len(insight))
    /\ mailed \subseteq Kind \X Staff

-----------------------------------------------------------------------------
(* Asking for a report *)

Asks(r) == MayBegin(r) /\ UNCHANGED <<receipts, changes, failures, lost, shows, active, mailed>>
GENERATE_ROLES == {"manager", "executive"}
generators == {u \in active : StaffRole[u] \in GENERATE_ROLES}

generate_report(r, p, scope) ==
    /\ Asks(r)
    /\ report[p].status = "none"
    /\ p = CHOOSE q \in Report : report[q].status = "none"
    /\ Begin(r, [op |-> "report", pc |-> "fetch", report |-> p, scope |-> scope, body |-> Empty])
    /\ report' = [report EXCEPT ![p] = Blank("generating")]

\* Also while it is generated.
delete_report(r, p) ==
    /\ Asks(r)
    /\ report[p].status \notin {"none", "deleted"}
    /\ report' = [report EXCEPT ![p] = Blank("deleted")]
    /\ begun' = begun + 1
    /\ UNCHANGED job

\* By the clock or by a request, also while another such job runs.
run_job(r, kind) ==
    /\ Asks(r)
    /\ Begin(r, [op |-> "mail", kind |-> kind, pc |-> "list", todo |-> {}])
    /\ UNCHANGED report

-----------------------------------------------------------------------------
(* Generating it *)

Stays == UNCHANGED <<receipts, counters, shows, active>>

kpi_ids_for_dashboard(d) == shows[d]
certified_kpis_for_connector(ds) == {k \in certified : DatasetOf[k] = ds}
InScope(scope) ==
    CASE scope = "global" -> certified
      [] scope \in Dashboard -> certified \cap kpi_ids_for_dashboard(scope)
      [] scope \in Dataset -> certified_kpis_for_connector(scope)

\* Gone before the task got to it.
report_not_found(r) ==
    /\ At(r, "report", "fetch")
    /\ report[job[r].report].status = "deleted"
    /\ Finish(r)
    /\ Stays /\ UNCHANGED <<lost, report, mailed>>

fetch_kpis(r) ==
    /\ At(r, "report", "fetch")
    /\ report[job[r].report].status # "deleted"
    /\ job' = [job EXCEPT ![r] =
           [@ EXCEPT !.pc = "events", !.body = [kpis |-> InScope(job[r].scope)]]]
    /\ Stays /\ UNCHANGED <<lost, report, mailed>>

list_insights(limit) == First(limit, LiveEvents, LAMBDA a, b : a.id > b.id)
\* mutant: whatever the KPI
Covered_all(kpis) == list_insights(Cap)
Covered(kpis) == {e \in list_insights(Cap) : e.kpi \in kpis}

\* All live datasets, or those of the KPIs; a deleted dataset is not listed.
Sources(scope, kpis) ==
    (IF scope = "global" THEN Dataset ELSE {DatasetOf[k] : k \in kpis}) \ deleted

\* The sections are built, then the model is awaited.
fetch_events(r) ==
    LET kpis == job[r].body.kpis IN
    /\ At(r, "report", "events")
    /\ job' = [job EXCEPT ![r] = [@ EXCEPT !.pc = "persist",
           !.body = ReportData(kpis, Covered(kpis), Sources(job[r].scope, kpis))]]
    /\ Stays /\ UNCHANGED <<lost, report, mailed>>

\* A row deleted meanwhile cannot be updated, to ready or to failed.
SetReport(p, st, body) ==
    report' = [report EXCEPT ![p] =
        IF @.status = "deleted" THEN @ ELSE [status |-> st, body |-> body]]
persist_report(r) ==
    /\ At(r, "report", "persist")
    /\ SetReport(job[r].report, "ready", job[r].body)
    /\ Finish(r)
    /\ Stays /\ UNCHANGED <<lost, mailed>>

\* An error of the program's own, before the narrative or after it.
\* mutant: it is logged only
Fail_logged(r) == UNCHANGED report
Fail(r) == SetReport(job[r].report, "failed", Empty)
generation_fails(r) ==
    /\ job[r].op = "report" /\ job[r].pc \in {"events", "persist"}
    /\ Fault
    /\ Fail(r)
    /\ Finish(r)
    /\ UNCHANGED <<receipts, lost, shows, active, mailed>>

\* An error of the database leaves a session that cannot write failed either.
database_fails(r) ==
    /\ job[r].op = "report"
    /\ Fault
    /\ lost' = lost \cup {<<"report", job[r].report>>}
    /\ Finish(r)
    /\ UNCHANGED <<receipts, report, shows, active, mailed>>

-----------------------------------------------------------------------------
(* Sending mails *)

Readers == [weekly |-> {"manager", "analyst"}, monthly |-> {"executive", "manager"}]
Below == [executive |-> {"manager", "analyst"}, manager |-> {"analyst"}, analyst |-> {}]

list_users(r) ==
    /\ At(r, "mail", "list")
    /\ job' = [job EXCEPT ![r] = [@ EXCEPT !.pc = "next",
           !.todo = {u \in active : StaffRole[u] \in Readers[job[r].kind]}]]
    /\ Stays /\ UNCHANGED <<lost, report, mailed>>

\* What their own dashboards and those of lower roles show; grants do not count.
_get_user_dashboards_and_kpi_ids(u) ==
    UNION {shows[d] : d \in {e \in Dashboard :
               Owner[e] = u \/ StaffRole[Owner[e]] \in Below[StaffRole[u]]}}

Age(kind, e) == IF kind = "weekly" THEN e.id + 1 >= Len(insight) ELSE TRUE
build_user_data(kind, u, kpi_ids) ==
    LET kpis == certified \cap kpi_ids
        pending == {k \in kpi_ids \ kpis : Live(k)}
        events == {e \in LiveEvents : e.kpi \in kpis /\ Age(kind, e)}
    IN  IF kind = "weekly" THEN build_user_weekly_data(StaffRole[u], kpis, pending, events)
        ELSE build_user_monthly_data(StaffRole[u], kpis, pending, events)

\* mutant: a user with nothing to read ends the job
Skip_return(r, u) == Finish(r)
Skip(r, u) == job' = [job EXCEPT ![r].todo = @ \ {u}]
NothingFor(r, u) == {<<"mail", job[r].kind, u>>}
skip_user(r, u) ==
    /\ At(r, "mail", "next") /\ u \in job[r].todo
    /\ _get_user_dashboards_and_kpi_ids(u) = {}
    /\ Skip(r, u)
    /\ lost' = lost \cup NothingFor(r, u)
    /\ Stays /\ UNCHANGED <<report, mailed>>

build_mail(r, u) ==
    LET kpi_ids == _get_user_dashboards_and_kpi_ids(u) IN
    /\ At(r, "mail", "next") /\ u \in job[r].todo
    /\ kpi_ids # {}
    /\ job' = [job EXCEPT ![r] =
           [op |-> "mail", kind |-> @.kind, pc |-> "send", todo |-> @.todo \ {u}, to |-> u,
            data |-> build_user_data(@.kind, u, kpi_ids)]]
    /\ Stays /\ UNCHANGED <<lost, report, mailed>>

Sent(r) ==
    job' = [job EXCEPT ![r] = [op |-> "mail", kind |-> @.kind, pc |-> "next", todo |-> @.todo]]
send_personalized_report(r) ==
    /\ At(r, "mail", "send")
    /\ mailed' = mailed \cup {<<job[r].kind, job[r].to>>}
    /\ Sent(r)
    /\ Stays /\ UNCHANGED <<lost, report>>

\* The mail server says no: the next user is served all the same.
send_fails(r) ==
    /\ At(r, "mail", "send")
    /\ Fault
    /\ lost' = lost \cup {<<"mail", job[r].kind, job[r].to>>}
    /\ Sent(r)
    /\ UNCHANGED <<receipts, report, shows, active, mailed>>

Pending(r) ==
    {<<"mail", job[r].kind, u>> :
        u \in job[r].todo \cup (IF job[r].pc = "send" THEN {job[r].to} ELSE {})}

\* An error while a mail is built ends the job for all who are left.
job_fails(r) ==
    /\ At(r, "mail", "next") /\ job[r].todo # {}
    /\ Fault
    /\ lost' = lost \cup Pending(r)
    /\ Finish(r)
    /\ UNCHANGED <<receipts, report, shows, active, mailed>>

job_ends(r) ==
    /\ At(r, "mail", "next") /\ job[r].todo = {}
    /\ Finish(r)
    /\ Stays /\ UNCHANGED <<lost, report, mailed>>

-----------------------------------------------------------------------------
\* The server dies, with all that it was doing; the agent is another process.
Doing(r) ==
    CASE job[r].op = "report" -> {<<"report", job[r].report>>}
      [] job[r].op = "mail" -> Pending(r)
      [] job[r].op = "reader" -> {<<"receipt", job[r].insight>>}
      [] OTHER -> {}
crash ==
    /\ \E r \in Req : job[r].op \in {"report", "mail"}
    /\ Fault
    /\ lost' = lost \cup UNION {Doing(r) : r \in Req}
    /\ job' = [r \in Req |-> IF job[r].op = "agent" THEN job[r] ELSE Idle]
    /\ UNCHANGED <<receipts, report, shows, active, mailed>>

remove_widgets(d) == shows[d] # {} /\ shows' = [shows EXCEPT ![d] = {}] /\ UNCHANGED active
deactivate(u) == u \in active /\ active' = active \ {u} /\ UNCHANGED shows
Rearrange ==
    /\ Change /\ Aside
    /\ (\E d \in Dashboard : remove_widgets(d)) \/ (\E u \in Staff : deactivate(u))
    /\ UNCHANGED <<receipts, report, mailed>>

Reporting == UNCHANGED <<report, shows, active, mailed>>

Request(r) ==
    \/ Reporting /\ \E i \in DOMAIN insight :
           handle_event(r, i) \/ get_insight_explanation(r, i)
    \/ generators # {} /\ \E p \in Report :
           delete_report(r, p) \/ \E scope \in Scope : generate_report(r, p, scope)
    \/ \E kind \in Kind : run_job(r, kind)

Step(r) ==
    \/ ReceiptStep(r) /\ Reporting
    \/ report_not_found(r) \/ fetch_kpis(r) \/ fetch_events(r) \/ persist_report(r)
    \/ list_users(r) \/ send_personalized_report(r) \/ job_ends(r)
    \/ \E u \in Staff : skip_user(r, u) \/ build_mail(r, u)

Breakdown(r) ==
    \/ build_fails(r) /\ Reporting
    \/ generation_fails(r) \/ database_fails(r) \/ send_fails(r) \/ job_fails(r)

ReportsNext ==
    \/ \E r \in Req :
        \/ MayBegin(r) /\ Request(r)
        \/ job[r] # Idle /\ (Step(r) \/ Breakdown(r))
    \/ crash
    \/ Meanwhile /\ Reporting
    \/ Rearrange

\* The server goes on with what it does, and the models and the mail server
\* answer, with something or with an error.
ReportsSpec == ReportsInit /\ [][ReportsNext]_reportVars /\ \A r \in Req : WF_reportVars(Step(r))

-----------------------------------------------------------------------------
(* Properties *)

\* The parts of a report agree, though its KPIs and its insights were read at
\* different times: each section, trend and action is about one of its KPIs,
\* the count of anomalies is that of the insights it lists, every anomaly is
\* an action, and every critical insight among the actions comes first.
ReportsAddUp ==
    \A p \in Report : report[p].status = "ready" =>
        LET body == report[p].body
            listed == UNION {body.sections[c] : c \in DOMAIN body.sections}
            anomalies == {e \in listed : e.anomaly}
        IN  /\ {e.kpi : e \in listed} = DOMAIN body.trends /\ DOMAIN body.trends \subseteq body.kpis
            /\ body.appendix.anomalies = Cardinality(anomalies)
            /\ anomalies \subseteq DOMAIN body.actions /\ DOMAIN body.actions \subseteq listed
            /\ \A e \in DOMAIN body.actions : e.severity = "critical" => body.actions[e] = 1

\* A report is ready when and only when it has contents, and these agree.
ReportsAreSound == ReportsTypeOK /\ ReportsAddUp

\* A mail and a report tell a reader the same: for a KPI whose snapshots are
\* live, begin at different times and are no more than a report reads the same
\* value and the same comparisons with the snapshot before and with that of a
\* year before (of snapshots that begin together the mail may take another), and
\* for an anomaly no higher priority in the mail, and the highest in both or in
\* neither (code: _shape_kpi_changes and _build_scorecard,
\* _shape_actions and _build_decision_actions).  These are functions, which no
\* step changes: the initial states stand for all.
MailAgreesWithReport ==
    begun = 0 =>
        (\A rows \in Series : ValuesAgree(rows)) /\ (\A e \in Anomalies : PrioritiesAgree(e))

\* A report does not stay generating: it turns ready or failed, or somebody
\* deletes it, unless the server or its database failed it.
ReportSettles ==
    \A p \in Report :
        report[p].status = "generating"
            ~> (report[p].status # "generating" \/ <<"report", p>> \in lost)

\* A job mails everyone it listed, whatever becomes of the mails to the
\* others; who has no KPI to read about, or whose mail or job failed, is lost.
MailGoesOut ==
    \A kind \in Kind, u \in Staff :
        (\E r \in Req : At(r, "mail", "next") /\ job[r].kind = kind /\ u \in job[r].todo)
            ~> (<<kind, u>> \in mailed \/ <<"mail", kind, u>> \in lost)
=============================================================================
