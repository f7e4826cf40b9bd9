----------------------------- MODULE Dashboards -----------------------------
(***************************************************************************)
(* Dashboards, their widgets and who may see and change them               *)
(* (services/dashboard_service.py, crud/dashboard.py), together with the   *)
(* accounts.  A request checks the access of its actor, then commits, then *)
(* records and publishes; another request may come in between.             *)
(***************************************************************************)
EXTENDS Accounts, DashboardLayout

CONSTANTS
    Dashboard,  \* identities of dashboards
    Widget,     \* identities of widgets
    Staff,      \* the roles in an organisation that is in use
    Hosts,      \* who may own its dashboard, with a user who may write it or nobody
    Nobody,     \* the owner of a dashboard that is not there yet, and the place of a widget
    Removed,    \* the owner of a deleted dashboard
    MaxFaults   \* bound: requests cut off and events that miss their reader

ASSUME DashboardsAssumption ==
    /\ {Nobody, Removed} \cap (User \cup Dashboard) = {} /\ Nobody # Removed
    /\ Dashboard # {}
    /\ Staff \in [User -> Role]
    /\ IsFiniteSet({u \in User : Staff[u] = "executive"})
    /\ \A h \in Hosts : h \in User \X (User \cup {Nobody}) /\ h[1] # h[2]

VARIABLES
    owner,     \* dashboards.owner_id
    place,     \* the dashboard of each widget
    share,     \* the dashboard_permissions row of each dashboard and user
    audit,     \* the permission changes on record
    shown,     \* the grant each user's client has fetched
    faults,
    writers,   \* history: who has been able to write, by dashboard
    wrote,     \* history: who has changed a dashboard, its widgets or its sharing
    opened,    \* history: dashboards whose owner has given write access away
    missed     \* history: changes of sharing no event told the client about

boards == <<owner, place, share, shown, wrote, opened>>
vars == <<accounts, job, starts, boards, audit, faults, writers, missed>>

Level == {"read", "write"}
NoShare == [id |-> 0, level |-> "none", by |-> Nobody]
Share == [id : 1 .. MaxStarts + 1, level : Level, by : User] \cup {NoShare}
Pair == User \X Dashboard

TypeOK ==
    /\ user \in [User -> UserRow] /\ founders \subseteq User
    /\ owner \in [Dashboard -> User \cup {Nobody, Removed}]
    /\ place \in [Widget -> Dashboard \cup {Nobody, Removed}]
    /\ share \in [Pair -> Share]
    /\ \A p \in Pair : share[p] # NoShare => owner[p[2]] \in User \ {p[1]}
    /\ \A w \in Widget : place[w] \in Dashboard => owner[place[w]] \in User

-----------------------------------------------------------------------------
(* Access *)

There(d) == owner[d] \in User
get_permission(u, d) == share[<<u, d>>]

get_effective_access(u, d) ==
    CASE owner[d] = u -> "write"
      [] owner[d] # u /\ get_permission(u, d) # NoShare -> get_permission(u, d).level
      [] owner[d] # u /\ get_permission(u, d) = NoShare ->
             IF user[owner[d]].role \in Roles_below(user[u].role) THEN "read" ELSE "none"

get_viewable_dashboard(u, d) == There(d) /\ get_effective_access(u, d) # "none"
get_writable_dashboard(u, d) == There(d) /\ get_effective_access(u, d) = "write"
get_owned_dashboard(u, d) == owner[d] = u

\* mutant: the own role is among the lower ones
_lower_roles_and_own(u) == Roles_below_own(user[u].role)
_lower_roles(u) == {role \in Role : ROLE_RANK[role] > ROLE_RANK[user[u].role]}

list_viewable_dashboards(u) ==
    {d \in Dashboard : There(d) /\ (\/ owner[d] = u
                                    \/ get_permission(u, d) # NoShare
                                    \/ user[owner[d]].role \in _lower_roles(u))}
\* The level list_dashboards attaches to a dashboard of the listing.
Listed(u, d) ==
    IF owner[d] = u \/ get_permission(u, d).level = "write" THEN "write" ELSE "read"

\* Who can write what.
CanWrite(owners, shares) ==
    {p \in Pair : owners[p[2]] = p[1] \/ shares[p].level = "write"}

-----------------------------------------------------------------------------
(* Nobody yet; or an organisation in use with a dashboard, which its owner   *)
(* may have shared with a guest.                                             *)

Empty ==
    /\ user = [u \in User |-> NoUser] /\ founders = {}
    /\ owner = [d \in Dashboard |-> Nobody]
    /\ place = [w \in Widget |-> Nobody]
    /\ share = [p \in Pair |-> NoShare]
    /\ audit = {} /\ opened = {}

InUse ==
    \E h \in Hosts :
        LET host == h[1]
            guest == h[2]
            d == CHOOSE e \in Dashboard : TRUE
            given == {<<guest, d>>} \cap Pair
        IN  /\ user = [u \in User |-> [role |-> Staff[u], active |-> TRUE]]
            /\ founders = {u \in User : Staff[u] = "executive"}
            /\ owner = [e \in Dashboard |-> IF e = d THEN host ELSE Nobody]
            /\ place = [v \in Widget |-> IF v = CHOOSE w \in Widget : TRUE THEN d ELSE Nobody]
            /\ share = [p \in Pair |->
                   IF p \in given THEN [id |-> MaxStarts + 1, level |-> "write", by |-> host]
                   ELSE NoShare]
            /\ audit = {<<p, "write", host>> : p \in given}
            /\ opened = {p[2] : p \in given}

Init ==
    /\ Empty \/ InUse
    /\ orgs = Cardinality(founders)
    /\ shown = [p \in Pair |-> share[p].level]
    /\ writers = CanWrite(owner, share)
    /\ job = [r \in Req |-> Idle] /\ starts = 0
    /\ faults = 0 /\ wrote = {} /\ missed = {}

-----------------------------------------------------------------------------
(* Requests about dashboards: the check *)

Ask(r, request) ==
    /\ Begin(r, request)
    /\ UNCHANGED <<boards, audit, faults, missed, writers>>

FreeDashboard(d) == owner[d] = Nobody /\ \A r \in Req : ~At(r, "idle") => job[r].op # "create"
create_dashboard(r, u, d) ==
    /\ FreeDashboard(d)
    /\ Ask(r, [op |-> "create", pc |-> "commit", by |-> u, on |-> d, source |-> Nobody])
duplicate_dashboard(r, u, source, d) ==
    /\ get_viewable_dashboard(u, source)
    /\ FreeDashboard(d)
    /\ Ask(r, [op |-> "create", pc |-> "commit", by |-> u, on |-> d, source |-> source])

\* update_dashboard, add_widget, and what touches a widget that is there
update_dashboard(r, u, d) ==
    get_writable_dashboard(u, d) /\ Ask(r, [op |-> "update", pc |-> "commit", by |-> u, on |-> d])
add_widget(r, u, d) ==
    get_writable_dashboard(u, d) /\ Ask(r, [op |-> "add", pc |-> "commit", by |-> u, on |-> d])
\* mutant: the widget may be on any dashboard
get_writable_widget_anywhere(u, d, w) == get_writable_dashboard(u, d) /\ place[w] \in Dashboard
get_writable_widget(u, d, w) == get_writable_dashboard(u, d) /\ place[w] = d
update_widget(r, u, d, w) ==
    /\ get_writable_widget(u, d, w)
    /\ Ask(r, [op |-> "touch", pc |-> "commit", by |-> u, on |-> d, widget |-> w])
delete_widget(r, u, d, w) ==
    /\ get_writable_widget(u, d, w)
    /\ Ask(r, [op |-> "drop", pc |-> "commit", by |-> u, on |-> d, widget |-> w])
delete_dashboard(r, u, d) ==
    get_owned_dashboard(u, d) /\ Ask(r, [op |-> "delete", pc |-> "commit", by |-> u, on |-> d])

\* An active user who is not the owner.
Grantable(u, d) == user[u].active /\ u # owner[d]
grant_permission(r, u, d, target, level) ==
    /\ get_writable_dashboard(u, d)
    /\ Grantable(target, d)
    /\ Ask(r, [op |-> "grant", pc |-> "read", by |-> u, on |-> d, to |-> target,
               level |-> level, id |-> starts + 1, was |-> NoShare])
revoke_permission(r, u, d, target) ==
    /\ get_writable_dashboard(u, d)
    /\ Ask(r, [op |-> "revoke", pc |-> "read", by |-> u, on |-> d, to |-> target,
               level |-> "none", was |-> NoShare])

-----------------------------------------------------------------------------
(* What was read, and the commit *)

Op(r, op) == At(r, "commit") /\ job[r].op = op
Subject(r) == <<job[r].to, job[r].on>>
Wrote(r, d) == wrote' = wrote \cup {<<job[r].by, d>>}
Goto(r, pc) == job' = [job EXCEPT ![r].pc = pc] /\ UNCHANGED starts

\* The row to change or to delete, if there is one; nothing to revoke is a 404.
read_permission(r) ==
    /\ At(r, "read")
    /\ IF job[r].op = "revoke" /\ share[Subject(r)] = NoShare THEN Finish(r)
       ELSE /\ job' = [job EXCEPT ![r].pc = "commit", ![r].was = share[Subject(r)]]
            /\ UNCHANGED starts
    /\ UNCHANGED boards

commit_dashboard(r) ==
    /\ Op(r, "create")
    /\ owner' = [owner EXCEPT ![job[r].on] = job[r].by]
    /\ Goto(r, "widgets")
    /\ UNCHANGED <<place, share, shown, wrote, opened>>

\* Widgets of the source as they are by now, or of the connector's certified
\* KPIs; none of them when there are none.
create_widgets(r) ==
    /\ At(r, "widgets")
    /\ There(job[r].on)
    /\ \E new \in SUBSET {w \in Widget : place[w] = Nobody} :
           /\ job[r].source # Nobody =>
                  Cardinality(new) = Cardinality({w \in Widget : place[w] = job[r].source})
           /\ place' = [w \in Widget |-> IF w \in new THEN job[r].on ELSE place[w]]
    /\ Wrote(r, job[r].on)
    /\ Finish(r)
    /\ UNCHANGED <<owner, share, shown, opened>>

\* A row that went meanwhile cannot be updated, nor a widget put on it.
commit_content(r) ==
    /\ At(r, "commit")
    /\ \/ job[r].op = "update" /\ There(job[r].on) /\ UNCHANGED place
       \/ job[r].op = "add" /\ There(job[r].on)
            /\ \E w \in Widget : place[w] = Nobody /\ place' = [place EXCEPT ![w] = job[r].on]
       \/ job[r].op = "touch" /\ place[job[r].widget] \in Dashboard /\ UNCHANGED place
       \/ job[r].op = "drop" /\ place' = [place EXCEPT ![job[r].widget] = Removed]
    /\ Wrote(r, IF job[r].op \in {"touch", "drop"} /\ place[job[r].widget] \in Dashboard
                THEN place[job[r].widget] ELSE job[r].on)
    /\ Finish(r)
    /\ UNCHANGED <<owner, share, shown, opened>>

\* Widgets and permissions go with it.
commit_delete(r) ==
    LET d == job[r].on
    IN  /\ Op(r, "delete")
        /\ owner' = [owner EXCEPT ![d] = Removed]
        /\ place' = [w \in Widget |-> IF place[w] = d THEN Removed ELSE place[w]]
        /\ share' = [p \in Pair |-> IF p[2] = d THEN NoShare ELSE share[p]]
        /\ Wrote(r, d)
        /\ Finish(r)
        /\ UNCHANGED <<shown, opened>>

\* mutant: only a grant that is new is announced
Announce_new(r) == IF job[r].was = NoShare THEN Goto(r, "audit") ELSE Finish(r)
Announce(r) == Goto(r, "audit")

\* The row read is still there, or there still is none.  Of a row that was read
\* only what differs is written: what another request wrote meanwhile stays.
Granted(r) ==
    LET was == job[r].was
        now == share[Subject(r)]
    IN  [id |-> IF was = NoShare THEN job[r].id ELSE was.id,
         level |-> IF job[r].level = was.level THEN now.level ELSE job[r].level,
         by |-> IF job[r].by = was.by THEN now.by ELSE job[r].by]
upsert_permission(r) ==
    LET p == Subject(r)
    IN  /\ Op(r, "grant")
        /\ There(job[r].on) /\ share[p].id = job[r].was.id
        /\ share' = [share EXCEPT ![p] = Granted(r)]
        /\ opened' = IF job[r].by = owner[p[2]] /\ job[r].level = "write"
                     THEN opened \cup {p[2]} ELSE opened
        /\ Wrote(r, p[2])
        /\ Announce(r)
        /\ UNCHANGED <<owner, place, shown>>

\* A row that is gone, or came anew, is left alone.
delete_permission(r) ==
    /\ Op(r, "revoke")
    /\ share' = IF share[Subject(r)].id = job[r].was.id
                THEN [share EXCEPT ![Subject(r)] = NoShare] ELSE share
    /\ Wrote(r, job[r].on)
    /\ Announce(r)
    /\ UNCHANGED <<owner, place, shown, opened>>

commit_refused(r) ==
    /\ \/ At(r, "widgets") /\ ~There(job[r].on)
       \/ job[r].op \in {"update", "add", "grant"} /\ At(r, "commit") /\ ~There(job[r].on)
       \/ Op(r, "grant") /\ share[Subject(r)].id # job[r].was.id
       \/ Op(r, "touch") /\ place[job[r].widget] \notin Dashboard
    /\ Finish(r)
    /\ UNCHANGED boards

Commit(r) ==
    /\ \/ read_permission(r) \/ upsert_permission(r) \/ delete_permission(r)
       \/ commit_dashboard(r) \/ create_widgets(r) \/ commit_content(r)
       \/ commit_delete(r) \/ commit_refused(r)
    /\ writers' = writers \cup CanWrite(owner', share')
    /\ UNCHANGED <<accounts, audit, faults, missed>>

-----------------------------------------------------------------------------
(* After a change of sharing: the audit log, then the event *)

Stays == UNCHANGED <<accounts, owner, place, share, wrote, opened, writers>>

record_audit(r) ==
    /\ At(r, "audit")
    /\ audit' = audit \cup {<<Subject(r), job[r].level, job[r].by>>}
    /\ Goto(r, "publish")
    /\ Stays /\ UNCHANGED <<shown, faults, missed>>

\* The client of the user the event names fetches what is there by then.
Fetched(r) == [shown EXCEPT ![Subject(r)] = share[Subject(r)].level]
_publish_permission_change(r) ==
    /\ At(r, "publish")
    /\ shown' = Fetched(r)
    /\ missed' = missed \ {Subject(r)}
    /\ Finish(r)
    /\ Stays /\ UNCHANGED <<audit, faults>>

Fault == faults < MaxFaults /\ faults' = faults + 1

\* Redis is down, or the client is not reading at that moment.
event_missed(r) ==
    /\ At(r, "publish")
    /\ Fault
    /\ missed' = missed \cup {Subject(r)}
    /\ Finish(r)
    /\ Stays /\ UNCHANGED <<audit, shown>>

\* record_audit swallows its failures.
audit_failed(r) ==
    /\ At(r, "audit")
    /\ Fault
    /\ Goto(r, "publish")
    /\ Stays /\ UNCHANGED <<audit, shown, missed>>

crash(r) ==
    /\ ~At(r, "idle")
    /\ Fault
    /\ missed' = IF job[r].pc \in {"audit", "publish"} THEN missed \cup {Subject(r)} ELSE missed
    /\ Finish(r)
    /\ Stays /\ UNCHANGED <<audit, shown>>

-----------------------------------------------------------------------------
Request(r, u, d) ==
    \/ create_dashboard(r, u, d) \/ update_dashboard(r, u, d)
    \/ add_widget(r, u, d) \/ delete_dashboard(r, u, d)
    \/ \E source \in Dashboard : duplicate_dashboard(r, u, source, d)
    \/ \E w \in Widget : update_widget(r, u, d, w) \/ delete_widget(r, u, d, w)
    \/ \E target \in User :
        \/ revoke_permission(r, u, d, target)
        \/ \E level \in Level : grant_permission(r, u, d, target, level)

Next ==
    \E r \in Req :
        \/ AccountsStep(r) /\ UNCHANGED <<boards, audit, faults, writers, missed>>
        \/ MayBegin(r) /\ \E u \in User, d \in Dashboard : get_current_user(u) /\ Request(r, u, d)
        \/ Commit(r)
        \/ record_audit(r) \/ audit_failed(r)
        \/ _publish_permission_change(r) \/ event_missed(r) \/ crash(r)

Spec == Init /\ [][Next]_vars

-----------------------------------------------------------------------------
(* Properties *)

\* A user's listing is what that user may open, at the level a request will
\* be granted: one query finds it, another code path decides each request.
ListingIsAccess ==
    \A u \in User : Exists(u) =>
        /\ list_viewable_dashboards(u) = {d \in Dashboard : get_viewable_dashboard(u, d)}
        /\ \A d \in list_viewable_dashboards(u) : Listed(u, d) = get_effective_access(u, d)

\* Write access starts at the owner: whoever else has it got it from the
\* owner, or from someone in a line that began there; grants, upgrades,
\* revocations and requests that were checked before them add no one.
WritingStartsAtOwner ==
    \A p \in writers : There(p[2]) => p[1] = owner[p[2]] \/ p[2] \in opened

\* Whoever changed a dashboard, its widgets or its sharing had been able to
\* write that dashboard, whichever dashboard the request named.
OnlyWritersWrite == wrote \subseteq writers

\* Only those whom a line of grants from the owner lets write do write.
WritersAreEntitled == TypeOK /\ WritingStartsAtOwner /\ OnlyWritersWrite

\* A client that got the events shows each grant as it is, once the request
\* that changed it is over and whatever order concurrent ones ended in.
Changing(p) == \E r \in Req : job[r].pc \in {"audit", "publish"} /\ Subject(r) = p
SharingIsShown ==
    \A p \in Pair :
        There(p[2]) /\ p \notin missed /\ ~Changing(p) => shown[p] = share[p].level

\* Whatever certified KPIs a new dashboard is made from, its widgets lie in the
\* grid and no two of them overlap; and the charts nobody suggested come after
\* three tiles and take turns, line first (code: _preconfigure_widgets).  It is
\* a function, which no step changes: the initial states stand for all.
LayoutsAreClean == starts = 0 => \A kpis \in KpiLists : LayoutIsClean(kpis)
=============================================================================
