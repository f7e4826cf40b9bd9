---------------------------- MODULE DashboardsProofs ----------------------------
(***************************************************************************)
(* Proofs about Accounts and Dashboards for every set of users, dashboards *)
(* and widgets, every number of requests at the same time, and both kinds  *)
(* of beginning: nobody yet, or an organisation in use; at the end, about  *)
(* the layout of a dashboard made from any number of KPIs.                 *)
(***************************************************************************)
EXTENDS Dashboards, FiniteSetTheorems, WellFoundedInduction, TLAPS

(* The inductive invariant *)

EnterJob == [op : {"enter"}, pc : {"account"}, who : User, role : Role, first : BOOLEAN]
ChangeJob == [op : {"change"}, pc : {"account"}, who : User, role : Role, active : BOOLEAN]
CreateJob == [op : {"create"}, pc : {"commit", "widgets"}, by : User, on : Dashboard,
              source : Dashboard \cup {Nobody}]
EditJob == [op : {"update", "add", "delete"}, pc : {"commit"}, by : User, on : Dashboard]
WidgetJob == [op : {"touch", "drop"}, pc : {"commit"}, by : User, on : Dashboard, widget : Widget]
GrantJob == [op : {"grant"}, pc : {"read", "commit", "audit", "publish"}, by : User,
             on : Dashboard, to : User, level : Level, id : 1 .. MaxStarts + 1, was : Share]
RevokeJob == [op : {"revoke"}, pc : {"read", "commit", "audit", "publish"}, by : User,
              on : Dashboard, to : User, level : {"none"}, was : Share]
BoardJob == CreateJob \cup EditJob \cup WidgetJob \cup GrantJob \cup RevokeJob
Job == {Idle} \cup EnterJob \cup ChangeJob \cup BoardJob

\* A request that will make an executive saw no user, and one that changes a
\* user changes one who is no executive, to something else than one.
AccountJobOK(r) ==
    /\ job[r] \in EnterJob => (job[r].role = "executive" <=> job[r].first)
    /\ job[r] \in ChangeJob => /\ Exists(job[r].who)
                               /\ user[job[r].who].role # "executive"
                               /\ job[r].role # "executive"

\* A request names a dashboard its actor has been able to write, unless it
\* makes it, and a widget that is on that dashboard, or is gone.
Creating(r) == job[r] \in CreateJob /\ job[r].pc = "commit"
BoardJobOK(r) ==
    /\ job[r] \in BoardJob =>
           IF Creating(r) THEN owner[job[r].on] = Nobody
           ELSE <<job[r].by, job[r].on>> \in writers
    /\ job[r] \in WidgetJob => place[job[r].widget] \in {job[r].on, Removed}
    /\ job[r] \in GrantJob => owner[job[r].on] # job[r].to
JobsOK ==
    /\ job \in [Req -> Job]
    /\ \A r \in Req : AccountJobOK(r) /\ BoardJobOK(r)
    /\ \A r, q \in Req : job[r] \in CreateJob /\ job[q] \in CreateJob => r = q

\* A dashboard that is not there yet has no writers and no shares on show.
WritersOK ==
    /\ writers \subseteq Pair
    /\ CanWrite(owner, share) \subseteq writers
    /\ \A p \in writers : owner[p[2]] # Nobody
    /\ shown \in [Pair -> Level \cup {"none"}]
    /\ \A p \in Pair : owner[p[2]] = Nobody => shown[p] = "none"

IInv ==
    /\ TypeOK /\ starts \in 0 .. MaxStarts
    /\ IsFiniteSet(founders) /\ ExecutivesAreFounders
    /\ JobsOK /\ WritersOK
    /\ WritingStartsAtOwner /\ OnlyWritersWrite /\ SharingIsShown

-----------------------------------------------------------------------------
(* Jobs and roles *)

\* The operation of a request tells what the request is made of.
LEMMA JobKinds ==
  ASSUME NEW j \in Job
  PROVE  /\ j = Idle <=> j.pc = "idle"
         /\ j \in EnterJob <=> j.op = "enter"
         /\ j \in ChangeJob <=> j.op = "change"
         /\ j \in CreateJob <=> j.op = "create"
         /\ j \in EditJob <=> j.op \in {"update", "add", "delete"}
         /\ j \in WidgetJob <=> j.op \in {"touch", "drop"}
         /\ j \in GrantJob <=> j.op = "grant"
         /\ j \in RevokeJob <=> j.op = "revoke"
         /\ j.pc = "account" <=> j \in EnterJob \cup ChangeJob
         /\ j.pc = "widgets" => j \in CreateJob
         /\ j.pc \in {"read", "audit", "publish"} => j \in GrantJob \cup RevokeJob
         /\ j \in BoardJob <=> j.pc \in {"read", "commit", "widgets", "audit", "publish"}
         /\ j \in BoardJob => j.by \in User /\ j.on \in Dashboard
  BY DEF Job, BoardJob, Idle, EnterJob, ChangeJob, CreateJob, EditJob, WidgetJob, GrantJob, RevokeJob

LEMMA BelowExecutive == Roles_below("executive") = {"manager", "analyst"}
  BY DEF Roles_below, Above, Role, ROLE_RANK

LEMMA BelowIsRole == \A role : Roles_below(role) \subseteq Role
  BY DEF Roles_below

-----------------------------------------------------------------------------
(* What a step of one request leaves to the others *)

Frame(r) == \A q \in Req \ {r} : job'[q] = job[q]
UsersMove == \A u \in User : Exists(u) /\ user[u].role # "executive" =>
                 Exists(u)' /\ user'[u].role # "executive"
OwnersMove == \A d \in Dashboard : owner'[d] = owner[d] \/ owner[d] = Nobody \/ owner'[d] = Removed
PlacesMove == \A w \in Widget : place'[w] = place[w] \/ place[w] = Nobody \/ place'[w] = Removed

LEMMA JobsStayOK ==
  ASSUME IInv, NEW r \in Req, Frame(r), UsersMove, OwnersMove, PlacesMove,
         writers \subseteq writers', job' \in [Req -> Job],
         AccountJobOK(r)', BoardJobOK(r)',
         job'[r] \in CreateJob => job[r] \in CreateJob \/ \A q \in Req : job[q] \notin CreateJob,
         \A q \in Req \ {r} : Creating(q) => owner'[job[q].on] = Nobody
  PROVE  JobsOK'
<1> USE DEF IInv, JobsOK
<1>1. ASSUME NEW q \in Req \ {r} PROVE AccountJobOK(q)'
  <2>1. job'[q] = job[q] /\ AccountJobOK(q)
    BY DEF Frame
  <2>2. job[q] \in ChangeJob => job[q].who \in User
    BY DEF ChangeJob
  <2> QED
    BY <2>1, <2>2 DEF AccountJobOK, UsersMove
<1>2. ASSUME NEW q \in Req \ {r} PROVE BoardJobOK(q)'
  <2>1. job'[q] = job[q] /\ BoardJobOK(q)
    BY DEF Frame
  <2>2. job[q] \in BoardJob =>
            IF Creating(q) THEN owner'[job[q].on] = Nobody
            ELSE <<job[q].by, job[q].on>> \in writers'
    BY <2>1 DEF BoardJobOK
  <2>3. job[q] \in WidgetJob => place'[job[q].widget] \in {job[q].on, Removed}
    <3>1. job[q] \in WidgetJob => /\ job[q].widget \in Widget /\ job[q].on \in Dashboard
                                 /\ place[job[q].widget] \in {job[q].on, Removed}
      BY <2>1 DEF BoardJobOK, WidgetJob
    <3> QED
      BY <3>1, DashboardsAssumption DEF PlacesMove
  <2>4. job[q] \in GrantJob => owner'[job[q].on] # job[q].to
    <3>1. ASSUME job[q] \in GrantJob
          PROVE  /\ job[q].on \in Dashboard /\ job[q].to \in User
                 /\ owner[job[q].on] # job[q].to /\ owner[job[q].on] # Nobody
      <4>1. job[q] \in BoardJob /\ job[q] \notin CreateJob
        BY <3>1 DEF BoardJob, GrantJob, CreateJob
      <4>2. <<job[q].by, job[q].on>> \in writers
        BY <2>1, <4>1 DEF BoardJobOK, Creating
      <4> QED
        BY <2>1, <3>1, <4>2 DEF BoardJobOK, GrantJob, WritersOK
    <3> QED
      BY <3>1, DashboardsAssumption DEF OwnersMove
  <2> QED
    BY <2>1, <2>2, <2>3, <2>4 DEF BoardJobOK, Creating
<1>3. \A q, s \in Req : job'[q] \in CreateJob /\ job'[s] \in CreateJob => q = s
  BY DEF Frame
<1> QED
  BY <1>1, <1>2, <1>3

\* A step that leaves the dashboards alone, and what its client shows.
LEMMA BoardsStayOK ==
  ASSUME IInv, NEW r \in Req, Frame(r), UNCHANGED <<boards, writers, missed>>,
         job[r].pc \notin {"audit", "publish"},
         user' \in [User -> UserRow], founders' \subseteq User
  PROVE  TypeOK' /\ WritersOK' /\ WritingStartsAtOwner' /\ OnlyWritersWrite' /\ SharingIsShown'
<1> USE DEF IInv, boards
<1>1. TypeOK'
  BY DEF TypeOK
<1>2. WritersOK'
  BY DEF WritersOK, CanWrite
<1>3. WritingStartsAtOwner' /\ OnlyWritersWrite'
  BY DEF WritingStartsAtOwner, OnlyWritersWrite, There
<1>4. \A p \in Pair : Changing(p) => Changing(p)'
  BY DEF Changing, Subject, Frame
<1>5. SharingIsShown'
  BY <1>4 DEF SharingIsShown, There
<1> QED
  BY <1>1, <1>2, <1>3, <1>5

\* A request begins.
LEMMA BeginKeeps ==
  ASSUME IInv, NEW r \in Req, NEW request \in Job, Begin(r, request),
         request.pc \in {"account", "read", "commit"},
         AccountJobOK(r)', BoardJobOK(r)',
         request \in CreateJob => \A q \in Req : job[q] \notin CreateJob,
         UNCHANGED <<boards, writers, missed>>
  PROVE  IInv'
<1> USE DEF IInv
<1>1. /\ job[r].pc = "idle" /\ UNCHANGED <<user, orgs, founders>>
      /\ starts < MaxStarts /\ starts' = starts + 1
  BY DEF Begin, MayBegin, At, accounts
<1>2. job' \in [Req -> Job] /\ job'[r] = request /\ Frame(r)
  BY DEF Begin, JobsOK, Frame
<1>3. starts' \in 0 .. MaxStarts
  BY <1>1, AccountsAssumption
<1>4. UsersMove /\ OwnersMove /\ PlacesMove
  BY <1>1 DEF UsersMove, OwnersMove, PlacesMove, Exists, boards
<1>5. \A q \in Req : Creating(q) => owner'[job[q].on] = Nobody
  BY DEF JobsOK, BoardJobOK, Creating, BoardJob, boards
<1>6. JobsOK'
  BY <1>2, <1>4, <1>5, JobsStayOK
<1>7. TypeOK' /\ WritersOK' /\ WritingStartsAtOwner' /\ OnlyWritersWrite' /\ SharingIsShown'
  BY <1>1, <1>2, BoardsStayOK DEF TypeOK
<1>8. IsFiniteSet(founders') /\ ExecutivesAreFounders'
  BY <1>1 DEF ExecutivesAreFounders
<1> QED
  BY <1>3, <1>6, <1>7, <1>8

-----------------------------------------------------------------------------
(* Accounts *)

LEMMA EnterKeeps ==
  ASSUME IInv, NEW r \in Req, NEW u \in User, NEW role \in Role, NEW first \in BOOLEAN,
         role = "executive" <=> first,
         Begin(r, Enter(u, role, first)), UNCHANGED <<boards, writers, missed>>
  PROVE  IInv'
<1> DEFINE request == Enter(u, role, first)
<1>1. /\ request \in EnterJob /\ request.pc = "account" /\ request.role = role
      /\ request.first = first /\ request.op = "enter"
  BY DEF Enter, EnterJob
<1>2. job'[r] = request
  BY DEF Begin, IInv, JobsOK
<1> HIDE DEF request
<1>3. request \in Job /\ request \notin ChangeJob /\ request \notin BoardJob
      /\ request \notin WidgetJob /\ request \notin GrantJob /\ request \notin CreateJob
  BY <1>1 DEF Job, ChangeJob, BoardJob, CreateJob, EditJob, WidgetJob, GrantJob, RevokeJob
<1>4. AccountJobOK(r)' /\ BoardJobOK(r)'
  BY <1>1, <1>2, <1>3 DEF AccountJobOK, BoardJobOK
<1> QED
  BY <1>1, <1>3, <1>4, BeginKeeps DEF request

LEMMA AccountsBeginKeeps ==
  ASSUME IInv, NEW r \in Req, NEW u \in User, NEW actor \in User,
         \/ signup_user(r, u) \/ login_with_google(r, u)
         \/ create_user(r, actor, u) \/ update_user(r, actor, u),
         UNCHANGED <<boards, writers, missed>>
  PROVE  IInv'
<1>1. CASE signup_user(r, u)
  <2>1. "executive" \in Role /\ "analyst" \in Role
    BY DEF Role
  <2>2. CASE has_any_user
    <3>1. Begin(r, Enter(u, "analyst", FALSE))
      BY <1>1, <2>2 DEF signup_user
    <3> QED
      BY <2>1, <3>1, EnterKeeps
  <2>3. CASE ~ has_any_user
    <3>1. Begin(r, Enter(u, "executive", TRUE))
      BY <1>1, <2>3 DEF signup_user
    <3> QED
      BY <2>1, <3>1, EnterKeeps
  <2> QED
    BY <2>2, <2>3
<1>2. CASE login_with_google(r, u)
  BY <1>2, EnterKeeps DEF login_with_google, Role
<1>3. CASE create_user(r, actor, u)
  <2>1. PICK role \in Roles_below("executive") : Begin(r, Enter(u, role, FALSE))
    BY <1>3 DEF create_user, require_executive
  <2>2. role \in Role /\ role # "executive"
    BY BelowExecutive DEF Role
  <2> QED
    BY <2>1, <2>2, EnterKeeps
<1>4. CASE update_user(r, actor, u)
  <2>1. Exists(u) /\ user[u].role \in Roles_below("executive")
    BY <1>4 DEF update_user, require_executive
  <2>2. user[u].role \in {"manager", "analyst"}
    BY <2>1, BelowExecutive
  <2>3. PICK role \in Roles_below("executive") \cup {user[u].role}, active \in BOOLEAN :
            Begin(r, [op |-> "change", pc |-> "account", who |-> u, role |-> role, active |-> active])
    BY <1>4 DEF update_user, require_executive
  <2>4. role \in {"manager", "analyst"}
    BY <2>2, BelowExecutive
  <2> DEFINE request == [op |-> "change", pc |-> "account", who |-> u, role |-> role, active |-> active]
  <2>5. /\ request \in ChangeJob /\ request.op = "change" /\ request.pc = "account"
        /\ request.who = u /\ request.role = role
    BY <2>4 DEF ChangeJob, Role
  <2>6. job'[r] = request
    BY <2>3 DEF Begin, IInv, JobsOK
  <2>7. user' = user
    BY <2>3 DEF Begin, accounts
  <2> HIDE DEF request
  <2>8. /\ request \in Job /\ request \notin EnterJob /\ request \notin BoardJob
        /\ request \notin WidgetJob /\ request \notin GrantJob /\ request \notin CreateJob
    BY <2>5 DEF Job, EnterJob, BoardJob, CreateJob, EditJob, WidgetJob, GrantJob, RevokeJob
  <2>9. AccountJobOK(r)' /\ BoardJobOK(r)'
    BY <2>1, <2>2, <2>4, <2>5, <2>6, <2>7, <2>8 DEF AccountJobOK, BoardJobOK, Exists
  <2> QED
    BY <2>3, <2>5, <2>8, <2>9, BeginKeeps DEF request
<1> QED
  BY <1>1, <1>2, <1>3, <1>4

LEMMA FinishFacts ==
  ASSUME JobsOK, NEW r \in Req, Finish(r)
  PROVE  /\ job' \in [Req -> Job] /\ job'[r] = Idle /\ Frame(r)
         /\ UNCHANGED starts
         /\ AccountJobOK(r)' /\ BoardJobOK(r)'
         /\ Idle \notin CreateJob /\ Idle.pc = "idle"
<1>1. Idle \in Job /\ Idle.op = "none" /\ Idle.pc = "idle"
  BY DEF Job, Idle
<1>2. Idle \notin EnterJob /\ Idle \notin ChangeJob /\ Idle \notin BoardJob
      /\ Idle \notin WidgetJob /\ Idle \notin GrantJob /\ Idle \notin CreateJob
  BY <1>1 DEF EnterJob, ChangeJob, BoardJob, CreateJob, EditJob, WidgetJob, GrantJob, RevokeJob
<1>3. job' \in [Req -> Job] /\ job'[r] = Idle /\ Frame(r) /\ UNCHANGED starts
  BY <1>1 DEF Finish, JobsOK, Frame
<1> QED
  BY <1>1, <1>2, <1>3 DEF AccountJobOK, BoardJobOK

\* A commit on the users' table.
LEMMA AccountsCommitKeeps ==
  ASSUME IInv, NEW r \in Req, insert_user(r) \/ store_user(r), UNCHANGED <<boards, writers, missed>>
  PROVE  IInv'
<1> USE DEF IInv
<1> DEFINE u == job[r].who
<1>1. /\ job[r] \in Job /\ job[r].pc = "account" /\ job[r].op \in {"enter", "change"}
      /\ AccountJobOK(r)
  BY DEF insert_user, store_user, At, JobsOK
<1>2. /\ job' \in [Req -> Job] /\ job'[r] = Idle /\ Frame(r) /\ UNCHANGED starts
      /\ AccountJobOK(r)' /\ BoardJobOK(r)' /\ Idle \notin CreateJob
  BY FinishFacts DEF insert_user, store_user
<1>3. NoUser.role = "none" /\ NoUser.active = FALSE
  BY DEF NoUser
<1>4. /\ user' \in [User -> UserRow] /\ founders' \subseteq User /\ UsersMove
      /\ IsFiniteSet(founders') /\ ExecutivesAreFounders'
  <2>1. user \in [User -> UserRow]
    BY DEF TypeOK
  <2>2. CASE UNCHANGED accounts
    BY <2>1, <2>2 DEF accounts, TypeOK, UsersMove, Exists, ExecutivesAreFounders
  <2>3. ASSUME insert_user(r), ~ Exists(u)
        PROVE  /\ user' \in [User -> UserRow] /\ founders' \subseteq User /\ UsersMove
               /\ IsFiniteSet(founders') /\ ExecutivesAreFounders'
    <3>1. /\ u \in User /\ job[r].role \in Role /\ job[r].first \in BOOLEAN
          /\ job[r].role = "executive" <=> job[r].first
      BY <1>1, <2>3, JobKinds DEF insert_user, AccountJobOK, EnterJob
    <3>2. /\ user' = [user EXCEPT ![u] = [role |-> job[r].role, active |-> TRUE]]
          /\ orgs' = (IF job[r].first THEN orgs + 1 ELSE orgs)
          /\ founders' = (IF job[r].first THEN founders \cup {u} ELSE founders)
      BY <2>3 DEF insert_user
    <3>3. user' \in [User -> UserRow] /\ user'[u].role = job[r].role /\ user'[u].active
      BY <2>1, <3>1, <3>2 DEF UserRow
    <3>4. \A v \in User \ {u} : user'[v] = user[v]
      BY <2>1, <3>2
    <3>5. user[u].role = "none" /\ u \notin founders
      BY <1>3, <2>3, <3>1 DEF Exists, ExecutivesAreFounders
    <3>6. UsersMove
      BY <2>3, <3>4 DEF UsersMove, Exists
    <3>7. founders' \subseteq User /\ IsFiniteSet(founders') /\ orgs' = Cardinality(founders')
      <4>1. founders \subseteq User /\ IsFiniteSet(founders) /\ orgs = Cardinality(founders)
        BY DEF TypeOK, ExecutivesAreFounders
      <4>2. IsFiniteSet(founders \cup {u}) /\ Cardinality(founders \cup {u}) = Cardinality(founders) + 1
        BY <3>5, <4>1, FS_AddElement
      <4> QED
        BY <3>1, <3>2, <4>1, <4>2
    <3>8. {v \in User : user'[v].role = "executive"} = founders' /\ \A v \in founders' : user'[v].active
      <4>1. {v \in User : user[v].role = "executive"} = founders /\ \A v \in founders : user[v].active
        BY DEF ExecutivesAreFounders
      <4>2. \A v \in founders : v \in User \ {u} /\ user'[v] = user[v]
        BY <3>4, <3>5, <4>1
      <4>3. ASSUME NEW v \in User PROVE user'[v].role = "executive" <=> v \in founders'
        BY <3>1, <3>2, <3>3, <3>4, <3>5, <4>1
      <4> QED
        BY <3>2, <3>3, <3>7, <4>1, <4>2, <4>3
    <3> QED
      BY <3>3, <3>6, <3>7, <3>8 DEF ExecutivesAreFounders
  <2>4. ASSUME store_user(r)
        PROVE  /\ user' \in [User -> UserRow] /\ founders' \subseteq User /\ UsersMove
               /\ IsFiniteSet(founders') /\ ExecutivesAreFounders'
    <3>1. /\ u \in User /\ job[r].role \in Role \ {"executive"} /\ job[r].active \in BOOLEAN
          /\ user[u].role # "executive"
      BY <1>1, <2>4, JobKinds DEF store_user, AccountJobOK, ChangeJob
    <3>2. /\ user' = [user EXCEPT ![u] = [role |-> job[r].role, active |-> job[r].active]]
          /\ UNCHANGED <<orgs, founders>>
      BY <2>4 DEF store_user
    <3>3. user' \in [User -> UserRow] /\ user'[u].role = job[r].role /\ user'[u].role \in Role
      BY <2>1, <3>1, <3>2 DEF UserRow
    <3>4. \A v \in User \ {u} : user'[v] = user[v]
      BY <2>1, <3>2
    <3>5. UsersMove
      BY <1>3, <3>1, <3>3, <3>4 DEF UsersMove, Exists, Role
    <3>6. {v \in User : user'[v].role = "executive"} = founders /\ \A v \in founders : user'[v].active
      BY <3>1, <3>3, <3>4 DEF ExecutivesAreFounders
    <3> QED
      BY <3>2, <3>3, <3>5, <3>6 DEF ExecutivesAreFounders, TypeOK
  <2> QED
    BY <2>2, <2>3, <2>4 DEF insert_user
<1>5. OwnersMove /\ PlacesMove
  BY DEF OwnersMove, PlacesMove, boards
<1>6. \A q \in Req : Creating(q) => owner'[job[q].on] = Nobody
  BY DEF JobsOK, BoardJobOK, Creating, BoardJob, boards
<1>7. JobsOK'
  BY <1>2, <1>4, <1>5, <1>6, JobsStayOK
<1>8. TypeOK' /\ WritersOK' /\ WritingStartsAtOwner' /\ OnlyWritersWrite' /\ SharingIsShown'
  BY <1>1, <1>2, <1>4, BoardsStayOK
<1> QED
  BY <1>2, <1>4, <1>7, <1>8

LEMMA AccountsKeep ==
  ASSUME IInv, NEW r \in Req, AccountsStep(r), UNCHANGED <<boards, audit, faults, writers, missed>>
  PROVE  IInv'
<1>1. ASSUME NEW u \in User, signup_user(r, u) \/ login_with_google(r, u) PROVE IInv'
  BY <1>1, AccountsBeginKeeps
<1>2. ASSUME NEW actor \in User, NEW u \in User, create_user(r, actor, u) \/ update_user(r, actor, u)
      PROVE  IInv'
  BY <1>2, AccountsBeginKeeps
<1> QED
  BY <1>1, <1>2, AccountsCommitKeeps DEF AccountsStep

-----------------------------------------------------------------------------
(* Requests about dashboards *)

\* Who is let through as a writer is one.
LEMMA WritableIsWriter ==
  ASSUME IInv, NEW u \in User, NEW d \in Dashboard,
         get_writable_dashboard(u, d) \/ get_owned_dashboard(u, d)
  PROVE  <<u, d>> \in writers
<1> DEFINE p == <<u, d>>
<1>1. p \in Pair
  BY DEF Pair
<1>2. owner[d] = u \/ share[p].level = "write"
  BY DEF get_writable_dashboard, get_owned_dashboard, get_effective_access, get_permission
<1> QED
  BY <1>1, <1>2 DEF IInv, WritersOK, CanWrite

\* A request of a writer, on a dashboard that is there.
LEMMA AskKeeps ==
  ASSUME IInv, NEW r \in Req, NEW request \in BoardJob \ CreateJob, Ask(r, request),
         request.pc \in {"read", "commit"},
         <<request.by, request.on>> \in writers,
         request \in WidgetJob => place[request.widget] = request.on,
         request \in GrantJob => owner[request.on] # request.to
  PROVE  IInv'
<1>1. job'[r] = request /\ Begin(r, request) /\ UNCHANGED <<boards, writers, missed>>
  BY DEF Ask, Begin, IInv, JobsOK
<1>2. request \in Job /\ request \notin EnterJob /\ request \notin ChangeJob
  BY JobKinds DEF Job
<1>3. AccountJobOK(r)' /\ BoardJobOK(r)'
  BY <1>1, <1>2 DEF AccountJobOK, BoardJobOK, Creating, boards
<1> QED
  BY <1>1, <1>2, <1>3, BeginKeeps

LEMMA CreateKeeps ==
  ASSUME IInv, NEW r \in Req, NEW u \in User, NEW d \in Dashboard,
         NEW source \in Dashboard \cup {Nobody}, FreeDashboard(d),
         Ask(r, [op |-> "create", pc |-> "commit", by |-> u, on |-> d, source |-> source])
  PROVE  IInv'
<1> DEFINE request == [op |-> "create", pc |-> "commit", by |-> u, on |-> d, source |-> source]
<1>1. request \in CreateJob /\ request.pc = "commit" /\ request.on = d /\ request.op = "create"
  BY DEF CreateJob
<1>2. Begin(r, request) /\ UNCHANGED <<boards, writers, missed>>
  BY DEF Ask
<1> HIDE DEF request
<1>3. request \in Job /\ request \in BoardJob
  BY <1>1 DEF Job, BoardJob
<1>4. request \notin EnterJob /\ request \notin ChangeJob /\ request \notin WidgetJob
      /\ request \notin GrantJob
  BY <1>1, <1>3, JobKinds
<1>5. job'[r] = request /\ owner' = owner
  BY <1>2 DEF Begin, IInv, JobsOK, boards
<1>6. AccountJobOK(r)' /\ BoardJobOK(r)'
  BY <1>1, <1>3, <1>4, <1>5 DEF AccountJobOK, BoardJobOK, Creating, FreeDashboard
<1>7. \A q \in Req : job[q] \notin CreateJob
  <2> TAKE q \in Req
  <2>1. job[q].pc # "idle" => job[q].op # "create"
    BY DEF FreeDashboard, At
  <2>2. job[q] \in CreateJob => job[q].pc # "idle" /\ job[q].op = "create"
    BY DEF CreateJob
  <2> QED
    BY <2>1, <2>2
<1> QED
  BY <1>1, <1>2, <1>3, <1>6, <1>7, BeginKeeps

LEMMA RequestKeeps ==
  ASSUME IInv, NEW r \in Req, NEW u \in User, NEW d \in Dashboard, MayBegin(r), Request(r, u, d)
  PROVE  IInv'
<1> USE DEF IInv
<1>1. ASSUME create_dashboard(r, u, d) PROVE IInv'
  BY <1>1, CreateKeeps DEF create_dashboard
<1>2. ASSUME NEW source \in Dashboard, duplicate_dashboard(r, u, source, d) PROVE IInv'
  BY <1>2, CreateKeeps DEF duplicate_dashboard
<1>3. ASSUME NEW op \in {"update", "add", "delete"},
             Ask(r, [op |-> op, pc |-> "commit", by |-> u, on |-> d]), <<u, d>> \in writers
      PROVE  IInv'
  <2> DEFINE request == [op |-> op, pc |-> "commit", by |-> u, on |-> d]
  <2>1. /\ request \in EditJob /\ request.op = op /\ request.pc = "commit"
        /\ request.by = u /\ request.on = d
    BY DEF EditJob
  <2> HIDE DEF request
  <2>2. request \in Job /\ request \in BoardJob
    BY <2>1 DEF Job, BoardJob
  <2>3. request \notin CreateJob /\ request \notin WidgetJob /\ request \notin GrantJob
    BY <2>1, <2>2, JobKinds
  <2> QED
    BY <1>3, <2>1, <2>2, <2>3, AskKeeps DEF request
<1>4. ASSUME NEW w \in Widget, NEW op \in {"touch", "drop"}, place[w] = d,
             Ask(r, [op |-> op, pc |-> "commit", by |-> u, on |-> d, widget |-> w]),
             <<u, d>> \in writers
      PROVE  IInv'
  <2> DEFINE request == [op |-> op, pc |-> "commit", by |-> u, on |-> d, widget |-> w]
  <2>1. /\ request \in WidgetJob /\ request.op = op /\ request.pc = "commit"
        /\ request.by = u /\ request.on = d /\ request.widget = w
    BY DEF WidgetJob
  <2> HIDE DEF request
  <2>2. request \in Job /\ request \in BoardJob
    BY <2>1 DEF Job, BoardJob
  <2>3. request \notin CreateJob /\ request \notin GrantJob
    BY <2>1, <2>2, JobKinds
  <2> QED
    BY <1>4, <2>1, <2>2, <2>3, AskKeeps DEF request
<1>5. ASSUME NEW target \in User, NEW level \in Level, grant_permission(r, u, d, target, level)
      PROVE  IInv'
  <2> DEFINE request == [op |-> "grant", pc |-> "read", by |-> u, on |-> d, to |-> target,
                         level |-> level, id |-> starts + 1, was |-> NoShare]
  <2>1. starts + 1 \in 1 .. MaxStarts + 1
    BY <1>5, AccountsAssumption DEF MayBegin
  <2>2. NoShare \in Share
    BY DEF Share
  <2>3. /\ request \in GrantJob /\ request.op = "grant" /\ request.pc = "read"
        /\ request.by = u /\ request.on = d /\ request.to = target
    BY <2>1, <2>2 DEF GrantJob
  <2>4. Ask(r, request) /\ get_writable_dashboard(u, d) /\ target # owner[d]
    BY <1>5 DEF grant_permission, Grantable
  <2> HIDE DEF request
  <2>5. request \in Job /\ request \in BoardJob
    BY <2>3 DEF Job, BoardJob
  <2>6. request \notin CreateJob /\ request \notin WidgetJob
    BY <2>3, <2>5, JobKinds
  <2> QED
    BY <2>3, <2>4, <2>5, <2>6, AskKeeps, WritableIsWriter
<1>6. ASSUME NEW target \in User, revoke_permission(r, u, d, target)
      PROVE  IInv'
  <2> DEFINE request == [op |-> "revoke", pc |-> "read", by |-> u, on |-> d, to |-> target,
                         level |-> "none", was |-> NoShare]
  <2>1. NoShare \in Share
    BY DEF Share
  <2>2. /\ request \in RevokeJob /\ request.op = "revoke" /\ request.pc = "read"
        /\ request.by = u /\ request.on = d
    BY <2>1 DEF RevokeJob
  <2>3. Ask(r, request) /\ get_writable_dashboard(u, d)
    BY <1>6 DEF revoke_permission
  <2> HIDE DEF request
  <2>4. request \in Job /\ request \in BoardJob
    BY <2>2 DEF Job, BoardJob
  <2>5. request \notin CreateJob /\ request \notin WidgetJob /\ request \notin GrantJob
    BY <2>2, <2>4, JobKinds
  <2> QED
    BY <2>2, <2>3, <2>4, <2>5, AskKeeps, WritableIsWriter
<1>7. ASSUME update_dashboard(r, u, d) \/ add_widget(r, u, d) \/ delete_dashboard(r, u, d)
      PROVE  IInv'
  BY <1>3, <1>7, WritableIsWriter DEF update_dashboard, add_widget, delete_dashboard
<1>8. ASSUME NEW w \in Widget, update_widget(r, u, d, w) \/ delete_widget(r, u, d, w)
      PROVE  IInv'
  BY <1>4, <1>8, WritableIsWriter DEF update_widget, delete_widget, get_writable_widget
<1> QED
  BY <1>1, <1>2, <1>5, <1>6, <1>7, <1>8 DEF Request

-----------------------------------------------------------------------------
(* Commits *)

LEMMA CommitHolds ==
  ASSUME IInv, NEW r \in Req, Frame(r), UNCHANGED <<accounts, missed, shown, starts>>,
         writers' = writers \cup CanWrite(owner', share'),
         TypeOK', OwnersMove, PlacesMove,
         job[r] \in BoardJob, job[r].pc \in {"read", "commit", "widgets"},
         job' \in [Req -> Job], AccountJobOK(r)', BoardJobOK(r)',
         job'[r] \in CreateJob => job[r] \in CreateJob,
         \A q \in Req \ {r} : Creating(q) => owner'[job[q].on] = Nobody,
         opened \subseteq opened',
         \A p \in Pair : share'[p].level = "write" => p \in writers \/ p[2] \in opened',
         wrote' \subseteq wrote \cup {<<job[r].by, job[r].on>>},
         wrote' # wrote => <<job[r].by, job[r].on>> \in writers,
         \A p \in Pair : share'[p] # share[p] =>
             owner'[p[2]] \notin User \/ Changing(p)'
  PROVE  IInv'
<1> USE DEF IInv
<1>1. UNCHANGED <<user, orgs, founders>>
  BY DEF accounts
<1>2. \A p \in Pair : p[1] \in User /\ p[2] \in Dashboard
  BY DEF Pair
<1>3. JobsOK'
  <2>1. UsersMove
    BY <1>1 DEF UsersMove, Exists
  <2>2. job'[r] \in CreateJob => job[r] \in CreateJob \/ \A q \in Req : job[q] \notin CreateJob
    OBVIOUS
  <2> QED
    BY <2>1, <2>2, JobsStayOK
<1>4. CanWrite(owner', share') \subseteq Pair
  BY DEF CanWrite
<1>5. \A p \in Pair : owner'[p[2]] \in User =>
          owner'[p[2]] = owner[p[2]] \/ owner[p[2]] = Nobody
  BY <1>2, DashboardsAssumption DEF OwnersMove
<1>6. WritersOK'
  <2>1. \A p \in writers' : owner'[p[2]] # Nobody
    <3>1. ASSUME NEW p \in writers PROVE owner'[p[2]] # Nobody
      BY <1>2, DashboardsAssumption DEF WritersOK, OwnersMove
    <3>2. ASSUME NEW p \in CanWrite(owner', share') PROVE owner'[p[2]] # Nobody
      <4>1. p \in Pair /\ (owner'[p[2]] = p[1] \/ share'[p].level = "write")
        BY DEF CanWrite
      <4>2. share'[p].level = "write" => owner'[p[2]] \in User
        BY <4>1 DEF TypeOK, NoShare
      <4> QED
        BY <1>2, <4>1, <4>2, DashboardsAssumption
    <3> QED
      BY <3>1, <3>2
  <2>2. \A p \in Pair : owner'[p[2]] = Nobody => shown'[p] = "none"
    BY <1>2, DashboardsAssumption DEF WritersOK, OwnersMove
  <2>3. writers' \subseteq Pair /\ CanWrite(owner', share') \subseteq writers'
    BY <1>4 DEF WritersOK
  <2>4. CanWrite(owner, share)' = CanWrite(owner', share')
    BY DEF CanWrite
  <2> QED
    BY <2>1, <2>2, <2>3, <2>4 DEF WritersOK
<1>7. WritingStartsAtOwner'
  <2> SUFFICES ASSUME NEW p \in writers', owner'[p[2]] \in User
               PROVE  p[1] = owner'[p[2]] \/ p[2] \in opened'
    BY DEF WritingStartsAtOwner, There
  <2>1. ASSUME p \in writers PROVE p[1] = owner'[p[2]] \/ p[2] \in opened'
    <3>1. p \in Pair /\ owner[p[2]] # Nobody
      BY <2>1 DEF WritersOK
    <3>2. owner'[p[2]] = owner[p[2]]
      BY <1>5, <3>1
    <3> QED
      BY <2>1, <3>2 DEF WritingStartsAtOwner, There
  <2>2. CASE p \in CanWrite(owner', share') /\ p \notin writers
    BY <2>2 DEF CanWrite
  <2> QED
    BY <2>1, <2>2
<1>8. OnlyWritersWrite'
  BY DEF OnlyWritersWrite
<1>9. SharingIsShown'
  <2> SUFFICES ASSUME NEW p \in Pair, owner'[p[2]] \in User, p \notin missed, ~ Changing(p)'
               PROVE  shown[p] = share'[p].level
    BY DEF SharingIsShown, There
  <2>1. share'[p] = share[p]
    OBVIOUS
  <2>2. ~ Changing(p)
    <3>1. ASSUME NEW q \in Req, job[q].pc \in {"audit", "publish"}, Subject(q) = p PROVE FALSE
      <4>1. q # r
        BY <3>1
      <4>2. job'[q] = job[q]
        BY <4>1 DEF Frame
      <4>3. job'[q].pc \in {"audit", "publish"} /\ Subject(q)' = p
        BY <3>1, <4>2 DEF Subject
      <4> QED
        BY <4>3 DEF Changing
    <3> QED
      BY <3>1 DEF Changing
  <2>3. CASE owner[p[2]] \in User
    BY <2>1, <2>2, <2>3 DEF SharingIsShown, There
  <2>4. CASE owner[p[2]] = Nobody
    <3>1. share[p] = NoShare
      BY <2>4, DashboardsAssumption DEF TypeOK
    <3> QED
      BY <2>1, <2>4, <3>1 DEF WritersOK, NoShare
  <2> QED
    BY <1>5, <2>3, <2>4
<1>10. starts' \in 0 .. MaxStarts /\ IsFiniteSet(founders') /\ ExecutivesAreFounders'
  BY <1>1 DEF ExecutivesAreFounders
<1> QED
  BY <1>3, <1>6, <1>7, <1>8, <1>9, <1>10

\* What a request is as it commits.
LEMMA CommitFacts ==
  ASSUME IInv, NEW r \in Req, job[r].pc \in {"read", "commit", "widgets", "audit", "publish"}
  PROVE  /\ job[r] \in Job /\ job[r] \in BoardJob
         /\ job[r].by \in User /\ job[r].on \in Dashboard
         /\ IF Creating(r) THEN owner[job[r].on] = Nobody
            ELSE <<job[r].by, job[r].on>> \in writers /\ owner[job[r].on] # Nobody
         /\ Creating(r) <=> job[r].op = "create" /\ job[r].pc = "commit"
         /\ \A q \in Req \ {r} : Creating(q) => owner[job[q].on] = Nobody
<1>1. job[r] \in Job /\ AccountJobOK(r) /\ BoardJobOK(r)
  BY DEF IInv, JobsOK
<1>2. job[r] \in BoardJob /\ job[r].by \in User /\ job[r].on \in Dashboard
  BY <1>1, JobKinds
<1>3. Creating(r) <=> job[r].op = "create" /\ job[r].pc = "commit"
  BY <1>1, JobKinds DEF Creating
<1>4. \A q \in Req \ {r} : Creating(q) => owner[job[q].on] = Nobody
  BY DEF IInv, JobsOK, BoardJobOK, Creating, BoardJob
<1> QED
  BY <1>1, <1>2, <1>3, <1>4 DEF BoardJobOK, IInv, WritersOK

LEMMA CommitDashboardKeeps ==
  ASSUME IInv, NEW r \in Req, Commit(r), commit_dashboard(r)
  PROVE  IInv'
<1> USE DEF IInv
<1> DEFINE d == job[r].on
           by == job[r].by
<1>1. /\ job[r] \in BoardJob /\ by \in User /\ d \in Dashboard /\ owner[d] = Nobody
      /\ job[r] \in CreateJob /\ Creating(r) /\ job[r].pc = "commit"
      /\ \A q \in Req \ {r} : Creating(q) => owner[job[q].on] = Nobody
  BY CommitFacts, JobKinds DEF commit_dashboard, Op, At
<1>2. /\ owner' = [owner EXCEPT ![d] = by] /\ UNCHANGED <<place, share, shown, wrote, opened>>
      /\ UNCHANGED <<accounts, missed>> /\ writers' = writers \cup CanWrite(owner', share')
  BY DEF commit_dashboard, Commit
<1>3. /\ job' \in [Req -> Job] /\ Frame(r) /\ starts' = starts
      /\ job'[r] \in CreateJob /\ job'[r].pc = "widgets" /\ job'[r].by = by /\ job'[r].on = d
  <2>1. job' = [job EXCEPT ![r].pc = "widgets"] /\ starts' = starts
    BY DEF commit_dashboard, Goto
  <2>2. job \in [Req -> Job]
    BY DEF JobsOK
  <2>3. /\ job'[r] \in CreateJob /\ job'[r].pc = "widgets" /\ job'[r].by = by /\ job'[r].on = d
    BY <1>1, <2>1, <2>2 DEF CreateJob
  <2> QED
    BY <2>1, <2>2, <2>3 DEF Frame, Job, BoardJob
<1>4. owner'[d] = by /\ (\A e \in Dashboard \ {d} : owner'[e] = owner[e])
  BY <1>1, <1>2 DEF TypeOK
<1>5. OwnersMove /\ PlacesMove
  BY <1>1, <1>2, <1>4 DEF OwnersMove, PlacesMove
<1>6. TypeOK'
  <2>1. \A p \in Pair : share[p] # NoShare => p[2] # d
    BY <1>1, DashboardsAssumption DEF TypeOK
  <2>2. \A p \in Pair : share[p] # NoShare => owner'[p[2]] \in User \ {p[1]}
    BY <1>4, <2>1 DEF TypeOK, Pair
  <2>3. \A w \in Widget : place[w] \in Dashboard => owner'[place[w]] \in User
    BY <1>1, <1>4 DEF TypeOK
  <2>4. owner' \in [Dashboard -> User \cup {Nobody, Removed}]
    BY <1>1, <1>2 DEF TypeOK
  <2> QED
    BY <1>2, <2>2, <2>3, <2>4 DEF TypeOK, accounts
<1>7. <<by, d>> \in writers'
  BY <1>1, <1>2, <1>4 DEF CanWrite, Pair
<1>8. AccountJobOK(r)' /\ BoardJobOK(r)'
  <2>1. job'[r].op = "create"
    BY <1>3 DEF CreateJob
  <2>2. job'[r] \notin EnterJob /\ job'[r] \notin ChangeJob /\ job'[r] \notin WidgetJob
        /\ job'[r] \notin GrantJob
    BY <2>1 DEF EnterJob, ChangeJob, WidgetJob, GrantJob
  <2> QED
    BY <1>3, <1>7, <2>2 DEF AccountJobOK, BoardJobOK, Creating
<1>9. \A q \in Req \ {r} : ~ Creating(q)
  BY <1>1 DEF JobsOK, Creating
<1>10. \A p \in Pair : share'[p].level = "write" => p \in writers
  BY <1>2 DEF WritersOK, CanWrite
<1> HIDE DEF IInv
<1> QED
  BY <1>1, <1>2, <1>3, <1>5, <1>6, <1>8, <1>9, <1>10, CommitHolds

\* A commit of a writer that touches neither owners nor shares, and ends.
LEMMA ContentKeeps ==
  ASSUME IInv, NEW r \in Req, Commit(r), job[r].pc \in {"read", "commit", "widgets"},
         ~ Creating(r), Finish(r), UNCHANGED <<owner, share, shown, opened>>,
         PlacesMove, place' \in [Widget -> Dashboard \cup {Nobody, Removed}],
         \A w \in Widget : place'[w] \in Dashboard => owner[place'[w]] \in User,
         wrote' \subseteq wrote \cup {<<job[r].by, job[r].on>>}
  PROVE  IInv'
<1>1. /\ job[r] \in BoardJob /\ <<job[r].by, job[r].on>> \in writers
      /\ \A q \in Req \ {r} : Creating(q) => owner[job[q].on] = Nobody
  BY CommitFacts
<1>2. /\ job' \in [Req -> Job] /\ Frame(r) /\ UNCHANGED starts
      /\ AccountJobOK(r)' /\ BoardJobOK(r)' /\ job'[r] \notin CreateJob
  BY FinishFacts DEF IInv
<1>3. UNCHANGED <<accounts, missed>> /\ writers' = writers \cup CanWrite(owner', share')
  BY DEF Commit
<1>4. TypeOK'
  BY <1>3 DEF IInv, TypeOK, accounts
<1>5. OwnersMove
  BY DEF OwnersMove
<1>6. \A p \in Pair : share'[p].level = "write" => p \in writers
  BY DEF IInv, WritersOK, CanWrite
<1> QED
  BY <1>1, <1>2, <1>3, <1>4, <1>5, <1>6, CommitHolds

LEMMA CreateWidgetsKeeps ==
  ASSUME IInv, NEW r \in Req, Commit(r), create_widgets(r)
  PROVE  IInv'
<1> DEFINE d == job[r].on
<1>1. PICK new \in SUBSET {w \in Widget : place[w] = Nobody} :
          place' = [w \in Widget |-> IF w \in new THEN d ELSE place[w]]
  BY DEF create_widgets
<1>2. d \in Dashboard /\ owner[d] \in User /\ job[r].pc = "widgets"
  BY CommitFacts DEF create_widgets, At, There
<1>3. ~ Creating(r)
  BY <1>2 DEF Creating
<1>4. PlacesMove
  BY <1>1 DEF PlacesMove
<1>5. /\ place' \in [Widget -> Dashboard \cup {Nobody, Removed}]
      /\ \A w \in Widget : place'[w] \in Dashboard => owner[place'[w]] \in User
  BY <1>1, <1>2 DEF IInv, TypeOK
<1> QED
  BY <1>2, <1>3, <1>4, <1>5, ContentKeeps DEF create_widgets, Wrote

LEMMA CommitContentKeeps ==
  ASSUME IInv, NEW r \in Req, Commit(r), commit_content(r)
  PROVE  IInv'
<1> DEFINE d == job[r].on
           w == job[r].widget
           named == IF job[r].op \in {"touch", "drop"} /\ place[w] \in Dashboard
                    THEN place[w] ELSE d
<1>1. /\ job[r].pc = "commit" /\ job[r].op \in {"update", "add", "touch", "drop"}
      /\ wrote' = wrote \cup {<<job[r].by, named>>} /\ Finish(r)
      /\ UNCHANGED <<owner, share, shown, opened>>
  BY DEF commit_content, At, Wrote
<1>2. job[r] \in Job /\ d \in Dashboard /\ ~ Creating(r)
  BY <1>1, CommitFacts
<1>3. job[r].op \in {"touch", "drop"} => w \in Widget /\ place[w] \in {d, Removed}
  <2>1. job[r].op \in {"touch", "drop"} => job[r] \in WidgetJob
    BY <1>2, JobKinds
  <2> QED
    BY <2>1 DEF IInv, JobsOK, BoardJobOK, WidgetJob
<1>4. named = d
  BY <1>3, DashboardsAssumption
<1>5. /\ PlacesMove
      /\ place' \in [Widget -> Dashboard \cup {Nobody, Removed}]
      /\ \A v \in Widget : place'[v] \in Dashboard => owner[place'[v]] \in User
  <2>1. place \in [Widget -> Dashboard \cup {Nobody, Removed}]
        /\ \A v \in Widget : place[v] \in Dashboard => owner[place[v]] \in User
    BY DEF IInv, TypeOK
  <2>2. CASE UNCHANGED place
    BY <2>1, <2>2 DEF PlacesMove
  <2>3. ASSUME There(d), NEW v \in Widget, place[v] = Nobody, place' = [place EXCEPT ![v] = d]
        PROVE  /\ PlacesMove
               /\ place' \in [Widget -> Dashboard \cup {Nobody, Removed}]
               /\ \A x \in Widget : place'[x] \in Dashboard => owner[place'[x]] \in User
    BY <1>2, <2>1, <2>3 DEF PlacesMove, There
  <2>4. ASSUME w \in Widget, place' = [place EXCEPT ![w] = Removed]
        PROVE  /\ PlacesMove
               /\ place' \in [Widget -> Dashboard \cup {Nobody, Removed}]
               /\ \A x \in Widget : place'[x] \in Dashboard => owner[place'[x]] \in User
    BY <2>1, <2>4, DashboardsAssumption DEF PlacesMove
  <2> QED
    BY <1>3, <2>2, <2>3, <2>4 DEF commit_content
<1> HIDE DEF named
<1> QED
  BY <1>1, <1>2, <1>4, <1>5, ContentKeeps

LEMMA CommitDeleteKeeps ==
  ASSUME IInv, NEW r \in Req, Commit(r), commit_delete(r)
  PROVE  IInv'
<1> DEFINE d == job[r].on
<1>1. /\ job[r].pc = "commit" /\ job[r].op = "delete"
      /\ owner' = [owner EXCEPT ![d] = Removed]
      /\ place' = [w \in Widget |-> IF place[w] = d THEN Removed ELSE place[w]]
      /\ share' = [p \in Pair |-> IF p[2] = d THEN NoShare ELSE share[p]]
      /\ wrote' = wrote \cup {<<job[r].by, d>>} /\ Finish(r)
      /\ UNCHANGED <<shown, opened>>
  BY DEF commit_delete, Op, At, Wrote
<1>2. /\ job[r] \in BoardJob /\ d \in Dashboard /\ ~ Creating(r)
      /\ <<job[r].by, d>> \in writers /\ owner[d] # Nobody
      /\ \A q \in Req \ {r} : Creating(q) => owner[job[q].on] = Nobody
  BY <1>1, CommitFacts
<1>3. /\ job' \in [Req -> Job] /\ Frame(r) /\ UNCHANGED starts
      /\ AccountJobOK(r)' /\ BoardJobOK(r)' /\ job'[r] \notin CreateJob
  BY <1>1, FinishFacts DEF IInv
<1>4. UNCHANGED <<accounts, missed>> /\ writers' = writers \cup CanWrite(owner', share')
  BY DEF Commit
<1>5. owner'[d] = Removed /\ \A e \in Dashboard \ {d} : owner'[e] = owner[e]
  BY <1>1, <1>2 DEF IInv, TypeOK
<1>6. OwnersMove /\ PlacesMove
  BY <1>1, <1>5 DEF OwnersMove, PlacesMove
<1>7. TypeOK'
  <2>1. owner' \in [Dashboard -> User \cup {Nobody, Removed}]
    BY <1>1 DEF IInv, TypeOK
  <2>2. place' \in [Widget -> Dashboard \cup {Nobody, Removed}] /\ share' \in [Pair -> Share]
    BY <1>1 DEF IInv, TypeOK, Share
  <2>3. \A p \in Pair : share'[p] # NoShare => owner'[p[2]] \in User \ {p[1]}
    BY <1>1, <1>5 DEF IInv, TypeOK, Pair
  <2>4. \A w \in Widget : place'[w] \in Dashboard => place[w] = place'[w] /\ place[w] # d
    BY <1>1, DashboardsAssumption
  <2>5. \A w \in Widget : place'[w] \in Dashboard => owner'[place'[w]] \in User
    BY <1>5, <2>4 DEF IInv, TypeOK
  <2> QED
    BY <1>4, <2>1, <2>2, <2>3, <2>5 DEF IInv, TypeOK, accounts
<1>8. \A q \in Req \ {r} : Creating(q) => owner'[job[q].on] = Nobody
  <2> SUFFICES ASSUME NEW q \in Req \ {r}, Creating(q) PROVE owner'[job[q].on] = Nobody
    OBVIOUS
  <2>1. job[q].on \in Dashboard /\ job[q].on # d
    BY <1>2 DEF Creating, CreateJob
  <2> QED
    BY <1>2, <1>5, <2>1
<1>9. \A p \in Pair : share'[p].level = "write" => p \in writers
  BY <1>1 DEF NoShare, IInv, WritersOK, CanWrite
<1>10. \A p \in Pair : share'[p] # share[p] => owner'[p[2]] \notin User
  BY <1>1, <1>5, DashboardsAssumption
<1> QED
  BY <1>1, <1>2, <1>3, <1>4, <1>6, <1>7, <1>8, <1>9, <1>10, CommitHolds

\* A grant or a revocation that is committed goes on to its audit record.
LEMMA AnnounceFacts ==
  ASSUME IInv, NEW r \in Req, job[r] \in GrantJob \cup RevokeJob, NEW pc \in {"audit", "publish"},
         Goto(r, pc)
  PROVE  /\ job' \in [Req -> Job] /\ Frame(r) /\ UNCHANGED starts
         /\ job'[r] \in GrantJob \cup RevokeJob /\ job'[r].pc = pc
         /\ job'[r] \in GrantJob <=> job[r] \in GrantJob
         /\ job'[r].by = job[r].by /\ job'[r].on = job[r].on /\ job'[r].to = job[r].to
         /\ job'[r] \notin CreateJob /\ job'[r] \notin WidgetJob
         /\ job'[r] \notin EnterJob /\ job'[r] \notin ChangeJob
         /\ Subject(r) \in Pair /\ Subject(r)' = Subject(r)
<1>1. job \in [Req -> Job] /\ job' = [job EXCEPT ![r].pc = pc] /\ UNCHANGED starts
  BY DEF IInv, JobsOK, Goto
<1>2. CASE job[r] \in GrantJob
  <2>1. /\ job'[r] \in GrantJob /\ job'[r].pc = pc /\ job'[r].op = "grant"
        /\ job'[r].by = job[r].by /\ job'[r].on = job[r].on /\ job'[r].to = job[r].to
    BY <1>1, <1>2 DEF GrantJob
  <2>2. job'[r] \in Job
    BY <2>1 DEF Job, BoardJob
  <2> QED
    BY <1>1, <1>2, <2>1, <2>2, JobKinds DEF Frame, Subject, Pair, GrantJob
<1>3. CASE job[r] \in RevokeJob
  <2>1. /\ job'[r] \in RevokeJob /\ job'[r].pc = pc /\ job'[r].op = "revoke"
        /\ job'[r].by = job[r].by /\ job'[r].on = job[r].on /\ job'[r].to = job[r].to
    BY <1>1, <1>3 DEF RevokeJob
  <2>2. job'[r] \in Job
    BY <2>1 DEF Job, BoardJob
  <2>3. job[r] \notin GrantJob
    BY <1>3 DEF GrantJob, RevokeJob
  <2> QED
    BY <1>1, <1>3, <2>1, <2>2, <2>3, JobKinds DEF Frame, Subject, Pair, RevokeJob
<1> QED
  BY <1>2, <1>3

\* A commit that writes one share.
LEMMA ShareKeeps ==
  ASSUME IInv, NEW r \in Req, Commit(r), job[r] \in GrantJob \cup RevokeJob, job[r].pc = "commit",
         Goto(r, "audit"), UNCHANGED <<owner, place, shown>>,
         NEW row \in Share,
         share' = share \/ share' = [share EXCEPT ![Subject(r)] = row],
         share' # share /\ row # NoShare => owner[job[r].on] \in User \ {job[r].to},
         row.level = "write" => Subject(r) \in writers \/ job[r].on \in opened',
         opened \subseteq opened',
         wrote' = wrote \cup {<<job[r].by, job[r].on>>}
  PROVE  IInv'
<1> DEFINE d == job[r].on
           s == Subject(r)
<1>1. /\ job[r] \in BoardJob /\ ~ Creating(r) /\ d \in Dashboard
      /\ <<job[r].by, d>> \in writers /\ owner[d] # Nobody
      /\ \A q \in Req \ {r} : Creating(q) => owner[job[q].on] = Nobody
  <2>1. ~ Creating(r)
    BY DEF Creating, CreateJob, GrantJob, RevokeJob
  <2> QED
    BY <2>1, CommitFacts
<1>2. /\ job' \in [Req -> Job] /\ Frame(r) /\ UNCHANGED starts
      /\ job'[r] \in GrantJob \cup RevokeJob /\ job'[r].pc = "audit"
      /\ job'[r] \in GrantJob <=> job[r] \in GrantJob
      /\ job'[r].by = job[r].by /\ job'[r].on = d /\ job'[r].to = job[r].to
      /\ job'[r] \notin CreateJob /\ job'[r] \notin WidgetJob
      /\ job'[r] \notin EnterJob /\ job'[r] \notin ChangeJob
      /\ s \in Pair /\ Subject(r)' = s
  BY AnnounceFacts
<1>3. s[1] = job[r].to /\ s[2] = d
  BY DEF Subject
<1>4. UNCHANGED <<accounts, missed>> /\ writers' = writers \cup CanWrite(owner', share')
  BY DEF Commit
<1>5. OwnersMove /\ PlacesMove
  BY DEF OwnersMove, PlacesMove
<1>6. share \in [Pair -> Share]
  BY DEF IInv, TypeOK
<1> HIDE DEF s
<1>7. /\ share' \in [Pair -> Share]
      /\ \A p \in Pair \ {s} : share'[p] = share[p]
      /\ share'[s] = share[s] \/ (share' # share /\ share'[s] = row)
  BY <1>2, <1>6 DEF s
<1>8. TypeOK'
  <2>1. ASSUME NEW p \in Pair, share'[p] # NoShare PROVE owner'[p[2]] \in User \ {p[1]}
    <3>1. share[p] # NoShare => owner[p[2]] \in User \ {p[1]}
      BY DEF IInv, TypeOK
    <3>2. share'[p] = share[p] \/ (p = s /\ share' # share /\ share'[p] = row)
      BY <1>7
    <3> QED
      BY <1>3, <2>1, <3>1, <3>2
  <2> QED
    BY <1>4, <1>7, <2>1 DEF IInv, TypeOK, accounts
<1>9. AccountJobOK(r)' /\ BoardJobOK(r)'
  <2>1. job[r] \in GrantJob => owner[d] # job[r].to
    BY DEF IInv, JobsOK, BoardJobOK
  <2> QED
    BY <1>1, <1>2, <1>4, <2>1 DEF AccountJobOK, BoardJobOK, Creating
<1>10. \A p \in Pair : share'[p].level = "write" => p \in writers \/ p[2] \in opened'
  <2>1. \A p \in Pair : share[p].level = "write" => p \in writers
    BY DEF IInv, WritersOK, CanWrite
  <2> QED
    BY <1>3, <1>7, <2>1 DEF s
<1>11. \A p \in Pair : p = s => Changing(p)'
  BY <1>2 DEF Changing
<1>12. \A p \in Pair : share'[p] # share[p] => Changing(p)'
  BY <1>7, <1>11
<1> QED
  BY <1>1, <1>2, <1>4, <1>5, <1>8, <1>9, <1>10, <1>12, CommitHolds

LEMMA UpsertKeeps ==
  ASSUME IInv, NEW r \in Req, Commit(r), upsert_permission(r)
  PROVE  IInv'
<1> DEFINE d == job[r].on
           s == Subject(r)
           was == job[r].was
           row == Granted(r)
<1>1. job[r].pc = "commit" /\ job[r].op = "grant"
  BY DEF upsert_permission, Op, At
<1>2. job[r] \in Job /\ job[r] \in GrantJob
  BY <1>1, CommitFacts, JobKinds
<1>3. /\ was \in Share /\ share[s] \in Share /\ s \in Pair /\ s[1] = job[r].to /\ s[2] = d
      /\ share[s].id = was.id /\ 0 \notin 1 .. MaxStarts + 1
  BY <1>2, AccountsAssumption DEF GrantJob, Subject, Pair, IInv, TypeOK, upsert_permission
<1>11. row = [id |-> IF was = NoShare THEN job[r].id ELSE was.id,
              level |-> IF job[r].level = was.level THEN share[s].level ELSE job[r].level,
              by |-> IF job[r].by = was.by THEN share[s].by ELSE job[r].by]
  BY DEF Granted
<1>12. row \in Share
  <2>1. CASE was = NoShare
    <3>1. job[r].level # was.level /\ job[r].by # was.by
      BY <1>2, <2>1, DashboardsAssumption DEF NoShare, Level, GrantJob
    <3> QED
      BY <1>2, <1>11, <2>1, <3>1 DEF GrantJob, Share
  <2>2. CASE was # NoShare
    <3>1. was \in [id : 1 .. MaxStarts + 1, level : Level, by : User]
      BY <1>3, <2>2 DEF Share
    <3>2. share[s] \in [id : 1 .. MaxStarts + 1, level : Level, by : User]
      BY <1>3, <3>1 DEF Share, NoShare
    <3> QED
      BY <1>2, <1>11, <2>2, <3>1, <3>2 DEF GrantJob, Share
  <2> QED
    BY <2>1, <2>2
<1>4. owner[d] \in User \ {job[r].to}
  BY <1>2 DEF upsert_permission, There, IInv, JobsOK, BoardJobOK
<1>5. share' = [share EXCEPT ![Subject(r)] = row]
  BY DEF upsert_permission
<1>6. /\ opened \subseteq opened'
      /\ job[r].by = owner[d] /\ job[r].level = "write" => d \in opened'
  BY DEF upsert_permission, Subject
<1>7. row.level = "write" => s \in writers \/ d \in opened'
  <2>1. <<job[r].by, d>> \in writers
    BY <1>1, CommitFacts
  <2>2. job[r].by = owner[d] \/ d \in opened
    BY <1>4, <2>1 DEF IInv, WritingStartsAtOwner, There
  <2>3. job[r].level = "write" => d \in opened'
    BY <1>6, <2>2
  <2>4. share[s].level = "write" => s \in writers
    BY <1>3 DEF IInv, WritersOK, CanWrite
  <2>5. row.level = job[r].level \/ row.level = share[s].level
    BY <1>11
  <2> QED
    BY <2>3, <2>4, <2>5
<1>8. /\ Goto(r, "audit") /\ UNCHANGED <<owner, place, shown>>
      /\ wrote' = wrote \cup {<<job[r].by, d>>}
  BY DEF upsert_permission, Announce, Wrote, Subject
<1> HIDE DEF row
<1> QED
  BY <1>1, <1>2, <1>4, <1>5, <1>6, <1>7, <1>8, <1>12, ShareKeeps

LEMMA RevokeKeeps ==
  ASSUME IInv, NEW r \in Req, Commit(r), delete_permission(r)
  PROVE  IInv'
<1>1. /\ job[r].pc = "commit" /\ job[r].op = "revoke"
      /\ share' = share \/ share' = [share EXCEPT ![Subject(r)] = NoShare]
      /\ Goto(r, "audit") /\ UNCHANGED <<owner, place, shown, opened>>
      /\ wrote' = wrote \cup {<<job[r].by, job[r].on>>}
  BY DEF delete_permission, Op, At, Announce, Wrote
<1>2. job[r] \in RevokeJob
  BY <1>1, CommitFacts, JobKinds
<1>3. NoShare \in Share /\ NoShare.level = "none"
  BY DEF Share, NoShare
<1> QED
  BY <1>1, <1>2, <1>3, ShareKeeps

\* The row is read: nothing is written yet, and a revocation may end.
LEMMA ReadKeeps ==
  ASSUME IInv, NEW r \in Req, Commit(r), read_permission(r)
  PROVE  IInv'
<1>1. job[r].pc = "read" /\ UNCHANGED boards
  BY DEF read_permission, At
<1>2. /\ job[r] \in BoardJob /\ job[r] \in GrantJob \cup RevokeJob /\ ~ Creating(r)
      /\ <<job[r].by, job[r].on>> \in writers
      /\ \A q \in Req \ {r} : Creating(q) => owner[job[q].on] = Nobody
  BY <1>1, CommitFacts, JobKinds DEF Creating
<1>3. CASE Finish(r)
  <2>1. PlacesMove
    BY <1>1 DEF PlacesMove, boards
  <2>2. /\ UNCHANGED <<owner, share, shown, opened>> /\ wrote' = wrote
        /\ place' \in [Widget -> Dashboard \cup {Nobody, Removed}]
        /\ \A w \in Widget : place'[w] \in Dashboard => owner[place'[w]] \in User
    BY <1>1 DEF boards, IInv, TypeOK
  <2> QED
    BY <1>1, <1>2, <1>3, <2>1, <2>2, ContentKeeps
<1>4. CASE ~ Finish(r)
  <2> DEFINE row == share[Subject(r)]
             next == [job[r] EXCEPT !.pc = "commit", !.was = row]
  <2>1. job' = [job EXCEPT ![r] = next] /\ UNCHANGED starts
    BY <1>4 DEF read_permission
  <2>2. job \in [Req -> Job] /\ row \in Share
    BY <1>2 DEF IInv, JobsOK, TypeOK, Subject, Pair, GrantJob, RevokeJob
  <2>3. /\ next.pc = "commit" /\ next.by = job[r].by /\ next.on = job[r].on
        /\ next.to = job[r].to
        /\ next \in GrantJob \cup RevokeJob
        /\ next \in GrantJob <=> job[r] \in GrantJob
    BY <1>2, <2>2 DEF GrantJob, RevokeJob
  <2> HIDE DEF next, row
  <2>4. next \in BoardJob /\ next \in Job
    BY <2>3 DEF Job, BoardJob
  <2>5. /\ next \notin CreateJob /\ next \notin WidgetJob
        /\ next \notin EnterJob /\ next \notin ChangeJob
    BY <2>3, <2>4, JobKinds
  <2>6. /\ job' \in [Req -> Job] /\ Frame(r) /\ job'[r] = next
    BY <2>1, <2>2, <2>4 DEF Frame
  <2>7. /\ UNCHANGED <<accounts, missed, owner, place, share, shown, opened, wrote>>
        /\ writers' = writers \cup CanWrite(owner', share')
    BY <1>1 DEF Commit, boards
  <2>8. AccountJobOK(r)' /\ BoardJobOK(r)'
    <3>1. job[r] \in GrantJob => owner[job[r].on] # job[r].to
      BY DEF IInv, JobsOK, BoardJobOK
    <3> QED
      BY <1>2, <2>3, <2>4, <2>5, <2>6, <2>7, <3>1 DEF AccountJobOK, BoardJobOK, Creating
  <2>9. TypeOK' /\ OwnersMove /\ PlacesMove
    BY <2>7 DEF IInv, TypeOK, accounts, OwnersMove, PlacesMove
  <2>10. \A p \in Pair : share'[p].level = "write" => p \in writers
    BY <2>7 DEF IInv, WritersOK, CanWrite
  <2> QED
    BY <1>1, <1>2, <2>1, <2>5, <2>6, <2>7, <2>8, <2>9, <2>10, CommitHolds
<1> QED
  BY <1>3, <1>4

LEMMA RefusedKeeps ==
  ASSUME IInv, NEW r \in Req, Commit(r), commit_refused(r)
  PROVE  IInv'
<1>1. job[r].pc \in {"commit", "widgets"} /\ Finish(r) /\ UNCHANGED boards
  BY DEF commit_refused, Op, At
<1>2. ~ Creating(r)
  BY CommitFacts, <1>1 DEF commit_refused, Op, At
<1>3. PlacesMove
  BY <1>1 DEF PlacesMove, boards
<1>4. /\ UNCHANGED <<owner, share, shown, opened>> /\ wrote' = wrote
      /\ place' \in [Widget -> Dashboard \cup {Nobody, Removed}]
      /\ \A w \in Widget : place'[w] \in Dashboard => owner[place'[w]] \in User
  BY <1>1 DEF boards, IInv, TypeOK
<1> QED
  BY <1>1, <1>2, <1>3, <1>4, ContentKeeps

LEMMA CommitKeeps ==
  ASSUME IInv, NEW r \in Req, Commit(r)
  PROVE  IInv'
  BY CommitDashboardKeeps, CreateWidgetsKeeps, CommitContentKeeps, CommitDeleteKeeps,
     ReadKeeps, UpsertKeeps, RevokeKeeps, RefusedKeeps DEF Commit

-----------------------------------------------------------------------------
(* After a change of sharing *)

\* A request goes on, or ends, and leaves what is stored alone.
LEMMA AfterKeeps ==
  ASSUME IInv, NEW r \in Req, Stays,
         job[r].pc # "idle",
         Finish(r) \/ (job[r].pc = "audit" /\ Goto(r, "publish")),
         shown' = shown \/ (job[r].pc = "publish" /\ shown' = Fetched(r)),
         \A p \in Pair : p \notin missed' /\ ~ Changing(p)' =>
             \/ p \notin missed /\ ~ Changing(p)
             \/ shown'[p] = share[p].level
  PROVE  IInv'
<1> USE DEF IInv
<1>1. UNCHANGED <<user, orgs, founders, owner, place, share, wrote, opened, writers>>
  BY DEF Stays, accounts
<1>2. UsersMove /\ OwnersMove /\ PlacesMove
  BY <1>1 DEF UsersMove, OwnersMove, PlacesMove, Exists
<1>3. job[r].pc \in {"audit", "publish"} =>
          /\ job[r] \in GrantJob \cup RevokeJob /\ Subject(r) \in Pair
          /\ owner[Subject(r)[2]] # Nobody
          /\ <<job[r].by, job[r].on>> \in writers
  <2> SUFFICES ASSUME job[r].pc \in {"audit", "publish"}
               PROVE  /\ job[r] \in GrantJob \cup RevokeJob /\ Subject(r) \in Pair
                      /\ owner[Subject(r)[2]] # Nobody
                      /\ <<job[r].by, job[r].on>> \in writers
    OBVIOUS
  <2>1. job[r] \in Job /\ job[r] \in GrantJob \cup RevokeJob
    BY CommitFacts, JobKinds
  <2>2. ~ Creating(r)
    BY DEF Creating
  <2>3. Subject(r)[2] = job[r].on /\ Subject(r) \in Pair
    BY <2>1 DEF Subject, Pair, GrantJob, RevokeJob
  <2> QED
    BY <2>1, <2>2, <2>3, CommitFacts
<1>4. /\ job' \in [Req -> Job] /\ Frame(r) /\ UNCHANGED starts
      /\ AccountJobOK(r)' /\ BoardJobOK(r)' /\ job'[r] \notin CreateJob
  <2>1. CASE Finish(r)
    BY <2>1, FinishFacts
  <2>2. CASE job[r].pc = "audit" /\ Goto(r, "publish")
    <3>1. /\ job' \in [Req -> Job] /\ Frame(r) /\ UNCHANGED starts
          /\ job'[r] \in GrantJob <=> job[r] \in GrantJob
          /\ job'[r].by = job[r].by /\ job'[r].on = job[r].on /\ job'[r].to = job[r].to
          /\ job'[r] \notin CreateJob /\ job'[r] \notin WidgetJob
          /\ job'[r] \notin EnterJob /\ job'[r] \notin ChangeJob
      BY <1>3, <2>2, AnnounceFacts
    <3>2. job[r] \in GrantJob => owner[job[r].on] # job[r].to
      BY DEF JobsOK, BoardJobOK
    <3> QED
      BY <1>1, <1>3, <2>2, <3>1, <3>2 DEF AccountJobOK, BoardJobOK, Creating
  <2> QED
    BY <2>1, <2>2
<1>5. \A q \in Req : Creating(q) => owner'[job[q].on] = Nobody
  BY <1>1 DEF JobsOK, BoardJobOK, Creating, BoardJob
<1>6. JobsOK'
  BY <1>1, <1>2, <1>4, <1>5, JobsStayOK
<1>7. TypeOK' /\ WritingStartsAtOwner' /\ OnlyWritersWrite'
  BY <1>1 DEF TypeOK, WritingStartsAtOwner, OnlyWritersWrite, There
<1>8. WritersOK'
  <2>1. /\ shown' \in [Pair -> Level \cup {"none"}]
        /\ \A p \in Pair : owner[p[2]] = Nobody => shown'[p] = shown[p]
    <3>1. shown \in [Pair -> Level \cup {"none"}]
      BY DEF WritersOK
    <3>2. CASE shown' = shown
      BY <3>1, <3>2
    <3>3. CASE job[r].pc = "publish" /\ shown' = Fetched(r)
      <4>1. share[Subject(r)].level \in Level \cup {"none"}
        BY <1>3, <3>3 DEF TypeOK, Share, NoShare
      <4> QED
        BY <1>3, <3>1, <3>3, <4>1 DEF Fetched
    <3> QED
      BY <3>2, <3>3
  <2> QED
    BY <1>1, <2>1 DEF WritersOK, CanWrite
<1>9. SharingIsShown'
  <2> SUFFICES ASSUME NEW p \in Pair, owner[p[2]] \in User, p \notin missed', ~ Changing(p)'
               PROVE  shown'[p] = share[p].level
    BY <1>1 DEF SharingIsShown, There
  <2>1. CASE p \notin missed /\ ~ Changing(p)
    <3>1. shown[p] = share[p].level
      BY <2>1 DEF SharingIsShown, There
    <3>2. job[r].pc = "publish" => p # Subject(r)
      BY <2>1 DEF Changing
    <3>3. shown \in [Pair -> Level \cup {"none"}]
      BY DEF WritersOK
    <3> QED
      BY <3>1, <3>2, <3>3 DEF Fetched
  <2> QED
    BY <2>1
<1>10. starts' \in 0 .. MaxStarts /\ IsFiniteSet(founders') /\ ExecutivesAreFounders'
  BY <1>1, <1>4 DEF ExecutivesAreFounders
<1> QED
  BY <1>6, <1>7, <1>8, <1>9, <1>10

LEMMA ChangingStays ==
  ASSUME NEW r \in Req, Frame(r), NEW p \in Pair, Changing(p), ~ Changing(p)'
  PROVE  job[r].pc \in {"audit", "publish"} /\ Subject(r) = p
<1>1. PICK q \in Req : job[q].pc \in {"audit", "publish"} /\ Subject(q) = p
  BY DEF Changing
<1>2. CASE q # r
  <2>1. job'[q] = job[q]
    BY <1>2 DEF Frame
  <2>2. job'[q].pc \in {"audit", "publish"} /\ Subject(q)' = p
    BY <1>1, <2>1 DEF Subject
  <2> QED
    BY <2>2 DEF Changing
<1> QED
  BY <1>1, <1>2

LEMMA TellKeeps ==
  ASSUME IInv, NEW r \in Req,
         \/ record_audit(r) \/ audit_failed(r)
         \/ _publish_permission_change(r) \/ event_missed(r) \/ crash(r)
  PROVE  IInv'
<1>1. CASE record_audit(r) \/ audit_failed(r)
  <2>1. /\ job[r].pc = "audit" /\ Goto(r, "publish") /\ Stays
        /\ UNCHANGED <<shown, missed>>
    BY <1>1 DEF record_audit, audit_failed, At
  <2>2. job[r] \in GrantJob \cup RevokeJob
    BY <2>1, CommitFacts, JobKinds
  <2>3. Frame(r) /\ job'[r].pc = "publish" /\ Subject(r)' = Subject(r)
    BY <2>1, <2>2, AnnounceFacts
  <2>4. ASSUME NEW p \in Pair, p \notin missed', ~ Changing(p)'
        PROVE  p \notin missed /\ ~ Changing(p)
    <3>1. p # Subject(r)
      BY <2>3, <2>4 DEF Changing
    <3> QED
      BY <2>1, <2>3, <2>4, <3>1, ChangingStays
  <2> QED
    BY <2>1, <2>4, AfterKeeps
<1>2. CASE _publish_permission_change(r)
  <2>1. /\ job[r].pc = "publish" /\ Finish(r) /\ Stays
        /\ shown' = Fetched(r) /\ missed' = missed \ {Subject(r)}
    BY <1>2 DEF _publish_permission_change, At
  <2>2. Frame(r)
    BY <2>1, FinishFacts DEF IInv
  <2>3. shown \in [Pair -> Level \cup {"none"}]
    BY DEF IInv, WritersOK
  <2>4. ASSUME NEW p \in Pair, p \notin missed', ~ Changing(p)'
        PROVE  \/ p \notin missed /\ ~ Changing(p)
               \/ shown'[p] = share[p].level
    <3>1. CASE p = Subject(r)
      BY <2>1, <2>3, <3>1 DEF Fetched
    <3>2. CASE p # Subject(r)
      BY <2>1, <2>2, <2>4, <3>2, ChangingStays
    <3> QED
      BY <3>1, <3>2
  <2> QED
    BY <2>1, <2>4, AfterKeeps
<1>3. CASE event_missed(r) \/ crash(r)
  <2>1. /\ job[r].pc # "idle" /\ Finish(r) /\ Stays /\ shown' = shown
        /\ missed' = IF job[r].pc \in {"audit", "publish"} THEN missed \cup {Subject(r)} ELSE missed
    BY <1>3 DEF event_missed, crash, At
  <2>2. Frame(r)
    BY <2>1, FinishFacts DEF IInv
  <2>3. ASSUME NEW p \in Pair, p \notin missed', ~ Changing(p)'
        PROVE  p \notin missed /\ ~ Changing(p)
    BY <2>1, <2>2, <2>3, ChangingStays
  <2> QED
    BY <2>1, <2>3, AfterKeeps
<1> QED
  BY <1>1, <1>2, <1>3

-----------------------------------------------------------------------------
(* Every step *)

LEMMA InitEstablishes == Init => IInv
<1> SUFFICES ASSUME Init PROVE IInv
  OBVIOUS
<1> USE DEF Init
<1>1. starts \in 0 .. MaxStarts /\ job = [r \in Req |-> Idle]
  BY AccountsAssumption
<1>2. JobsOK
  <2>1. Idle \in Job /\ Idle.op = "none" /\ Idle.pc = "idle"
    BY DEF Job, Idle
  <2>2. Idle \notin EnterJob /\ Idle \notin ChangeJob /\ Idle \notin BoardJob
        /\ Idle \notin WidgetJob /\ Idle \notin GrantJob /\ Idle \notin CreateJob
    BY <2>1, JobKinds
  <2> QED
    BY <1>1, <2>1, <2>2 DEF JobsOK, AccountJobOK, BoardJobOK
<1>3. \A p \in Pair : p[1] \in User /\ p[2] \in Dashboard
  BY DEF Pair
<1>4. NoShare \in Share /\ NoShare.level = "none" /\ NoUser.role = "none" /\ NoUser \in UserRow
  BY DEF Share, NoShare, NoUser, UserRow
<1>5. CASE Empty
  <2>1. TypeOK
    BY <1>4, <1>5, DashboardsAssumption DEF Empty, TypeOK
  <2>2. CanWrite(owner, share) = {}
    BY <1>3, <1>4, <1>5, DashboardsAssumption DEF Empty, CanWrite
  <2>3. WritersOK
    BY <1>4, <1>5, <2>2 DEF Empty, WritersOK
  <2>4. IsFiniteSet(founders) /\ ExecutivesAreFounders
    BY <1>4, <1>5, FS_EmptySet DEF Empty, ExecutivesAreFounders
  <2>5. WritingStartsAtOwner /\ OnlyWritersWrite /\ SharingIsShown
    BY <2>2 DEF WritingStartsAtOwner, OnlyWritersWrite, SharingIsShown
  <2> QED
    BY <1>1, <1>2, <2>1, <2>3, <2>4, <2>5 DEF IInv
<1>6. CASE InUse
  <2> DEFINE d == CHOOSE e \in Dashboard : TRUE
             x == CHOOSE w \in Widget : TRUE
  <2>1. PICK h \in Hosts :
            /\ user = [u \in User |-> [role |-> Staff[u], active |-> TRUE]]
            /\ founders = {u \in User : Staff[u] = "executive"}
            /\ owner = [e \in Dashboard |-> IF e = d THEN h[1] ELSE Nobody]
            /\ place = [v \in Widget |-> IF v = x THEN d ELSE Nobody]
            /\ share = [p \in Pair |->
                   IF p \in {<<h[2], d>>} \cap Pair
                   THEN [id |-> MaxStarts + 1, level |-> "write", by |-> h[1]] ELSE NoShare]
            /\ opened = {p[2] : p \in {<<h[2], d>>} \cap Pair}
    BY <1>6 DEF InUse
  <2>2. d \in Dashboard
    BY DashboardsAssumption
  <2> HIDE DEF d, x
  <2>3. h[1] \in User /\ h[1] # h[2] /\ Staff \in [User -> Role]
    BY DashboardsAssumption
  <2>4. [id |-> MaxStarts + 1, level |-> "write", by |-> h[1]] \in Share
    BY <2>3, AccountsAssumption DEF Share, Level
  <2>5. \A p \in Pair : share[p] # NoShare => p = <<h[2], d>> /\ share[p].level = "write"
    BY <2>1
  <2>6. TypeOK
    <3>1. user \in [User -> UserRow] /\ founders \subseteq User
      BY <2>1, <2>3 DEF UserRow
    <3>2. owner \in [Dashboard -> User \cup {Nobody, Removed}]
      BY <2>1, <2>3
    <3>3. place \in [Widget -> Dashboard \cup {Nobody, Removed}] /\ share \in [Pair -> Share]
      BY <1>4, <2>1, <2>2, <2>4
    <3>4. \A p \in Pair : share[p] # NoShare => owner[p[2]] \in User \ {p[1]}
      BY <1>3, <2>1, <2>2, <2>3, <2>5
    <3>5. \A w \in Widget : place[w] \in Dashboard => owner[place[w]] \in User
      BY <2>1, <2>2, <2>3, DashboardsAssumption
    <3> QED
      BY <3>1, <3>2, <3>3, <3>4, <3>5 DEF TypeOK
  <2>7. WritersOK
    <3>1. \A p \in CanWrite(owner, share) : owner[p[2]] # Nobody
      BY <1>3, <1>4, <2>6, DashboardsAssumption DEF CanWrite, TypeOK
    <3>2. shown \in [Pair -> Level \cup {"none"}]
      BY <2>6 DEF TypeOK, Share, NoShare
    <3>3. \A p \in Pair : owner[p[2]] = Nobody => shown[p] = "none"
      BY <1>4, <2>6, DashboardsAssumption DEF TypeOK
    <3> QED
      BY <3>1, <3>2, <3>3 DEF WritersOK, CanWrite
  <2>8. IsFiniteSet(founders) /\ ExecutivesAreFounders
    <3>1. IsFiniteSet(founders)
      BY <2>1, DashboardsAssumption
    <3>2. {u \in User : user[u].role = "executive"} = founders /\ \A u \in founders : user[u].active
      BY <2>1
    <3> QED
      BY <3>1, <3>2 DEF ExecutivesAreFounders
  <2>9. WritingStartsAtOwner
    <3> SUFFICES ASSUME NEW p \in CanWrite(owner, share), owner[p[2]] # p[1]
                 PROVE  p[2] \in opened
      BY DEF WritingStartsAtOwner
    <3>1. p \in Pair /\ share[p].level = "write"
      BY DEF CanWrite
    <3>2. p = <<h[2], d>>
      BY <1>4, <2>5, <3>1
    <3> QED
      BY <2>1, <3>1, <3>2
  <2>10. OnlyWritersWrite /\ SharingIsShown
    BY DEF OnlyWritersWrite, SharingIsShown
  <2> QED
    BY <1>1, <1>2, <2>6, <2>7, <2>8, <2>9, <2>10 DEF IInv
<1> QED
  BY <1>5, <1>6

LEMMA StepKeeps == IInv /\ [Next]_vars => IInv'
<1> SUFFICES ASSUME IInv, [Next]_vars PROVE IInv'
  OBVIOUS
<1>1. CASE UNCHANGED vars
  <2> USE <1>1 DEF vars, boards, accounts, IInv
  <2>1. TypeOK' /\ WritersOK' /\ ExecutivesAreFounders'
    BY DEF TypeOK, WritersOK, CanWrite, ExecutivesAreFounders
  <2>2. JobsOK'
    BY DEF JobsOK, AccountJobOK, BoardJobOK, Creating, Exists
  <2>3. WritingStartsAtOwner' /\ OnlyWritersWrite' /\ SharingIsShown'
    BY DEF WritingStartsAtOwner, OnlyWritersWrite, SharingIsShown, There, Changing, Subject
  <2> QED
    BY <2>1, <2>2, <2>3
<1>2. ASSUME NEW r \in Req, AccountsStep(r), UNCHANGED <<boards, audit, faults, writers, missed>>
      PROVE  IInv'
  BY <1>2, AccountsKeep
<1>3. ASSUME NEW r \in Req, MayBegin(r), NEW u \in User, NEW d \in Dashboard, Request(r, u, d)
      PROVE  IInv'
  BY <1>3, RequestKeeps
<1>4. ASSUME NEW r \in Req, Commit(r) PROVE IInv'
  BY <1>4, CommitKeeps
<1>5. ASSUME NEW r \in Req,
             \/ record_audit(r) \/ audit_failed(r)
             \/ _publish_permission_change(r) \/ event_missed(r) \/ crash(r)
      PROVE  IInv'
  BY <1>5, TellKeeps
<1> QED
  BY <1>1, <1>2, <1>3, <1>4, <1>5 DEF Next

LEMMA Invariance == Spec => []IInv
<1>1. Init => IInv
  BY InitEstablishes
<1>2. IInv /\ [Next]_vars => IInv'
  BY StepKeeps
<1> QED
  BY <1>1, <1>2, PTL DEF Spec

-----------------------------------------------------------------------------
(* Theorems *)

\* However sign-ups, Google sign-ins, creations and changes of users interleave,
\* the executives are the accounts whose signup saw no user, all active, and
\* each brought one organisation (signup_user, create_user, update_user).
THEOREM ExecutivesAlwaysFounders == Spec => []ExecutivesAreFounders
<1>1. IInv => ExecutivesAreFounders
  BY DEF IInv
<1> QED
  BY <1>1, Invariance, PTL

\* The listing shows each user the dashboards a request of that user will be let
\* into, at the level it will be granted (list_viewable_dashboards against
\* get_effective_access), whatever the roles, owners and shares.
THEOREM ListingIsAlwaysAccess == Spec => []ListingIsAccess
<1>1. ASSUME TypeOK PROVE ListingIsAccess
  <2> SUFFICES ASSUME NEW u \in User, Exists(u), NEW d \in Dashboard, There(d)
               PROVE  /\ get_effective_access(u, d) # "none" <=>
                             \/ owner[d] = u
                             \/ get_permission(u, d) # NoShare
                             \/ user[owner[d]].role \in _lower_roles(u)
                      /\ get_effective_access(u, d) # "none" =>
                             Listed(u, d) = get_effective_access(u, d)
    BY DEF ListingIsAccess, list_viewable_dashboards, get_viewable_dashboard
  <2>1. owner[d] \in User /\ user[u] \in UserRow \ {NoUser} /\ user[owner[d]] \in UserRow
    BY <1>1 DEF TypeOK, There, Exists
  <2>2. share[<<u, d>>] \in Share
    BY <1>1 DEF TypeOK, Pair
  <2>3. user[owner[d]].role \in Roles_below(user[u].role) <=> user[owner[d]].role \in _lower_roles(u)
    <3>1. \A role \in Role : ROLE_RANK[role] \in Nat
      BY DEF Role, ROLE_RANK
    <3>2. user[u].role \in Role
      BY <2>1 DEF UserRow
    <3> QED
      BY <3>1, <3>2 DEF Roles_below, _lower_roles, Above
  <2>4. CASE owner[d] = u
    BY <2>4 DEF get_effective_access, Listed
  <2>5. CASE owner[d] # u /\ get_permission(u, d) # NoShare
    <3>1. get_permission(u, d).level \in {"read", "write"}
      BY <2>2, <2>5 DEF get_permission, Share, Level
    <3>2. get_effective_access(u, d) = get_permission(u, d).level
      BY <2>5 DEF get_effective_access
    <3> QED
      BY <2>5, <3>1, <3>2 DEF Listed
  <2>6. CASE owner[d] # u /\ get_permission(u, d) = NoShare
    <3>1. get_effective_access(u, d) =
              IF user[owner[d]].role \in Roles_below(user[u].role) THEN "read" ELSE "none"
      BY <2>6 DEF get_effective_access
    <3>2. Listed(u, d) = "read"
      BY <2>6 DEF Listed, NoShare
    <3> QED
      BY <2>3, <2>6, <3>1, <3>2
  <2> QED
    BY <2>4, <2>5, <2>6
<1>2. IInv => ListingIsAccess
  BY <1>1 DEF IInv
<1> QED
  BY <1>2, Invariance, PTL

\* Only those write whom a line of grants from the owner lets write: grants,
\* upgrades, revocations and deletions between the check and the commit of a
\* request add no one, and a widget's id reaches no other dashboard
\* (get_writable_dashboard, upsert_permission, update_widget).
THEOREM WritersAlwaysEntitled == Spec => []WritersAreEntitled
<1>1. IInv => WritersAreEntitled
  BY DEF IInv, WritersAreEntitled
<1> QED
  BY <1>1, Invariance, PTL

\* A client that got the events shows each grant as it is once the requests that
\* changed it are over, in whatever order they ended (_publish_permission_change
\* after the commit, the client fetching what is there).
THEOREM SharingAlwaysShown == Spec => []SharingIsShown
<1>1. IInv => SharingIsShown
  BY DEF IInv
<1> QED
  BY <1>1, Invariance, PTL

-----------------------------------------------------------------------------
(* The layout of a new dashboard *)

\* Induction over the natural numbers, for a set instead of a predicate.
LEMMA InductiveSet ==
    ASSUME NEW S, 0 \in S, \A n \in Nat : n \in S => n + 1 \in S
    PROVE  Nat \subseteq S
<1> DEFINE T == Nat \ S
           Less == {p \in Nat \X Nat : p[1] < p[2]}
<1> SUFFICES ASSUME T # {} PROVE FALSE
  OBVIOUS
<1>1. IsWellFoundedOn(Less, Nat)
  <2>1. Less = OpToRel(<, Nat)
    BY DEF OpToRel
  <2> QED
    BY <2>1, NatLessThanWellFounded, Zenon
<1>2. PICK x \in T : \A y \in T : ~(<<y, x>> \in Less)
  <2> HIDE DEF Less
  <2>1. T \in SUBSET Nat
    OBVIOUS
  <2> QED
    BY <1>1, <2>1, WFMin
<1>3. x \in Nat \ {0} /\ x - 1 \in Nat /\ x - 1 < x /\ (x - 1) + 1 = x
  OBVIOUS
<1>4. x - 1 \in S
  BY <1>2, <1>3
<1> QED
  BY <1>3, <1>4

\* There is a function that the recursion of Layouts describes.
LEMMA LayoutsByTurns ==
    ASSUME NEW kpis \in Seq(Kind)
    PROVE  Layouts(kpis) = [n \in 0 .. Len(kpis) |->
               IF n = 0 THEN Blank ELSE Place(Layouts(kpis)[n - 1], kpis[n])]
<1> DEFINE Is(f, m) == f = [n \in 0 .. m |-> IF n = 0 THEN Blank ELSE Place(f[n - 1], kpis[n])]
           S == {m \in Nat : \E f : Is(f, m)}
<1>1. 0 \in S
  <2>1. Is([n \in 0 .. 0 |-> Blank], 0)
    OBVIOUS
  <2> QED
    BY <2>1
<1>2. ASSUME NEW m \in Nat, m \in S PROVE m + 1 \in S
  <2>1. PICK f : Is(f, m)
    BY <1>2
  <2> DEFINE g == [n \in 0 .. m + 1 |-> IF n = m + 1 THEN Place(f[m], kpis[m + 1]) ELSE f[n]]
  <2>2. \A n \in 0 .. m : g[n] = f[n]
    OBVIOUS
  <2>3. ASSUME NEW n \in 0 .. m + 1
        PROVE  g[n] = IF n = 0 THEN Blank ELSE Place(g[n - 1], kpis[n])
    <3>1. CASE n = m + 1
      BY <3>1, <2>2
    <3>2. CASE n \in 0 .. m
      <4>1. f[n] = IF n = 0 THEN Blank ELSE Place(f[n - 1], kpis[n])
        BY <2>1, <3>2
      <4>2. n # 0 => g[n - 1] = f[n - 1]
        BY <2>2, <3>2
      <4> QED
        BY <2>2, <3>2, <4>1, <4>2
    <3> QED
      BY <3>1, <3>2
  <2>4. Is(g, m + 1)
    BY <2>3
  <2> HIDE DEF g, Is
  <2> QED
    BY <2>4
<1>3. Len(kpis) \in S
  <2> HIDE DEF S
  <2>1. Nat \subseteq S
    BY <1>1, <1>2, InductiveSet
  <2> QED
    BY <2>1
<1>4. \E f : Is(f, Len(kpis))
  BY <1>3
<1>5. Layouts(kpis) = CHOOSE f : Is(f, Len(kpis))
  BY DEF Layouts
<1> HIDE DEF Is
<1>6. Is(Layouts(kpis), Len(kpis))
  BY <1>4, <1>5
<1> QED
  BY <1>6 DEF Is

\* A widget, and a layout in the making.
Type == {"kpi_tile", "line_chart", "bar_chart"}
Placed == [type : Type, kind : Kind, x : 0 .. _GRID_COLS, y : Nat, w : {3, 6}, h : {3, 5}]
Layout == [placed : Seq(Placed), x : 0 .. _GRID_COLS, y : Nat, row_h : Nat, tiles : Nat,
           promoted : Nat]

\* A widget lies above the row, or in it and left of where the next one goes.
Packed(l, p) ==
    /\ p.x + p.w <= _GRID_COLS
    /\ p.y + p.h <= l.y + l.row_h
    /\ p.y + p.h <= l.y \/ (p.y = l.y /\ p.x + p.w <= l.x)
\* A chart nobody suggested comes after the tiles, in its turn.
InTurn(placed, i) ==
    /\ placed[i].type =
           IF Before(Promoted(placed), i) % 2 = 0 THEN "line_chart" ELSE "bar_chart"
    /\ Before(Tiles(placed), i) >= _TILE_QUOTA
Clean(l) ==
    /\ l \in Layout
    /\ \A i \in DOMAIN l.placed : Packed(l, l.placed[i])
    /\ \A i, j \in DOMAIN l.placed : i # j => Apart(l.placed[i], l.placed[j])
    /\ l.tiles = Cardinality(Tiles(l.placed)) /\ l.promoted = Cardinality(Promoted(l.placed))
    /\ \A i \in Promoted(l.placed) : InTurn(l.placed, i)

\* One more element, which is larger than all.
LEMMA OneMore ==
    ASSUME NEW n \in Nat, NEW S \in SUBSET (1 .. n), NEW T \in {S, S \cup {n + 1}}
    PROVE  /\ \A i \in 1 .. n : Before(T, i) = Before(S, i)
           /\ Before(T, n + 1) = Cardinality(S)
           /\ Cardinality(S) \in Nat
           /\ Cardinality(T) = Cardinality(S) + (IF T = S THEN 0 ELSE 1)
<1>0. T = S \/ T = S \cup {n + 1}
  OBVIOUS
<1>1. IsFiniteSet(S) /\ Cardinality(S) \in Nat
  <2>1. IsFiniteSet(1 .. n)
    BY FS_Interval
  <2>2. IsFiniteSet(S)
    BY <2>1, FS_Subset
  <2> QED
    BY <2>2, FS_CardinalityType
<1>2. \A i \in 1 .. n : {j \in T : j < i} = {j \in S : j < i}
  BY <1>0
<1>3. {j \in T : j < n + 1} = S
  <2>1. \A j \in S : j \in Nat /\ j < n + 1
    OBVIOUS
  <2>2. CASE T = S
    BY <2>1, <2>2
  <2>3. CASE T = S \cup {n + 1}
    <3>1. ASSUME NEW j \in T PROVE j < n + 1 <=> j \in S
      <4>1. j \in S \/ j = n + 1
        BY <2>3, <3>1
      <4> QED
        BY <2>1, <4>1
    <3>2. S \subseteq T
      BY <2>3
    <3> QED
      BY <3>1, <3>2
  <2> QED
    BY <1>0, <2>2, <2>3
<1>4. n + 1 \notin S
  OBVIOUS
<1>5. Cardinality(S \cup {n + 1}) = Cardinality(S) + 1
  BY <1>1, <1>4, FS_AddElement
<1>6. Cardinality(T) = Cardinality(S) + (IF T = S THEN 0 ELSE 1)
  <2>1. CASE T = S
    BY <1>1, <2>1
  <2>2. CASE T = S \cup {n + 1}
    BY <1>1, <1>4, <1>5, <2>2
  <2> QED
    BY <1>0, <2>1, <2>2
<1> QED
  BY <1>1, <1>2, <1>3, <1>6 DEF Before

\* What Place adds to a layout.
LEMMA WhatIsPlaced ==
    ASSUME NEW l \in Layout, NEW kind \in Kind
    PROVE  \E w \in Placed :
               LET m == Place(l, kind) IN
               /\ m.placed = Append(l.placed, w) /\ w.kind = kind
               /\ m \in Layout
               /\ w.type = _widget_type_for(kind, l.tiles, l.promoted)
               /\ m.y = w.y /\ m.x = w.x + w.w /\ m.x <= _GRID_COLS
               /\ m.row_h >= w.h
               /\ \/ w.y = l.y /\ w.x = l.x /\ m.row_h >= l.row_h
                  \/ w.y = l.y + l.row_h
               /\ m.tiles = l.tiles + (IF w.type = "kpi_tile" THEN 1 ELSE 0)
               /\ m.promoted = l.promoted
                      + (IF w.type # "kpi_tile" /\ w.kind = "series" THEN 1 ELSE 0)
<1> USE DEF _GRID_COLS
<1> DEFINE type == _widget_type_for(kind, l.tiles, l.promoted)
           size == Size(type)
           full == l.x + size.w > _GRID_COLS
           x == IF full THEN 0 ELSE l.x
           y == IF full THEN l.y + l.row_h ELSE l.y
           row_h == Taller(IF full THEN 0 ELSE l.row_h, size.h)
           w == [type |-> type, kind |-> kind, x |-> x, y |-> y, w |-> size.w, h |-> size.h]
           m == Place(l, kind)
<1>1. /\ l.x \in 0 .. 12 /\ l.y \in Nat /\ l.row_h \in Nat /\ l.tiles \in Nat /\ l.promoted \in Nat
      /\ l.placed \in Seq(Placed)
  BY DEF Layout, _GRID_COLS
<1>2. type \in Type /\ (type # "kpi_tile" => kind # "plain")
  <2>1. CASE kind = "line" \/ kind = "bar"
    BY <2>1 DEF _widget_type_for, Type
  <2>2. CASE kind = "series"
    BY <2>2, <1>1 DEF _widget_type_for, Type, _TILE_QUOTA
  <2>3. CASE kind = "plain"
    BY <2>3 DEF _widget_type_for, Type
  <2> QED
    BY <2>1, <2>2, <2>3 DEF Kind
<1>3. size.w \in {3, 6} /\ size.h \in {3, 5}
  BY DEF Size
<1> HIDE DEF type, size
<1>4. x \in 0 .. 12 /\ x + size.w \in 0 .. 12 /\ y \in Nat
  <2>1. full <=> l.x + size.w > 12
    OBVIOUS
  <2> HIDE DEF full
  <2>2. CASE full
    <3>1. x = 0 /\ y = l.y + l.row_h
      BY <2>2
    <3> HIDE DEF x, y
    <3> QED
      BY <1>1, <1>3, <3>1
  <2>3. CASE ~full
    <3>1. x = l.x /\ y = l.y
      BY <2>3
    <3>2. \A a \in 0 .. 12 : \A b \in {3, 6} : ~(a + b > 12) => a + b \in 0 .. 12
      OBVIOUS
    <3>3. l.x + size.w \in 0 .. 12
      BY <1>1, <1>3, <2>1, <2>3, <3>2
    <3> HIDE DEF x, y
    <3> QED
      BY <1>1, <3>1, <3>3
  <2> QED
    BY <2>2, <2>3
<1>5. row_h \in Nat /\ row_h >= size.h /\ (~full => row_h >= l.row_h)
  BY <1>1, <1>3 DEF Taller
<1>6. w \in Placed
  BY <1>1, <1>2, <1>3, <1>4 DEF Placed
<1>7. m = [placed |-> Append(l.placed, w), x |-> x + size.w, y |-> y, row_h |-> row_h,
           tiles |-> l.tiles + (IF type = "kpi_tile" THEN 1 ELSE 0),
           promoted |-> l.promoted
               + (IF type # "kpi_tile" /\ kind \notin {"line", "bar"} THEN 1 ELSE 0)]
  BY DEF Place, type, size
<1>8. w.y = y /\ w.x = x /\ w.w = size.w /\ w.h = size.h /\ w.type = type /\ w.kind = kind
  OBVIOUS
<1>9. Append(l.placed, w) \in Seq(Placed)
  BY <1>1, <1>6
<1>10. \/ y = l.y /\ x = l.x /\ row_h >= l.row_h
       \/ y = l.y + l.row_h
  BY <1>5
<1> HIDE DEF full, x, y, row_h, w, m
<1>11. m \in Layout
  <2>1. x + size.w \in 0 .. _GRID_COLS
    BY <1>4
  <2>2. /\ l.tiles + (IF type = "kpi_tile" THEN 1 ELSE 0) \in Nat
        /\ l.promoted + (IF type # "kpi_tile" /\ kind \notin {"line", "bar"} THEN 1 ELSE 0) \in Nat
    BY <1>1
  <2> QED
    BY <1>4, <1>5, <1>7, <1>9, <2>1, <2>2 DEF Layout
<1>12. kind \notin {"line", "bar"} <=> kind \in {"series", "plain"}
  BY DEF Kind
<1>13. m.placed = Append(l.placed, w) /\ m.y = y /\ m.x = x + size.w /\ m.row_h = row_h
  BY <1>7
<1>14. /\ m.tiles = l.tiles + (IF w.type = "kpi_tile" THEN 1 ELSE 0)
       /\ m.promoted = l.promoted
              + (IF w.type # "kpi_tile" /\ w.kind = "series" THEN 1 ELSE 0)
  <2>1. m.tiles = l.tiles + (IF type = "kpi_tile" THEN 1 ELSE 0)
    BY <1>7
  <2>2. m.promoted = l.promoted
            + (IF type # "kpi_tile" /\ kind \notin {"line", "bar"} THEN 1 ELSE 0)
    BY <1>7
  <2>3. type # "kpi_tile" => (kind \notin {"line", "bar"} <=> kind = "series")
    BY <1>2, <1>12
  <2> QED
    BY <1>8, <2>1, <2>2, <2>3
<1>15. /\ m.placed = Append(l.placed, w) /\ w.kind = kind
       /\ m \in Layout
       /\ w.type = type
       /\ m.y = w.y /\ m.x = w.x + w.w /\ m.x <= _GRID_COLS
       /\ m.row_h >= w.h
       /\ \/ w.y = l.y /\ w.x = l.x /\ m.row_h >= l.row_h
          \/ w.y = l.y + l.row_h
  <2>1. m.x <= _GRID_COLS
    BY <1>4, <1>13
  <2> QED
    BY <1>5, <1>8, <1>10, <1>11, <1>13, <2>1
<1> QED
  BY <1>6, <1>14, <1>15 DEF m, type

LEMMA LayoutTypes ==
    ASSUME NEW l \in Layout
    PROVE  /\ l.placed \in Seq(Placed) /\ l.x \in Nat /\ l.y \in Nat /\ l.row_h \in Nat
           /\ l.tiles \in Nat /\ l.promoted \in Nat
<1>1. /\ l.placed \in Seq(Placed) /\ l.x \in 0 .. 12 /\ l.y \in Nat /\ l.row_h \in Nat
      /\ l.tiles \in Nat /\ l.promoted \in Nat
  BY DEF Layout, _GRID_COLS
<1> QED
  BY <1>1

LEMMA WidgetFacts ==
    ASSUME NEW p \in Placed
    PROVE  p.x \in Nat /\ p.y \in Nat /\ p.w \in Nat /\ p.h \in Nat
BY DEF Placed, _GRID_COLS

\* The next widget overlaps none of those that are there, and is itself packed.
LEMMA NextIsApart ==
    ASSUME NEW l \in Layout, NEW m \in Layout, NEW p \in Placed, NEW w \in Placed,
           Packed(l, p),
           m.y = w.y /\ m.x = w.x + w.w /\ m.x <= _GRID_COLS /\ m.row_h >= w.h,
           \/ w.y = l.y /\ w.x = l.x /\ m.row_h >= l.row_h
           \/ w.y = l.y + l.row_h
    PROVE  Packed(m, p) /\ Packed(m, w) /\ Apart(p, w) /\ Apart(w, p)
<1>1. /\ l.x \in Nat /\ l.y \in Nat /\ l.row_h \in Nat
      /\ m.x \in Nat /\ m.y \in Nat /\ m.row_h \in Nat
  BY LayoutTypes
<1>2. /\ p.x \in Nat /\ p.y \in Nat /\ p.w \in Nat /\ p.h \in Nat
      /\ w.x \in Nat /\ w.y \in Nat /\ w.w \in Nat /\ w.h \in Nat
  BY WidgetFacts
<1>3. Packed(m, w)
  BY <1>1, <1>2 DEF Packed
<1>4. CASE w.y = l.y /\ w.x = l.x /\ m.row_h >= l.row_h
  <2>1. p.y + p.h <= m.y + m.row_h
    BY <1>1, <1>2, <1>4 DEF Packed
  <2>2. p.y + p.h <= w.y \/ (p.y = w.y /\ p.x + p.w <= w.x)
    BY <1>4 DEF Packed
  <2>3. p.y + p.h <= m.y \/ (p.y = m.y /\ p.x + p.w <= m.x)
    BY <1>1, <1>2, <2>2
  <2>4. Packed(m, p)
    BY <2>1, <2>3 DEF Packed
  <2> QED
    BY <1>3, <2>2, <2>4 DEF Apart
<1>5. CASE w.y = l.y + l.row_h
  <2>1. p.y + p.h <= w.y
    BY <1>5 DEF Packed
  <2>2. Packed(m, p)
    BY <1>1, <1>2, <2>1 DEF Packed
  <2> QED
    BY <1>3, <2>1, <2>2 DEF Apart
<1> QED
  BY <1>4, <1>5

\* The loop keeps the layout clean.
LEMMA PlaceKeepsClean ==
    ASSUME NEW l, Clean(l), NEW kind \in Kind
    PROVE  Clean(Place(l, kind))
<1> DEFINE m == Place(l, kind)
           n == Len(l.placed)
           T == Tiles(m.placed)
           P == Promoted(m.placed)
<1>1. l \in Layout /\ l.placed \in Seq(Placed)
  BY LayoutTypes DEF Clean
<1>2. PICK w \in Placed :
          /\ m.placed = Append(l.placed, w) /\ w.kind = kind
          /\ m \in Layout
          /\ w.type = _widget_type_for(kind, l.tiles, l.promoted)
          /\ m.y = w.y /\ m.x = w.x + w.w /\ m.x <= _GRID_COLS
          /\ m.row_h >= w.h
          /\ \/ w.y = l.y /\ w.x = l.x /\ m.row_h >= l.row_h
             \/ w.y = l.y + l.row_h
          /\ m.tiles = l.tiles + (IF w.type = "kpi_tile" THEN 1 ELSE 0)
          /\ m.promoted = l.promoted
                 + (IF w.type # "kpi_tile" /\ w.kind = "series" THEN 1 ELSE 0)
  BY <1>1, WhatIsPlaced
<1> HIDE DEF m
<1>3. /\ n \in Nat /\ DOMAIN l.placed = 1 .. n /\ DOMAIN m.placed = 1 .. n + 1
      /\ m.placed[n + 1] = w
      /\ \A i \in 1 .. n : m.placed[i] = l.placed[i] /\ l.placed[i] \in Placed
  <2>1. ASSUME NEW s \in Seq(Placed)
        PROVE  /\ Len(s) \in Nat /\ DOMAIN s = 1 .. Len(s)
               /\ DOMAIN Append(s, w) = 1 .. Len(s) + 1
               /\ Append(s, w)[Len(s) + 1] = w
               /\ \A i \in 1 .. Len(s) : Append(s, w)[i] = s[i] /\ s[i] \in Placed
    OBVIOUS
  <2> QED
    BY <1>1, <1>2, <2>1
<1> HIDE DEF n
<1>4. 1 .. n + 1 = (1 .. n) \cup {n + 1}
  BY <1>3
<1>5. \A i \in 1 .. n : Packed(l, l.placed[i])
  BY <1>3 DEF Clean
<1>6. \A i \in 1 .. n :
          /\ Packed(m, m.placed[i]) /\ Packed(m, w)
          /\ Apart(m.placed[i], w) /\ Apart(w, m.placed[i])
  BY <1>1, <1>2, <1>3, <1>5, NextIsApart
<1>7. Packed(m, w)
  <2>1. /\ w.x \in Nat /\ w.y \in Nat /\ w.w \in Nat /\ w.h \in Nat
        /\ m.x \in Nat /\ m.y \in Nat /\ m.row_h \in Nat
    BY <1>2, WidgetFacts DEF Layout, _GRID_COLS
  <2> QED
    BY <1>2, <2>1 DEF Packed
<1>8. \A i \in DOMAIN m.placed : Packed(m, m.placed[i])
  BY <1>3, <1>4, <1>6, <1>7
<1>9. ASSUME NEW i \in DOMAIN m.placed, NEW j \in DOMAIN m.placed, i # j
      PROVE  Apart(m.placed[i], m.placed[j])
  <2>1. CASE i \in 1 .. n /\ j \in 1 .. n
    BY <1>3, <1>9, <2>1 DEF Clean
  <2>2. CASE i = n + 1 /\ j \in 1 .. n
    BY <1>3, <1>6, <2>2
  <2>3. CASE i \in 1 .. n /\ j = n + 1
    BY <1>3, <1>6, <2>3
  <2> QED
    BY <1>3, <1>4, <1>9, <2>1, <2>2, <2>3
<1>10. /\ Tiles(l.placed) \in SUBSET (1 .. n)
       /\ T = IF w.type = "kpi_tile" THEN Tiles(l.placed) \cup {n + 1} ELSE Tiles(l.placed)
  <2>1. Tiles(l.placed) = {i \in 1 .. n : l.placed[i].type = "kpi_tile"}
    BY <1>3 DEF Tiles
  <2>2. T = {i \in 1 .. n + 1 : m.placed[i].type = "kpi_tile"}
    BY <1>3 DEF Tiles
  <2> QED
    BY <1>3, <1>4, <2>1, <2>2
<1>11. /\ Promoted(l.placed) \in SUBSET (1 .. n)
       /\ P = IF w.type # "kpi_tile" /\ w.kind = "series"
              THEN Promoted(l.placed) \cup {n + 1} ELSE Promoted(l.placed)
  <2>1. Promoted(l.placed) = {i \in 1 .. n : l.placed[i].kind = "series"
                                             /\ l.placed[i].type # "kpi_tile"}
    BY <1>3 DEF Promoted, Tiles
  <2>2. P = {i \in 1 .. n + 1 : m.placed[i].kind = "series" /\ m.placed[i].type # "kpi_tile"}
    BY <1>3 DEF Promoted, Tiles
  <2> QED
    BY <1>3, <1>4, <2>1, <2>2
<1> HIDE DEF T, P
<1>12. /\ \A i \in 1 .. n : Before(T, i) = Before(Tiles(l.placed), i)
       /\ Before(T, n + 1) = Cardinality(Tiles(l.placed))
       /\ Cardinality(T) = Cardinality(Tiles(l.placed))
              + (IF T = Tiles(l.placed) THEN 0 ELSE 1)
  BY <1>3, <1>10, OneMore
<1>13. /\ \A i \in 1 .. n : Before(P, i) = Before(Promoted(l.placed), i)
       /\ Before(P, n + 1) = Cardinality(Promoted(l.placed))
       /\ Cardinality(P) = Cardinality(Promoted(l.placed))
              + (IF P = Promoted(l.placed) THEN 0 ELSE 1)
  BY <1>3, <1>11, OneMore
<1>14. /\ l.tiles = Cardinality(Tiles(l.placed)) /\ l.promoted = Cardinality(Promoted(l.placed))
       /\ l.tiles \in Nat /\ l.promoted \in Nat
  BY <1>1, LayoutTypes DEF Clean
<1>15. n + 1 \notin 1 .. n
  BY <1>3
<1>16. m.tiles = Cardinality(T)
  BY <1>2, <1>10, <1>12, <1>14, <1>15
<1>17. m.promoted = Cardinality(P)
  BY <1>2, <1>11, <1>13, <1>14, <1>15
<1>18. ASSUME NEW i \in P PROVE InTurn(m.placed, i)
  <2>1. CASE i \in Promoted(l.placed)
    <3>1. i \in 1 .. n /\ InTurn(l.placed, i)
      BY <1>11, <2>1 DEF Clean
    <3>2. m.placed[i] = l.placed[i]
      BY <1>3, <3>1
    <3>3. Before(T, i) = Before(Tiles(l.placed), i)
          /\ Before(P, i) = Before(Promoted(l.placed), i)
      BY <1>12, <1>13, <3>1
    <3> QED
      BY <3>1, <3>2, <3>3 DEF InTurn, T, P
  <2>2. CASE i = n + 1 /\ w.type # "kpi_tile" /\ w.kind = "series"
    <3>1. w.type = _widget_type_for("series", l.tiles, l.promoted)
      BY <1>2, <2>2
    <3>2. l.tiles >= _TILE_QUOTA
          /\ w.type = IF l.promoted % 2 = 1 THEN "bar_chart" ELSE "line_chart"
      BY <1>14, <2>2, <3>1 DEF _widget_type_for, _TILE_QUOTA
    <3>3. Before(T, i) = l.tiles /\ Before(P, i) = l.promoted
      BY <1>12, <1>13, <1>14, <2>2
    <3>4. l.promoted % 2 \in {0, 1}
      BY <1>14
    <3>5. m.placed[i] = w
      BY <1>3, <2>2
    <3> QED
      BY <3>2, <3>3, <3>4, <3>5 DEF InTurn, T, P
  <2> QED
    BY <1>11, <1>18, <2>1, <2>2
<1> QED
  BY <1>2, <1>8, <1>9, <1>16, <1>17, <1>18 DEF Clean, T, P, m

LEMMA BlankIsClean == Clean(Blank)
<1>1. Blank.placed = << >> /\ DOMAIN Blank.placed = {}
  BY DEF Blank
<1>2. Tiles(Blank.placed) = {} /\ Promoted(Blank.placed) = {}
  BY <1>1 DEF Tiles, Promoted
<1>3. Cardinality({}) = 0
  BY FS_EmptySet
<1>4. Blank \in Layout
  BY DEF Blank, Layout, _GRID_COLS
<1>5. Blank.tiles = 0 /\ Blank.promoted = 0
  BY DEF Blank
<1> QED
  BY <1>1, <1>2, <1>3, <1>4, <1>5 DEF Clean

LEMMA EveryLayoutIsClean == ASSUME NEW kpis \in Seq(Kind) PROVE LayoutIsClean(kpis)
<1> DEFINE f == Layouts(kpis)
           N == Len(kpis)
           S == {n \in Nat : n <= N => Clean(f[n])}
<1>1. N \in Nat /\ \A n \in 1 .. N : kpis[n] \in Kind
  OBVIOUS
<1>2. f = [n \in 0 .. N |-> IF n = 0 THEN Blank ELSE Place(f[n - 1], kpis[n])]
  BY LayoutsByTurns
<1> HIDE DEF f, N
<1>3. 0 \in S
  <2>1. f[0] = Blank
    BY <1>1, <1>2
  <2> QED
    BY <1>1, <2>1, BlankIsClean
<1>4. ASSUME NEW n \in Nat, n \in S PROVE n + 1 \in S
  <2> SUFFICES ASSUME n + 1 <= N PROVE Clean(f[n + 1])
    OBVIOUS
  <2>1. n + 1 \in 0 .. N /\ n + 1 # 0 /\ (n + 1) - 1 = n /\ n <= N /\ n + 1 \in 1 .. N
    BY <1>1
  <2>2. f[n + 1] = Place(f[n], kpis[n + 1])
    BY <1>2, <2>1
  <2>3. Clean(f[n]) /\ kpis[n + 1] \in Kind
    BY <1>1, <1>4, <2>1
  <2> QED
    BY <2>2, <2>3, PlaceKeepsClean
<1>5. N \in S
  <2> HIDE DEF S
  <2>1. Nat \subseteq S
    BY <1>3, <1>4, InductiveSet
  <2> QED
    BY <1>1, <2>1
<1>6. Clean(f[N])
  BY <1>1, <1>5
<1>7. f[N].placed = _preconfigure_widgets(kpis)
  BY DEF _preconfigure_widgets, f, N
<1> HIDE DEF S
<1> QED
  BY <1>6, <1>7 DEF Clean, LayoutIsClean, InTurn, Packed

\* However many certified KPIs a new dashboard is made from and whatever kinds
\* they are, its widgets lie in the grid, no two overlap, and the charts nobody
\* suggested come after three tiles and in turn (_preconfigure_widgets in
\* services/dashboard_service.py).
THEOREM LayoutsAlwaysClean == Spec => []LayoutsAreClean
<1>1. LayoutsAreClean
  BY EveryLayoutIsClean, LayoutAssumption DEF LayoutsAreClean
<1> QED
  BY <1>1, PTL
=============================================================================
