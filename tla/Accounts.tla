------------------------------ MODULE Accounts ------------------------------
(***************************************************************************)
(* Users and roles (services/auth_service.py, services/user_service.py):   *)
(* who signs up, signs in with Google, is created or changed by an         *)
(* executive.  A request reads and checks, then commits; what it read may  *)
(* be old by then.  A user is named by the e-mail address, which the       *)
(* database keeps unique; passwords and tokens are left out, a token only  *)
(* names the user that every request reads again.                          *)
(***************************************************************************)
EXTENDS Naturals, FiniteSets

CONSTANTS
    User,       \* e-mail addresses
    Req,        \* requests that can run at the same time
    MaxStarts   \* bound: requests

ASSUME AccountsAssumption == MaxStarts \in Nat

VARIABLES
    user,      \* the row of each address: role and is_active
    orgs,      \* number of org_settings rows
    job,       \* the request in each slot
    starts,
    founders   \* history: accounts whose signup saw no user

accounts == <<user, orgs, founders>>

Role == {"executive", "manager", "analyst"}
ROLE_RANK == [executive |-> 0, manager |-> 1, analyst |-> 2]
NoUser == [role |-> "none", active |-> FALSE]
UserRow == [role : Role, active : BOOLEAN] \cup {NoUser}

Idle == [op |-> "none", pc |-> "idle"]

Exists(u) == user[u] # NoUser
has_any_user == \E u \in User : Exists(u)
\* get_current_user: the token's user is read again, and must be active.
get_current_user(u) == user[u].active
require_executive(u) == get_current_user(u) /\ user[u].role = "executive"

\* ROLE_RANK[senior] < ROLE_RANK[junior]
Above(senior, junior) == ROLE_RANK[senior] < ROLE_RANK[junior]
\* mutant: the own level is allowed
Roles_below_own(role) == {r \in Role : ~Above(r, role)}
Roles_below(role) == {r \in Role : Above(role, r)}

At(r, pc) == job[r].pc = pc
MayBegin(r) == At(r, "idle") /\ starts < MaxStarts
Begin(r, request) ==
    /\ MayBegin(r)
    /\ starts' = starts + 1
    /\ job' = [job EXCEPT ![r] = request]
    /\ UNCHANGED accounts
Finish(r) == job' = [job EXCEPT ![r] = Idle] /\ UNCHANGED starts
Enter(u, role, first) ==
    [op |-> "enter", pc |-> "account", who |-> u, role |-> role, first |-> first]

\* The address is free, and the first user of all gets the organisation.
signup_user(r, u) ==
    /\ ~Exists(u)
    /\ Begin(r, Enter(u, IF has_any_user THEN "analyst" ELSE "executive", ~has_any_user))

\* No account for this Google subject, and none for its address.
login_with_google(r, u) ==
    /\ ~Exists(u)
    /\ Begin(r, Enter(u, "analyst", FALSE))

create_user(r, actor, u) ==
    /\ require_executive(actor)
    /\ ~Exists(u)
    /\ \E role \in Roles_below(user[actor].role) : Begin(r, Enter(u, role, FALSE))

\* The account and, for the first, the organisation, in one commit; the unique
\* address refuses both.
insert_user(r) ==
    LET u == job[r].who
    IN  /\ At(r, "account") /\ job[r].op = "enter"
        /\ IF Exists(u)
           THEN UNCHANGED accounts
           ELSE /\ user' = [user EXCEPT ![u] = [role |-> job[r].role, active |-> TRUE]]
                /\ orgs' = IF job[r].first THEN orgs + 1 ELSE orgs
                /\ founders' = IF job[r].first THEN founders \cup {u} ELSE founders
        /\ Finish(r)

\* Someone else, of a lower role, gets a lower role, or is switched on or off.
update_user(r, actor, u) ==
    /\ require_executive(actor)
    /\ u # actor /\ Exists(u)
    /\ user[u].role \in Roles_below(user[actor].role)
    /\ \E role \in Roles_below(user[actor].role) \cup {user[u].role}, active \in BOOLEAN :
           Begin(r, [op |-> "change", pc |-> "account", who |-> u, role |-> role,
                     active |-> active])

store_user(r) ==
    /\ At(r, "account") /\ job[r].op = "change"
    /\ user' = [user EXCEPT ![job[r].who] = [role |-> job[r].role, active |-> job[r].active]]
    /\ Finish(r)
    /\ UNCHANGED <<orgs, founders>>

AccountsStep(r) ==
    \/ /\ MayBegin(r)
       /\ \/ \E u \in User : signup_user(r, u) \/ login_with_google(r, u)
          \/ \E actor, u \in User : create_user(r, actor, u) \/ update_user(r, actor, u)
    \/ insert_user(r) \/ store_user(r)

-----------------------------------------------------------------------------
\* Executives are founders: no sequence of sign-ups, Google sign-ins, creations
\* and changes, whoever makes them, yields an executive, or takes one away,
\* but a signup that saw no user; each founder brought one organisation.
\* (Two can: both see no user before either commits.)
ExecutivesAreFounders ==
    /\ {u \in User : user[u].role = "executive"} = founders
    /\ \A u \in founders : user[u].active
    /\ orgs = Cardinality(founders)
=============================================================================
