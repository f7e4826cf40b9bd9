------------------------------ MODULE LiveFeeds ------------------------------
(***************************************************************************)
(* The readers that tail the event streams without a consumer group: the   *)
(* notification fan-out (services/notification_fanout.py) and the two      *)
(* server-sent event endpoints (GET /insights/stream, /dashboards/stream). *)
(*                                                                         *)
(* Each keeps its own position per stream, "$" until the first message of  *)
(* that stream, and calls XREAD with it over and over.  "$" means the end  *)
(* of the stream at the moment of the call, so it moves while the reader   *)
(* is between two calls.  The fan-out turns a message into one bell row    *)
(* per user of the target roles, each in a commit of its own; an endpoint  *)
(* pushes it to its client.                                                *)
(***************************************************************************)
EXTENDS Naturals, Sequences, FiniteSets, SequencesExt

Role == {"executive", "manager", "analyst"}

CONSTANTS
    Feed,        \* event types
    Reader,      \* the fan-out and the open connections
    Fanout,      \* which readers write bell rows
    Watches,     \* the streams each reader asks for
    User,
    RoleOf,      \* the role each user starts with
    ReadCount,   \* messages of one stream that a read returns at most
    MaxMessages, \* bound: messages ever published on a stream
    MaxStarts,   \* bound: times readers start
    MaxUpdates,  \* bound: changes of accounts
    MaxFaults    \* bound: database failures while bell rows are written

ASSUME FeedAssumption ==
    /\ Fanout \subseteq Reader
    /\ \A a, b \in Fanout : a = b  \* the one of the application's lifespan
    /\ Watches \in [Reader -> SUBSET Feed]
    /\ \A r \in Reader : IsFiniteSet(Watches[r])
    /\ RoleOf \in [User -> Role]
    /\ ReadCount \in Nat \ {0}
    /\ {MaxMessages, MaxStarts, MaxUpdates, MaxFaults} \subseteq Nat

VARIABLES
    published, \* messages on each stream, numbered from 1
    reader,    \* each reader: what it does, its positions, the rest of its response
    got,       \* history: messages of each stream a reader has taken since it started
    account,   \* users: role, and whether active
    bells,     \* notification rows of each user, in the order of created_at
    starts, updates, faults

feedVars == <<published, reader, got, account, bells, starts, updates, faults>>

\* _build_notification: the roles an event is for.
TargetRoles ==
    [insight_detected           |-> {"executive", "manager", "analyst"},
     kpi_generated              |-> {"analyst", "manager"},
     kpi_pending_review         |-> {"analyst"},
     kpi_certified              |-> {"analyst"},
     kpi_rejected               |-> {"analyst"},
     dataset_quarantined        |-> {"analyst", "manager"},
     decision_made              |-> {"executive", "manager"},
     decision_approval_required |-> {"executive", "manager"},
     approval_overdue           |-> {"manager", "executive"}]

Event == Feed \X (1 .. MaxMessages)
\* What a response has of one stream: the messages from next to last.
Block == [feed : Feed, next : 1 .. MaxMessages, last : 1 .. MaxMessages]
End == 0  \* the position "$"; a message that has been read has a positive one

FeedsTypeOK ==
    /\ published \in [Feed -> 0 .. MaxMessages]
    /\ reader \in [Reader ->
           [state : {"stopped", "between", "blocked", "reading", "writing"},
            pos   : [Feed -> 0 .. MaxMessages], batch : Seq(Block), left : SUBSET User]]
    /\ got \in [Reader -> [Feed -> Seq(1 .. MaxMessages)]]
    /\ account \in [User -> [role : Role, active : BOOLEAN]]
    /\ bells \in [User -> Seq(Event)]
    /\ starts \in 0 .. MaxStarts /\ updates \in 0 .. MaxUpdates
    /\ faults \in 0 .. MaxFaults

Stopped == [state |-> "stopped", pos |-> [f \in Feed |-> End], batch |-> <<>>, left |-> {}]

NothingGot == [f \in Feed |-> <<>>]

FeedsInit ==
    /\ published = [f \in Feed |-> 0]
    /\ reader = [r \in Reader |-> Stopped]
    /\ got = [r \in Reader |-> NothingGot]
    /\ account = [u \in User |-> [role |-> RoleOf[u], active |-> TRUE]]
    /\ bells = [u \in User |-> <<>>]
    /\ starts = 0 /\ updates = 0
    /\ faults = 0

-----------------------------------------------------------------------------
(* Redis *)

Is(r, state) == reader[r].state = state
Has(p) == p # End

\* Where a read starts: "$" is the end of the stream as it is now.
Resolved(r, f) == IF Has(reader[r].pos[f]) THEN reader[r].pos[f] ELSE published[f]

\* What a read returns: per stream the next ReadCount messages, streams in any order.
NextBlock(r, f) ==
    [feed |-> f, next |-> Resolved(r, f) + 1,
     last |-> IF published[f] - Resolved(r, f) < ReadCount THEN published[f]
              ELSE Resolved(r, f) + ReadCount]
Ready(r) == {f \in Watches[r] : Resolved(r, f) < published[f]}
Responses(r) ==
    {[i \in DOMAIN order |-> NextBlock(r, order[i])] : order \in SetToSeqs(Ready(r))}

\* AgentPublisher.publish.  A reader blocked on the stream gets the message.
publish_event(f) ==
    /\ published[f] < MaxMessages
    /\ published' = [published EXCEPT ![f] = @ + 1]
    /\ reader' = [r \in Reader |->
           IF Is(r, "blocked") /\ f \in Watches[r]
           THEN [reader[r] EXCEPT !.state = "reading",
                                  !.batch = <<[feed |-> f, next |-> published[f] + 1,
                                               last |-> published[f] + 1]>>]
           ELSE reader[r]]
    /\ UNCHANGED <<got, account, bells, starts, updates, faults>>

-----------------------------------------------------------------------------
(* A reader *)

\* The application starts, or a client connects: every position is "$".
start(r) ==
    /\ Is(r, "stopped")
    /\ starts < MaxStarts
    /\ starts' = starts + 1
    /\ reader' = [reader EXCEPT ![r] = [Stopped EXCEPT !.state = "between"]]
    /\ got' = [got EXCEPT ![r] = NothingGot]
    /\ UNCHANGED <<published, account, bells, updates, faults>>

xread(r) ==
    /\ Is(r, "between")
    /\ \E response \in Responses(r) :
           reader' = [reader EXCEPT ![r] =
               [@ EXCEPT !.state = IF response = <<>> THEN "blocked" ELSE "reading",
                         !.batch = response]]
    /\ UNCHANGED <<published, got, account, bells, starts, updates, faults>>

\* The block times out or the broker fails; both only lead to the next call.
block_ends(r) ==
    /\ Is(r, "blocked")
    /\ reader' = [reader EXCEPT ![r].state = "between"]
    /\ UNCHANGED <<published, got, account, bells, starts, updates, faults>>

\* The message in hand is the next one of the first block.
Hand(r) == reader[r].batch[1]
Advance(rd) == [rd EXCEPT !.pos[rd.batch[1].feed] = rd.batch[1].next]
Take(r) == got' = [got EXCEPT ![r][Hand(r).feed] = Append(@, Hand(r).next)]

\* After it the loop goes on with the block, the response, or the next call.
Remaining(batch) ==
    IF batch[1].next < batch[1].last THEN [batch EXCEPT ![1].next = @ + 1] ELSE Tail(batch)
Rest(rd) ==
    [rd EXCEPT !.batch = Remaining(@),
               !.left  = {},
               !.state = IF Remaining(rd.batch) = <<>> THEN "between" ELSE "reading"]

Targets(f) == {u \in User : account[u].role \in TargetRoles[f] /\ account[u].active}

\* An endpoint moves its position and pushes the message.
push(r) ==
    /\ r \notin Fanout
    /\ Is(r, "reading")
    /\ Take(r)
    /\ reader' = [reader EXCEPT ![r] = Rest(Advance(@))]
    /\ UNCHANGED <<published, account, bells, starts, updates, faults>>

\* The fan-out moves its position and loads the users to notify; the rows are
\* written by a thread while the loop waits.
write_notifications(r) ==
    LET to == Targets(Hand(r).feed)
    IN  /\ r \in Fanout
        /\ Is(r, "reading")
        /\ Take(r)
        /\ reader' = [reader EXCEPT ![r] =
               IF to = {} THEN Rest(Advance(@))
               ELSE [Advance(@) EXCEPT !.state = "writing", !.left = to]]
        /\ UNCHANGED <<published, account, bells, starts, updates, faults>>

\* The row of one more user is written; after the last one the loop goes on.
Rung(rd, u) == IF rd.left = {u} THEN Rest(rd) ELSE [rd EXCEPT !.left = @ \ {u}]
Ring(u, r) == bells' = [bells EXCEPT ![u] = Append(@, <<Hand(r).feed, Hand(r).next>>)]

create_notification_first(r) == \* mutant: the loop over the users ends after one
    /\ Is(r, "writing")
    /\ \E u \in reader[r].left :
           /\ Ring(u, r)
           /\ reader' = [reader EXCEPT ![r] = Rest(@)]
    /\ UNCHANGED <<published, got, account, starts, updates, faults>>

\* One row for one of the users, committed on its own.
create_notification(r) ==
    /\ Is(r, "writing")
    /\ \E u \in reader[r].left :
           /\ Ring(u, r)
           /\ reader' = [reader EXCEPT ![r] = Rung(@, u)]
    /\ UNCHANGED <<published, got, account, starts, updates, faults>>

write_fails_retried(r) == \* mutant: the event is tried again after a failure
    /\ faults < MaxFaults
    /\ Is(r, "writing")
    /\ faults' = faults + 1
    /\ reader' = [reader EXCEPT ![r] = [@ EXCEPT !.state = "reading", !.left = {}]]
    /\ UNCHANGED <<published, got, account, bells, starts, updates>>

\* A failure is logged and ends the event; the rows committed so far stay.
write_fails(r) ==
    /\ faults < MaxFaults
    /\ Is(r, "writing")
    /\ faults' = faults + 1
    /\ reader' = [reader EXCEPT ![r] = Rest(@)]
    /\ UNCHANGED <<published, got, account, bells, starts, updates>>

\* The client goes away or the application stops; the response is dropped.
stop(r) ==
    /\ ~Is(r, "stopped")
    /\ reader' = [reader EXCEPT ![r] = Stopped]
    /\ UNCHANGED <<published, got, account, bells, starts, updates, faults>>

\* An executive changes the role of a user below, or closes or reopens the
\* account.
update_user(u) ==
    /\ updates < MaxUpdates
    /\ account[u].role # "executive"
    /\ updates' = updates + 1
    /\ \E to \in {"manager", "analyst"}, active \in BOOLEAN :
           account' = [account EXCEPT ![u] = [role |-> to, active |-> active]]
    /\ UNCHANGED <<published, reader, got, bells, starts, faults>>

-----------------------------------------------------------------------------
Loop(r) ==
    \/ xread(r) \/ push(r)
    \/ write_notifications(r) \/ create_notification(r)

FeedsNext ==
    \/ \E f \in Feed : publish_event(f)
    \/ \E r \in Reader : start(r) \/ Loop(r) \/ block_ends(r) \/ write_fails(r) \/ stop(r)
    \/ \E u \in User : update_user(u)

FeedsSpec == FeedsInit /\ [][FeedsNext]_feedVars

\* A reader that runs goes on reading; nobody has to publish, start or stop.
FairFeedsSpec == FeedsSpec /\ \A r \in Reader : WF_feedVars(Loop(r))

-----------------------------------------------------------------------------
(* Properties *)

\* From the first message of a stream that a reader gets, it gets every one of
\* that stream, once and in order, whatever times out or fails in between.
TailIsGapless ==
    \A r \in Reader, f \in Feed :
        LET t == got[r][f]
        IN  /\ \A i \in DOMAIN t : t[i] = t[1] + i - 1
            /\ ~Is(r, "stopped") => reader[r].pos[f] = (IF t = <<>> THEN End ELSE t[Len(t)])

\* A user has one bell row per event at most, and those of one event type in
\* the order of the events, also when the fan-out is restarted half-way
\* through an event.
BellsOnceInOrder ==
    \A u \in User : \A i, j \in DOMAIN bells[u] :
        i < j /\ bells[u][i][1] = bells[u][j][1] => bells[u][i][2] < bells[u][j][2]

\* Readers lose and repeat nothing of what they follow, and nobody is rung twice.
FeedsAreSound == FeedsTypeOK /\ TailIsGapless /\ BellsOnceInOrder

\* Once the fan-out has had a first event of a type, every later one comes to
\* ring for each active user of its roles, while no write fails, no account
\* changes and the fan-out does not end.
Owed(r, f) ==
    {<<f, n>> : n \in {k \in 1 .. published[f] : \E m \in Range(got[r][f]) : m <= k}}
AudienceIsNotified ==
    \A r \in Fanout :
        []<>(\/ Is(r, "stopped") \/ faults > 0 \/ updates > 0
             \/ \A f \in Feed : \A u \in Targets(f) : Owed(r, f) \subseteq Range(bells[u]))

\* "Only events produced after this connection opens": a message published
\* after a reader has blocked on its streams is never behind it unread.
NothingMissed ==
    \A r \in Reader, f \in Feed, n \in 1 .. MaxMessages :
        [](Is(r, "blocked") /\ f \in Watches[r] /\ published[f] < n =>
           [](~Is(r, "stopped") /\ n <= published[f] /\ n <= Resolved(r, f) =>
              \/ n \in Range(got[r][f])
              \/ \E b \in Range(reader[r].batch) : b.feed = f /\ n \in b.next .. b.last))
=============================================================================
