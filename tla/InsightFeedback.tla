--------------------------- MODULE InsightFeedback ---------------------------
(***************************************************************************)
(* The insights of one KPI and what users think of them: detection         *)
(* (services/insight_service.py), thumbs up and down with their bell rows  *)
(* and the suppression heuristic (services/insight_feedback_service.py),   *)
(* and the guidance distilled from the votes                               *)
(* (services/insight_guidance_service.py).                                 *)
(*                                                                         *)
(* created_at is the database's now(), the start of the transaction, so a  *)
(* row carries the stamp of the request that made it and not the time of   *)
(* its commit.  A request reads, may wait for a model, and writes later by *)
(* primary key.                                                            *)
(***************************************************************************)
EXTENDS InsightMath, FiniteSets, SequencesExt

CONSTANTS
    User,
    NoUser,
    Job,          \* requests and scheduled tasks that can run at the same time
    Similar,      \* pairs of periods whose insights read alike (cosine distance < 0.15)
    MinFeedback,  \* MIN_NEW_FEEDBACK_TO_REGENERATE
    MinDownUsers, \* SUPPRESSION_MIN_DISTINCT_DOWN_USERS
    Level,        \* values of a month
    MaxSpread,    \* bound: how far steady months stray from their level
    MaxMonths,    \* bound: months on a line
    FirstPeriod,  \* periods with snapshots, and with an insight each, to begin with
    MaxPeriods,   \* bound: periods that get snapshots
    MaxInsights,  \* bound: insights in the table
    MaxStarts,    \* bound: requests
    MaxFaults     \* bound: best-effort steps that fail

ASSUME FeedbackAssumption ==
    /\ NoUser \notin User /\ IsFiniteSet(User)
    /\ {MinFeedback, MinDownUsers, FirstPeriod, MaxPeriods, MaxInsights, MaxStarts, MaxFaults}
           \subseteq Nat
    /\ Level \subseteq Int /\ MaxSpread \in Nat /\ MaxMonths \in Nat
    /\ FirstPeriod \in 1 .. MaxPeriods /\ FirstPeriod <= MaxInsights
    /\ Similar \subseteq (1 .. MaxPeriods) \X (1 .. MaxPeriods)

VARIABLES
    periods,   \* the latest period with a snapshot
    insights,  \* insight_events in commit order
    vote,      \* insight_feedback: the live row of each user and insight
    vectors,   \* insights with a suppression vector
    bells,     \* notification rows about a vote, by user and insight, oldest first
    guide,     \* stamp of the active guidance, 0 when there is none
    job,
    clock,     \* requests started so far: the stamps
    faults,
    changes,   \* history: times the rating of a user for an insight changed
    hurried,   \* history: users who had two requests in flight
    downed,    \* history: <<user, insight>> ever voted down
    summed,    \* history: stamps of the votes some generation has read
    overlapped \* history: stamps of the requests in flight at such a read

history == <<changes, hurried, downed, summed, overlapped>>
vars == <<periods, insights, vote, vectors, bells, guide, job, clock, faults, history>>

Rating == {"up", "down"}
Id == 1 .. MaxInsights
Stamp == 0 .. MaxStarts
Insight == [period : 1 .. MaxPeriods, suppressed : BOOLEAN, known : 0 .. MaxInsights]
Row == [rating : Rating \cup {"none"}, stamp : Stamp]
Bell == [rating : Rating, read : BOOLEAN]
NoRow == [rating |-> "none", stamp |-> 0]
Idle == [pc |-> "idle", user |-> NoUser, id |-> 0, rating |-> "none", stamp |-> 0,
         row |-> NoRow, changed |-> FALSE, period |-> 0, known |-> 0,
         batch |-> {}, late |-> {}]

TypeOK ==
    /\ periods \in 1 .. MaxPeriods
    /\ insights \in Seq(Insight) /\ Len(insights) <= MaxInsights
    /\ vote \in [User -> [Id -> Row]]
    /\ vectors \subseteq Id
    /\ bells \in [User -> [Id -> Seq(Bell)]]
    /\ guide \in Stamp /\ clock \in Stamp /\ faults \in 0 .. MaxFaults
    /\ \A j \in Job :
           /\ job[j].pc \in {"idle", "narrating", "find", "write", "vector", "notify",
                             "retract", "clear", "summarizing"}
           /\ job[j].user \in User \cup {NoUser}
           /\ job[j].id \in 0 .. MaxInsights
           /\ job[j].row \in Row

Init ==
    /\ periods = FirstPeriod
    /\ insights = [i \in 1 .. FirstPeriod |->
                      [period |-> i, suppressed |-> FALSE, known |-> i - 1]]
    /\ vote = [u \in User |-> [i \in Id |-> NoRow]]
    /\ vectors = {}
    /\ bells = [u \in User |-> [i \in Id |-> <<>>]]
    /\ guide = 0
    /\ job = [j \in Job |-> Idle]
    /\ clock = 0
    /\ faults = 0
    /\ changes = [u \in User |-> [i \in Id |-> 0]]
    /\ hurried = {}
    /\ downed = {}
    /\ summed = {}
    /\ overlapped = {}

-----------------------------------------------------------------------------
(* Helpers *)

At(j, pc) == job[j].pc = pc
Goto(j, pc) == job' = [job EXCEPT ![j].pc = pc]
Finish(j) == job' = [job EXCEPT ![j] = Idle]
InFlight(u) == {j \in Job : job[j].user = u}
Live(u, i) == vote[u][i] # NoRow
Fail == faults < MaxFaults /\ faults' = faults + 1

\* A request starts: its transaction gets the next stamp.
Begin(j, request) ==
    /\ At(j, "idle")
    /\ clock < MaxStarts
    /\ clock' = clock + 1
    /\ job' = [job EXCEPT ![j] = [request EXCEPT !.stamp = clock + 1]]
    /\ hurried' = hurried \cup {u \in User : request.user = u /\ InFlight(u) # {}}

-----------------------------------------------------------------------------
(* Detection *)

\* A month ends and the KPI gets a snapshot for it.
compute_snapshot ==
    /\ periods < MaxPeriods
    /\ periods' = periods + 1
    /\ UNCHANGED <<insights, vote, vectors, bells, guide, job, clock, faults, history>>

_already_detected(p) == \E i \in DOMAIN insights : insights[i].period = p

Detecting == {j \in Job : At(j, "narrating")}

\* The latest period is looked up and, if it has no insight, analysed; then the
\* narration is awaited.
detect_for_kpi(j) ==
    /\ Len(insights) + Cardinality(Detecting) < MaxInsights
    /\ ~_already_detected(periods)
    /\ Begin(j, [Idle EXCEPT !.pc = "narrating", !.period = periods, !.known = Len(insights)])
    /\ UNCHANGED <<periods, insights, vote, vectors, bells, guide, faults,
                   changes, downed, summed, overlapped>>

\* Votes of one rating whose insight has a vector near the new one.
Matches(p, rating) ==
    {v \in User \X vectors :
        vote[v[1]][v[2]].rating = rating /\ <<insights[v[2]].period, p>> \in Similar}
Voters(votes) == {v[1] : v \in votes}

Suppressible_votes(p) == \* mutant: the votes are counted, not the voters
    LET down == Matches(p, "down")  up == Matches(p, "up")
    IN  {Cardinality(down) >= MinDownUsers /\ Cardinality(down) > Cardinality(up)}

\* compute_suppression.  A match weighs between 0.85 and 1, so the votes alone
\* settle the sign of the score only outside of that margin.
Suppressible(p) ==
    LET down == Matches(p, "down")  up == Matches(p, "up")
    IN  {s \in BOOLEAN :
            IF s THEN /\ Cardinality(Voters(down)) >= MinDownUsers
                      /\ 100 * Cardinality(down) > 85 * Cardinality(up)
                 ELSE \/ Cardinality(Voters(down)) < MinDownUsers
                      \/ 85 * Cardinality(down) <= 100 * Cardinality(up)}

\* Narrated or not, the insight is scored and committed without another look
\* for one of its period.  A failure of the scoring leaves it unsuppressed.
store_insight(j) ==
    LET p == job[j].period
    IN  /\ At(j, "narrating")
        /\ \E s \in BOOLEAN :
               /\ insights' = Append(insights,
                      [period |-> p, suppressed |-> s, known |-> job[j].known])
               /\ \/ s \in Suppressible(p) /\ UNCHANGED faults
                  \/ ~s /\ s \notin Suppressible(p) /\ Fail
        /\ Finish(j)
        /\ UNCHANGED <<periods, vote, vectors, bells, guide, clock, history>>

-----------------------------------------------------------------------------
(* Feedback *)

\* submit_feedback reads the user's vote for the sake of the bell.
submit_feedback(j, u, i, rating) ==
    /\ Begin(j, [Idle EXCEPT !.pc = "find", !.user = u, !.id = i, !.rating = rating,
                             !.row = vote[u][i], !.changed = rating # vote[u][i].rating])
    /\ UNCHANGED <<periods, insights, vote, vectors, bells, guide, faults,
                   changes, downed, summed, overlapped>>

\* upsert looks again.  A row this session holds already keeps the attributes
\* it was loaded with.
find(j) ==
    LET now == vote[job[j].user][job[j].id]
        row == IF now.stamp = job[j].row.stamp THEN job[j].row ELSE now
    IN  /\ At(j, "find")
        /\ job' = [job EXCEPT ![j] = [@ EXCEPT !.pc = "write", !.row = row]]
        /\ UNCHANGED <<periods, insights, vote, vectors, bells, guide, clock, faults, history>>

\* The row as it is after the flush: an insert, or an UPDATE by primary key of
\* what differs from the loaded attributes, which misses a row that is gone.
Written(j, now) ==
    LET r == job[j].row
    IN  IF r = NoRow THEN [rating |-> job[j].rating, stamp |-> job[j].stamp]
        ELSE IF now.stamp = r.stamp /\ job[j].rating # r.rating
             THEN [now EXCEPT !.rating = job[j].rating]
             ELSE now

upsert(j) ==
    LET u == job[j].user  i == job[j].id
    IN  /\ At(j, "write")
        /\ job[j].row = NoRow => ~Live(u, i)
        /\ vote' = [vote EXCEPT ![u][i] = Written(j, @)]
        /\ changes' = [changes EXCEPT ![u][i] =
               IF Written(j, vote[u][i]).rating = vote[u][i].rating THEN @ ELSE @ + 1]
        /\ downed' = IF Written(j, vote[u][i]).rating = "down"
                     THEN downed \cup {<<u, i>>} ELSE downed
        /\ Goto(j, IF job[j].rating = "down" THEN "vector" ELSE "notify")
        /\ UNCHANGED <<periods, insights, vectors, bells, guide, clock, faults,
                       hurried, summed, overlapped>>

\* The partial unique index refuses a second live row: the request fails.
upsert_conflict(j) ==
    /\ At(j, "write")
    /\ job[j].row = NoRow /\ Live(job[j].user, job[j].id)
    /\ Finish(j)
    /\ UNCHANGED <<periods, insights, vote, vectors, bells, guide, clock, faults, history>>

_store_suppression_vector(j) ==
    /\ At(j, "vector")
    /\ \/ vectors' = vectors \cup {job[j].id} /\ UNCHANGED faults
       \/ Fail /\ UNCHANGED vectors
    /\ Goto(j, "notify")
    /\ UNCHANGED <<periods, insights, vote, bells, guide, clock, history>>

Rung_per_post(j, rows) == \* mutant: a bell row for every request
    Append(rows, [rating |-> job[j].rating, read |-> FALSE])
\* A new bell row for a new rating; the latest one is rewritten otherwise.
Rung(j, rows) ==
    IF job[j].changed \/ rows = <<>> THEN Append(rows, [rating |-> job[j].rating, read |-> FALSE])
    ELSE [rows EXCEPT ![Len(rows)].rating = job[j].rating]

_notify_feedback_recorded(j) ==
    /\ At(j, "notify")
    /\ \/ bells' = [bells EXCEPT ![job[j].user][job[j].id] = Rung(j, @)] /\ UNCHANGED faults
       \/ Fail /\ UNCHANGED bells
    /\ Finish(j)
    /\ UNCHANGED <<periods, insights, vote, vectors, guide, clock, history>>

retract_feedback(j, u, i) ==
    /\ Live(u, i)
    /\ Begin(j, [Idle EXCEPT !.pc = "retract", !.user = u, !.id = i, !.row = vote[u][i]])
    /\ UNCHANGED <<periods, insights, vote, vectors, bells, guide, faults,
                   changes, downed, summed, overlapped>>

soft_delete(j) ==
    LET u == job[j].user  i == job[j].id
    IN  /\ At(j, "retract")
        /\ vote' = [vote EXCEPT ![u][i] = IF @.stamp = job[j].row.stamp THEN NoRow ELSE @]
        /\ Goto(j, "clear")
        /\ UNCHANGED <<periods, insights, vectors, bells, guide, clock, faults, history>>

\* The latest bell row about the vote goes if it has not been read.
Cleared(rows) == IF rows # <<>> /\ ~Last(rows).read THEN Front(rows) ELSE rows

_suppress_unread_feedback_notification(j) ==
    /\ At(j, "clear")
    /\ \/ bells' = [bells EXCEPT ![job[j].user][job[j].id] = Cleared(@)] /\ UNCHANGED faults
       \/ Fail /\ UNCHANGED bells
    /\ Finish(j)
    /\ UNCHANGED <<periods, insights, vote, vectors, guide, clock, history>>

mark_all_read(u) ==
    /\ bells' = [bells EXCEPT ![u] =
           [i \in Id |-> [k \in DOMAIN @[i] |-> [@[i][k] EXCEPT !.read = TRUE]]]]
    /\ UNCHANGED <<periods, insights, vote, vectors, guide, job, clock, faults, history>>

-----------------------------------------------------------------------------
(* Guidance *)

list_since(since) ==
    {vote[v[1]][v[2]].stamp : v \in {w \in User \X Id : Live(w[1], w[2])
                                                    /\ vote[w[1]][w[2]].stamp > since}}
Uncommitted == {job[k].stamp : k \in {m \in Job : job[m].pc \in {"find", "write"}}}

\* The weekly task, or a manager who does not want to wait for it.
generate_guidance(j) ==
    /\ Cardinality(list_since(guide)) >= MinFeedback
    /\ Begin(j, [Idle EXCEPT !.pc = "summarizing", !.batch = list_since(guide), !.late = Uncommitted])
    /\ UNCHANGED <<periods, insights, vote, vectors, bells, guide, faults,
                   changes, downed, summed, overlapped>>

create_guidance_now(j) == \* mutant: stamped with the time of the insert
    /\ At(j, "summarizing")
    /\ guide' = clock
    /\ summed' = summed \cup job[j].batch
    /\ overlapped' = overlapped \cup job[j].late
    /\ Finish(j)
    /\ UNCHANGED <<periods, insights, vote, vectors, bells, clock, faults,
                   changes, hurried, downed>>

\* The model has answered: the new row is active, stamped with the start of
\* this transaction, and the active one before it is not.
create_guidance(j) ==
    /\ At(j, "summarizing")
    /\ guide' = job[j].stamp
    /\ summed' = summed \cup job[j].batch
    /\ overlapped' = overlapped \cup job[j].late
    /\ Finish(j)
    /\ UNCHANGED <<periods, insights, vote, vectors, bells, clock, faults,
                   changes, hurried, downed>>

no_summary(j) ==
    /\ At(j, "summarizing")
    /\ Finish(j)
    /\ UNCHANGED <<periods, insights, vote, vectors, bells, guide, clock, faults, history>>

-----------------------------------------------------------------------------
Next ==
    \/ compute_snapshot
    \/ \E u \in User : mark_all_read(u)
    \/ \E j \in Job :
        \/ detect_for_kpi(j) \/ store_insight(j)
        \/ \E u \in User, i \in DOMAIN insights :
               \/ \E rating \in Rating : submit_feedback(j, u, i, rating)
               \/ retract_feedback(j, u, i)
        \/ find(j) \/ upsert(j) \/ upsert_conflict(j)
        \/ _store_suppression_vector(j) \/ _notify_feedback_recorded(j)
        \/ soft_delete(j) \/ _suppress_unread_feedback_notification(j)
        \/ generate_guidance(j) \/ create_guidance(j) \/ no_summary(j)

Spec == Init /\ [][Next]_vars

-----------------------------------------------------------------------------
(* Properties *)

\* "One row per (KPI, period_start)" holds but for detections that overlap:
\* of two insights of one period, the later one's detection looked before the
\* earlier one was committed.
DuplicatesOverlap ==
    \A i, k \in DOMAIN insights :
        i < k /\ insights[i].period = insights[k].period => insights[k].known < i

\* Nobody silences a KPI alone: an insight is suppressed only if two users
\* have voted down insights like it, whatever one user votes how often.
SuppressedByTwo ==
    \A i \in DOMAIN insights : insights[i].suppressed =>
        Cardinality({u \in User : \E k \in DOMAIN insights :
            <<u, k>> \in downed /\ <<insights[k].period, insights[i].period>> \in Similar})
        >= MinDownUsers

\* What a detection writes: a duplicate only beside another detection, a
\* suppressed insight only against two users.
DetectionIsSound == TypeOK /\ DuplicatesOverlap /\ SuppressedByTwo

\* A vote that the next generation of guidance will not read has been read by
\* an earlier one, although votes come in while the model is awaited; only a
\* request that was in flight at such a read can slip through.
NoVoteEscapes ==
    \A u \in User, i \in Id :
        Live(u, i) /\ vote[u][i].stamp <= guide => vote[u][i].stamp \in summed \cup overlapped

\* "Idempotent per vote, not per POST": for a user who waits for each answer
\* there are at most as many bell rows about an insight as changes of mind,
\* and the latest tells the vote that stands.
BellsFollowVotes ==
    \A u \in User, i \in Id :
        u \notin hurried /\ InFlight(u) = {} /\ faults = 0 =>
            /\ Len(bells[u][i]) <= changes[u][i]
            /\ Live(u, i) => bells[u][i] # <<>> /\ Last(bells[u][i]).rating = vote[u][i].rating

\* An anomaly is a jump and a jump an anomaly: no series on a line is one,
\* whatever its slope, and a value four times as far from a level as the three
\* or four months before it is always one (unless those months are on a line
\* exactly, when the code has no spread to measure it by).  These are functions
\* (code: analyze), which no step changes: the initial states stand for all.
AnomaliesAreJumps ==
    clock = 0 =>
        /\ \A a, b \in Level, n \in 0 .. MaxMonths : ~is_anomaly(Line(a, b, n))
        /\ \A n \in 3 .. 4, level \in Level, spread \in 0 .. MaxSpread :
               \A s \in [1 .. n -> level - spread .. level + spread], value \in Level :
                   IsFar(value, level, spread) => OnLine(s) \/ is_anomaly(Append(s, value))
=============================================================================
