------------------------ MODULE InsightFeedbackProofs ------------------------
(***************************************************************************)
(* Proof that detection is sound, that no vote escapes the guidance and    *)
(* that bell rows follow votes, for any number of users, insights and      *)
(* requests.  What carries it is what a request remembers while it waits:  *)
(* the insights a detection has seen, the votes under way when a           *)
(* generation read the others, and the vote a user's request found.        *)
(* At the end, the mathematics of an insight: anomalies are jumps, for any *)
(* whole numbers.                                                          *)
(***************************************************************************)
EXTENDS InsightFeedback, FiniteSetTheorems, SequenceTheorems, WellFoundedInduction, TLAPS

Voting == {"find", "write", "vector", "notify", "retract", "clear"}
Request == [pc : Voting \cup {"idle", "narrating", "summarizing"},
            user : User \cup {NoUser}, id : 0 .. MaxInsights,
            rating : Rating \cup {"none"}, stamp : Stamp, row : Row, changed : BOOLEAN,
            period : 0 .. MaxPeriods, known : 0 .. MaxInsights,
            batch : SUBSET Stamp, late : SUBSET Stamp]

Typed ==
    /\ periods \in 1 .. MaxPeriods
    /\ insights \in Seq(Insight)
    /\ vote \in [User -> [Id -> Row]]
    /\ vectors \subseteq DOMAIN insights
    /\ bells \in [User -> [Id -> Seq(Bell)]]
    /\ guide \in Stamp /\ clock \in Stamp /\ guide <= clock
    /\ faults \in 0 .. MaxFaults
    /\ job \in [Job -> Request]
    /\ changes \in [User -> [Id -> Nat]]

RowOK(r) == r = NoRow \/ (r.rating \in Rating /\ r.stamp \in 1 .. clock)

\* A vote has the stamp of a request; one that is down has been counted.
VotesOK ==
    \A u \in User, i \in Id :
        RowOK(vote[u][i]) /\ (vote[u][i].rating = "down" => <<u, i>> \in downed)

\* A detection that is narrated has seen every insight of its period that
\* was there when it looked.
RequestOK(j) ==
    /\ job[j].stamp <= clock
    /\ RowOK(job[j].row)
    /\ job[j].pc \notin Voting => job[j].user = NoUser
    /\ job[j].pc \in Voting =>
           job[j].user \in User /\ job[j].id \in DOMAIN insights /\ job[j].stamp >= 1
    /\ job[j].pc \in {"find", "write", "vector", "notify"} => job[j].rating \in Rating
    /\ At(j, "narrating") =>
           /\ job[j].period >= 1 /\ job[j].known <= Len(insights)
           /\ \A i \in DOMAIN insights :
                  insights[i].period = job[j].period => job[j].known < i
RequestsOK == \A j \in Job : RequestOK(j)

\* There is room for the insight of each detection under way.
RoomIsLeft ==
    IsFiniteSet(Detecting) /\ Len(insights) + Cardinality(Detecting) <= MaxInsights

Downers(i) ==
    {u \in User : \E k \in DOMAIN insights :
        <<u, k>> \in downed /\ <<insights[k].period, insights[i].period>> \in Similar}

DetectionOK == DuplicatesOverlap /\ SuppressedByTwo /\ RoomIsLeft

\* A generation under way, once it is stored, will have accounted for every
\* vote that is not younger, the ones not written yet included.
Writing(k) == job[k].pc \in {"find", "write"}
Accounted(j) == summed \cup overlapped \cup job[j].batch \cup job[j].late
WritesAreSeen ==
    \A k \in Job : Writing(k) /\ job[k].stamp <= guide => job[k].stamp \in overlapped
BatchesAreWhole ==
    \A j \in Job : At(j, "summarizing") =>
        /\ \A u \in User, i \in Id :
               Live(u, i) /\ vote[u][i].stamp <= job[j].stamp
                   => vote[u][i].stamp \in Accounted(j)
        /\ \A k \in Job :
               Writing(k) /\ job[k].stamp <= job[j].stamp => job[k].stamp \in job[j].late
GuidanceOK == NoVoteEscapes /\ WritesAreSeen /\ BatchesAreWhole

\* The bell rows about an insight are up to date with the vote, or will be by
\* the end of the one request of the user that is under way.
Standing(u, i) ==
    /\ Len(bells[u][i]) <= changes[u][i]
    /\ Live(u, i) => bells[u][i] # <<>> /\ Last(bells[u][i]).rating = vote[u][i].rating
Told(j, u, i) ==
    /\ job[j].pc \in {"find", "write", "retract"} =>
           Standing(u, i) /\ job[j].row = vote[u][i]
    /\ job[j].pc \in {"find", "write"} =>
           (job[j].changed <=> job[j].rating # vote[u][i].rating)
    /\ job[j].pc \in {"vector", "notify"} =>
           /\ vote[u][i].rating = job[j].rating
           /\ job[j].changed => Len(bells[u][i]) + 1 <= changes[u][i]
           /\ ~job[j].changed => Standing(u, i)
    /\ job[j].pc = "clear" => ~Live(u, i) /\ Standing(u, i)
UserOK(u) ==
    /\ \A j, k \in Job : job[j].user = u /\ job[k].user = u => j = k
    /\ \A i \in Id : (\A j \in Job : job[j].user = u => job[j].id # i) => Standing(u, i)
    /\ \A j \in Job : job[j].user = u => Told(j, u, job[j].id)
BellsOK == faults = 0 => \A u \in User \ hurried : UserOK(u)

IInv == Typed /\ VotesOK /\ RequestsOK /\ DetectionOK /\ GuidanceOK /\ BellsOK

-----------------------------------------------------------------------------
(* What a step that leaves a part alone keeps of it *)

OthersStay(j) == \A k \in Job \ {j} : job'[k] = job[k]

LEMMA StampsAreNumbers ==
    /\ Stamp \subseteq Nat
    /\ Typed => /\ \A k \in Job : job[k].stamp \in Nat
                /\ clock \in Nat /\ guide \in Nat /\ guide <= clock
                /\ \A u \in User, i \in Id : vote[u][i].stamp \in Nat
    /\ Typed' => /\ \A k \in Job : job'[k].stamp \in Nat
                 /\ clock' \in Nat /\ guide' \in Nat
                 /\ \A u \in User, i \in Id : vote'[u][i].stamp \in Nat
<1>1. Stamp \subseteq Nat
  BY FeedbackAssumption DEF Stamp, FeedbackAssumption
<1>2. \A r \in Request : r.stamp \in Nat
  BY <1>1 DEF Request
<1>3. \A r \in Row : r.stamp \in Nat
  BY <1>1 DEF Row
<1> QED
  BY <1>1, <1>2, <1>3 DEF Typed

LEMMA IdsAreIds ==
    ASSUME IInv
    PROVE  /\ Len(insights) \in 0 .. MaxInsights /\ DOMAIN insights = 1 .. Len(insights)
           /\ DOMAIN insights \subseteq Id
           /\ \A k \in Job : job[k].user \in User => job[k].id \in DOMAIN insights
<1>1. Len(insights) \in Nat /\ DOMAIN insights = 1 .. Len(insights)
  BY DEF IInv, Typed
<1>2. Cardinality(Detecting) \in Nat
  BY FS_CardinalityType DEF IInv, DetectionOK, RoomIsLeft
<1>3. Len(insights) <= MaxInsights
  BY <1>1, <1>2, FeedbackAssumption DEF IInv, DetectionOK, RoomIsLeft, FeedbackAssumption
<1>4. \A k \in Job : job[k].user \in User => job[k].id \in DOMAIN insights
  BY FeedbackAssumption DEF IInv, RequestsOK, RequestOK, FeedbackAssumption
<1> QED
  BY <1>1, <1>3, <1>4, FeedbackAssumption DEF Id, FeedbackAssumption

LEMMA VotesKept ==
    ASSUME IInv, Typed', UNCHANGED vote, clock <= clock', downed \subseteq downed'
    PROVE  VotesOK'
<1>1. clock \in Nat /\ clock' \in Nat
  BY FeedbackAssumption DEF IInv, Typed, Stamp, FeedbackAssumption
<1> SUFFICES ASSUME NEW u \in User, NEW i \in Id
             PROVE  RowOK(vote[u][i])' /\ (vote[u][i].rating = "down" => <<u, i>> \in downed')
  BY DEF VotesOK
<1> QED
  BY <1>1 DEF VotesOK, IInv, RowOK

\* Of the requests only the one that has made the step is to be looked at, if
\* no insight comes in.
LEMMA RequestsKept ==
    ASSUME IInv, Typed', NEW j \in Job, OthersStay(j), RequestOK(j)', clock <= clock',
           UNCHANGED insights
    PROVE  RequestsOK'
<1>1. clock \in Nat /\ clock' \in Nat
  BY FeedbackAssumption DEF IInv, Typed, Stamp, FeedbackAssumption
<1> SUFFICES ASSUME NEW k \in Job \ {j} PROVE RequestOK(k)'
  BY DEF RequestsOK
<1>2. job'[k] = job[k] /\ RequestOK(k) /\ job[k] \in Request
  BY DEF OthersStay, RequestsOK, IInv, Typed
<1>3. job[k].stamp \in Nat
  BY <1>2, FeedbackAssumption DEF Request, Stamp, FeedbackAssumption
<1>4. RowOK(job[k].row)'
  BY <1>1, <1>2 DEF RequestOK, RowOK
<1> QED
  BY <1>1, <1>2, <1>3, <1>4 DEF RequestOK, At

LEMMA DownersAreFinite ==
    ASSUME NEW i PROVE IsFiniteSet(Downers(i)) /\ IsFiniteSet(Downers(i))'
BY FeedbackAssumption, FS_Subset DEF FeedbackAssumption, Downers

LEMMA DetectionKept ==
    ASSUME IInv, UNCHANGED insights, downed \subseteq downed', Detecting' = Detecting
    PROVE  DetectionOK'
<1>1. DuplicatesOverlap' /\ RoomIsLeft'
  BY DEF IInv, DetectionOK, DuplicatesOverlap, RoomIsLeft
<1>2. ASSUME NEW i \in DOMAIN insights, insights[i].suppressed
      PROVE  Cardinality(Downers(i)') >= MinDownUsers
  <2>1. Downers(i) \subseteq Downers(i)'
    BY DEF Downers
  <2>2. Cardinality(Downers(i)) >= MinDownUsers
    BY <1>2 DEF IInv, DetectionOK, SuppressedByTwo, Downers
  <2>3. /\ Cardinality(Downers(i)) <= Cardinality(Downers(i)')
        /\ Cardinality(Downers(i)) \in Nat /\ Cardinality(Downers(i)') \in Nat
    BY <2>1, DownersAreFinite, FS_Subset, FS_CardinalityType
  <2> QED
    BY <2>2, <2>3, FeedbackAssumption DEF FeedbackAssumption
<1> QED
  BY <1>1, <1>2 DEF DetectionOK, SuppressedByTwo, Downers

\* Nothing changes for the guidance when every vote that stands was there or
\* was being written, and who begins to write is younger than all before.
LEMMA GuidanceKept ==
    ASSUME IInv, Typed', NEW j \in Job, OthersStay(j), UNCHANGED <<guide, summed, overlapped>>,
           \A u \in User, i \in Id : Live(u, i)' =>
               \/ Live(u, i) /\ vote'[u][i].stamp = vote[u][i].stamp
               \/ Writing(j) /\ vote'[u][i].stamp = job[j].stamp,
           Writing(j)' =>
               \/ Writing(j) /\ job'[j].stamp = job[j].stamp
               \/ job'[j].stamp = clock + 1,
           job'[j].pc # "summarizing"
    PROVE  GuidanceOK'
<1> USE DEF IInv, GuidanceOK
<1>1. /\ \A k \in Job : job[k].stamp \in Nat /\ job'[k].stamp \in Nat /\ job[k].stamp <= clock
      /\ clock \in Nat /\ guide \in Nat /\ guide <= clock
      /\ \A u \in User, i \in Id : vote'[u][i].stamp \in Nat /\ vote[u][i].stamp \in Nat
  BY StampsAreNumbers DEF RequestsOK, RequestOK
<1>2. NoVoteEscapes'
  BY <1>1 DEF NoVoteEscapes, WritesAreSeen
<1>3. \A k \in Job : Writing(k)' =>
          \/ Writing(k) /\ job'[k].stamp = job[k].stamp
          \/ job'[k].stamp = clock + 1
  BY DEF OthersStay, Writing
<1>4. WritesAreSeen'
  BY <1>1, <1>3 DEF WritesAreSeen
<1>5. ASSUME NEW k \in Job, At(k, "summarizing")'
      PROVE  k # j /\ job'[k] = job[k] /\ At(k, "summarizing")
  BY <1>5 DEF OthersStay, At
<1>6. ASSUME NEW k \in Job, At(k, "summarizing")', NEW u \in User, NEW i \in Id,
             Live(u, i)', vote'[u][i].stamp <= job'[k].stamp
      PROVE  vote'[u][i].stamp \in Accounted(k)'
  <2>1. job'[k] = job[k] /\ At(k, "summarizing") /\ Accounted(k)' = Accounted(k)
    BY <1>5, <1>6 DEF Accounted
  <2>2. CASE Live(u, i) /\ vote'[u][i].stamp = vote[u][i].stamp
    BY <1>6, <2>1, <2>2 DEF BatchesAreWhole
  <2>3. CASE Writing(j) /\ vote'[u][i].stamp = job[j].stamp
    BY <1>6, <2>1, <2>3 DEF BatchesAreWhole, Accounted
  <2> QED
    BY <1>6, <2>2, <2>3
<1>7. ASSUME NEW k \in Job, At(k, "summarizing")', NEW m \in Job,
             Writing(m)', job'[m].stamp <= job'[k].stamp
      PROVE  job'[m].stamp \in job'[k].late
  <2>1. job'[k] = job[k] /\ At(k, "summarizing")
    BY <1>5, <1>7
  <2>2. Writing(m) /\ job'[m].stamp = job[m].stamp
    BY <1>1, <1>3, <1>7, <2>1
  <2> QED
    BY <1>7, <2>1, <2>2 DEF BatchesAreWhole
<1> QED
  BY <1>2, <1>4, <1>6, <1>7 DEF BatchesAreWhole

\* Nothing changes for the bells when the request that makes the step is of
\* no user.
LEMMA BellsKept ==
    ASSUME IInv, NEW j \in Job, OthersStay(j), job[j].user = NoUser, job'[j].user = NoUser,
           UNCHANGED <<vote, bells, changes>>, hurried \subseteq hurried',
           faults' = 0 => faults = 0
    PROVE  BellsOK'
<1> SUFFICES ASSUME faults' = 0, NEW u \in User \ hurried'
             PROVE  UserOK(u)'
  BY DEF BellsOK
<1>1. UserOK(u)
  BY DEF IInv, BellsOK
<1>2. \A k \in Job : job'[k].user = u => job'[k] = job[k] /\ k # j
  BY FeedbackAssumption DEF OthersStay, FeedbackAssumption
<1>3. \A k \in Job : job[k].user = u => job'[k] = job[k] /\ k # j
  BY FeedbackAssumption DEF OthersStay, FeedbackAssumption
<1>4. \A i \in Id : Standing(u, i)' <=> Standing(u, i)
  BY DEF Standing, Live
<1>5. \A i \in Id : (\A k \in Job : job'[k].user = u => job'[k].id # i) => Standing(u, i)'
  BY <1>1, <1>3, <1>4 DEF UserOK
<1>6. ASSUME NEW k \in Job, job'[k].user = u
      PROVE  Told(k, u, job[k].id)' /\ job'[k].id = job[k].id
  <2>1. Told(k, u, job[k].id) /\ job'[k] = job[k]
    BY <1>1, <1>2, <1>6 DEF UserOK
  <2> QED
    BY <2>1 DEF Told, Standing, Live
<1> QED
  BY <1>1, <1>2, <1>5, <1>6 DEF UserOK

\* A step of a user's request concerns the one vote it is about.
LEMMA BellsFollow ==
    ASSUME IInv, NEW j \in Job, OthersStay(j), NEW u \in User, NEW i \in Id,
           job[j].user = u, job[j].id = i, UNCHANGED hurried, faults' = 0 => faults = 0,
           \A v \in User, h \in Id : v # u \/ h # i =>
               /\ vote'[v][h] = vote[v][h] /\ bells'[v][h] = bells[v][h]
               /\ changes'[v][h] = changes[v][h],
           job'[j].user = NoUser \/ (job'[j].user = u /\ job'[j].id = i),
           Told(j, u, i) /\ faults' = 0 =>
               Standing(u, i)' \/ (job'[j].user = u /\ Told(j, u, i)'),
           Told(j, u, i) /\ faults' = 0 /\ job'[j].user = u => Told(j, u, i)'
    PROVE  BellsOK'
<1> SUFFICES ASSUME faults' = 0, NEW v \in User \ hurried
             PROVE  UserOK(v)'
  BY DEF BellsOK
<1>1. UserOK(v) /\ NoUser \notin User /\ NoUser # v /\ NoUser # u
  BY FeedbackAssumption DEF IInv, BellsOK, FeedbackAssumption
<1>2. \A h \in Id : v # u \/ h # i => (Standing(v, h)' <=> Standing(v, h))
  BY DEF Standing, Live
<1>3. \A k \in Job : job'[k].user = v => job[k].user = v /\ job'[k].id = job[k].id
  BY <1>1 DEF OthersStay
<1>4. \A k, m \in Job : job'[k].user = v /\ job'[m].user = v => k = m
  BY <1>1, <1>3 DEF UserOK
<1>5. ASSUME NEW h \in Id, \A k \in Job : job'[k].user = v => job'[k].id # h
      PROVE  Standing(v, h)'
  <2>1. CASE v = u /\ h = i
    <3>1. Told(j, u, i)
      BY <1>1, <2>1 DEF UserOK
    <3>2. job'[j].user # u
      BY <1>1, <1>5, <2>1
    <3>3. Standing(u, i)'
      BY <3>1, <3>2
    <3> QED
      BY <2>1, <3>3 DEF Standing, Live
  <2>2. CASE v # u \/ h # i
    <3>1. ASSUME NEW k \in Job, job[k].user = v PROVE job[k].id # h
      <4>1. CASE k = j
        BY <2>2, <3>1, <4>1
      <4>2. CASE k # j
        BY <1>5, <3>1, <4>2 DEF OthersStay
      <4> QED
        BY <4>1, <4>2
    <3>2. Standing(v, h)
      BY <1>1, <3>1 DEF UserOK
    <3> QED
      BY <1>2, <2>2, <3>2
  <2> QED
    BY <2>1, <2>2
<1>6. ASSUME NEW k \in Job, job'[k].user = v
      PROVE  Told(k, v, job[k].id)'
  <2>1. Told(k, v, job[k].id)
    BY <1>1, <1>3, <1>6 DEF UserOK
  <2>2. CASE k = j
    BY <1>1, <1>6, <2>1, <2>2
  <2>3. CASE k # j
    <3>1. v # u
      BY <1>1, <1>3, <1>6, <2>3 DEF UserOK
    <3>2. job'[k] = job[k] /\ job[k].user = v
      BY <1>3, <1>6, <2>3 DEF OthersStay
    <3>3. job[k].id \in Id
      BY <3>2, IdsAreIds, FeedbackAssumption DEF FeedbackAssumption
    <3>4. ASSUME NEW h \in Id, h = job[k].id
          PROVE  Told(k, v, h)'
      <4>1. /\ vote'[v][h] = vote[v][h] /\ bells'[v][h] = bells[v][h]
            /\ changes'[v][h] = changes[v][h]
        BY <3>1
      <4>2. (Standing(v, h)' <=> Standing(v, h)) /\ (Live(v, h)' <=> Live(v, h))
        BY <1>2, <3>1, <4>1 DEF Live
      <4>3. Told(k, v, h)
        BY <2>1, <3>4
      <4> QED
        BY <3>2, <4>1, <4>2, <4>3 DEF Told
    <3> QED
      BY <3>2, <3>3, <3>4
  <2> QED
    BY <2>2, <2>3
<1> QED
  BY <1>3, <1>4, <1>5, <1>6 DEF UserOK

-----------------------------------------------------------------------------
(* The steps of a user's request *)

LEMMA IdleFacts ==
    /\ Idle \in Request /\ Idle.pc = "idle" /\ Idle.user = NoUser /\ Idle.row = NoRow
    /\ Idle.stamp = 0 /\ RowOK(Idle.row) /\ RowOK(Idle.row)'
BY FeedbackAssumption DEF Idle, Request, Stamp, Row, NoRow, RowOK, FeedbackAssumption

\* What remains to be shown of a step that writes at most one vote, its bell
\* rows and what the request remembers.
LEMMA VoterStep ==
    ASSUME IInv, Typed', NEW j \in Job, job[j].pc \in Voting, OthersStay(j),
           NEW u \in User, NEW i \in Id, job[j].user = u, job[j].id = i,
           UNCHANGED <<insights, guide, summed, overlapped, clock, hurried>>,
           faults' = 0 => faults = 0, downed \subseteq downed',
           \A v \in User, h \in Id : v # u \/ h # i =>
               /\ vote'[v][h] = vote[v][h] /\ bells'[v][h] = bells[v][h]
               /\ changes'[v][h] = changes[v][h],
           NEW new, job'[j] = new, RowOK(new.row),
           \/ new = Idle
           \/ /\ new.pc \in Voting /\ new.user = u /\ new.id = i
              /\ new.rating = job[j].rating /\ new.stamp = job[j].stamp
              /\ new.pc \in {"find", "write"} => job[j].pc \in {"find", "write"}
              /\ new.pc \in {"vector", "notify"} =>
                     job[j].pc \in {"find", "write", "vector", "notify"},
           NEW now, vote'[u][i] = now, RowOK(now),
           now.rating = "down" => <<u, i>> \in downed',
           now # NoRow => \/ Live(u, i) /\ now.stamp = vote[u][i].stamp
                          \/ Writing(j) /\ now.stamp = job[j].stamp,
           Told(j, u, i) /\ faults' = 0 =>
               (new = Idle /\ Standing(u, i)') \/ (new # Idle /\ Told(j, u, i)')
    PROVE  IInv'
<1>1. RowOK(new.row)' /\ RowOK(now)'
  BY DEF RowOK
<1>2. RequestOK(j) /\ job[j].stamp \in Nat
  BY StampsAreNumbers DEF IInv, RequestsOK
<1>3. RequestOK(j)'
  <2>1. CASE new = Idle
    BY <1>1, <2>1, IdleFacts, StampsAreNumbers DEF RequestOK, At, Voting
  <2>2. CASE new # Idle
    BY <1>1, <1>2, <2>2 DEF RequestOK, At, Voting
  <2> QED
    BY <2>1, <2>2
<1>4. clock \in Nat
  BY StampsAreNumbers DEF IInv
<1>5. RequestsOK'
  BY <1>3, <1>4, RequestsKept
<1>6. VotesOK'
  <2> SUFFICES ASSUME NEW v \in User, NEW h \in Id
               PROVE  /\ RowOK(vote[v][h])'
                      /\ vote'[v][h].rating = "down" => <<v, h>> \in downed'
    BY DEF VotesOK
  <2>1. CASE v = u /\ h = i
    BY <1>1, <2>1 DEF RowOK
  <2>2. CASE v # u \/ h # i
    <3>1. RowOK(vote[v][h]) /\ (vote[v][h].rating = "down" => <<v, h>> \in downed)
      BY DEF IInv, VotesOK
    <3> QED
      BY <2>2, <3>1 DEF RowOK
  <2> QED
    BY <2>1, <2>2
<1>7. DetectionOK'
  <2>1. \A k \in Job : At(k, "narrating")' <=> At(k, "narrating")
    BY IdleFacts DEF OthersStay, At, Voting
  <2>2. Detecting' = Detecting
    BY <2>1 DEF Detecting
  <2> QED
    BY <2>2, DetectionKept
<1>8. GuidanceOK'
  <2>1. \A v \in User, h \in Id : Live(v, h)' =>
            \/ Live(v, h) /\ vote'[v][h].stamp = vote[v][h].stamp
            \/ Writing(j) /\ vote'[v][h].stamp = job[j].stamp
    <3>1. ASSUME NEW v \in User, NEW h \in Id, Live(v, h)', v # u \/ h # i
          PROVE  Live(v, h) /\ vote'[v][h].stamp = vote[v][h].stamp
      BY <3>1 DEF Live
    <3>2. ASSUME NEW v \in User, NEW h \in Id, Live(v, h)', v = u, h = i
          PROVE  \/ Live(v, h) /\ vote'[v][h].stamp = vote[v][h].stamp
                 \/ Writing(j) /\ vote'[v][h].stamp = job[j].stamp
      BY <3>2 DEF Live
    <3> QED
      BY <3>1, <3>2
  <2>2. Writing(j)' => Writing(j) /\ job'[j].stamp = job[j].stamp
    BY IdleFacts DEF Writing
  <2>3. job'[j].pc # "summarizing"
    BY IdleFacts DEF Voting
  <2> QED
    BY <2>1, <2>2, <2>3, GuidanceKept
<1>9. BellsOK'
  <2>1. NoUser # u
    BY FeedbackAssumption DEF FeedbackAssumption
  <2>2. job'[j].user = NoUser \/ (job'[j].user = u /\ job'[j].id = i)
    BY IdleFacts
  <2>3. job'[j].user = u => new # Idle
    BY <2>1, IdleFacts
  <2>4. new # Idle => job'[j].user = u
    OBVIOUS
  <2> QED
    BY <2>2, <2>3, <2>4, BellsFollow
<1> QED
  BY <1>5, <1>6, <1>7, <1>8, <1>9 DEF IInv

\* A function of two arguments changed in one place.
LEMMA PutOne ==
    ASSUME NEW S, NEW A, NEW B, NEW f \in [A -> [B -> S]], NEW a \in A, NEW b \in B,
           NEW x \in S, NEW g, g = [f EXCEPT ![a][b] = x]
    PROVE  /\ g \in [A -> [B -> S]] /\ g[a][b] = x
           /\ \A c \in A, d \in B : c # a \/ d # b => g[c][d] = f[c][d]
OBVIOUS

\* Who has a vote under way, for what, and what is known of it.
LEMMA VoterFacts ==
    ASSUME IInv, NEW j \in Job, job[j].pc \in Voting
    PROVE  /\ job[j].user \in User /\ job[j].id \in DOMAIN insights /\ job[j].id \in Id
           /\ job[j] \in Request /\ RowOK(job[j].row)
           /\ job[j].stamp \in 1 .. clock
           /\ job[j].pc \in {"find", "write", "vector", "notify"} => job[j].rating \in Rating
<1>1. RequestOK(j) /\ job[j] \in Request /\ job[j].stamp \in Nat
  BY StampsAreNumbers DEF IInv, RequestsOK, Typed
<1> QED
  BY <1>1, IdsAreIds, StampsAreNumbers DEF RequestOK, IInv

LEMMA VoteFacts ==
    ASSUME IInv, NEW u \in User, NEW i \in Id
    PROVE  /\ vote[u][i] \in Row /\ RowOK(vote[u][i])
           /\ vote[u][i].rating = "down" => <<u, i>> \in downed
           /\ NoRow.rating = "none" /\ NoRow.stamp = 0
           /\ vote[u][i] # NoRow => vote[u][i].stamp \in 1 .. clock
           /\ bells[u][i] \in Seq(Bell) /\ Len(bells[u][i]) \in Nat /\ changes[u][i] \in Nat
<1>1. bells[u][i] \in Seq(Bell)
  BY DEF IInv, Typed
<1>2. Len(bells[u][i]) \in Nat
  BY <1>1
<1> QED
  BY <1>1, <1>2 DEF IInv, Typed, VotesOK, RowOK, NoRow

LEMMA FindKeeps ==
    ASSUME IInv, NEW j \in Job, find(j)
    PROVE  IInv'
<1> DEFINE r == IF vote[job[j].user][job[j].id].stamp = job[j].row.stamp
                THEN job[j].row ELSE vote[job[j].user][job[j].id]
           new == [job[j] EXCEPT !.pc = "write", !.row = r]
<1>1. /\ job[j].pc = "find" /\ job' = [job EXCEPT ![j] = new]
      /\ UNCHANGED <<periods, insights, vote, vectors, bells, guide, clock, faults, history>>
  BY DEF find, At
<1>2. PICK u \in User, i \in Id : u = job[j].user /\ i = job[j].id
  BY <1>1, VoterFacts DEF Voting
<1>3. /\ job[j] \in Request /\ RowOK(job[j].row) /\ job[j].row \in Row
      /\ vote[u][i] \in Row /\ RowOK(vote[u][i])
  BY <1>1, <1>2, VoterFacts, VoteFacts DEF Voting, Request
<1>4. r \in Row /\ RowOK(r) /\ (job[j].row = vote[u][i] => r = vote[u][i])
  BY <1>2, <1>3
<1> HIDE DEF r
<1>5. /\ new \in Request /\ new.row = r /\ new.pc = "write" /\ new # Idle
      /\ new.user = u /\ new.id = i /\ new.rating = job[j].rating /\ new.stamp = job[j].stamp
      /\ new.changed = job[j].changed
  BY <1>2, <1>3, <1>4, IdleFacts DEF Request, Voting
<1> HIDE DEF new
<1>6. job'[j] = new /\ OthersStay(j) /\ job' \in [Job -> Request]
  BY <1>1, <1>5 DEF IInv, Typed, OthersStay
<1>7. Typed'
  BY <1>1, <1>6 DEF IInv, Typed, history
<1>8. Told(j, u, i) => Told(j, u, i)'
  BY <1>1, <1>4, <1>5, <1>6 DEF Told, Standing, Live, history
<1>9. /\ vote'[u][i] = vote[u][i]
      /\ vote[u][i].rating = "down" => <<u, i>> \in downed'
      /\ vote[u][i] # NoRow => Live(u, i)
  BY <1>1, <1>2, VoteFacts DEF Live, history
<1>10. /\ UNCHANGED <<insights, vote, bells, changes, guide, summed, overlapped, clock, hurried,
                       faults, downed>>
       /\ job[j].pc \in Voting /\ new.pc \in Voting
       /\ new.pc \notin {"vector", "notify"}
  BY <1>1, <1>5 DEF history, Voting
<1> QED
  BY <1>1, <1>2, <1>3, <1>4, <1>5, <1>6, <1>7, <1>8, <1>9, <1>10, VoterStep

\* What the flush of a vote leaves.
LEMMA WrittenFacts ==
    ASSUME IInv, NEW j \in Job, job[j].pc = "write", NEW now \in Row, RowOK(now),
           job[j].row = NoRow => now = NoRow
    PROVE  /\ Written(j, now) \in Row /\ RowOK(Written(j, now))
           /\ Written(j, now) # NoRow =>
                  \/ now # NoRow /\ Written(j, now).stamp = now.stamp
                  \/ Written(j, now).stamp = job[j].stamp
           /\ job[j].row = now =>
                  /\ Written(j, now).rating = job[j].rating
                  /\ Written(j, now) # NoRow
<1> DEFINE r == job[j].row
<1>1. /\ job[j].rating \in Rating /\ job[j].stamp \in 1 .. clock /\ job[j].stamp \in Stamp
      /\ RowOK(r) /\ NoRow.stamp = 0 /\ NoRow.rating = "none"
  BY VoterFacts DEF Voting, Request, NoRow
<1>2. CASE r = NoRow
  <2>1. Written(j, now) = [rating |-> job[j].rating, stamp |-> job[j].stamp]
    BY <1>2 DEF Written
  <2> QED
    BY <1>1, <1>2, <2>1 DEF Row, RowOK, Rating
<1>3. CASE r # NoRow /\ now.stamp = r.stamp /\ job[j].rating # r.rating
  <2>1. Written(j, now) = [now EXCEPT !.rating = job[j].rating]
    BY <1>3 DEF Written
  <2>2. now # NoRow
    BY <1>1, <1>3 DEF RowOK
  <2> QED
    BY <1>1, <2>1, <2>2 DEF Row, RowOK, Rating
<1>4. CASE r # NoRow /\ ~(now.stamp = r.stamp /\ job[j].rating # r.rating)
  <2>1. Written(j, now) = now
    BY <1>4 DEF Written
  <2> QED
    BY <1>1, <1>4, <2>1
<1> QED
  BY <1>2, <1>3, <1>4

LEMMA GotoFacts ==
    ASSUME IInv, NEW j \in Job, NEW pc \in Voting, Goto(j, pc)
    PROVE  /\ job' \in [Job -> Request] /\ OthersStay(j) /\ job'[j] # Idle
           /\ job'[j].pc = pc /\ job'[j].user = job[j].user /\ job'[j].id = job[j].id
           /\ job'[j].rating = job[j].rating /\ job'[j].stamp = job[j].stamp
           /\ job'[j].row = job[j].row /\ job'[j].changed = job[j].changed
<1> DEFINE new == [job[j] EXCEPT !.pc = pc]
<1>1. job[j] \in Request
  BY DEF IInv, Typed
<1>2. new \in Request /\ new.pc = pc
  BY <1>1 DEF Request
<1>3. /\ new.user = job[j].user /\ new.id = job[j].id /\ new.rating = job[j].rating
      /\ new.stamp = job[j].stamp /\ new.row = job[j].row /\ new.changed = job[j].changed
  BY <1>1 DEF Request
<1>4. job' = [job EXCEPT ![j] = new]
  BY DEF Goto
<1> HIDE DEF new
<1>5. job' \in [Job -> Request] /\ job'[j] = new /\ OthersStay(j)
  BY <1>2, <1>4 DEF IInv, Typed, OthersStay
<1> QED
  BY <1>2, <1>3, <1>5, IdleFacts DEF Voting

LEMMA FinishFacts ==
    ASSUME IInv, NEW j \in Job, Finish(j)
    PROVE  job' \in [Job -> Request] /\ OthersStay(j) /\ job'[j] = Idle
BY IdleFacts DEF Finish, IInv, Typed, OthersStay

LEMMA UpsertKeeps ==
    ASSUME IInv, NEW j \in Job, upsert(j)
    PROVE  IInv'
<1>1. job[j].pc = "write"
  BY DEF upsert, At
<1>2. PICK u \in User, i \in Id : u = job[j].user /\ i = job[j].id
  BY <1>1, VoterFacts DEF Voting
<1> DEFINE old == vote[u][i]
           now == Written(j, old)
           count == IF now.rating = old.rating THEN changes[u][i] ELSE changes[u][i] + 1
           pc == IF job[j].rating = "down" THEN "vector" ELSE "notify"
<1>3. /\ job[j].row = NoRow => old = NoRow
      /\ vote' = [vote EXCEPT ![u][i] = now]
      /\ changes' = [changes EXCEPT ![u][i] = count]
      /\ downed' = IF now.rating = "down" THEN downed \cup {<<u, i>>} ELSE downed
      /\ Goto(j, pc)
      /\ UNCHANGED <<periods, insights, vectors, bells, guide, clock, faults,
                     hurried, summed, overlapped>>
  BY <1>2 DEF upsert, Live
<1>4. /\ old \in Row /\ RowOK(old) /\ changes[u][i] \in Nat
      /\ NoRow.rating = "none"
  BY VoteFacts
<1>5. /\ now \in Row /\ RowOK(now)
      /\ now # NoRow => \/ old # NoRow /\ now.stamp = old.stamp
                        \/ now.stamp = job[j].stamp
      /\ job[j].row = old => now.rating = job[j].rating /\ now # NoRow
  BY <1>1, <1>3, <1>4, WrittenFacts
<1>6. pc \in {"vector", "notify"} /\ count \in Nat
  BY <1>4
<1>7. /\ job' \in [Job -> Request] /\ OthersStay(j) /\ job'[j] # Idle
      /\ job'[j].pc = pc /\ job'[j].user = u /\ job'[j].id = i
      /\ job'[j].rating = job[j].rating /\ job'[j].stamp = job[j].stamp
      /\ job'[j].row = job[j].row /\ job'[j].changed = job[j].changed
  BY <1>2, <1>3, <1>6, GotoFacts DEF Voting
<1>8. /\ vote' \in [User -> [Id -> Row]] /\ vote'[u][i] = now
      /\ changes' \in [User -> [Id -> Nat]] /\ changes'[u][i] = count
      /\ \A v \in User, h \in Id : v # u \/ h # i =>
             vote'[v][h] = vote[v][h] /\ changes'[v][h] = changes[v][h]
  <2>1. vote \in [User -> [Id -> Row]] /\ changes \in [User -> [Id -> Nat]]
    BY DEF IInv, Typed
  <2> HIDE DEF now, count
  <2> QED
    BY <1>3, <1>5, <1>6, <2>1, PutOne
<1>9. Typed'
  BY <1>3, <1>7, <1>8 DEF IInv, Typed
<1>10. downed \subseteq downed' /\ (now.rating = "down" => <<u, i>> \in downed')
  BY <1>3
<1>11. ASSUME Told(j, u, i) PROVE Told(j, u, i)'
  <2>1. /\ Standing(u, i) /\ job[j].row = old
        /\ job[j].changed <=> job[j].rating # old.rating
    BY <1>1, <1>11 DEF Told
  <2>2. /\ now.rating = job[j].rating /\ now # NoRow
        /\ job[j].changed <=> now.rating # old.rating
    BY <1>5, <2>1
  <2>3. Len(bells[u][i]) \in Nat
    BY VoteFacts
  <2>4. ASSUME job[j].changed
        PROVE  Len(bells'[u][i]) + 1 <= changes'[u][i]
    BY <1>3, <1>4, <1>8, <2>1, <2>2, <2>3, <2>4 DEF Standing
  <2>5. ASSUME ~job[j].changed
        PROVE  Standing(u, i)'
    <3>1. now.rating = old.rating /\ old # NoRow /\ count = changes[u][i]
      <4>1. now.rating = old.rating
        BY <2>2, <2>5
      <4>2. job[j].rating \in Rating
        BY <1>1, VoterFacts DEF Voting
      <4> QED
        BY <1>4, <2>2, <4>1, <4>2 DEF Rating
    <3> HIDE DEF now, count
    <3> QED
      BY <1>3, <1>8, <2>1, <3>1 DEF Standing, Live
  <2> HIDE DEF now, old, count
  <2> QED
    BY <1>6, <1>7, <1>8, <2>2, <2>4, <2>5 DEF Told
<1>12. /\ RowOK(job'[j].row) /\ job[j].pc \in Voting /\ job'[j].pc \in Voting
       /\ job'[j].pc \in {"vector", "notify"}
  BY <1>1, <1>2, <1>6, <1>7, VoterFacts DEF Voting
<1>13. now # NoRow => \/ Live(u, i) /\ now.stamp = old.stamp
                      \/ Writing(j) /\ now.stamp = job[j].stamp
  BY <1>1, <1>5 DEF Live, Writing
<1> HIDE DEF now, count, pc
<1>14. \A v \in User, h \in Id : v # u \/ h # i =>
           /\ vote'[v][h] = vote[v][h] /\ bells'[v][h] = bells[v][h]
           /\ changes'[v][h] = changes[v][h]
  BY <1>3, <1>8
<1>15. /\ UNCHANGED <<insights, guide, summed, overlapped, clock, hurried, faults>>
       /\ RowOK(now) /\ vote'[u][i] = now /\ OthersStay(j)
       /\ job'[j].user = u /\ job'[j].id = i
       /\ job'[j].rating = job[j].rating /\ job'[j].stamp = job[j].stamp
       /\ job[j].user = u /\ job[j].id = i /\ job[j].pc \in {"find", "write"}
       /\ job'[j] # Idle
  BY <1>1, <1>2, <1>3, <1>5, <1>7, <1>8
<1> QED
  BY <1>9, <1>10, <1>11, <1>12, <1>13, <1>14, <1>15, VoterStep

LEMMA ConflictKeeps ==
    ASSUME IInv, NEW j \in Job, upsert_conflict(j)
    PROVE  IInv'
<1>1. /\ job[j].pc = "write" /\ Finish(j)
      /\ UNCHANGED <<periods, insights, vote, vectors, bells, guide, clock, faults, history>>
  BY DEF upsert_conflict, At
<1>2. PICK u \in User, i \in Id : u = job[j].user /\ i = job[j].id
  BY <1>1, VoterFacts DEF Voting
<1>3. job' \in [Job -> Request] /\ OthersStay(j) /\ job'[j] = Idle
  BY <1>1, FinishFacts
<1>4. Typed'
  BY <1>1, <1>3 DEF IInv, Typed, history
<1>5. Told(j, u, i) => Standing(u, i)'
  BY <1>1 DEF Told, Standing, Live, history
<1>6. RowOK(vote[u][i]) /\ (vote[u][i].rating = "down" => <<u, i>> \in downed)
  BY VoteFacts
<1> QED
  BY <1>1, <1>2, <1>3, <1>4, <1>5, <1>6, IdleFacts, VoterStep DEF Voting, Live, history

LEMMA FailIsSeen ==
    ASSUME IInv, Fail PROVE faults' # 0 /\ faults' \in 0 .. MaxFaults
BY FeedbackAssumption DEF IInv, Typed, Fail, FeedbackAssumption

LEMMA VectorKeeps ==
    ASSUME IInv, NEW j \in Job, _store_suppression_vector(j)
    PROVE  IInv'
<1>1. /\ job[j].pc = "vector" /\ Goto(j, "notify")
      /\ vectors' = vectors \cup {job[j].id} \/ vectors' = vectors
      /\ faults' = faults \/ Fail
      /\ UNCHANGED <<periods, insights, vote, bells, guide, clock, history>>
  BY DEF _store_suppression_vector, At
<1>2. PICK u \in User, i \in DOMAIN insights \cap Id : u = job[j].user /\ i = job[j].id
  BY <1>1, VoterFacts DEF Voting
<1>3. /\ job' \in [Job -> Request] /\ OthersStay(j) /\ job'[j] # Idle
      /\ job'[j].pc = "notify" /\ job'[j].user = u /\ job'[j].id = i
      /\ job'[j].rating = job[j].rating /\ job'[j].stamp = job[j].stamp
      /\ job'[j].row = job[j].row /\ job'[j].changed = job[j].changed
  BY <1>1, <1>2, GotoFacts DEF Voting
<1>4. Typed' /\ (faults' = 0 => faults = 0)
  BY <1>1, <1>2, <1>3, FailIsSeen DEF IInv, Typed, history
<1>5. Told(j, u, i) => Told(j, u, i)'
  BY <1>1, <1>3 DEF Told, Standing, Live, history
<1>6. /\ RowOK(vote[u][i]) /\ (vote[u][i].rating = "down" => <<u, i>> \in downed)
      /\ RowOK(job[j].row)
  BY <1>1, VoteFacts, VoterFacts DEF Voting
<1> QED
  BY <1>1, <1>2, <1>3, <1>4, <1>5, <1>6, VoterStep DEF Voting, Live, history

\* The bell rows about an insight after a vote: one more for a change of mind,
\* and the latest tells the vote.
LEMMA RungFacts ==
    ASSUME NEW j, job[j].rating \in Rating, NEW rows \in Seq(Bell)
    PROVE  /\ Rung(j, rows) \in Seq(Bell) /\ Rung(j, rows) # <<>>
           /\ Last(Rung(j, rows)).rating = job[j].rating
           /\ Len(Rung(j, rows)) <= Len(rows) + 1
           /\ ~job[j].changed /\ rows # <<>> => Len(Rung(j, rows)) = Len(rows)
<1>1. CASE job[j].changed \/ rows = <<>>
  <2> DEFINE bell == [rating |-> job[j].rating, read |-> FALSE]
  <2>1. Rung(j, rows) = Append(rows, bell)
    BY <1>1 DEF Rung
  <2>2. bell \in Bell /\ bell.rating = job[j].rating
    BY DEF Bell
  <2> HIDE DEF bell
  <2>3. /\ Append(rows, bell) \in Seq(Bell) /\ Len(Append(rows, bell)) = Len(rows) + 1
        /\ Append(rows, bell)[Len(rows) + 1] = bell
        /\ Len(rows) \in Nat /\ Append(rows, bell) # <<>>
    BY <2>2
  <2> QED
    BY <1>1, <2>1, <2>2, <2>3 DEF Last
<1>2. CASE ~(job[j].changed \/ rows = <<>>)
  <2> DEFINE n == Len(rows)
             bell == [rows[n] EXCEPT !.rating = job[j].rating]
  <2>1. Rung(j, rows) = [rows EXCEPT ![n] = bell]
    BY <1>2 DEF Rung
  <2>2. n \in Nat /\ n > 0 /\ rows[n] \in Bell
    BY <1>2
  <2>3. bell \in Bell /\ bell.rating = job[j].rating
    BY <2>2 DEF Bell
  <2> HIDE DEF bell
  <2>4. /\ [rows EXCEPT ![n] = bell] \in Seq(Bell) /\ Len([rows EXCEPT ![n] = bell]) = n
        /\ [rows EXCEPT ![n] = bell][n] = bell /\ [rows EXCEPT ![n] = bell] # <<>>
    BY <2>2, <2>3
  <2> QED
    BY <1>2, <2>1, <2>2, <2>3, <2>4 DEF Last
<1> QED
  BY <1>1, <1>2

LEMMA ClearedFacts ==
    ASSUME NEW rows \in Seq(Bell)
    PROVE  Cleared(rows) \in Seq(Bell) /\ Len(Cleared(rows)) <= Len(rows)
<1>1. CASE rows # <<>>
  <2>1. Len(rows) \in Nat /\ Len(rows) > 0 /\ \A k \in 1 .. Len(rows) - 1 : rows[k] \in Bell
    BY <1>1
  <2>2. Front(rows) \in Seq(Bell)
    BY <2>1, SubSeqProperties DEF Front
  <2>3. Len(Front(rows)) <= Len(rows)
    BY <2>1, SubSeqProperties DEF Front
  <2> QED
    BY <2>1, <2>2, <2>3 DEF Cleared
<1>2. CASE rows = <<>>
  BY <1>2 DEF Cleared
<1> QED
  BY <1>1, <1>2

LEMMA NotifyKeeps ==
    ASSUME IInv, NEW j \in Job, _notify_feedback_recorded(j)
    PROVE  IInv'
<1>1. job[j].pc = "notify" /\ Finish(j)
      /\ UNCHANGED <<periods, insights, vote, vectors, guide, clock, history>>
  BY DEF _notify_feedback_recorded, At
<1>2. PICK u \in User, i \in Id : u = job[j].user /\ i = job[j].id
  BY <1>1, VoterFacts DEF Voting
<1> DEFINE rows == Rung(j, bells[u][i])
<1>3. \/ bells' = [bells EXCEPT ![u][i] = rows] /\ faults' = faults
      \/ bells' = bells /\ Fail
  BY <1>2 DEF _notify_feedback_recorded
<1>4. /\ rows \in Seq(Bell) /\ rows # <<>> /\ Last(rows).rating = job[j].rating
      /\ Len(rows) <= Len(bells[u][i]) + 1
      /\ ~job[j].changed /\ bells[u][i] # <<>> => Len(rows) = Len(bells[u][i])
  BY <1>1, VoterFacts, VoteFacts, RungFacts DEF Voting
<1> HIDE DEF rows
<1>5. /\ Len(rows) \in Nat
      /\ Len(bells[u][i]) \in Nat /\ changes[u][i] \in Nat
  <2>1. Len(rows) \in Nat
    BY <1>4
  <2> QED
    BY <2>1, VoteFacts
<1>6. /\ bells' \in [User -> [Id -> Seq(Bell)]]
      /\ faults' = 0 => faults = 0 /\ bells'[u][i] = rows
      /\ faults' \in 0 .. MaxFaults
      /\ \A v \in User, h \in Id : v # u \/ h # i => bells'[v][h] = bells[v][h]
  <2>1. bells \in [User -> [Id -> Seq(Bell)]] /\ faults \in 0 .. MaxFaults
    BY DEF IInv, Typed
  <2>2. CASE bells' = [bells EXCEPT ![u][i] = rows] /\ faults' = faults
    BY <1>4, <2>1, <2>2, PutOne
  <2>3. CASE bells' = bells /\ Fail
    BY <2>1, <2>3, FailIsSeen
  <2> QED
    BY <1>3, <2>2, <2>3
<1>7. job' \in [Job -> Request] /\ OthersStay(j) /\ job'[j] = Idle
  BY <1>1, FinishFacts
<1>8. Typed'
  BY <1>1, <1>6, <1>7 DEF IInv, Typed, history
<1>9. ASSUME Told(j, u, i), faults' = 0
      PROVE  Standing(u, i)'
  <2>1. /\ vote[u][i].rating = job[j].rating
        /\ job[j].changed => Len(bells[u][i]) + 1 <= changes[u][i]
        /\ ~job[j].changed => Standing(u, i)
    BY <1>1, <1>9 DEF Told
  <2>2. job[j].rating \in Rating /\ NoRow.rating = "none"
    BY <1>1, VoterFacts DEF Voting, NoRow
  <2>3. ~job[j].changed => Len(rows) <= changes[u][i]
    BY <1>4, <1>5, <2>1, <2>2 DEF Standing, Live, Rating
  <2>4. Len(rows) <= changes[u][i]
    BY <1>4, <1>5, <2>1, <2>3
  <2> QED
    BY <1>1, <1>4, <1>6, <1>9, <2>1, <2>4 DEF Standing, Live, history
<1>10. RowOK(vote[u][i]) /\ (vote[u][i].rating = "down" => <<u, i>> \in downed)
  BY VoteFacts
<1>11. /\ UNCHANGED <<vote, insights, guide, summed, overlapped, clock, hurried, changes, downed>>
       /\ faults' = 0 => faults = 0
       /\ job[j].pc \in Voting /\ RowOK(Idle.row)
  BY <1>1, <1>6, IdleFacts DEF Voting, history
<1>12. \A v \in User, h \in Id : v # u \/ h # i =>
           /\ vote'[v][h] = vote[v][h] /\ bells'[v][h] = bells[v][h]
           /\ changes'[v][h] = changes[v][h]
  BY <1>6, <1>11
<1> QED
  BY <1>2, <1>7, <1>8, <1>9, <1>10, <1>11, <1>12, VoterStep DEF Live

LEMMA SoftDeleteKeeps ==
    ASSUME IInv, NEW j \in Job, soft_delete(j)
    PROVE  IInv'
<1>1. /\ job[j].pc = "retract" /\ Goto(j, "clear")
      /\ UNCHANGED <<periods, insights, vectors, bells, guide, clock, faults, history>>
  BY DEF soft_delete, At
<1>2. PICK u \in User, i \in Id : u = job[j].user /\ i = job[j].id
  BY <1>1, VoterFacts DEF Voting
<1> DEFINE now == IF vote[u][i].stamp = job[j].row.stamp THEN NoRow ELSE vote[u][i]
<1>3. vote' = [vote EXCEPT ![u][i] = now]
  BY <1>2 DEF soft_delete
<1>4. /\ NoRow \in Row /\ NoRow.rating = "none" /\ RowOK(NoRow) /\ RowOK(job[j].row)
      /\ vote[u][i] \in Row /\ RowOK(vote[u][i])
      /\ vote[u][i].rating = "down" => <<u, i>> \in downed
  BY <1>1, VoteFacts, VoterFacts, IdleFacts, FeedbackAssumption
     DEF Voting, NoRow, Row, RowOK, Stamp, FeedbackAssumption
<1>5. /\ now \in Row /\ RowOK(now) /\ (now.rating = "down" => <<u, i>> \in downed)
      /\ now # NoRow => now = vote[u][i]
      /\ job[j].row = vote[u][i] => now = NoRow
  BY <1>4
<1> HIDE DEF now
<1>6. /\ vote' \in [User -> [Id -> Row]] /\ vote'[u][i] = now
      /\ \A v \in User, h \in Id : v # u \/ h # i => vote'[v][h] = vote[v][h]
  <2>1. vote \in [User -> [Id -> Row]]
    BY DEF IInv, Typed
  <2> QED
    BY <1>3, <1>5, <2>1, PutOne
<1>7. /\ job' \in [Job -> Request] /\ OthersStay(j) /\ job'[j] # Idle
      /\ job'[j].pc = "clear" /\ job'[j].user = u /\ job'[j].id = i
      /\ job'[j].rating = job[j].rating /\ job'[j].stamp = job[j].stamp
      /\ job'[j].row = job[j].row
  BY <1>1, <1>2, GotoFacts DEF Voting
<1>8. Typed'
  BY <1>1, <1>6, <1>7 DEF IInv, Typed, history
<1>9. Told(j, u, i) => Told(j, u, i)'
  BY <1>1, <1>5, <1>6, <1>7 DEF Told, Standing, Live, history
<1> QED
  <2>1. /\ UNCHANGED <<insights, bells, changes, guide, summed, overlapped, clock, hurried,
                        faults, downed>>
        /\ job[j].pc \in Voting /\ job'[j].pc \in Voting
        /\ job'[j].pc \notin {"find", "write", "vector", "notify"}
    BY <1>1, <1>7 DEF Voting, history
  <2> QED
    BY <1>2, <1>4, <1>5, <1>6, <1>7, <1>8, <1>9, <2>1, VoterStep DEF Live

LEMMA ClearKeeps ==
    ASSUME IInv, NEW j \in Job, _suppress_unread_feedback_notification(j)
    PROVE  IInv'
<1>1. job[j].pc = "clear" /\ Finish(j)
      /\ UNCHANGED <<periods, insights, vote, vectors, guide, clock, history>>
  BY DEF _suppress_unread_feedback_notification, At
<1>2. PICK u \in User, i \in Id : u = job[j].user /\ i = job[j].id
  BY <1>1, VoterFacts DEF Voting
<1> DEFINE rows == Cleared(bells[u][i])
<1>3. \/ bells' = [bells EXCEPT ![u][i] = rows] /\ faults' = faults
      \/ bells' = bells /\ Fail
  BY <1>2 DEF _suppress_unread_feedback_notification
<1>4. rows \in Seq(Bell) /\ Len(rows) <= Len(bells[u][i])
  BY VoteFacts, ClearedFacts
<1> HIDE DEF rows
<1>5. /\ Len(rows) \in Nat
      /\ Len(bells[u][i]) \in Nat /\ changes[u][i] \in Nat
  <2>1. Len(rows) \in Nat
    BY <1>4
  <2> QED
    BY <2>1, VoteFacts
<1>6. /\ bells' \in [User -> [Id -> Seq(Bell)]]
      /\ faults' = 0 => faults = 0 /\ bells'[u][i] = rows
      /\ faults' \in 0 .. MaxFaults
      /\ \A v \in User, h \in Id : v # u \/ h # i => bells'[v][h] = bells[v][h]
  <2>1. bells \in [User -> [Id -> Seq(Bell)]] /\ faults \in 0 .. MaxFaults
    BY DEF IInv, Typed
  <2>2. CASE bells' = [bells EXCEPT ![u][i] = rows] /\ faults' = faults
    BY <1>4, <2>1, <2>2, PutOne
  <2>3. CASE bells' = bells /\ Fail
    BY <2>1, <2>3, FailIsSeen
  <2> QED
    BY <1>3, <2>2, <2>3
<1>7. job' \in [Job -> Request] /\ OthersStay(j) /\ job'[j] = Idle
  BY <1>1, FinishFacts
<1>8. Typed'
  BY <1>1, <1>6, <1>7 DEF IInv, Typed, history
<1>9. ASSUME Told(j, u, i), faults' = 0
      PROVE  Standing(u, i)'
  BY <1>1, <1>4, <1>5, <1>6, <1>9 DEF Told, Standing, Live, history
<1>10. RowOK(vote[u][i]) /\ (vote[u][i].rating = "down" => <<u, i>> \in downed)
  BY VoteFacts
<1>11. /\ UNCHANGED <<vote, insights, guide, summed, overlapped, clock, hurried, changes, downed>>
       /\ faults' = 0 => faults = 0
       /\ job[j].pc \in Voting /\ RowOK(Idle.row)
  BY <1>1, <1>6, IdleFacts DEF Voting, history
<1>12. \A v \in User, h \in Id : v # u \/ h # i =>
           /\ vote'[v][h] = vote[v][h] /\ bells'[v][h] = bells[v][h]
           /\ changes'[v][h] = changes[v][h]
  BY <1>6, <1>11
<1> QED
  BY <1>2, <1>7, <1>8, <1>9, <1>10, <1>11, <1>12, VoterStep DEF Live

LEMMA ReadFacts ==
    ASSUME NEW rows \in Seq(Bell), NEW new,
           new = [k \in DOMAIN rows |-> [rows[k] EXCEPT !.read = TRUE]]
    PROVE  /\ new \in Seq(Bell) /\ Len(new) = Len(rows)
           /\ rows # <<>> => new # <<>> /\ Last(new).rating = Last(rows).rating
<1> DEFINE n == Len(rows)
<1>1. n \in Nat /\ DOMAIN rows = 1 .. n
  OBVIOUS
<1>2. \A k \in 1 .. n : /\ [rows[k] EXCEPT !.read = TRUE] \in Bell
                        /\ [rows[k] EXCEPT !.read = TRUE].rating = rows[k].rating
  <2>1. \A b \in Bell : /\ [b EXCEPT !.read = TRUE] \in Bell
                        /\ [b EXCEPT !.read = TRUE].rating = b.rating
    BY DEF Bell
  <2>2. \A k \in 1 .. n : rows[k] \in Bell
    BY <1>1
  <2> QED
    BY <2>1, <2>2
<1>3. \A k \in 1 .. n : new[k] \in Bell /\ new[k].rating = rows[k].rating
  BY <1>1, <1>2
<1> HIDE DEF n
<1>4. new = [k \in 1 .. n |-> new[k]]
  BY <1>1
<1>5. new \in Seq(Bell) /\ Len(new) = n
  BY <1>1, <1>3, <1>4
<1>6. rows # <<>> => n > 0 /\ n \in 1 .. n
  BY <1>1 DEF n
<1>7. rows # <<>> => new # <<>> /\ new[n].rating = rows[n].rating
  BY <1>1, <1>3, <1>5, <1>6
<1> QED
  BY <1>5, <1>7 DEF Last, n

LEMMA MarkKeeps ==
    ASSUME IInv, NEW u \in User, mark_all_read(u)
    PROVE  IInv'
<1> DEFINE Read(rows) == [k \in DOMAIN rows |-> [rows[k] EXCEPT !.read = TRUE]]
<1>1. /\ bells' = [bells EXCEPT ![u] = [i \in Id |-> Read(bells[u][i])]]
      /\ UNCHANGED <<periods, insights, vote, vectors, guide, job, clock, faults, history>>
  BY DEF mark_all_read
<1>2. UNCHANGED <<changes, hurried, downed, summed, overlapped>>
  BY <1>1 DEF history
<1>3. bells \in [User -> [Id -> Seq(Bell)]]
  BY DEF IInv, Typed
<1>4. \A i \in Id :
          /\ Read(bells[u][i]) \in Seq(Bell) /\ Len(Read(bells[u][i])) = Len(bells[u][i])
          /\ bells[u][i] # <<>> =>
                 /\ Read(bells[u][i]) # <<>>
                 /\ Last(Read(bells[u][i])).rating = Last(bells[u][i]).rating
  BY <1>3, ReadFacts
<1> HIDE DEF Read
<1>5. bells' \in [User -> [Id -> Seq(Bell)]]
  BY <1>1, <1>3, <1>4
<1>6. \A v \in User, i \in Id :
          /\ Len(bells'[v][i]) = Len(bells[v][i])
          /\ bells[v][i] # <<>> =>
                 bells'[v][i] # <<>> /\ Last(bells'[v][i]).rating = Last(bells[v][i]).rating
  BY <1>1, <1>3, <1>4
<1>7. \A v \in User, i \in Id : Standing(v, i) => Standing(v, i)'
  BY <1>1, <1>2, <1>6 DEF Standing, Live
<1>8. ASSUME faults' = 0, NEW v \in User \ hurried'
      PROVE  UserOK(v)'
  <2>1. UserOK(v)
    BY <1>1, <1>2, <1>8 DEF IInv, BellsOK
  <2>2. ASSUME NEW j \in Job, job[j].user = v
        PROVE  Told(j, v, job[j].id)'
    <3>1. Told(j, v, job[j].id) /\ job[j].id \in Id /\ job' = job
      BY <1>1, <2>1, <2>2, IdsAreIds DEF UserOK
    <3> QED
      BY <1>1, <1>2, <1>6, <1>7, <3>1 DEF Told, Live
  <2> QED
    BY <1>1, <1>7, <2>1, <2>2 DEF UserOK
<1>9. BellsOK'
  BY <1>8 DEF BellsOK
<1>10. Typed'
  BY <1>1, <1>2, <1>5 DEF IInv, Typed
<1>11. VotesOK' /\ RequestsOK'
  BY <1>1, <1>2 DEF IInv, VotesOK, RowOK, RequestsOK, RequestOK, At
<1>12. DetectionOK'
  BY <1>1, <1>2 DEF IInv, DetectionOK, DuplicatesOverlap, SuppressedByTwo, RoomIsLeft,
                    Detecting, At
<1>13. GuidanceOK'
  BY <1>1, <1>2 DEF IInv, GuidanceOK, NoVoteEscapes, WritesAreSeen, BatchesAreWhole,
                    Writing, Accounted, Live, At
<1> QED
  BY <1>9, <1>10, <1>11, <1>12, <1>13 DEF IInv

LEMMA SnapshotKeeps ==
    ASSUME IInv, compute_snapshot
    PROVE  IInv'
<1>1. /\ periods' \in 1 .. MaxPeriods
      /\ UNCHANGED <<insights, vote, vectors, bells, guide, job, clock, faults>>
      /\ UNCHANGED <<changes, hurried, downed, summed, overlapped>>
  BY FeedbackAssumption DEF compute_snapshot, history, IInv, Typed, FeedbackAssumption
<1>2. Typed'
  BY <1>1 DEF IInv, Typed
<1>3. VotesOK' /\ RequestsOK'
  BY <1>1 DEF IInv, VotesOK, RowOK, RequestsOK, RequestOK, At
<1>4. DetectionOK'
  BY <1>1 DEF IInv, DetectionOK, DuplicatesOverlap, SuppressedByTwo, RoomIsLeft,
              Detecting, At
<1>5. GuidanceOK'
  BY <1>1 DEF IInv, GuidanceOK, NoVoteEscapes, WritesAreSeen, BatchesAreWhole,
              Writing, Accounted, Live, At
<1>6. BellsOK'
  BY <1>1 DEF IInv, BellsOK, UserOK, Told, Standing, Live
<1> QED
  BY <1>2, <1>3, <1>4, <1>5, <1>6 DEF IInv

-----------------------------------------------------------------------------
(* A request begins *)

LEMMA BegunFacts ==
    ASSUME IInv, NEW j \in Job, NEW new \in Request, new.stamp = clock + 1,
           At(j, "idle"), clock < MaxStarts, clock' = clock + 1,
           job' = [job EXCEPT ![j] = new]
    PROVE  /\ clock \in Nat /\ clock' \in Stamp \cap Nat
           /\ clock <= clock' /\ guide <= clock'
           /\ job' \in [Job -> Request] /\ OthersStay(j) /\ job'[j] = new
           /\ job[j].user = NoUser /\ job[j].pc \notin Voting /\ ~Writing(j)
<1>1. clock \in Nat /\ guide \in Nat /\ guide <= clock
  BY StampsAreNumbers DEF IInv
<1>2. job' \in [Job -> Request] /\ OthersStay(j) /\ job'[j] = new
  BY DEF IInv, Typed, OthersStay
<1>3. job[j].user = NoUser /\ job[j].pc \notin Voting /\ ~Writing(j)
  BY DEF IInv, RequestsOK, RequestOK, At, Voting, Writing
<1>4. clock' \in Stamp \cap Nat
  BY <1>1, FeedbackAssumption DEF Stamp, FeedbackAssumption
<1> QED
  BY <1>1, <1>2, <1>3, <1>4

\* The request of a user who has none under way remembers the vote as it is;
\* for one who has, nothing is claimed any more.
LEMMA VoterBegins ==
    ASSUME IInv, NEW j \in Job, NEW u \in User, NEW i \in DOMAIN insights,
           NEW new \in Request, new.stamp = clock + 1, new.user = u, new.id = i,
           new.pc \in {"find", "retract"}, new.row = vote[u][i],
           new.pc = "find" => /\ new.rating \in Rating
                              /\ new.changed <=> new.rating # vote[u][i].rating,
           At(j, "idle"), clock < MaxStarts, clock' = clock + 1,
           job' = [job EXCEPT ![j] = new],
           hurried' = hurried \cup {v \in User : u = v /\ InFlight(v) # {}},
           UNCHANGED <<periods, insights, vote, vectors, bells, guide, faults,
                       changes, downed, summed, overlapped>>
    PROVE  IInv'
<1>1. /\ clock \in Nat /\ clock' \in Stamp /\ clock <= clock' /\ guide <= clock'
      /\ job' \in [Job -> Request] /\ OthersStay(j) /\ job'[j] = new
      /\ job[j].user = NoUser /\ job[j].pc \notin Voting /\ ~Writing(j)
      /\ clock' \in Nat /\ i \in Id
  BY BegunFacts, IdsAreIds
<1>2. Typed'
  BY <1>1 DEF IInv, Typed
<1>3. VotesOK'
  BY <1>1, <1>2, VotesKept
<1>4. RequestOK(j)'
  <2>1. RowOK(vote[u][i])
    BY <1>1, VoteFacts
  <2>2. RowOK(job[j].row)'
    BY <1>1, <2>1 DEF RowOK
  <2> QED
    BY <1>1, <2>2 DEF RequestOK, At, Voting
<1>5. RequestsOK'
  BY <1>1, <1>2, <1>4, RequestsKept
<1>6. DetectionOK'
  <2>1. \A k \in Job : At(k, "narrating")' <=> At(k, "narrating")
    BY <1>1 DEF OthersStay, At
  <2>2. Detecting' = Detecting
    BY <2>1 DEF Detecting
  <2> QED
    BY <2>2, DetectionKept
<1>7. GuidanceOK'
  <2>1. \A v \in User, h \in Id : Live(v, h)' => Live(v, h) /\ vote'[v][h].stamp = vote[v][h].stamp
    BY DEF Live
  <2>2. job'[j].pc # "summarizing" /\ job'[j].stamp = clock + 1
    BY <1>1
  <2> QED
    BY <1>1, <1>2, <2>1, <2>2, GuidanceKept
<1>8. ASSUME faults' = 0, NEW v \in User \ hurried'
      PROVE  UserOK(v)'
  <2>1. UserOK(v) /\ NoUser # v
    BY <1>8, FeedbackAssumption DEF IInv, BellsOK, FeedbackAssumption
  <2>2. \A h \in Id : Standing(v, h)' <=> Standing(v, h)
    BY DEF Standing, Live
  <2>3. ASSUME NEW k \in Job, k # j, job[k].user = v
        PROVE  Told(k, v, job[k].id)'
    <3>1. Told(k, v, job[k].id) /\ job'[k] = job[k]
      BY <1>1, <2>1, <2>3 DEF UserOK, OthersStay
    <3> QED
      BY <3>1 DEF Told, Standing, Live
  <2>4. CASE v # u
    <3>1. \A k \in Job : job'[k].user = v => k # j /\ job'[k] = job[k]
      BY <1>1, <2>4 DEF OthersStay
    <3>2. \A k \in Job : job[k].user = v => k # j /\ job'[k] = job[k]
      BY <1>1, <2>1 DEF OthersStay
    <3>3. \A h \in Id : (\A k \in Job : job'[k].user = v => job'[k].id # h) => Standing(v, h)'
      BY <2>1, <2>2, <3>2 DEF UserOK
    <3> QED
      BY <2>1, <2>3, <3>1, <3>3 DEF UserOK
  <2>5. CASE v = u
    <3>1. \A k \in Job : job[k].user # u
      BY <1>8, <2>5 DEF InFlight
    <3>2. \A k \in Job : job'[k].user = u => k = j
      BY <1>1, <3>1 DEF OthersStay
    <3>3. \A h \in Id : Standing(u, h)
      BY <2>1, <2>5, <3>1 DEF UserOK
    <3>4. Told(j, u, i)'
      BY <1>1, <3>3 DEF Told, Standing, Live
    <3>5. \A h \in Id : Standing(u, h)'
      BY <2>2, <2>5, <3>3
    <3> QED
      BY <1>1, <2>5, <3>2, <3>4, <3>5 DEF UserOK
  <2> QED
    BY <2>4, <2>5
<1>9. BellsOK'
  BY <1>8 DEF BellsOK
<1> QED
  BY <1>2, <1>3, <1>5, <1>6, <1>7, <1>9 DEF IInv

LEMMA BeginFacts ==
    ASSUME IInv, NEW j \in Job, NEW request \in Request, Begin(j, request),
           NEW new, new = [request EXCEPT !.stamp = clock + 1]
    PROVE  /\ At(j, "idle") /\ clock < MaxStarts /\ clock' = clock + 1
           /\ job' = [job EXCEPT ![j] = new] /\ new \in Request /\ new.stamp = clock + 1
           /\ new.pc = request.pc /\ new.user = request.user /\ new.id = request.id
           /\ new.rating = request.rating /\ new.row = request.row
           /\ new.changed = request.changed /\ new.period = request.period
           /\ new.known = request.known /\ new.batch = request.batch
           /\ new.late = request.late
           /\ hurried' = hurried \cup {v \in User : request.user = v /\ InFlight(v) # {}}
<1>1. clock + 1 \in Stamp
  <2>1. clock \in Nat /\ clock < MaxStarts
    BY StampsAreNumbers DEF IInv, Begin
  <2> QED
    BY <2>1, FeedbackAssumption DEF Stamp, FeedbackAssumption
<1>2. new \in Request /\ new.stamp = clock + 1
  BY <1>1 DEF Request
<1>3. /\ new.pc = request.pc /\ new.user = request.user /\ new.id = request.id
      /\ new.rating = request.rating /\ new.row = request.row
      /\ new.changed = request.changed /\ new.period = request.period
      /\ new.known = request.known /\ new.batch = request.batch
      /\ new.late = request.late
  BY DEF Request
<1> QED
  BY <1>2, <1>3 DEF Begin

LEMMA SubmitKeeps ==
    ASSUME IInv, NEW j \in Job, NEW u \in User, NEW i \in DOMAIN insights,
           NEW rating \in Rating, submit_feedback(j, u, i, rating)
    PROVE  IInv'
<1>1. PICK b \in BOOLEAN : b <=> rating # vote[u][i].rating
  OBVIOUS
<1>2. (rating # vote[u][i].rating) = b
  BY <1>1
<1> DEFINE request == [Idle EXCEPT !.pc = "find", !.user = u, !.id = i, !.rating = rating,
                                   !.row = vote[u][i], !.changed = b]
           new == [request EXCEPT !.stamp = clock + 1]
<1>3. /\ Begin(j, request)
      /\ UNCHANGED <<periods, insights, vote, vectors, bells, guide, faults,
                     changes, downed, summed, overlapped>>
  BY <1>2 DEF submit_feedback
<1>4. i \in Id /\ vote[u][i] \in Row
  BY IdsAreIds, VoteFacts
<1>5. /\ request \in Request /\ request.pc = "find" /\ request.user = u /\ request.id = i
      /\ request.rating = rating /\ request.row = vote[u][i] /\ request.changed = b
  <2>1. i \in 0 .. MaxInsights
    BY <1>4, FeedbackAssumption DEF Id, FeedbackAssumption
  <2> QED
    BY <1>4, <2>1, IdleFacts DEF Request, Voting
<1> HIDE DEF request
<1>6. /\ At(j, "idle") /\ clock < MaxStarts /\ clock' = clock + 1
      /\ job' = [job EXCEPT ![j] = new] /\ new \in Request /\ new.stamp = clock + 1
      /\ new.pc = "find" /\ new.user = u /\ new.id = i /\ new.rating = rating
      /\ new.row = vote[u][i] /\ new.changed = b
      /\ hurried' = hurried \cup {v \in User : u = v /\ InFlight(v) # {}}
  BY <1>3, <1>5, BeginFacts
<1> HIDE DEF new
<1>7. new.changed <=> new.rating # vote[u][i].rating
  BY <1>1, <1>6
<1> QED
  BY <1>3, <1>6, <1>7, VoterBegins

LEMMA RetractKeeps ==
    ASSUME IInv, NEW j \in Job, NEW u \in User, NEW i \in DOMAIN insights,
           retract_feedback(j, u, i)
    PROVE  IInv'
<1> DEFINE request == [Idle EXCEPT !.pc = "retract", !.user = u, !.id = i,
                                   !.row = vote[u][i]]
           new == [request EXCEPT !.stamp = clock + 1]
<1>1. /\ Begin(j, request)
      /\ UNCHANGED <<periods, insights, vote, vectors, bells, guide, faults,
                     changes, downed, summed, overlapped>>
  BY DEF retract_feedback
<1>2. i \in Id /\ vote[u][i] \in Row
  BY IdsAreIds, VoteFacts
<1>3. /\ request \in Request /\ request.pc = "retract" /\ request.user = u
      /\ request.id = i /\ request.row = vote[u][i]
  <2>1. i \in 0 .. MaxInsights
    BY <1>2, FeedbackAssumption DEF Id, FeedbackAssumption
  <2> QED
    BY <1>2, <2>1, IdleFacts DEF Request, Voting
<1> HIDE DEF request
<1>4. /\ At(j, "idle") /\ clock < MaxStarts /\ clock' = clock + 1
      /\ job' = [job EXCEPT ![j] = new] /\ new \in Request /\ new.stamp = clock + 1
      /\ new.pc = "retract" /\ new.user = u /\ new.id = i /\ new.row = vote[u][i]
      /\ hurried' = hurried \cup {v \in User : u = v /\ InFlight(v) # {}}
  BY <1>1, <1>3, BeginFacts
<1> HIDE DEF new
<1> QED
  BY <1>1, <1>4, VoterBegins

LEMMA DetectKeeps ==
    ASSUME IInv, NEW j \in Job, detect_for_kpi(j)
    PROVE  IInv'
<1> DEFINE request == [Idle EXCEPT !.pc = "narrating", !.period = periods,
                                   !.known = Len(insights)]
           new == [request EXCEPT !.stamp = clock + 1]
<1>1. /\ Begin(j, request)
      /\ Len(insights) + Cardinality(Detecting) < MaxInsights
      /\ \A i \in DOMAIN insights : insights[i].period # periods
      /\ UNCHANGED <<periods, insights, vote, vectors, bells, guide, faults,
                     changes, downed, summed, overlapped>>
  BY DEF detect_for_kpi, _already_detected
<1>2. Len(insights) \in 0 .. MaxInsights /\ periods \in 1 .. MaxPeriods
  BY IdsAreIds DEF IInv, Typed
<1>3. /\ request \in Request /\ request.pc = "narrating" /\ request.period = periods
      /\ request.known = Len(insights) /\ request.user = NoUser /\ request.row = NoRow
  <2>1. periods \in 0 .. MaxPeriods
    BY <1>2, FeedbackAssumption DEF FeedbackAssumption
  <2> QED
    BY <1>2, <2>1, IdleFacts DEF Request
<1> HIDE DEF request
<1>4. /\ At(j, "idle") /\ clock < MaxStarts /\ clock' = clock + 1
      /\ job' = [job EXCEPT ![j] = new] /\ new \in Request /\ new.stamp = clock + 1
      /\ new.pc = "narrating" /\ new.period = periods /\ new.known = Len(insights)
      /\ new.user = NoUser /\ new.row = NoRow
      /\ hurried \subseteq hurried'
  BY <1>1, <1>3, BeginFacts
<1> HIDE DEF new
<1>5. /\ clock \in Nat /\ clock' \in Stamp /\ clock <= clock' /\ guide <= clock'
      /\ job' \in [Job -> Request] /\ OthersStay(j) /\ job'[j] = new
      /\ job[j].user = NoUser /\ job[j].pc \notin Voting /\ ~Writing(j)
      /\ clock' \in Nat
  BY <1>4, BegunFacts
<1>6. Typed'
  BY <1>1, <1>5 DEF IInv, Typed
<1>7. VotesOK'
  BY <1>1, <1>5, <1>6, VotesKept
<1>8. RequestsOK'
  <2>1. RowOK(job[j].row)'
    BY <1>4, <1>5 DEF RowOK
  <2>2. RequestOK(j)'
    BY <1>1, <1>2, <1>4, <1>5, <2>1 DEF RequestOK, At, Voting
  <2> QED
    BY <1>1, <1>5, <1>6, <2>2, RequestsKept
<1>9. DetectionOK'
  <2>1. Detecting' = Detecting \cup {j} /\ j \notin Detecting
    BY <1>4, <1>5 DEF Detecting, OthersStay, At
  <2>2. IsFiniteSet(Detecting') /\ Cardinality(Detecting') = Cardinality(Detecting) + 1
        /\ Cardinality(Detecting) \in Nat
    BY <2>1, FS_AddElement, FS_CardinalityType DEF IInv, DetectionOK, RoomIsLeft
  <2>3. RoomIsLeft'
    BY <1>1, <1>2, <2>2, FeedbackAssumption DEF RoomIsLeft, FeedbackAssumption
  <2>4. DuplicatesOverlap' /\ SuppressedByTwo'
    BY <1>1 DEF IInv, DetectionOK, DuplicatesOverlap, SuppressedByTwo
  <2> QED
    BY <2>3, <2>4 DEF DetectionOK
<1>10. GuidanceOK'
  <2>1. \A v \in User, h \in Id : Live(v, h)' => Live(v, h) /\ vote'[v][h].stamp = vote[v][h].stamp
    BY <1>1 DEF Live
  <2>2. job'[j].pc # "summarizing" /\ ~Writing(j)'
    BY <1>4, <1>5 DEF Writing
  <2> QED
    BY <1>1, <1>5, <1>6, <2>1, <2>2, GuidanceKept
<1>11. BellsOK'
  BY <1>1, <1>4, <1>5, BellsKept
<1> QED
  BY <1>6, <1>7, <1>8, <1>9, <1>10, <1>11 DEF IInv

-----------------------------------------------------------------------------
(* Detections and generations end *)

\* The insight of a period, the latest one.
LEMMA StoredFacts ==
    ASSUME IInv, NEW j \in Job, store_insight(j)
    PROVE  \E s \in BOOLEAN :
               /\ insights' = Append(insights, [period |-> job[j].period, suppressed |-> s,
                                                known |-> job[j].known])
               /\ s => Cardinality(Voters(Matches(job[j].period, "down"))) >= MinDownUsers
               /\ faults' = faults \/ Fail
<1>1. PICK s \in BOOLEAN :
          /\ insights' = Append(insights, [period |-> job[j].period, suppressed |-> s,
                                           known |-> job[j].known])
          /\ \/ s \in Suppressible(job[j].period) /\ UNCHANGED faults
             \/ ~s /\ s \notin Suppressible(job[j].period) /\ Fail
  BY DEF store_insight
<1>2. s => s \in Suppressible(job[j].period)
  BY <1>1
<1>3. s => Cardinality(Voters(Matches(job[j].period, "down"))) >= MinDownUsers
  BY <1>2 DEF Suppressible
<1> QED
  BY <1>1, <1>3

LEMMA StoreKeeps ==
    ASSUME IInv, NEW j \in Job, store_insight(j)
    PROVE  IInv'
<1> DEFINE p == job[j].period
           n == Len(insights)
<1>1. PICK s \in BOOLEAN :
          /\ insights' = Append(insights, [period |-> p, suppressed |-> s,
                                           known |-> job[j].known])
          /\ s => Cardinality(Voters(Matches(p, "down"))) >= MinDownUsers
          /\ faults' = faults \/ Fail
  BY StoredFacts
<1> DEFINE new == [period |-> p, suppressed |-> s, known |-> job[j].known]
<1>2. /\ job[j].pc = "narrating" /\ Finish(j)
      /\ UNCHANGED <<periods, vote, vectors, bells, guide, clock>>
      /\ UNCHANGED <<changes, hurried, downed, summed, overlapped>>
  BY DEF store_insight, At, history
<1>3. /\ n \in 0 .. MaxInsights /\ n \in Nat /\ DOMAIN insights = 1 .. n
      /\ insights \in Seq(Insight) /\ clock \in Nat
      /\ \A i \in 1 .. n : insights[i] \in Insight
  <2>1. insights \in Seq(Insight)
    BY DEF IInv, Typed
  <2>2. \A i \in 1 .. n : insights[i] \in Insight
    BY <2>1
  <2> QED
    BY <2>1, <2>2, IdsAreIds, StampsAreNumbers, FeedbackAssumption
       DEF IInv, FeedbackAssumption
<1>4. /\ p \in 1 .. MaxPeriods /\ job[j].known \in 0 .. MaxInsights /\ job[j].known <= n
      /\ \A i \in 1 .. n : insights[i].period = p => job[j].known < i
      /\ job[j].user = NoUser /\ ~Writing(j)
  <2>1. RequestOK(j) /\ job[j] \in Request
    BY DEF IInv, RequestsOK, Typed
  <2>2. p \in 0 .. MaxPeriods /\ job[j].known \in 0 .. MaxInsights
    BY <2>1 DEF Request
  <2> QED
    BY <1>2, <1>3, <2>1, <2>2, FeedbackAssumption
       DEF RequestOK, At, Voting, Writing, FeedbackAssumption
<1>5. /\ new \in Insight /\ new.period = p /\ new.suppressed = s /\ new.known = job[j].known
      /\ insights' = Append(insights, new)
  BY <1>1, <1>4 DEF Insight
<1> HIDE DEF new, p
<1>6. /\ insights' \in Seq(Insight) /\ Len(insights') = n + 1
      /\ DOMAIN insights' = 1 .. n + 1 /\ insights'[n + 1] = new
      /\ \A i \in 1 .. n : insights'[i] = insights[i]
  BY <1>3, <1>5
<1> HIDE DEF n
<1>7. job' \in [Job -> Request] /\ OthersStay(j) /\ job'[j] = Idle
  BY <1>2, FinishFacts
<1>8. Typed' /\ (faults' = 0 => faults = 0)
  <2>1. vectors' \subseteq DOMAIN insights'
    BY <1>2, <1>3, <1>6 DEF IInv, Typed
  <2> QED
    BY <1>1, <1>2, <1>6, <1>7, <2>1, FailIsSeen DEF IInv, Typed
<1>9. VotesOK'
  BY <1>2, <1>3, <1>8, VotesKept
<1>10. RequestsOK'
  <2> SUFFICES ASSUME NEW k \in Job PROVE RequestOK(k)'
    BY DEF RequestsOK
  <2>1. CASE k = j
    BY <1>7, <2>1, IdleFacts, StampsAreNumbers, <1>8 DEF RequestOK, At, Voting
  <2>2. CASE k # j
    <3>1. job'[k] = job[k] /\ RequestOK(k) /\ job[k].known \in Nat
      <4>1. job[k] \in Request
        BY DEF IInv, Typed
      <4>2. job[k].known \in Nat
        BY <4>1, FeedbackAssumption DEF Request, FeedbackAssumption
      <4> QED
        BY <1>7, <2>2, <4>2 DEF IInv, RequestsOK, OthersStay
    <3>2. RowOK(job[k].row)'
      BY <1>2, <3>1 DEF RequestOK, RowOK
    <3>3. job[k].pc \in Voting => job[k].id \in DOMAIN insights'
      BY <1>3, <1>6, <3>1 DEF RequestOK
    <3>4. job[k].pc = "narrating" =>
              /\ job[k].known <= n + 1
              /\ \A i \in 1 .. n + 1 :
                     insights'[i].period = job[k].period => job[k].known < i
      <4>1. job[k].pc = "narrating" =>
                /\ job[k].known <= n
                /\ \A i \in 1 .. n : insights[i].period = job[k].period => job[k].known < i
        BY <1>3, <3>1 DEF RequestOK, At, n
      <4> QED
        BY <1>3, <1>6, <3>1, <4>1
    <3> QED
      BY <1>2, <1>6, <3>1, <3>2, <3>3, <3>4 DEF RequestOK, At
  <2> QED
    BY <2>1, <2>2
<1>11. DetectionOK'
  <2>1. RoomIsLeft'
    <3>1. Detecting' = Detecting \ {j} /\ j \in Detecting
      BY <1>2, <1>7, IdleFacts DEF Detecting, OthersStay, At
    <3>2. /\ IsFiniteSet(Detecting') /\ Cardinality(Detecting') = Cardinality(Detecting) - 1
          /\ Cardinality(Detecting) \in Nat
      BY <3>1, FS_RemoveElement, FS_CardinalityType DEF IInv, DetectionOK, RoomIsLeft
    <3> QED
      BY <1>3, <1>6, <3>2 DEF IInv, DetectionOK, RoomIsLeft, n
  <2>2. DuplicatesOverlap'
    <3> SUFFICES ASSUME NEW i \in 1 .. n + 1, NEW k \in 1 .. n + 1, i < k,
                        insights'[i].period = insights'[k].period
                 PROVE  insights'[k].known < i
      BY <1>6 DEF DuplicatesOverlap
    <3>1. i \in 1 .. n
      BY <1>3
    <3>2. CASE k = n + 1
      BY <1>4, <1>5, <1>6, <3>1, <3>2
    <3>3. CASE k # n + 1
      <4>1. k \in 1 .. n
        BY <1>3, <3>3
      <4> QED
        BY <1>3, <1>6, <3>1, <4>1 DEF IInv, DetectionOK, DuplicatesOverlap
    <3> QED
      BY <3>2, <3>3
  <2>3. ASSUME NEW i \in 1 .. n + 1, insights'[i].suppressed
        PROVE  Cardinality(Downers(i)') >= MinDownUsers
    <3>1. PICK W : /\ W \subseteq Downers(i)' /\ Cardinality(W) >= MinDownUsers
      <4>1. CASE i = n + 1
        <5> DEFINE W == Voters(Matches(p, "down"))
        <5>1. W \subseteq Downers(i)'
          <6> SUFFICES ASSUME NEW u \in W PROVE u \in Downers(i)'
            OBVIOUS
          <6>1. PICK v \in User \X vectors :
                    /\ u = v[1] /\ vote[v[1]][v[2]].rating = "down"
                    /\ <<insights[v[2]].period, p>> \in Similar
            BY DEF Voters, Matches
          <6>2. v[1] \in User /\ v[2] \in 1 .. n /\ v[2] \in Id
            BY <1>3, <6>1, IdsAreIds DEF IInv, Typed
          <6>3. <<u, v[2]>> \in downed
            BY <6>1, <6>2, VoteFacts
          <6>4. v[2] \in DOMAIN insights' /\ insights'[v[2]] = insights[v[2]]
            BY <1>3, <1>6, <6>2
          <6>5. insights'[i].period = p
            BY <1>5, <1>6, <4>1
          <6> QED
            BY <1>2, <6>1, <6>2, <6>3, <6>4, <6>5 DEF Downers
        <5>2. Cardinality(W) >= MinDownUsers
          BY <1>1, <1>5, <1>6, <2>3, <4>1 DEF p
        <5> QED
          BY <5>1, <5>2
      <4>2. CASE i # n + 1
        <5>1. i \in 1 .. n /\ insights'[i] = insights[i]
          BY <1>3, <1>6, <4>2
        <5>2. Downers(i) \subseteq Downers(i)'
          <6>1. \A k \in DOMAIN insights :
                    k \in DOMAIN insights' /\ insights'[k] = insights[k]
            BY <1>3, <1>6
          <6> QED
            BY <1>2, <5>1, <6>1 DEF Downers
        <5>3. Cardinality(Downers(i)) >= MinDownUsers
          BY <1>3, <2>3, <5>1 DEF IInv, DetectionOK, SuppressedByTwo, Downers
        <5> QED
          BY <5>2, <5>3
      <4> QED
        BY <4>1, <4>2
    <3>2. IsFiniteSet(Downers(i)')
      BY DownersAreFinite
    <3>3. /\ Cardinality(W) <= Cardinality(Downers(i)')
          /\ Cardinality(W) \in Nat /\ Cardinality(Downers(i)') \in Nat
      BY <3>1, <3>2, FS_Subset, FS_CardinalityType
    <3> QED
      BY <3>1, <3>3, FeedbackAssumption DEF FeedbackAssumption
  <2> QED
    BY <1>6, <2>1, <2>2, <2>3 DEF DetectionOK, SuppressedByTwo, Downers
<1>12. GuidanceOK'
  <2>1. \A v \in User, h \in Id : Live(v, h)' => Live(v, h) /\ vote'[v][h].stamp = vote[v][h].stamp
    BY <1>2 DEF Live
  <2>2. job'[j].pc # "summarizing" /\ ~Writing(j)'
    BY <1>7, IdleFacts DEF Writing
  <2> QED
    BY <1>2, <1>7, <1>8, <2>1, <2>2, GuidanceKept
<1>13. BellsOK'
  BY <1>2, <1>4, <1>7, <1>8, IdleFacts, BellsKept
<1> QED
  BY <1>8, <1>9, <1>10, <1>11, <1>12, <1>13 DEF IInv

LEMMA GenerateKeeps ==
    ASSUME IInv, NEW j \in Job, generate_guidance(j)
    PROVE  IInv'
<1> DEFINE request == [Idle EXCEPT !.pc = "summarizing", !.batch = list_since(guide),
                                   !.late = Uncommitted]
           new == [request EXCEPT !.stamp = clock + 1]
<1>1. /\ Begin(j, request)
      /\ UNCHANGED <<periods, insights, vote, vectors, bells, guide, faults,
                     changes, downed, summed, overlapped>>
  BY DEF generate_guidance
<1>2. list_since(guide) \subseteq Stamp /\ Uncommitted \subseteq Stamp
  <2>1. \A u \in User, i \in Id : vote[u][i].stamp \in Stamp
    BY DEF IInv, Typed, Row
  <2>2. \A k \in Job : job[k].stamp \in Stamp
    BY DEF IInv, Typed, Request
  <2> QED
    BY <2>1, <2>2 DEF list_since, Uncommitted
<1>3. /\ request \in Request /\ request.pc = "summarizing" /\ request.user = NoUser
      /\ request.row = NoRow
      /\ request.batch = list_since(guide) /\ request.late = Uncommitted
  BY <1>2, IdleFacts DEF Request
<1> HIDE DEF request
<1>4. /\ At(j, "idle") /\ clock < MaxStarts /\ clock' = clock + 1
      /\ job' = [job EXCEPT ![j] = new] /\ new \in Request /\ new.stamp = clock + 1
      /\ new.pc = "summarizing" /\ new.user = NoUser /\ new.row = NoRow
      /\ new.batch = list_since(guide) /\ new.late = Uncommitted
      /\ hurried \subseteq hurried'
  BY <1>1, <1>3, BeginFacts
<1> HIDE DEF new
<1>5. /\ clock \in Nat /\ clock' \in Stamp /\ clock <= clock' /\ guide <= clock'
      /\ job' \in [Job -> Request] /\ OthersStay(j) /\ job'[j] = new
      /\ job[j].user = NoUser /\ job[j].pc \notin Voting /\ ~Writing(j)
      /\ clock' \in Nat
  BY <1>4, BegunFacts
<1>6. Typed'
  BY <1>1, <1>5 DEF IInv, Typed
<1>7. VotesOK'
  BY <1>1, <1>5, <1>6, VotesKept
<1>8. RequestsOK'
  <2>1. RowOK(job[j].row)'
    BY <1>4, <1>5 DEF RowOK
  <2>2. RequestOK(j)'
    BY <1>1, <1>2, <1>4, <1>5, <2>1 DEF RequestOK, At, Voting
  <2> QED
    BY <1>1, <1>5, <1>6, <2>2, RequestsKept
<1>9. DetectionOK'
  <2>1. \A k \in Job : At(k, "narrating")' <=> At(k, "narrating")
    BY <1>4, <1>5 DEF OthersStay, At
  <2>2. Detecting' = Detecting
    BY <2>1 DEF Detecting
  <2> QED
    BY <1>1, <2>2, DetectionKept
<1>10. GuidanceOK'
  <2>1. \A k \in Job : Writing(k)' => Writing(k) /\ job'[k] = job[k]
    BY <1>4, <1>5 DEF OthersStay, Writing
  <2>2. NoVoteEscapes'
    BY <1>1 DEF IInv, GuidanceOK, NoVoteEscapes, Live
  <2>3. WritesAreSeen'
    BY <1>1, <2>1 DEF IInv, GuidanceOK, WritesAreSeen
  <2>4. ASSUME NEW k \in Job, At(k, "summarizing")', NEW u \in User, NEW i \in Id,
               Live(u, i)', vote'[u][i].stamp <= job'[k].stamp
        PROVE  vote'[u][i].stamp \in Accounted(k)'
    <3>1. vote' = vote /\ summed' = summed /\ overlapped' = overlapped /\ guide' = guide
      BY <1>1
    <3>2. CASE k = j
      <4>1. CASE vote[u][i].stamp <= guide
        BY <2>4, <3>1, <4>1 DEF IInv, GuidanceOK, NoVoteEscapes, Live, Accounted
      <4>2. CASE ~(vote[u][i].stamp <= guide)
        <5>1. vote[u][i].stamp > guide
          BY <4>2, StampsAreNumbers DEF IInv
        <5>2. vote[u][i].stamp \in list_since(guide)
          <6> DEFINE w == <<u, i>>
          <6>1. w \in User \X Id /\ w[1] = u /\ w[2] = i
            OBVIOUS
          <6>2. vote[u][i] # NoRow
            BY <2>4, <3>1 DEF Live
          <6> HIDE DEF w
          <6> QED
            BY <5>1, <6>1, <6>2 DEF list_since, Live
        <5> QED
          BY <1>4, <1>5, <3>1, <3>2, <5>2 DEF Accounted
      <4> QED
        BY <4>1, <4>2
    <3>3. CASE k # j
      <4>1. job'[k] = job[k] /\ At(k, "summarizing") /\ Accounted(k)' = Accounted(k)
        BY <1>5, <2>4, <3>1, <3>3 DEF OthersStay, At, Accounted
      <4> QED
        BY <2>4, <3>1, <4>1 DEF IInv, GuidanceOK, BatchesAreWhole, Live
    <3> QED
      BY <3>2, <3>3
  <2>5. ASSUME NEW k \in Job, At(k, "summarizing")', NEW m \in Job,
               Writing(m)', job'[m].stamp <= job'[k].stamp
        PROVE  job'[m].stamp \in job'[k].late
    <3>1. Writing(m) /\ job'[m] = job[m]
      BY <2>1, <2>5
    <3>2. CASE k = j
      BY <1>4, <1>5, <3>1, <3>2 DEF Uncommitted, Writing
    <3>3. CASE k # j
      <4>1. job'[k] = job[k] /\ At(k, "summarizing")
        BY <1>5, <2>5, <3>3 DEF OthersStay, At
      <4> QED
        BY <2>5, <3>1, <4>1 DEF IInv, GuidanceOK, BatchesAreWhole
    <3> QED
      BY <3>2, <3>3
  <2> QED
    BY <2>2, <2>3, <2>4, <2>5 DEF GuidanceOK, BatchesAreWhole
<1>11. BellsOK'
  BY <1>1, <1>4, <1>5, BellsKept
<1> QED
  BY <1>6, <1>7, <1>8, <1>9, <1>10, <1>11 DEF IInv

\* A generation ends, with new guidance or without.
LEMMA GenerationEnds ==
    ASSUME IInv, NEW j \in Job, At(j, "summarizing"), Finish(j),
           UNCHANGED <<periods, insights, vote, vectors, bells, clock, faults,
                       changes, hurried, downed>>,
           \/ UNCHANGED <<guide, summed, overlapped>>
           \/ /\ guide' = job[j].stamp
              /\ summed' = summed \cup job[j].batch
              /\ overlapped' = overlapped \cup job[j].late
    PROVE  IInv'
<1>1. job' \in [Job -> Request] /\ OthersStay(j) /\ job'[j] = Idle
  BY FinishFacts
<1>2. /\ RequestOK(j) /\ job[j].user = NoUser /\ job[j].stamp \in Stamp /\ job[j].stamp <= clock
      /\ clock \in Nat
  BY StampsAreNumbers DEF IInv, RequestsOK, RequestOK, At, Voting, Typed, Request
<1>3. Typed'
  BY <1>1, <1>2 DEF IInv, Typed
<1>4. VotesOK'
  BY <1>2, <1>3, VotesKept
<1>5. RequestsOK'
  <2>1. RequestOK(j)'
    BY <1>1, <1>3, IdleFacts, StampsAreNumbers DEF RequestOK, At, Voting
  <2> QED
    BY <1>1, <1>2, <1>3, <2>1, RequestsKept
<1>6. DetectionOK'
  <2>1. \A k \in Job : At(k, "narrating")' <=> At(k, "narrating")
    BY <1>1, IdleFacts DEF OthersStay, At
  <2>2. Detecting' = Detecting
    BY <2>1 DEF Detecting
  <2> QED
    BY <2>2, DetectionKept
<1>7. GuidanceOK'
  <2>1. \A k \in Job : Writing(k)' => Writing(k) /\ job'[k] = job[k]
    BY <1>1, IdleFacts DEF OthersStay, Writing
  <2>2. \A k \in Job : At(k, "summarizing")' => At(k, "summarizing") /\ job'[k] = job[k]
    BY <1>1, IdleFacts DEF OthersStay, At
  <2>3. summed \subseteq summed' /\ overlapped \subseteq overlapped'
    OBVIOUS
  <2>4. NoVoteEscapes'
    BY DEF IInv, GuidanceOK, NoVoteEscapes, BatchesAreWhole, Live, Accounted
  <2>5. WritesAreSeen'
    BY <2>1 DEF IInv, GuidanceOK, WritesAreSeen, BatchesAreWhole
  <2>6. BatchesAreWhole'
    BY <2>1, <2>2, <2>3 DEF IInv, GuidanceOK, BatchesAreWhole, Live, Accounted
  <2> QED
    BY <2>4, <2>5, <2>6 DEF GuidanceOK
<1>8. BellsOK'
  BY <1>1, <1>2, IdleFacts, BellsKept
<1> QED
  BY <1>3, <1>4, <1>5, <1>6, <1>7, <1>8 DEF IInv

-----------------------------------------------------------------------------
(* Theorems *)

LEMMA InitKeeps ==
    ASSUME Init
    PROVE  IInv
<1> DEFINE old == [i \in 1 .. FirstPeriod |->
                      [period |-> i, suppressed |-> FALSE, known |-> i - 1]]
<1>1. /\ FirstPeriod \in Nat /\ FirstPeriod >= 1 /\ FirstPeriod <= MaxInsights
      /\ FirstPeriod <= MaxPeriods /\ MaxPeriods \in Nat /\ MaxInsights \in Nat
      /\ 0 \in Stamp /\ 0 \in 0 .. MaxFaults
  BY FeedbackAssumption DEF FeedbackAssumption, Stamp
<1>2. insights = old
  BY DEF Init
<1>3. /\ insights \in Seq(Insight) /\ Len(insights) = FirstPeriod
      /\ DOMAIN insights = 1 .. FirstPeriod
      /\ \A i \in 1 .. FirstPeriod : insights[i].period = i /\ ~insights[i].suppressed
  <2>1. \A i \in 1 .. FirstPeriod :
            [period |-> i, suppressed |-> FALSE, known |-> i - 1] \in Insight
    BY <1>1 DEF Insight
  <2>2. old \in Seq(Insight) /\ Len(old) = FirstPeriod /\ DOMAIN old = 1 .. FirstPeriod
    BY <1>1, <2>1
  <2> QED
    BY <1>2, <2>2
<1> HIDE DEF old
<1>4. NoRow \in Row /\ NoRow.rating = "none" /\ \A u \in User, i \in Id : vote[u][i] = NoRow
  BY <1>1 DEF Init, NoRow, Row
<1>5. job \in [Job -> Request] /\ \A j \in Job : job[j] = Idle
  BY IdleFacts DEF Init
<1>6. Typed
  <2>1. changes \in [User -> [Id -> Nat]] /\ vote \in [User -> [Id -> Row]]
    BY <1>4 DEF Init
  <2>2. <<>> \in Seq(Bell)
    OBVIOUS
  <2>3. bells \in [User -> [Id -> Seq(Bell)]]
    BY <2>2 DEF Init
  <2> QED
    BY <1>1, <1>3, <1>5, <2>1, <2>3 DEF Init, Typed
<1>7. VotesOK
  BY <1>4 DEF VotesOK, RowOK
<1>8. RequestsOK
  BY <1>1, <1>5, IdleFacts DEF Init, RequestsOK, RequestOK, At, Voting
<1>9. DetectionOK
  <2>1. Detecting = {}
    BY <1>5, IdleFacts DEF Detecting, At
  <2>2. RoomIsLeft
    BY <1>1, <1>3, <2>1, FS_EmptySet DEF RoomIsLeft
  <2> QED
    BY <1>3, <2>2 DEF DetectionOK, DuplicatesOverlap, SuppressedByTwo
<1>10. GuidanceOK
  BY <1>4, <1>5, IdleFacts
     DEF GuidanceOK, NoVoteEscapes, WritesAreSeen, BatchesAreWhole, Live, Writing, At
<1>11. BellsOK
  <2>1. \A u \in User, i \in Id : Len(bells[u][i]) = 0 /\ changes[u][i] = 0
    BY DEF Init
  <2>2. \A u \in User, i \in Id : Standing(u, i)
    BY <1>4, <2>1 DEF Standing, Live
  <2>3. \A u \in User, j \in Job : job[j].user # u
    BY <1>5, IdleFacts, FeedbackAssumption DEF FeedbackAssumption
  <2> QED
    BY <2>2, <2>3 DEF BellsOK, UserOK
<1> QED
  BY <1>6, <1>7, <1>8, <1>9, <1>10, <1>11 DEF IInv

LEMMA NextKeeps ==
    ASSUME IInv, Next
    PROVE  IInv'
<1>1. CASE compute_snapshot
  BY <1>1, SnapshotKeeps
<1>2. CASE \E u \in User : mark_all_read(u)
  BY <1>2, MarkKeeps
<1>3. ASSUME NEW j \in Job, detect_for_kpi(j) \/ store_insight(j)
      PROVE  IInv'
  BY <1>3, DetectKeeps, StoreKeeps
<1>4. ASSUME NEW j \in Job, NEW u \in User, NEW i \in DOMAIN insights,
             \/ \E rating \in Rating : submit_feedback(j, u, i, rating)
             \/ retract_feedback(j, u, i)
      PROVE  IInv'
  BY <1>4, SubmitKeeps, RetractKeeps
<1>5. ASSUME NEW j \in Job,
             \/ find(j) \/ upsert(j) \/ upsert_conflict(j)
             \/ _store_suppression_vector(j) \/ _notify_feedback_recorded(j)
             \/ soft_delete(j) \/ _suppress_unread_feedback_notification(j)
      PROVE  IInv'
  BY <1>5, FindKeeps, UpsertKeeps, ConflictKeeps, VectorKeeps, NotifyKeeps,
     SoftDeleteKeeps, ClearKeeps
<1>6. ASSUME NEW j \in Job, generate_guidance(j)
      PROVE  IInv'
  BY <1>6, GenerateKeeps
<1>7. ASSUME NEW j \in Job, create_guidance(j) \/ no_summary(j)
      PROVE  IInv'
  BY <1>7, GenerationEnds DEF create_guidance, no_summary, history
<1> QED
  BY <1>1, <1>2, <1>3, <1>4, <1>5, <1>6, <1>7 DEF Next

LEMMA StutterKeeps ==
    ASSUME IInv, UNCHANGED vars
    PROVE  IInv'
<1>1. /\ UNCHANGED <<periods, insights, vote, vectors, bells, guide, job, clock, faults>>
      /\ UNCHANGED <<changes, hurried, downed, summed, overlapped>>
  BY DEF vars, history
<1>2. Typed' /\ VotesOK' /\ RequestsOK'
  BY <1>1 DEF IInv, Typed, VotesOK, RowOK, RequestsOK, RequestOK, At
<1>3. DetectionOK'
  BY <1>1 DEF IInv, DetectionOK, DuplicatesOverlap, SuppressedByTwo, RoomIsLeft,
              Detecting, At
<1>4. GuidanceOK'
  BY <1>1 DEF IInv, GuidanceOK, NoVoteEscapes, WritesAreSeen, BatchesAreWhole,
              Writing, Accounted, Live, At
<1>5. BellsOK'
  <2>1. \A u \in User, i \in Id : Standing(u, i)' <=> Standing(u, i)
    BY <1>1 DEF Standing, Live
  <2>2. \A j \in Job, u \in User : Told(j, u, job[j].id) => Told(j, u, job[j].id)'
    BY <1>1 DEF Told, Standing, Live
  <2> QED
    BY <1>1, <2>1, <2>2 DEF IInv, BellsOK, UserOK
<1> QED
  BY <1>2, <1>3, <1>4, <1>5 DEF IInv

LEMMA Inductive == Spec => []IInv
<1>1. Init => IInv
  BY InitKeeps
<1>2. IInv /\ [Next]_vars => IInv'
  BY NextKeeps, StutterKeeps
<1> QED
  BY <1>1, <1>2, PTL DEF Spec

\* insight_service.detect_for_kpi and compute_suppression: of two insights of
\* one period the later one's detection had looked before the earlier one was
\* committed, and an insight is suppressed only if as many users as
\* SUPPRESSION_MIN_DISTINCT_DOWN_USERS voted down insights like it.
THEOREM DetectionAlwaysSound == Spec => []DetectionIsSound
<1>1. IInv => DetectionIsSound
  <2> SUFFICES ASSUME IInv PROVE DetectionIsSound
    OBVIOUS
  <2>1. \A j \in Job : job[j] \in Request
    BY DEF IInv, Typed
  <2>2. vectors \subseteq Id /\ Len(insights) <= MaxInsights
    BY IdsAreIds, FeedbackAssumption DEF IInv, Typed, FeedbackAssumption
  <2>3. \A r \in Request :
            /\ r.pc \in {"idle", "narrating", "find", "write", "vector", "notify",
                         "retract", "clear", "summarizing"}
            /\ r.user \in User \cup {NoUser} /\ r.id \in 0 .. MaxInsights /\ r.row \in Row
    BY DEF Request, Voting
  <2>4. TypeOK
    BY <2>1, <2>2, <2>3 DEF TypeOK, IInv, Typed
  <2> QED
    BY <2>4 DEF IInv, DetectionOK, DetectionIsSound
<1> QED
  BY <1>1, Inductive, PTL

\* insight_guidance_service.generate_guidance and the cut-off of list_since: a
\* vote too old for the next generation to read has been read by one before,
\* or was being written when one read.
THEOREM NoVoteEverEscapes == Spec => []NoVoteEscapes
<1>1. IInv => NoVoteEscapes
  BY DEF IInv, GuidanceOK
<1> QED
  BY <1>1, Inductive, PTL

\* insight_feedback_service._notify_feedback_recorded and
\* _suppress_unread_feedback_notification: for a user who waits for each answer
\* no more bell rows about an insight than changes of mind, the latest of which
\* tells the vote that stands.
THEOREM BellsAlwaysFollowVotes == Spec => []BellsFollowVotes
<1>1. IInv => BellsFollowVotes
  <2> SUFFICES ASSUME IInv, NEW u \in User, NEW i \in Id,
                      u \notin hurried, InFlight(u) = {}, faults = 0
               PROVE  Standing(u, i)
    BY DEF BellsFollowVotes, Standing
  <2>1. \A j \in Job : job[j].user # u
    BY DEF InFlight
  <2> QED
    BY <2>1 DEF IInv, BellsOK, UserOK
<1> QED
  BY <1>1, Inductive, PTL

-----------------------------------------------------------------------------
(* The mathematics of an insight *)

\* Induction over the natural numbers, for a set instead of a predicate.
LEMMA InductiveSet ==
    ASSUME NEW S, 0 \in S, \A n \in Nat : n \in S => n + 1 \in S
    PROVE  Nat \subseteq S
<1> DEFINE T == Nat \ S
           Less == {p \in Nat \X Nat : p[1] < p[2]}
<1> SUFFICES ASSUME T # {} PROVE FALSE
  OBVIOUS
<1>1. IsWellFoundedOn(Less, Nat)
  <2>1. Less = OpToRel(<, Nat)
    BY DEF OpToRel
  <2> QED
    BY <2>1, NatLessThanWellFounded, Zenon
<1>2. PICK x \in T : \A y \in T : ~(<<y, x>> \in Less)
  <2> HIDE DEF Less
  <2>1. T \in SUBSET Nat
    OBVIOUS
  <2> QED
    BY <1>1, <2>1, WFMin
<1>3. x \in Nat \ {0} /\ x - 1 \in Nat /\ x - 1 < x /\ (x - 1) + 1 = x
  OBVIOUS
<1>4. x - 1 \in S
  BY <1>2, <1>3
<1> QED
  BY <1>3, <1>4

\* There is a function that the recursion of Partials describes.
LEMMA PartialsByTurns ==
    ASSUME NEW s \in Seq(Int)
    PROVE  Partials(s) = [n \in 0 .. Len(s) |->
               IF n = 0 THEN 0 ELSE Partials(s)[n - 1] + s[n]]
<1> DEFINE Is(f, m) == f = [n \in 0 .. m |-> IF n = 0 THEN 0 ELSE f[n - 1] + s[n]]
           S == {m \in Nat : \E f : Is(f, m)}
<1>1. 0 \in S
  <2>1. Is([n \in 0 .. 0 |-> 0], 0)
    OBVIOUS
  <2> QED
    BY <2>1
<1>2. ASSUME NEW m \in Nat, m \in S PROVE m + 1 \in S
  <2>1. PICK f : Is(f, m)
    BY <1>2
  <2> DEFINE g == [n \in 0 .. m + 1 |-> IF n = m + 1 THEN f[m] + s[m + 1] ELSE f[n]]
  <2>2. \A n \in 0 .. m : g[n] = f[n]
    OBVIOUS
  <2>3. ASSUME NEW n \in 0 .. m + 1
        PROVE  g[n] = IF n = 0 THEN 0 ELSE g[n - 1] + s[n]
    <3>1. CASE n = m + 1
      BY <3>1, <2>2
    <3>2. CASE n \in 0 .. m
      <4>1. f[n] = IF n = 0 THEN 0 ELSE f[n - 1] + s[n]
        BY <2>1, <3>2
      <4>2. n # 0 => g[n - 1] = f[n - 1]
        BY <2>2, <3>2
      <4> QED
        BY <2>2, <3>2, <4>1, <4>2
    <3> QED
      BY <3>1, <3>2
  <2>4. Is(g, m + 1)
    BY <2>3
  <2> HIDE DEF g, Is
  <2> QED
    BY <2>4
<1>3. Len(s) \in S
  <2> HIDE DEF S
  <2>1. Nat \subseteq S
    BY <1>1, <1>2, InductiveSet
  <2> QED
    BY <2>1
<1>4. \E f : Is(f, Len(s))
  BY <1>3
<1>5. Partials(s) = CHOOSE f : Is(f, Len(s))
  BY DEF Partials
<1> HIDE DEF Is
<1>6. Is(Partials(s), Len(s))
  BY <1>4, <1>5
<1> QED
  BY <1>6 DEF Is

\* What Partials does, over numbered values.
LEMMA PartialsOf ==
    ASSUME NEW N \in Nat, NEW s \in [1 .. N -> Int]
    PROVE  /\ Total(s) = Partials(s)[N]
           /\ Partials(s)[0] = 0
           /\ \A n \in 0 .. N : Partials(s)[n] \in Int
           /\ \A n \in 1 .. N : Partials(s)[n] = Partials(s)[n - 1] + s[n]
<1>1. s \in Seq(Int) /\ Len(s) = N
  OBVIOUS
<1> DEFINE f == Partials(s)
           S == {n \in Nat : n <= N => f[n] \in Int}
<1>2. f = [n \in 0 .. N |-> IF n = 0 THEN 0 ELSE f[n - 1] + s[n]]
  BY <1>1, PartialsByTurns
<1> HIDE DEF f
<1>3. f[0] = 0 /\ \A n \in 1 .. N : f[n] = f[n - 1] + s[n]
  <2>1. 0 \in 0 .. N /\ \A n \in 1 .. N : n \in 0 .. N /\ n # 0
    OBVIOUS
  <2> QED
    BY <1>2, <2>1
<1>4. Nat \subseteq S
  <2>1. 0 \in S
    BY <1>3
  <2>2. ASSUME NEW n \in Nat, n \in S PROVE n + 1 \in S
    <3> SUFFICES ASSUME n + 1 <= N PROVE f[n + 1] \in Int
      OBVIOUS
    <3>1. n + 1 \in 1 .. N /\ (n + 1) - 1 = n /\ n <= N
      OBVIOUS
    <3>2. f[n + 1] = f[n] + s[n + 1] /\ s[n + 1] \in Int /\ f[n] \in Int
      BY <1>3, <2>2, <3>1
    <3> QED
      BY <3>2
  <2> HIDE DEF S
  <2> QED
    BY <2>1, <2>2, InductiveSet
<1>5. \A n \in 0 .. N : f[n] \in Int
  BY <1>4
<1> QED
  BY <1>1, <1>3, <1>5 DEF f, Total

\* Sums are linear.
Combines(N, w, a, u, b, v) ==
    /\ N \in Nat /\ a \in Int /\ b \in Int
    /\ w \in [1 .. N -> Int] /\ u \in [1 .. N -> Int] /\ v \in [1 .. N -> Int]
    /\ \A i \in 1 .. N : w[i] = a * u[i] + b * v[i]

LEMMA TotalIsLinear ==
    ASSUME NEW N, NEW w, NEW a, NEW u, NEW b, NEW v, Combines(N, w, a, u, b, v)
    PROVE  Total(w) = a * Total(u) + b * Total(v)
<1> DEFINE f == Partials(u)
           g == Partials(v)
           h == Partials(w)
           S == {n \in Nat : n <= N => h[n] = a * f[n] + b * g[n]}
<1>9. /\ N \in Nat /\ a \in Int /\ b \in Int
      /\ w \in [1 .. N -> Int] /\ u \in [1 .. N -> Int] /\ v \in [1 .. N -> Int]
  BY DEF Combines
<1>2. \A i \in 1 .. N : w[i] = a * u[i] + b * v[i] /\ u[i] \in Int /\ v[i] \in Int
  BY DEF Combines
<1> HIDE DEF f, g, h
<1>1. ASSUME NEW s \in [1 .. N -> Int], NEW k, k = Partials(s)
         PROVE  /\ Total(s) = k[N] /\ k[0] = 0
                /\ \A n \in 0 .. N : k[n] \in Int
                /\ \A n \in 1 .. N : k[n] = k[n - 1] + s[n]
  <2>1. /\ Total(s) = Partials(s)[N] /\ Partials(s)[0] = 0
        /\ \A n \in 0 .. N : Partials(s)[n] \in Int
        /\ \A n \in 1 .. N : Partials(s)[n] = Partials(s)[n - 1] + s[n]
    BY <1>9, PartialsOf
  <2> QED
    BY <1>1, <2>1
<1>3. /\ Total(u) = f[N] /\ f[0] = 0
      /\ \A n \in 0 .. N : f[n] \in Int
      /\ \A n \in 1 .. N : f[n] = f[n - 1] + u[n]
  BY <1>1, <1>9 DEF f
<1>4. /\ Total(v) = g[N] /\ g[0] = 0
      /\ \A n \in 0 .. N : g[n] \in Int
      /\ \A n \in 1 .. N : g[n] = g[n - 1] + v[n]
  BY <1>1, <1>9 DEF g
<1>5. /\ Total(w) = h[N] /\ h[0] = 0
      /\ \A n \in 1 .. N : h[n] = h[n - 1] + w[n]
  BY <1>1, <1>9 DEF h
<1>6. 0 \in S
  <2>1. a * 0 + b * 0 = 0
    BY <1>9
  <2> QED
    BY <1>3, <1>4, <1>5, <2>1
<1>7. ASSUME NEW n \in Nat, n \in S PROVE n + 1 \in S
  <2> SUFFICES ASSUME n + 1 <= N PROVE h[n + 1] = a * f[n + 1] + b * g[n + 1]
    BY <1>9
  <2>1. n + 1 \in 1 .. N /\ (n + 1) - 1 = n /\ n <= N /\ n \in 0 .. N
    BY <1>9
  <2>2. f[n + 1] = f[n] + u[n + 1] /\ g[n + 1] = g[n] + v[n + 1] /\ h[n + 1] = h[n] + w[n + 1]
    BY <1>3, <1>4, <1>5, <2>1
  <2>3. h[n] = a * f[n] + b * g[n] /\ w[n + 1] = a * u[n + 1] + b * v[n + 1]
    BY <1>2, <1>7, <2>1
  <2>4. f[n] \in Int /\ g[n] \in Int /\ u[n + 1] \in Int /\ v[n + 1] \in Int
    BY <1>2, <1>3, <1>4, <2>1
  <2>5. (a * f[n] + b * g[n]) + (a * u[n + 1] + b * v[n + 1])
            = a * (f[n] + u[n + 1]) + b * (g[n] + v[n + 1])
    <3> DEFINE p == f[n]
               q == g[n]
               y == u[n + 1]
               z == v[n + 1]
    <3>1. p \in Int /\ q \in Int /\ y \in Int /\ z \in Int
      BY <2>4
    <3> HIDE DEF p, q, y, z
    <3>2. (a * p + b * q) + (a * y + b * z) = a * (p + y) + b * (q + z)
      BY <1>9, <3>1
    <3> QED
      BY <3>2 DEF p, q, y, z
  <2> QED
    BY <2>2, <2>3, <2>5
<1>8. N \in S
  <2> HIDE DEF S
  <2>1. Nat \subseteq S
    BY <1>6, <1>7, InductiveSet
  <2> QED
    BY <1>9, <2>1
<1> QED
  BY <1>3, <1>4, <1>5, <1>8

LEMMA TotalOfOnes ==
    ASSUME NEW N \in Nat
    PROVE  Total([i \in 1 .. N |-> 1]) = N
<1> DEFINE s == [i \in 1 .. N |-> 1]
           f == Partials(s)
           S == {n \in Nat : n <= N => f[n] = n}
<1>1. s \in [1 .. N -> Int] /\ \A n \in 1 .. N : s[n] = 1
  OBVIOUS
<1> HIDE DEF s
<1>2. /\ Total(s) = f[N] /\ f[0] = 0
      /\ \A n \in 1 .. N : f[n] = f[n - 1] + s[n]
  BY <1>1, PartialsOf
<1> HIDE DEF f
<1>3. 0 \in S
  BY <1>2
<1>4. ASSUME NEW n \in Nat, n \in S PROVE n + 1 \in S
  <2> SUFFICES ASSUME n + 1 <= N PROVE f[n + 1] = n + 1
    OBVIOUS
  <2>1. n + 1 \in 1 .. N /\ (n + 1) - 1 = n /\ n <= N
    OBVIOUS
  <2>2. f[n + 1] = f[n] + 1 /\ f[n] = n
    BY <1>1, <1>2, <1>4, <2>1
  <2> QED
    BY <2>2
<1>5. N \in S
  <2> HIDE DEF S
  <2>1. Nat \subseteq S
    BY <1>3, <1>4, InductiveSet
  <2> QED
    BY <2>1
<1> QED
  BY <1>2, <1>5 DEF s

LEMMA TotalOfZeros ==
    ASSUME NEW N \in Nat, NEW s \in [1 .. N -> Int], \A i \in 1 .. N : s[i] = 0
    PROVE  Total(s) = 0
<1> DEFINE f == Partials(s)
           S == {n \in Nat : n <= N => f[n] = 0}
<1>2. /\ Total(s) = f[N] /\ f[0] = 0
      /\ \A n \in 1 .. N : f[n] = f[n - 1] + s[n]
  BY PartialsOf
<1> HIDE DEF f
<1>3. 0 \in S
  BY <1>2
<1>4. ASSUME NEW n \in Nat, n \in S PROVE n + 1 \in S
  <2> SUFFICES ASSUME n + 1 <= N PROVE f[n + 1] = 0
    OBVIOUS
  <2>1. n + 1 \in 1 .. N /\ (n + 1) - 1 = n /\ n <= N
    OBVIOUS
  <2>2. f[n + 1] = f[n] + 0 /\ f[n] = 0
    BY <1>2, <1>4, <2>1
  <2> QED
    BY <2>2
<1>5. N \in S
  <2> HIDE DEF S
  <2>1. Nat \subseteq S
    BY <1>3, <1>4, InductiveSet
  <2> QED
    BY <2>1
<1> QED
  BY <1>2, <1>5

\* The sums that least squares are made of.
SumX(N) == Total([i \in 1 .. N |-> i - 1])
SumXX(N) == Total([i \in 1 .. N |-> (i - 1) * (i - 1)])
SumXY(s) == Total([i \in 1 .. Len(s) |-> (i - 1) * s[i]])

LEMMA SumsAreInts ==
    ASSUME NEW N \in Nat, NEW s \in [1 .. N -> Int]
    PROVE  SumX(N) \in Int /\ SumXX(N) \in Int /\ SumXY(s) \in Int /\ Total(s) \in Int
<1>1. Len(s) = N
  OBVIOUS
<1>2. /\ [i \in 1 .. N |-> i - 1] \in [1 .. N -> Int]
      /\ [i \in 1 .. N |-> (i - 1) * (i - 1)] \in [1 .. N -> Int]
      /\ [i \in 1 .. N |-> (i - 1) * s[i]] \in [1 .. N -> Int]
  OBVIOUS
<1>3. ASSUME NEW t \in [1 .. N -> Int] PROVE Total(t) \in Int
  <2>1. Total(t) = Partials(t)[N] /\ Partials(t)[N] \in Int
    BY PartialsOf
  <2> QED
    BY <2>1
<1> QED
  BY <1>1, <1>2, <1>3 DEF SumX, SumXX, SumXY

LEMMA OlsOf ==
    ASSUME NEW N \in Nat, NEW s \in [1 .. N -> Int],
           NEW n, n = N * SumXY(s) - SumX(N) * Total(s),
           NEW d, d = N * SumXX(N) - SumX(N) * SumX(N)
    PROVE  /\ _ols(s) = [n |-> n, d |-> d, m |-> d * Total(s) - n * SumX(N)]
           /\ \A x, y \in Int : Residual(s, x, y)
                  = N * d * y - (d * Total(s) - n * SumX(N)) - N * n * x
<1>1. Len(s) = N /\ s = [i \in 1 .. N |-> s[i]]
  OBVIOUS
<1>2. _ols(s) = [n |-> n, d |-> d, m |-> d * Total(s) - n * SumX(N)]
  BY <1>1 DEF _ols, SumOver, SumX, SumXX, SumXY
<1> QED
  BY <1>1, <1>2 DEF Residual

\* The line through points on a line is that line.
LEMMA SlopeOfLine ==
    ASSUME NEW N \in Int, NEW a \in Int, NEW b \in Int, NEW X \in Int, NEW XX \in Int
    PROVE  N * (a * X + b * XX) - X * (a * N + b * X) = b * (N * XX - X * X)
<1>1. N * (a * X + b * XX) = a * (N * X) + b * (N * XX)
  OBVIOUS
<1>2. X * (a * N + b * X) = a * (N * X) + b * (X * X)
  OBVIOUS
<1> DEFINE P == N * X
           Q == N * XX
           R == X * X
<1>3. P \in Int /\ Q \in Int /\ R \in Int
  OBVIOUS
<1> HIDE DEF P, Q, R
<1>4. (a * P + b * Q) - (a * P + b * R) = b * (Q - R)
  BY <1>3
<1> QED
  BY <1>1, <1>2, <1>4 DEF P, Q, R

LEMMA ResidualOfLine ==
    ASSUME NEW N \in Int, NEW a \in Int, NEW b \in Int, NEW X \in Int, NEW d \in Int, NEW x \in Int
    PROVE  N * d * (a + b * x) - (d * (a * N + b * X) - (b * d) * X) - N * (b * d) * x = 0
OBVIOUS

LEMMA LineFits ==
    ASSUME NEW N \in Nat, NEW a \in Int, NEW b \in Int, NEW x \in Int
    PROVE  Residual(Line(a, b, N), x, a + b * x) = 0
<1> DEFINE s == Line(a, b, N)
           one == [i \in 1 .. N |-> 1]
           xs == [i \in 1 .. N |-> i - 1]
           xxs == [i \in 1 .. N |-> (i - 1) * (i - 1)]
           X == SumX(N)
           XX == SumXX(N)
           n == N * SumXY(s) - X * Total(s)
           d == N * XX - X * X
<1>1. one \in [1 .. N -> Int] /\ xs \in [1 .. N -> Int] /\ xxs \in [1 .. N -> Int]
  OBVIOUS
<1>2. s \in [1 .. N -> Int] /\ Len(s) = N
  BY DEF Line
<1>3. X \in Int /\ XX \in Int
  BY <1>2, SumsAreInts
<1>4. Total(s) = a * N + b * X
  <2>1. Combines(N, s, a, one, b, xs)
    BY <1>1, <1>2 DEF Combines, Line
  <2> HIDE DEF s, one, xs
  <2>2. Total(s) = a * Total(one) + b * Total(xs)
    BY <2>1, TotalIsLinear
  <2>3. Total(one) = N /\ Total(xs) = X
    BY TotalOfOnes DEF one, xs, SumX
  <2> QED
    BY <2>2, <2>3
<1>5. SumXY(s) = a * X + b * XX
  <2> DEFINE t == [i \in 1 .. N |-> (i - 1) * s[i]]
  <2>1. ASSUME NEW i \in 1 .. N PROVE t[i] = a * xs[i] + b * xxs[i]
    <3> DEFINE k == i - 1
    <3>1. /\ k \in Int /\ s[i] = a + b * k /\ xs[i] = k /\ xxs[i] = k * k
          /\ t[i] = k * s[i]
      BY DEF Line
    <3> HIDE DEF k, s, t, xs, xxs
    <3>2. k * (a + b * k) = a * k + b * (k * k)
      BY <3>1
    <3> QED
      BY <3>1, <3>2
  <2>2. SumXY(s) = Total(t)
    BY <1>2 DEF SumXY
  <2>4. t \in [1 .. N -> Int]
    BY <1>2
  <2> HIDE DEF s, t, xs, xxs
  <2>5. Combines(N, t, a, xs, b, xxs)
    BY <1>1, <2>1, <2>4 DEF Combines
  <2>3. Total(t) = a * Total(xs) + b * Total(xxs)
    BY <2>5, TotalIsLinear
  <2> QED
    BY <2>2, <2>3 DEF xs, xxs, SumX, SumXX
<1>6. Residual(s, x, a + b * x) = N * d * (a + b * x) - (d * Total(s) - n * X) - N * n * x
  <2>1. a + b * x \in Int
    OBVIOUS
  <2> HIDE DEF s
  <2> QED
    BY <1>2, <2>1, OlsOf
<1> HIDE DEF s, X, XX
<1>7. n = b * d
  BY <1>3, <1>4, <1>5, SlopeOfLine
<1>8. d \in Int
  BY <1>3
<1> HIDE DEF n, d
<1>9. N * d * (a + b * x) - (d * (a * N + b * X) - (b * d) * X) - N * (b * d) * x = 0
  BY <1>3, <1>8, ResidualOfLine
<1> QED
  BY <1>4, <1>6, <1>7, <1>9 DEF s

LEMMA AnomalyIsMeasured ==
    ASSUME NEW values
    PROVE  is_anomaly(values) <=> IsAnomaly(compute_z_score(values))
BY DEF is_anomaly, analyze, classify

LEMMA LinesAreNoAnomalies ==
    ASSUME NEW a \in Int, NEW b \in Int, NEW n \in Nat
    PROVE  ~is_anomaly(Line(a, b, n))
<1> DEFINE s == Line(a, b, n)
<1> SUFFICES compute_z_score(s) = None
  BY AnomalyIsMeasured DEF IsAnomaly
<1>1. Len(s) = n
  BY DEF Line
<1>2. CASE n = 0
  <2>1. Len(s) < MIN_SNAPSHOTS
    BY <1>1, <1>2, MathAssumption
  <2> QED
    BY <2>1 DEF compute_z_score
<1>3. CASE n > 0
  <2> DEFINE h == Line(a, b, n - 1)
             r == [i \in 1 .. n - 1 |-> Residual(h, i - 1, h[i]) * Residual(h, i - 1, h[i])]
  <2>1. n - 1 \in Nat
    BY <1>3
  <2>2. h \in [1 .. n - 1 -> Int] /\ Len(h) = n - 1
    BY <2>1 DEF Line
  <2>3. History(s) = h
    <3>1. SubSeq(s, 1, n - 1) = [i \in 1 .. n - 1 |-> s[i]]
      BY <1>1, <1>3 DEF Line
    <3> QED
      BY <1>1, <1>3, <3>1 DEF History, Line
  <2>4. \A i \in 1 .. n - 1 : Residual(h, i - 1, h[i]) = 0
    <3>1. ASSUME NEW i \in 1 .. n - 1 PROVE Residual(h, i - 1, h[i]) = 0
      <4>1. h[i] = a + b * (i - 1) /\ i - 1 \in Int
        BY DEF Line
      <4> HIDE DEF h
      <4>2. Residual(Line(a, b, n - 1), i - 1, a + b * (i - 1)) = 0
        BY <2>1, <4>1, LineFits
      <4> QED
        BY <4>1, <4>2 DEF h
    <3> QED
      BY <3>1
  <2>5. Total(r) = 0
    <3>1. r \in [1 .. n - 1 -> Int] /\ \A i \in 1 .. n - 1 : r[i] = 0
      <4> HIDE DEF h
      <4> QED
        BY <2>4
    <3> HIDE DEF r
    <3> QED
      BY <2>1, <3>1, TotalOfZeros
  <2>6. SumOver(History(s), LAMBDA x, y : Residual(History(s), x, y) * Residual(History(s), x, y)) = 0
    BY <2>2, <2>3, <2>5 DEF SumOver
  <2> QED
    BY <2>6 DEF compute_z_score
<1> QED
  BY <1>2, <1>3

\* The sums over three and four months.
LEMMA TotalOfThree ==
    ASSUME NEW s \in [1 .. 3 -> Int]
    PROVE  Total(s) = s[1] + s[2] + s[3]
<1> DEFINE N == 3
           f == Partials(s)
<1>4. N \in Nat /\ s \in [1 .. N -> Int]
  OBVIOUS
<1> HIDE DEF N
<1>5. /\ Total(s) = f[N] /\ f[0] = 0
      /\ \A n \in 1 .. N : f[n] = f[n - 1] + s[n]
  BY <1>4, PartialsOf
<1> HIDE DEF f
<1>1. /\ Total(s) = f[3] /\ f[0] = 0
      /\ \A n \in 1 .. 3 : f[n] = f[n - 1] + s[n]
  BY <1>5 DEF N
<1>2. f[1] = f[0] + s[1] /\ f[2] = f[1] + s[2] /\ f[3] = f[2] + s[3]
  BY <1>1
<1>3. s[1] \in Int /\ s[2] \in Int /\ s[3] \in Int
  OBVIOUS
<1> QED
  BY <1>1, <1>2, <1>3

LEMMA TotalOfFour ==
    ASSUME NEW s \in [1 .. 4 -> Int]
    PROVE  Total(s) = s[1] + s[2] + s[3] + s[4]
<1> DEFINE N == 4
           f == Partials(s)
<1>4. N \in Nat /\ s \in [1 .. N -> Int]
  OBVIOUS
<1> HIDE DEF N
<1>5. /\ Total(s) = f[N] /\ f[0] = 0
      /\ \A n \in 1 .. N : f[n] = f[n - 1] + s[n]
  BY <1>4, PartialsOf
<1> HIDE DEF f
<1>1. /\ Total(s) = f[4] /\ f[0] = 0
      /\ \A n \in 1 .. 4 : f[n] = f[n - 1] + s[n]
  BY <1>5 DEF N
<1>2. f[1] = f[0] + s[1] /\ f[2] = f[1] + s[2] /\ f[3] = f[2] + s[3] /\ f[4] = f[3] + s[4]
  BY <1>1
<1>3. s[1] \in Int /\ s[2] \in Int /\ s[3] \in Int /\ s[4] \in Int
  OBVIOUS
<1> QED
  BY <1>1, <1>2, <1>3

LEMMA SumsOfThree ==
    ASSUME NEW s \in [1 .. 3 -> Int]
    PROVE  SumX(3) = 3 /\ SumXX(3) = 5 /\ SumXY(s) = s[2] + 2 * s[3]
<1> DEFINE x == [i \in 1 .. 3 |-> i - 1]
           xx == [i \in 1 .. 3 |-> (i - 1) * (i - 1)]
           xy == [i \in 1 .. 3 |-> (i - 1) * s[i]]
<1>1. x \in [1 .. 3 -> Int] /\ xx \in [1 .. 3 -> Int] /\ xy \in [1 .. 3 -> Int] /\ Len(s) = 3
  OBVIOUS
<1>2. /\ x[1] = 0 /\ x[2] = 1 /\ x[3] = 2
      /\ xx[1] = 0 /\ xx[2] = 1 /\ xx[3] = 4
      /\ xy[1] = 0 /\ xy[2] = s[2] /\ xy[3] = 2 * s[3]
  OBVIOUS
<1>3. s[2] \in Int /\ s[3] \in Int
  OBVIOUS
<1>4. SumX(3) = Total(x) /\ SumXX(3) = Total(xx) /\ SumXY(s) = Total(xy)
  BY <1>1 DEF SumX, SumXX, SumXY
<1> HIDE DEF x, xx, xy
<1>5. /\ Total(x) = x[1] + x[2] + x[3] /\ Total(xx) = xx[1] + xx[2] + xx[3]
      /\ Total(xy) = xy[1] + xy[2] + xy[3]
  BY <1>1, TotalOfThree
<1> QED
  BY <1>2, <1>3, <1>4, <1>5

LEMMA SumsOfFour ==
    ASSUME NEW s \in [1 .. 4 -> Int]
    PROVE  SumX(4) = 6 /\ SumXX(4) = 14 /\ SumXY(s) = s[2] + 2 * s[3] + 3 * s[4]
<1> DEFINE x == [i \in 1 .. 4 |-> i - 1]
           xx == [i \in 1 .. 4 |-> (i - 1) * (i - 1)]
           xy == [i \in 1 .. 4 |-> (i - 1) * s[i]]
<1>1. x \in [1 .. 4 -> Int] /\ xx \in [1 .. 4 -> Int] /\ xy \in [1 .. 4 -> Int] /\ Len(s) = 4
  OBVIOUS
<1>2. /\ x[1] = 0 /\ x[2] = 1 /\ x[3] = 2 /\ x[4] = 3
      /\ xx[1] = 0 /\ xx[2] = 1 /\ xx[3] = 4 /\ xx[4] = 9
      /\ xy[1] = 0 /\ xy[2] = s[2] /\ xy[3] = 2 * s[3] /\ xy[4] = 3 * s[4]
  OBVIOUS
<1>3. s[2] \in Int /\ s[3] \in Int /\ s[4] \in Int
  OBVIOUS
<1>4. SumX(4) = Total(x) /\ SumXX(4) = Total(xx) /\ SumXY(s) = Total(xy)
  BY <1>1 DEF SumX, SumXX, SumXY
<1> HIDE DEF x, xx, xy
<1>5. /\ Total(x) = x[1] + x[2] + x[3] + x[4] /\ Total(xx) = xx[1] + xx[2] + xx[3] + xx[4]
      /\ Total(xy) = xy[1] + xy[2] + xy[3] + xy[4]
  BY <1>1, TotalOfFour
<1> QED
  BY <1>2, <1>3, <1>4, <1>5

\* The residuals of a few months, whose number is a constant.
Fits(s, N, n, d, X) ==
    \A x, y : Residual(s, x, y) = N * d * y - (d * Total(s) - n * X) - N * n * x
LEMMA ResidualsFrom ==
    ASSUME NEW s, s = [i \in 1 .. Len(s) |-> s[i]],
           NEW N, N = Len(s), NEW X, X = SumX(N),
           NEW n, n = N * SumXY(s) - X * Total(s), NEW d, d = N * SumXX(N) - X * X
    PROVE  Fits(s, N, n, d, X)
<1>1. _ols(s) = [n |-> n, d |-> d, m |-> d * Total(s) - n * X]
  BY DEF _ols, SumOver, SumX, SumXX, SumXY
<1>2. _ols(s).n = n /\ _ols(s).d = d /\ _ols(s).m = d * Total(s) - n * X
  BY <1>1
<1> QED
  BY <1>2, Zenon DEF Fits, Residual

\* The residuals of three months, in one quantity, and of four, in two.
LEMMA ResidualsOfThree ==
    ASSUME NEW s \in [1 .. 3 -> Int], NEW y \in Int,
           NEW e, e = s[1] - 2 * s[2] + s[3]
    PROVE  /\ Residual(s, 0, s[1]) = 3 * e /\ Residual(s, 1, s[2]) = -6 * e
           /\ Residual(s, 2, s[3]) = 3 * e
           /\ Residual(s, 3, y) = 18 * y + 12 * s[1] - 6 * s[2] - 24 * s[3]
<1> DEFINE n == 3 * s[3] - 3 * s[1]
           sum == s[1] + s[2] + s[3]
<1>1. s[1] \in Int /\ s[2] \in Int /\ s[3] \in Int
  OBVIOUS
<1>3. \A x, v \in Int : Residual(s, x, v)
          = 3 * 6 * v - (6 * Total(s) - n * 3) - 3 * n * x
  <2>1. n = 3 * SumXY(s) - 3 * Total(s)
    BY <1>1, SumsOfThree, TotalOfThree
  <2>2. 3 = SumX(3) /\ 6 = 3 * SumXX(3) - 3 * 3
    BY SumsOfThree
  <2>3. 3 = Len(s)
    OBVIOUS
  <2>4. s = [i \in 1 .. Len(s) |-> s[i]]
    BY <2>3
  <2> HIDE DEF n
  <2>5. Fits(s, 3, n, 6, 3)
    BY <2>1, <2>2, <2>3, <2>4, ResidualsFrom, Zenon
  <2> QED
    BY <2>5, Zenon DEF Fits
<1>6. n \in Int /\ sum \in Int
  BY <1>1
<1>4. \A x, v \in Int : Residual(s, x, v) = 18 * v - (6 * sum - n * 3) - 3 * n * x
  BY <1>1, <1>3, TotalOfThree
<1>7. 0 \in Int /\ 1 \in Int /\ 2 \in Int /\ 3 \in Int
  OBVIOUS
<1>8. Residual(s, 0, s[1]) = 18 * s[1] - (6 * sum - n * 3) - 3 * n * 0
  BY <1>1, <1>4, <1>7, Zenon
<1>9. Residual(s, 1, s[2]) = 18 * s[2] - (6 * sum - n * 3) - 3 * n * 1
  BY <1>1, <1>4, <1>7, Zenon
<1>10. Residual(s, 2, s[3]) = 18 * s[3] - (6 * sum - n * 3) - 3 * n * 2
  BY <1>1, <1>4, <1>7, Zenon
<1>11. Residual(s, 3, y) = 18 * y - (6 * sum - n * 3) - 3 * n * 3
  BY <1>1, <1>4, <1>7, Zenon
<1> QED
  BY <1>1, <1>7, <1>8, <1>9, <1>10, <1>11

LEMMA ResidualsOfFour ==
    ASSUME NEW s \in [1 .. 4 -> Int], NEW y \in Int,
           NEW a, a = s[1] - s[2] - s[3] + s[4],
           NEW b, b = -s[1] + 3 * s[2] - 3 * s[3] + s[4]
    PROVE  /\ Residual(s, 0, s[1]) = 20 * a - 4 * b /\ Residual(s, 1, s[2]) = 12 * b - 20 * a
           /\ Residual(s, 2, s[3]) = -20 * a - 12 * b /\ Residual(s, 3, s[4]) = 20 * a + 4 * b
           /\ Residual(s, 4, y) = 80 * y + 40 * s[1] - 40 * s[3] - 80 * s[4]
<1> DEFINE n == -6 * s[1] - 2 * s[2] + 2 * s[3] + 6 * s[4]
           sum == s[1] + s[2] + s[3] + s[4]
<1>1. s[1] \in Int /\ s[2] \in Int /\ s[3] \in Int /\ s[4] \in Int
  OBVIOUS
<1>3. \A x, v \in Int : Residual(s, x, v)
          = 4 * 20 * v - (20 * Total(s) - n * 6) - 4 * n * x
  <2>1. n = 4 * SumXY(s) - 6 * Total(s)
    BY <1>1, SumsOfFour, TotalOfFour
  <2>2. 6 = SumX(4) /\ 20 = 4 * SumXX(4) - 6 * 6
    BY SumsOfFour
  <2>3. 4 = Len(s)
    OBVIOUS
  <2>4. s = [i \in 1 .. Len(s) |-> s[i]]
    BY <2>3
  <2> HIDE DEF n
  <2>5. Fits(s, 4, n, 20, 6)
    BY <2>1, <2>2, <2>3, <2>4, ResidualsFrom, Zenon
  <2> QED
    BY <2>5, Zenon DEF Fits
<1>6. n \in Int /\ sum \in Int
  BY <1>1
<1>4. \A x, v \in Int : Residual(s, x, v) = 80 * v - (20 * sum - n * 6) - 4 * n * x
  BY <1>1, <1>3, TotalOfFour
<1>7. 0 \in Int /\ 1 \in Int /\ 2 \in Int /\ 3 \in Int /\ 4 \in Int
  OBVIOUS
<1>8. Residual(s, 0, s[1]) = 80 * s[1] - (20 * sum - n * 6) - 4 * n * 0
  BY <1>1, <1>4, <1>7, Zenon
<1>9. Residual(s, 1, s[2]) = 80 * s[2] - (20 * sum - n * 6) - 4 * n * 1
  BY <1>1, <1>4, <1>7, Zenon
<1>10. Residual(s, 2, s[3]) = 80 * s[3] - (20 * sum - n * 6) - 4 * n * 2
  BY <1>1, <1>4, <1>7, Zenon
<1>11. Residual(s, 3, s[4]) = 80 * s[4] - (20 * sum - n * 6) - 4 * n * 3
  BY <1>1, <1>4, <1>7, Zenon
<1>12. Residual(s, 4, y) = 80 * y - (20 * sum - n * 6) - 4 * n * 4
  BY <1>1, <1>4, <1>7, Zenon
<1>13. /\ Residual(s, 0, s[1]) = 80 * s[1] - 20 * sum + 6 * n
       /\ Residual(s, 1, s[2]) = 80 * s[2] - 20 * sum + 2 * n
       /\ Residual(s, 2, s[3]) = 80 * s[3] - 20 * sum - 2 * n
       /\ Residual(s, 3, s[4]) = 80 * s[4] - 20 * sum - 6 * n
       /\ Residual(s, 4, y) = 80 * y - 20 * sum - 10 * n
  <2> HIDE DEF n, sum
  <2> QED
    BY <1>1, <1>6, <1>8, <1>9, <1>10, <1>11, <1>12
<1> QED
  BY <1>1, <1>13

\* What a quantity as large as another one says of their squares.
LEMMA Squares ==
    ASSUME NEW x \in Int, NEW y \in Int,
           (x >= y /\ x >= -y) \/ (-x >= y /\ -x >= -y)
    PROVE  x * x >= y * y
<1>1. \A u, v \in Int : u >= 0 /\ v >= 0 => u * v >= 0
  OBVIOUS
<1>2. (x - y) * (x + y) = x * x - y * y
  OBVIOUS
<1>3. (-x - y) * (-x + y) = x * x - y * y
  OBVIOUS
<1>4. CASE x >= y /\ x >= -y
  <2>1. x - y \in Int /\ x + y \in Int /\ x - y >= 0 /\ x + y >= 0
    BY <1>4
  <2>2. (x - y) * (x + y) >= 0
    BY <1>1, <2>1, Zenon
  <2> QED
    BY <1>2, <2>2
<1>5. CASE -x >= y /\ -x >= -y
  <2>1. -x - y \in Int /\ -x + y \in Int /\ -x - y >= 0 /\ -x + y >= 0
    BY <1>5
  <2>2. (-x - y) * (-x + y) >= 0
    BY <1>1, <2>1, Zenon
  <2> QED
    BY <1>3, <2>2
<1> QED
  BY <1>4, <1>5

LEMMA SquareOfSome ==
    ASSUME NEW x \in Int, x # 0
    PROVE  x * x >= 1
<1>1. x * x >= 1 * 1
  BY Squares
<1> QED
  BY <1>1

\* A jump after three months and after four, in the quantities above.
Beyond(p, q, r, J) ==
    LET e == p - 2 * q + r
        dev == 18 * J + 12 * p - 6 * q - 24 * r
    IN  e # 0 => dev * dev > 216 * (e * e)
LEMMA JumpOfThree ==
    ASSUME NEW p \in Int, NEW q \in Int, NEW r \in Int, NEW J \in Int,
           NEW c \in Int, NEW m \in Nat,
           p \in c - m .. c + m, q \in c - m .. c + m, r \in c - m .. c + m, IsFar(J, c, m)
    PROVE  Beyond(p, q, r, J)
<1> DEFINE e == p - 2 * q + r
           dev == 18 * J + 12 * p - 6 * q - 24 * r
<1> SUFFICES ASSUME e # 0 PROVE dev * dev > 216 * (e * e)
  BY DEF Beyond
<1>1. e \in Int /\ dev \in Int
  OBVIOUS
<1>2. (dev >= 15 * e /\ dev >= -(15 * e)) \/ (-dev >= 15 * e /\ -dev >= -(15 * e))
  <2>1. CASE J >= c + 4 * m
    <3>1. dev >= 15 * e /\ dev >= -(15 * e)
      BY <2>1
    <3> QED
      BY <3>1
  <2>2. CASE J <= c - 4 * m
    <3>1. -dev >= 15 * e /\ -dev >= -(15 * e)
      BY <2>2
    <3> QED
      BY <3>1
  <2> QED
    BY <2>1, <2>2 DEF IsFar
<1>3. dev * dev >= (15 * e) * (15 * e)
  BY <1>1, <1>2, Squares
<1>4. (15 * e) * (15 * e) = 225 * (e * e)
  BY <1>1
<1>5. e * e >= 1
  BY <1>1, SquareOfSome
<1> QED
  BY <1>1, <1>3, <1>4, <1>5

LEMMA JumpOfFour ==
    ASSUME NEW p \in Int, NEW q \in Int, NEW r \in Int, NEW t \in Int, NEW J \in Int,
           NEW c \in Int, NEW m \in Nat,
           p \in c - m .. c + m, q \in c - m .. c + m, r \in c - m .. c + m, t \in c - m .. c + m,
           IsFar(J, c, m),
           NEW a, a = p - q - r + t, NEW b, b = -p + 3 * q - 3 * r + t, a # 0 \/ b # 0,
           NEW dev, dev = 2 * J + p - r - 2 * t
    PROVE  5 * (dev * dev) > 10 * (a * a) + 2 * (b * b)
<1> DEFINE A == IF a >= 0 THEN a ELSE -a
           B == IF b >= 0 THEN b ELSE -b
           C == IF dev >= 0 THEN dev ELSE -dev
<1>1. a \in Int /\ b \in Int /\ dev \in Int
  OBVIOUS
<1>2. A \in Nat /\ B \in Nat /\ C \in Nat
  BY <1>1
<1>3. A * A = a * a /\ B * B = b * b /\ C * C = dev * dev
  BY <1>1
<1>4. 60 * C >= 85 * A + 18 * B
  BY DEF IsFar
<1>5. 20 * C >= 12 * A + 13 * B
  BY DEF IsFar
<1>6. A # 0 \/ B # 0
  BY <1>1
<1> HIDE DEF A, B, C
<1> DEFINE AA == A * A
           BB == B * B
           AB == A * B
           CC == C * C
<1>7. AA \in Nat /\ BB \in Nat /\ AB \in Nat /\ CC \in Nat
  BY <1>2
<1>8. CASE 4 * B <= 9 * A
  <2>1. (60 * C) * (60 * C) >= (85 * A + 18 * B) * (85 * A + 18 * B)
    BY <1>2, <1>4, Squares
  <2>2. (60 * C) * (60 * C) = 3600 * CC
    BY <1>2
  <2>3. (85 * A + 18 * B) * (85 * A + 18 * B) = 7225 * AA + 324 * BB + 3060 * AB
    BY <1>2
  <2>4. 9 * AB >= 4 * BB
    BY <1>2, <1>8
  <2>5. AA >= 1
    <3>1. A # 0
      BY <1>2, <1>6, <1>8
    <3> QED
      BY <1>2, <3>1, SquareOfSome
  <2> HIDE DEF AA, BB, AB, CC
  <2>6. 5 * CC > 10 * AA + 2 * BB
    BY <1>7, <2>1, <2>2, <2>3, <2>4, <2>5
  <2> QED
    BY <1>3, <2>6 DEF AA, BB, CC
<1>9. CASE 4 * B >= 9 * A
  <2>1. (20 * C) * (20 * C) >= (12 * A + 13 * B) * (12 * A + 13 * B)
    BY <1>2, <1>5, Squares
  <2>2. (20 * C) * (20 * C) = 400 * CC
    BY <1>2
  <2>3. (12 * A + 13 * B) * (12 * A + 13 * B) = 144 * AA + 169 * BB + 312 * AB
    BY <1>2
  <2>4. 4 * AB >= 9 * AA
    BY <1>2, <1>9
  <2>5. BB >= 1
    <3>1. B # 0
      BY <1>2, <1>6, <1>9
    <3> QED
      BY <1>2, <3>1, SquareOfSome
  <2> HIDE DEF AA, BB, AB, CC
  <2>6. 5 * CC > 10 * AA + 2 * BB
    BY <1>7, <2>1, <2>2, <2>3, <2>4, <2>5
  <2> QED
    BY <1>3, <2>6 DEF AA, BB, CC
<1> QED
  BY <1>2, <1>8, <1>9


\* What is left of a line, squared, and what a jump away from it has to exceed.
Squared(s) == Total([i \in 1 .. Len(s) |-> Residual(s, i - 1, s[i]) * Residual(s, i - 1, s[i])])

LEMMA JumpIsAnomaly ==
    ASSUME NEW n \in 3 .. 4, NEW s \in [1 .. n -> Int], NEW J \in Int,
           NEW ssr \in Nat \ {0}, ssr = Squared(s),
           NEW dev \in Int, dev = Residual(s, n, J), (dev * dev) * (n - 2) > 4 * ssr
    PROVE  is_anomaly(Append(s, J))
<1> DEFINE values == Append(s, J)
           z == [deviation |-> dev, ssr |-> ssr, dof |-> n - 2]
<1>1. s \in Seq(Int) /\ Len(s) = n
  OBVIOUS
<1>2. Len(values) = n + 1 /\ values[Len(values)] = J
  BY <1>1
<1>3. History(values) = s
  <2>1. SubSeq(values, 1, n) = [i \in 1 .. n |-> values[i]]
    BY <1>1, <1>2
  <2>2. \A i \in 1 .. n : values[i] = s[i]
    BY <1>1
  <2>3. SubSeq(values, 1, n) = s
    BY <2>1, <2>2
  <2> QED
    BY <1>2, <2>3 DEF History
<1>4. SumOver(History(values), LAMBDA x, y :
              Residual(History(values), x, y) * Residual(History(values), x, y)) = ssr
  <2> HIDE DEF values
  <2> QED
    BY <1>3 DEF SumOver, Squared
<1> HIDE DEF values
<1>5. ~(Len(values) < MIN_SNAPSHOTS \/ Len(s) < MIN_ZSCORE_HISTORY \/ ssr = 0)
  <2>1. MIN_SNAPSHOTS \in 1 .. 4 /\ MIN_ZSCORE_HISTORY \in 1 .. 3
    BY MathAssumption
  <2>2. Len(values) >= 4 /\ Len(s) >= 3 /\ Len(values) \in Int /\ Len(s) \in Int
    BY <1>1, <1>2
  <2>6. \A x, k \in Int : \A y \in 1 .. k : x >= k => ~(x < y)
    OBVIOUS
  <2>3. ~(Len(values) < MIN_SNAPSHOTS)
    BY <2>1, <2>2, <2>6, 4 \in Int, Zenon
  <2>4. ~(Len(s) < MIN_ZSCORE_HISTORY)
    BY <2>1, <2>2, <2>6, 3 \in Int, Zenon
  <2>5. ssr # 0
    OBVIOUS
  <2> QED
    BY <2>3, <2>4, <2>5, Zenon
<1>6. compute_z_score(values)
          = [deviation |-> Residual(s, Len(s), J), ssr |-> ssr, dof |-> Len(s) - 2]
  BY <1>2, <1>3, <1>4, <1>5 DEF compute_z_score
<1>7. compute_z_score(values) = z
  BY <1>1, <1>6
<1>8. z # None
  <2>1. DOMAIN z # DOMAIN None
    BY DEF None
  <2> QED
    BY <2>1
<1>9. z.deviation * z.deviation * z.dof > Z_THRESHOLD * Z_THRESHOLD * z.ssr
  <2>1. Z_THRESHOLD * Z_THRESHOLD * ssr <= 4 * ssr
    BY MathAssumption
  <2>2. Z_THRESHOLD * Z_THRESHOLD * ssr \in Int /\ (dev * dev) * (n - 2) \in Int
    BY MathAssumption
  <2>3. (dev * dev) * (n - 2) > Z_THRESHOLD * Z_THRESHOLD * ssr
    BY <2>1, <2>2
  <2> QED
    BY <2>3
<1>10. IsAnomaly(compute_z_score(values))
  <2> HIDE DEF z
  <2> QED
    BY <1>7, <1>8, <1>9 DEF IsAnomaly
<1> QED
  BY <1>10, AnomalyIsMeasured DEF values

LEMMA JumpsAfterThree ==
    ASSUME NEW c \in Int, NEW m \in Nat, NEW s \in [1 .. 3 -> c - m .. c + m],
           NEW J \in Int, IsFar(J, c, m), ~OnLine(s)
    PROVE  is_anomaly(Append(s, J))
<1> DEFINE e == s[1] - 2 * s[2] + s[3]
           dev == 18 * J + 12 * s[1] - 6 * s[2] - 24 * s[3]
           r == [i \in 1 .. 3 |-> Residual(s, i - 1, s[i]) * Residual(s, i - 1, s[i])]
<1>1. s[1] \in c - m .. c + m /\ s[2] \in c - m .. c + m /\ s[3] \in c - m .. c + m
  OBVIOUS
<1>2. s[1] \in Int /\ s[2] \in Int /\ s[3] \in Int /\ s \in [1 .. 3 -> Int]
  BY <1>1
<1>3. e \in Int /\ dev \in Int
  BY <1>2
<1>4. /\ Residual(s, 0, s[1]) = 3 * e /\ Residual(s, 1, s[2]) = -6 * e
      /\ Residual(s, 2, s[3]) = 3 * e /\ Residual(s, 3, J) = dev
  BY <1>2, ResidualsOfThree, Zenon
<1>5. e # 0
  <2>1. ASSUME e = 0 PROVE OnLine(s)
    <3> HIDE DEF e
    <3>1. Residual(s, 0, s[1]) = 0 /\ Residual(s, 1, s[2]) = 0 /\ Residual(s, 2, s[3]) = 0
      BY <1>4, <2>1
    <3>2. DOMAIN s = 1 .. 3
      OBVIOUS
    <3>3. ASSUME NEW i \in 1 .. 3 PROVE Residual(s, i - 1, s[i]) = 0
      <4>1. (i = 1 /\ i - 1 = 0) \/ (i = 2 /\ i - 1 = 1) \/ (i = 3 /\ i - 1 = 2)
        OBVIOUS
      <4> QED
        BY <3>1, <4>1, Zenon
    <3> QED
      BY <3>2, <3>3, Zenon DEF OnLine
  <2> QED
    BY <2>1
<1>10. e = s[1] - 2 * s[2] + s[3] /\ dev = 18 * J + 12 * s[1] - 6 * s[2] - 24 * s[3]
  OBVIOUS
<1> HIDE DEF e, dev
<1>6. dev * dev > 216 * (e * e)
  <2>1. Beyond(s[1], s[2], s[3], J)
    BY <1>1, <1>2, JumpOfThree, Zenon
  <2> QED
    BY <1>5, <1>10, <2>1, Zenon DEF Beyond
<1>7. Squared(s) = 54 * (e * e)
  <2>1. r[1] = (3 * e) * (3 * e) /\ r[2] = (-6 * e) * (-6 * e) /\ r[3] = (3 * e) * (3 * e)
    <3>1. r[1] = Residual(s, 0, s[1]) * Residual(s, 0, s[1])
      OBVIOUS
    <3>2. r[2] = Residual(s, 1, s[2]) * Residual(s, 1, s[2])
      OBVIOUS
    <3>3. r[3] = Residual(s, 2, s[3]) * Residual(s, 2, s[3])
      OBVIOUS
    <3> QED
      BY <1>4, <3>1, <3>2, <3>3, Zenon
  <2>2. r[1] \in Int /\ r[2] \in Int /\ r[3] \in Int
    BY <1>3, <2>1
  <2>3. r \in [1 .. 3 -> Int]
    <3>1. \A i \in 1 .. 3 : r[i] \in Int
      <4> HIDE DEF r
      <4> QED
        BY <2>2
    <3> QED
      BY <3>1
  <2>4. Squared(s) = Total(r)
    <3>1. Len(s) = 3
      BY <1>2
    <3> QED
      BY <3>1, Zenon DEF Squared
  <2> HIDE DEF r
  <2>5. Total(r) = r[1] + r[2] + r[3]
    BY <2>3, TotalOfThree
  <2> QED
    BY <1>3, <2>1, <2>4, <2>5
<1>8. 54 * (e * e) \in Nat \ {0} /\ (dev * dev) * (3 - 2) > 4 * (54 * (e * e))
  <2>1. e * e >= 1
    BY <1>3, <1>5, SquareOfSome
  <2> QED
    BY <1>3, <1>6, <2>1
<1>9. 3 \in 3 .. 4
  OBVIOUS
<1> QED
  BY <1>2, <1>3, <1>4, <1>7, <1>8, <1>9, JumpIsAnomaly, Zenon

LEMMA JumpsAfterFour ==
    ASSUME NEW c \in Int, NEW m \in Nat, NEW s \in [1 .. 4 -> c - m .. c + m],
           NEW J \in Int, IsFar(J, c, m), ~OnLine(s)
    PROVE  is_anomaly(Append(s, J))
<1> DEFINE a == s[1] - s[2] - s[3] + s[4]
           b == -s[1] + 3 * s[2] - 3 * s[3] + s[4]
           D == 2 * J + s[1] - s[3] - 2 * s[4]
           r == [i \in 1 .. 4 |-> Residual(s, i - 1, s[i]) * Residual(s, i - 1, s[i])]
<1>1. /\ s[1] \in c - m .. c + m /\ s[2] \in c - m .. c + m
      /\ s[3] \in c - m .. c + m /\ s[4] \in c - m .. c + m
  OBVIOUS
<1>2. s[1] \in Int /\ s[2] \in Int /\ s[3] \in Int /\ s[4] \in Int /\ s \in [1 .. 4 -> Int]
  BY <1>1
<1>3. a \in Int /\ b \in Int /\ D \in Int
  BY <1>2
<1>4. /\ Residual(s, 0, s[1]) = 20 * a - 4 * b /\ Residual(s, 1, s[2]) = 12 * b - 20 * a
      /\ Residual(s, 2, s[3]) = -20 * a - 12 * b /\ Residual(s, 3, s[4]) = 20 * a + 4 * b
      /\ Residual(s, 4, J) = 80 * J + 40 * s[1] - 40 * s[3] - 80 * s[4]
  BY <1>2, ResidualsOfFour, Zenon
<1>5. a # 0 \/ b # 0
  <2>1. ASSUME a = 0 /\ b = 0 PROVE OnLine(s)
    <3> HIDE DEF a, b
    <3>1. /\ Residual(s, 0, s[1]) = 0 /\ Residual(s, 1, s[2]) = 0
          /\ Residual(s, 2, s[3]) = 0 /\ Residual(s, 3, s[4]) = 0
      BY <1>4, <2>1
    <3>2. DOMAIN s = 1 .. 4
      OBVIOUS
    <3>3. ASSUME NEW i \in 1 .. 4 PROVE Residual(s, i - 1, s[i]) = 0
      <4>1. (i = 1 /\ i - 1 = 0) \/ (i = 2 /\ i - 1 = 1) \/ (i = 3 /\ i - 1 = 2) \/ (i = 4 /\ i - 1 = 3)
        OBVIOUS
      <4> QED
        BY <3>1, <4>1, Zenon
    <3> QED
      BY <3>2, <3>3, Zenon DEF OnLine
  <2> QED
    BY <2>1
<1>6. 5 * (D * D) > 10 * (a * a) + 2 * (b * b)
  BY <1>1, <1>2, <1>5, JumpOfFour, Zenon
<1>10. Residual(s, 4, J) = 40 * D /\ 40 * D \in Int
  BY <1>2, <1>3, <1>4
<1> HIDE DEF a, b, D
<1> DEFINE ssr == 1600 * (a * a) + 320 * (b * b)
<1>7. Squared(s) = ssr
  <2> DEFINE w == 20 * a - 4 * b
             x == 12 * b - 20 * a
             y == -20 * a - 12 * b
             v == 20 * a + 4 * b
  <2>1. r[1] = w * w /\ r[2] = x * x /\ r[3] = y * y /\ r[4] = v * v
    <3>1. r[1] = Residual(s, 0, s[1]) * Residual(s, 0, s[1])
      OBVIOUS
    <3>2. r[2] = Residual(s, 1, s[2]) * Residual(s, 1, s[2])
      OBVIOUS
    <3>3. r[3] = Residual(s, 2, s[3]) * Residual(s, 2, s[3])
      OBVIOUS
    <3>4. r[4] = Residual(s, 3, s[4]) * Residual(s, 3, s[4])
      OBVIOUS
    <3> QED
      BY <1>4, <3>1, <3>2, <3>3, <3>4, Zenon
  <2>2. r[1] \in Int /\ r[2] \in Int /\ r[3] \in Int /\ r[4] \in Int
    BY <1>3, <2>1
  <2>3. r \in [1 .. 4 -> Int]
    <3>1. \A i \in 1 .. 4 : r[i] \in Int
      <4> HIDE DEF r
      <4> QED
        BY <2>2
    <3> QED
      BY <3>1
  <2>4. Squared(s) = Total(r)
    <3>1. Len(s) = 4
      BY <1>2
    <3> QED
      BY <3>1, Zenon DEF Squared
  <2> HIDE DEF r
  <2>5. Total(r) = r[1] + r[2] + r[3] + r[4]
    BY <2>3, TotalOfFour
  <2>6. w * w + x * x + y * y + v * v = ssr
    BY <1>3
  <2> QED
    BY <1>3, <2>1, <2>4, <2>5, <2>6
<1>8. ssr \in Nat \ {0} /\ ((40 * D) * (40 * D)) * (4 - 2) > 4 * ssr
  <2>1. a * a >= 1 \/ b * b >= 1
    BY <1>3, <1>5, SquareOfSome
  <2>2. a * a >= 0 /\ b * b >= 0 /\ a * a \in Int /\ b * b \in Int /\ D * D \in Int
    BY <1>3
  <2>3. ((40 * D) * (40 * D)) * (4 - 2) = 3200 * (D * D)
    BY <1>3
  <2> DEFINE aa == a * a
             bb == b * b
             dd == D * D
  <2>4. ssr = 1600 * aa + 320 * bb
    OBVIOUS
  <2>5. 5 * dd > 10 * aa + 2 * bb
    BY <1>6
  <2>6. ((40 * D) * (40 * D)) * (4 - 2) = 3200 * dd
    BY <2>3
  <2>7. aa >= 0 /\ bb >= 0 /\ aa \in Int /\ bb \in Int /\ dd \in Int /\ (aa >= 1 \/ bb >= 1)
    BY <2>1, <2>2
  <2> HIDE DEF aa, bb, dd, ssr
  <2>8. ssr \in Nat \ {0} /\ 3200 * dd > 4 * ssr
    BY <2>4, <2>5, <2>7
  <2> QED
    BY <2>6, <2>8
<1>9. 4 \in 3 .. 4
  OBVIOUS
<1> HIDE DEF ssr
<1> QED
  BY <1>2, <1>7, <1>8, <1>9, <1>10, JumpIsAnomaly, Zenon

\* insight_math_service.analyze: a series on a line, however long and however
\* steep, is no anomaly; after three or four steady months that are not on a
\* line, a value at least four times as far from their level as they are is one.
THEOREM AnomaliesAlwaysJumps == Spec => []AnomaliesAreJumps
<1>1. ASSUME NEW a \in Level, NEW b \in Level, NEW n \in 0 .. MaxMonths
      PROVE  ~is_anomaly(Line(a, b, n))
  <2>1. a \in Int /\ b \in Int /\ n \in Nat
    BY FeedbackAssumption
  <2> QED
    BY <2>1, LinesAreNoAnomalies, Zenon
<1>2. ASSUME NEW n \in 3 .. 4, NEW level \in Level, NEW spread \in 0 .. MaxSpread,
             NEW s \in [1 .. n -> level - spread .. level + spread], NEW value \in Level,
             IsFar(value, level, spread)
      PROVE  OnLine(s) \/ is_anomaly(Append(s, value))
  <2>1. level \in Int /\ value \in Int /\ spread \in Nat
    BY FeedbackAssumption
  <2>2. n = 3 \/ n = 4
    OBVIOUS
  <2>3. CASE n = 3
    BY <1>2, <2>1, <2>3, JumpsAfterThree, Zenon
  <2>4. CASE n = 4
    BY <1>2, <2>1, <2>4, JumpsAfterFour, Zenon
  <2> QED
    BY <2>2, <2>3, <2>4
<1>3. AnomaliesAreJumps
  BY <1>1, <1>2, Zenon DEF AnomaliesAreJumps
<1> QED
  BY <1>3, PTL
=============================================================================
