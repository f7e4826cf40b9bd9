------------------------ MODULE DatasetPipelineProofs ------------------------
(***************************************************************************)
(* Proof of what a sync leaves, of what leads to KPIs and of the months    *)
(* that get a snapshot, for any number of jobs, loads and months.  What    *)
(* carries it: of two jobs that are under way both know that they have met *)
(* another, so a job that has met none still finds everything as it read   *)
(* it.  The last section is about the limiter that every such request      *)
(* passes.                                                                 *)
(***************************************************************************)
EXTENDS DatasetPipeline, FiniteSetTheorems, WellFoundedInduction, TLAPS

Holding == {k \in [rows : Nat, filled : Nat, typed : Nat,
                   months : SUBSET Month, broken : SUBSET Month] :
                k.typed <= k.filled /\ k.filled <= k.rows}
Syncing == {"extract", "replace", "mark", "respond"}
Scoring == {"check", "apply", "announce"}
Operation == {"none", "sync", "check", "recheck", "generate", "auto", "request", "manual",
              "recompute", "delete"}
Stage == Syncing \cup Scoring \cup {"idle", "model", "snapshot", "months", "full", "stamp"}
Work == [op : Operation, pc : Stage, first : BOOLEAN, met : BOOLEAN, holds : Holding,
         seen : SUBSET Load, score : 0 .. 100, pass : BOOLEAN, todo : SUBSET Month,
         made : BOOLEAN]

Shaped ==
    /\ dataset \in [live : BOOLEAN, synced : BOOLEAN, status : {"active", "quarantined"},
                    score : 0 .. 100]
    /\ records \in [Load -> {"none", "live", "dead"}]
    /\ kind \in [Load -> Holding]
    /\ job \in [Job -> Work]
    /\ passed \in Nat /\ resynced \in Nat /\ queued \in Nat
    /\ kpis \in 0 .. MaxKpis /\ faults \in 0 .. MaxFaults /\ starts \in 0 .. MaxStarts
    /\ marred \in BOOLEAN /\ justified \in BOOLEAN
    /\ SeriesTypeOK

\* What a job is at goes with what it was begun for.
KindOK(w) ==
    /\ w.pc = "idle" => w = Idle
    /\ w.pc \in Syncing => w.op = "sync"
    /\ w.pc \in Scoring => w.op \in {"sync", "check", "recheck"}
    /\ w.op = "sync" => w.pc \in Syncing \cup Scoring
OpOK(j) == KindOK(job[j])

\* Of two jobs that are under way both have met another.
MetOK ==
    \A j, k \in Job : j # k /\ j \in Busy /\ k \in Busy => job[j].met /\ job[k].met

NoneDead == dataset.live => In("dead") = {}

\* What the score would be over the records of some loads.
CellsOf(S, upto) == UNION {{l} \X (1 .. upto[l]) : l \in S}
ScoreOn(S, K, synced, hours) ==
    overall_score(measured(Cardinality(CellsOf(S, [l \in Load |-> K[l].rows])),
                           Cardinality(CellsOf(S, [l \in Load |-> K[l].filled])),
                           Cardinality(CellsOf(S, [l \in Load |-> K[l].typed])),
                           IF synced THEN _recency_score(hours) ELSE 0))

\* Deleted or not, a dataset in order has the rows of one load, and the verdict
\* is the one on these rows.
Held == In("live") \cup In("dead")
InOrder ==
    /\ Cardinality(Held) <= 1
    /\ ~dataset.live => In("live") = {}
    /\ dataset.synced =>
           /\ \E hours \in Ages : dataset.score = ScoreOn(Held, kind, TRUE, hours)
           /\ dataset.status = "quarantined" <=> should_quarantine(dataset.score)

\* A sync that has brought rows and not judged them yet.
Unjudged(j) == job[j].op = "sync" /\ job[j].pc \in {"mark", "check", "apply"}
Settled == ~marred /\ (\A j \in Job : ~Unjudged(j)) => InOrder

\* What a job that has met no other has read still holds.
Fresh(j) ==
    j \in Busy /\ ~job[j].met =>
        /\ job[j].pc \in {"replace", "stamp"} => job[j].seen = In("live")
        /\ job[j].op = "sync" => dataset.live
        /\ Unjudged(j) => Cardinality(Held) <= 1
        /\ job[j].op = "sync" /\ job[j].pc \in {"check", "apply"} => dataset.synced
        /\ At(j, "apply") =>
               /\ \E hours \in Ages :
                      job[j].score = ScoreOn(In("live"), kind, dataset.synced, hours)
               /\ job[j].pass <=> ~should_quarantine(job[j].score)
        /\ At(j, "months") =>
               \A m \in Covered : \/ m \in Months(series) \/ m \in job[j].todo
                                  \/ \E b \in Broken : b <= m

\* What waits comes from a pass, and so does whoever has one in hand or acts on
\* one: since that pass no quarantine has found nothing else under way.
PassedOn == passed + queued > 0 => justified
LetThrough(j) ==
    /\ At(j, "model") /\ job[j].op \in {"generate", "auto"} => justified
    /\ At(j, "announce") /\ job[j].pass => justified
    /\ job[j].op = "sync" /\ job[j].pc \in {"announce", "respond"} =>
           justified \/ dataset.status = "quarantined"

IInv ==
    /\ Shaped
    /\ \A j \in Job : OpOK(j)
    /\ MetOK
    /\ NoneDead
    /\ Settled
    /\ \A j \in Job : Fresh(j)
    /\ PassedOn
    /\ \A j \in Job : LetThrough(j)

-----------------------------------------------------------------------------
(* Numbers *)

LEMMA NatLess == IsWellFoundedOn({p \in Nat \X Nat : p[1] < p[2]}, Nat)
<1>1. {p \in Nat \X Nat : p[1] < p[2]} = OpToRel(<, Nat)
  BY DEF OpToRel
<1> QED
  BY <1>1, NatLessThanWellFounded

LEMMA Least ==
    ASSUME NEW T \in SUBSET Nat, T # {}
    PROVE  \E x \in T : \A y \in T : x <= y
<1>1. \E x \in T : \A y \in T : ~(<<y, x>> \in {p \in Nat \X Nat : p[1] < p[2]})
  BY NatLess, WFMin
<1>2. \A x, y \in T : ~(<<y, x>> \in {p \in Nat \X Nat : p[1] < p[2]}) => x <= y
  OBVIOUS
<1> QED
  BY <1>1, <1>2

LEMMA Greatest ==
    ASSUME NEW T \in SUBSET Nat, T # {}, IsFiniteSet(T)
    PROVE  \E x \in T : \A y \in T : y <= x
<1> DEFINE Bad(S) == /\ S # {} /\ IsFiniteSet(S)
                     /\ \A x \in S : \E y \in S : ~(y <= x)
           N == {n \in Nat : \E S \in SUBSET Nat : Bad(S) /\ Cardinality(S) = n}
<1> SUFFICES ASSUME Bad(T) PROVE FALSE
  OBVIOUS
<1>1. N \subseteq Nat /\ N # {}
  BY FS_CardinalityType
<1>2. PICK n \in N : \A m \in N : n <= m
  BY <1>1, Least
<1>3. PICK S \in SUBSET Nat : Bad(S) /\ Cardinality(S) = n
  BY <1>2
<1>4. PICK a \in S : TRUE
  BY <1>3
<1> DEFINE Q == S \ {a}
<1>5. IsFiniteSet(Q) /\ Cardinality(Q) = n - 1 /\ n \in Nat /\ Cardinality(Q) \in Nat
  BY <1>3, <1>4, FS_RemoveElement, FS_CardinalityType
<1>6. ~Bad(Q)
  <2>1. Bad(Q) => n - 1 \in N
    BY <1>5
  <2> QED
    BY <1>2, <1>5, <2>1
<1>7. Q # {}
  <2>1. PICK y \in S : ~(y <= a)
    BY <1>3, <1>4
  <2> QED
    BY <1>4, <2>1
<1>8. PICK x \in Q : \A y \in Q : y <= x
  BY <1>5, <1>6, <1>7
<1>9. PICK y \in S : ~(y <= x)
  BY <1>3, <1>8
<1>10. y = a /\ a \in Nat /\ x \in Nat /\ a > x
  BY <1>3, <1>4, <1>8, <1>9
<1>11. PICK z \in S : ~(z <= a)
  BY <1>3, <1>4
<1>12. z \in Q /\ z <= x
  BY <1>4, <1>8, <1>10, <1>11
<1> QED
  BY <1>3, <1>10, <1>11, <1>12

LEMMA MinFacts ==
    ASSUME NEW S \in SUBSET Nat, S # {}
    PROVE  Min(S) \in S /\ \A y \in S : Min(S) <= y
BY Least DEF Min

LEMMA MaxFacts ==
    ASSUME NEW S \in SUBSET Nat, S # {}, IsFiniteSet(S)
    PROVE  Max(S) \in S
<1>1. \E x \in S : \A y \in S : x >= y
  <2>1. PICK x \in S : \A y \in S : y <= x
    BY Greatest
  <2>2. \A y \in S : x >= y
    BY <2>1
  <2> QED
    BY <2>2
<1> QED
  BY <1>1 DEF Max

LEMMA ShareBounds ==
    ASSUME NEW whole \in Nat, NEW part \in Nat, part <= whole
    PROVE  Share(part, whole) \in 0 .. 100
<1>1. CASE whole = 0
  BY <1>1 DEF Share
<1>2. CASE whole > 0
  <2>1. (100 * part) \div whole \in 0 .. 100
    BY <1>2
  <2> QED
    BY <1>2, <2>1 DEF Share
<1> QED
  BY <1>1, <1>2

LEMMA RecencyBounds ==
    ASSUME NEW hours \in Nat
    PROVE  _recency_score(hours) \in 0 .. 100
<1>1. CASE hours < 1
  BY <1>1 DEF _recency_score
<1>2. CASE hours >= 1 /\ hours < 24
  BY <1>2 DEF _recency_score
<1>3. CASE hours >= 24 /\ hours < 72
  BY <1>3 DEF _recency_score
<1>4. CASE hours >= 72 /\ hours < 168
  BY <1>4 DEF _recency_score
<1>5. CASE hours >= 168
  BY <1>5 DEF _recency_score
<1> QED
  BY <1>1, <1>2, <1>3, <1>4, <1>5

LEMMA OverallBounds ==
    ASSUME NEW rows \in Nat, NEW filled \in Nat, NEW typed \in Nat, NEW recency \in 0 .. 100,
           typed <= filled, filled <= rows
    PROVE  overall_score(measured(rows, filled, typed, recency)) \in 0 .. 100
<1> DEFINE c == IF rows = 0 THEN 0 ELSE Share(filled, rows)
           s == IF rows = 0 THEN 0 ELSE Share(typed, filled)
<1>1. c \in 0 .. 100 /\ s \in 0 .. 100
  <2>1. Share(filled, rows) \in 0 .. 100 /\ Share(typed, filled) \in 0 .. 100
    BY ShareBounds
  <2> QED
    BY <2>1
<1>2. overall_score(measured(rows, filled, typed, recency))
          = (40 * c + 30 * s + 30 * recency) \div 100
  <2> DEFINE m == measured(rows, filled, typed, recency)
  <2>1. m.completeness = c /\ m.consistency = s /\ m.recency = recency
    BY DEF measured
  <2> HIDE DEF m, c, s
  <2>2. overall_score(m) = (40 * c + 30 * s + 30 * recency) \div 100
    BY <2>1, Zenon DEF overall_score
  <2> QED
    BY <2>2 DEF m
<1> HIDE DEF c, s
<1> QED
  BY <1>1, <1>2

LEMMA CellsAreFinite ==
    ASSUME NEW S \in SUBSET Load, NEW upto \in [Load -> Nat]
    PROVE  IsFiniteSet(CellsOf(S, upto)) /\ Cardinality(CellsOf(S, upto)) \in Nat
<1> DEFINE C == {{l} \X (1 .. upto[l]) : l \in S}
           f == [l \in S |-> {l} \X (1 .. upto[l])]
<1>1. IsFiniteSet(S)
  BY FS_Subset, PipelineAssumption DEF PipelineAssumption
<1>2. f \in Surjection(S, C)
  BY DEF Surjection
<1>3. IsFiniteSet(C)
  BY <1>1, <1>2, FS_Surjection
<1>4. \A T \in C : IsFiniteSet(T)
  <2> SUFFICES ASSUME NEW l \in S PROVE IsFiniteSet({l} \X (1 .. upto[l]))
    OBVIOUS
  <2>1. upto[l] \in Int /\ 1 \in Int
    OBVIOUS
  <2>2. IsFiniteSet({l}) /\ IsFiniteSet(1 .. upto[l])
    BY <2>1, FS_Singleton, FS_Interval
  <2> QED
    BY <2>2, FS_Product
<1>5. IsFiniteSet(UNION C)
  BY <1>3, <1>4, FS_UNION
<1> QED
  BY <1>5, FS_CardinalityType DEF CellsOf

LEMMA CellsGrow ==
    ASSUME NEW S \in SUBSET Load, NEW f \in [Load -> Nat], NEW g \in [Load -> Nat],
           \A l \in Load : f[l] <= g[l]
    PROVE  Cardinality(CellsOf(S, f)) <= Cardinality(CellsOf(S, g))
<1>1. \A l \in S : {l} \X (1 .. f[l]) \subseteq {l} \X (1 .. g[l])
  OBVIOUS
<1>2. CellsOf(S, f) \subseteq CellsOf(S, g)
  BY <1>1 DEF CellsOf
<1> QED
  BY <1>2, CellsAreFinite, FS_Subset

LEMMA ScoreBounds ==
    ASSUME NEW S \in SUBSET Load, NEW K \in [Load -> Holding], NEW synced \in BOOLEAN,
           NEW hours \in Nat
    PROVE  ScoreOn(S, K, synced, hours) \in 0 .. 100
<1> DEFINE r == [l \in Load |-> K[l].rows]
           f == [l \in Load |-> K[l].filled]
           t == [l \in Load |-> K[l].typed]
<1>1. /\ r \in [Load -> Nat] /\ f \in [Load -> Nat] /\ t \in [Load -> Nat]
      /\ \A l \in Load : t[l] <= f[l] /\ f[l] <= r[l]
  BY DEF Holding
<1> DEFINE recency == IF synced THEN _recency_score(hours) ELSE 0
<1>2. recency \in 0 .. 100
  BY RecencyBounds
<1>3. ScoreOn(S, K, synced, hours)
          = overall_score(measured(Cardinality(CellsOf(S, r)), Cardinality(CellsOf(S, f)),
                                   Cardinality(CellsOf(S, t)), recency))
  BY DEF ScoreOn
<1> HIDE DEF r, f, t, recency
<1>4. /\ Cardinality(CellsOf(S, r)) \in Nat /\ Cardinality(CellsOf(S, f)) \in Nat
      /\ Cardinality(CellsOf(S, t)) \in Nat
      /\ Cardinality(CellsOf(S, t)) <= Cardinality(CellsOf(S, f))
      /\ Cardinality(CellsOf(S, f)) <= Cardinality(CellsOf(S, r))
  BY <1>1, CellsAreFinite, CellsGrow
<1> DEFINE a == Cardinality(CellsOf(S, r))
           b == Cardinality(CellsOf(S, f))
           c == Cardinality(CellsOf(S, t))
<1>5. a \in Nat /\ b \in Nat /\ c \in Nat /\ c <= b /\ b <= a
  BY <1>4
<1>6. ScoreOn(S, K, synced, hours) = overall_score(measured(a, b, c, recency))
  BY <1>3
<1> HIDE DEF a, b, c
<1>7. overall_score(measured(a, b, c, recency)) \in 0 .. 100
  BY <1>2, <1>5, OverallBounds
<1> QED
  BY <1>6, <1>7

-----------------------------------------------------------------------------
(* What every step keeps *)

\* The score of the model is the one over the live records.
LEMMA ScoreIs ==
    ASSUME NEW hours \in Nat
    PROVE  Score(hours) = ScoreOn(In("live"), kind, dataset.synced, hours)
BY DEF Score, validate_profile, Rows, Filled, Typed, Cells, CellsOf, ScoreOn

LEMMA IdleIsWork == Idle \in Work
  BY DEF Idle, NoKind, Work, Holding, Operation, Stage

LEMMA CoveredMonths ==
    ASSUME Shaped
    PROVE  /\ Covered \in SUBSET Month /\ Broken \in SUBSET Month
           /\ MonthsToCompute(Covered) \in SUBSET Month
           /\ FullRow(Covered) \in SnapshotRow
<1>1. Covered \in SUBSET Month /\ Broken \in SUBSET Month
  BY DEF Shaped, Covered, Broken, In, Holding
<1>2. MonthsToCompute(Covered) \in SUBSET Month
  BY <1>1 DEF MonthsToCompute
<1>3. CASE dates = "listed" /\ Covered # {}
  <2>1. Covered \in SUBSET Nat /\ IsFiniteSet(Covered)
    BY <1>1, FS_Subset, SnapshotAssumption DEF SnapshotAssumption
  <2>2. Min(Covered) \in Month /\ Max(Covered) \in Month
    BY <1>1, <1>3, <2>1, MinFacts, MaxFacts
  <2>3. FullRange(Covered) \in SnapshotRow
    BY <2>2 DEF FullRange, SnapshotRow
  <2> QED
    BY <1>1, <1>2, <1>3, <2>3 DEF FullRow
<1>4. CASE ~(dates = "listed" /\ Covered # {})
  <2>1. Undated \in SnapshotRow
    BY DEF Undated, SnapshotRow
  <2> QED
    BY <1>1, <1>2, <1>4, <2>1 DEF FullRow
<1> QED
  BY <1>1, <1>2, <1>3, <1>4

LEMMA Kept ==
    ASSUME UNCHANGED <<dataset, records, kind>>
    PROVE  /\ In("live")' = In("live") /\ In("dead")' = In("dead") /\ Held' = Held
           /\ Covered' = Covered /\ Broken' = Broken
           /\ InOrder' <=> InOrder
           /\ NoneDead' <=> NoneDead
<1>1. In("live")' = In("live") /\ In("dead")' = In("dead")
  BY DEF In
<1>2. Held' = Held
  BY <1>1 DEF Held
<1>3. Covered' = Covered /\ Broken' = Broken
  BY <1>1 DEF Covered, Broken
<1>4. InOrder' <=> InOrder
  BY <1>1, <1>2 DEF InOrder
<1>5. NoneDead' <=> NoneDead
  BY <1>1 DEF NoneDead
<1> QED
  BY <1>1, <1>2, <1>3, <1>4, <1>5

\* A job that goes on: whoever else is under way has met it.
LEMMA Moved ==
    ASSUME Shaped, \A k \in Job : OpOK(k), MetOK, NEW j \in Job, ~At(j, "idle"),
           job' \in [Job -> Work], \A k \in Job \ {j} : job'[k] = job[k],
           job'[j].met = job[j].met \/ job'[j] = Idle, OpOK(j)'
    PROVE  /\ \A k \in Job : OpOK(k)'
           /\ MetOK'
           /\ \A k \in Job \ {j} : Fresh(k)'
<1>1. \A k \in Job : OpOK(k)'
  BY DEF OpOK
<1>2. \A k \in Job : k \in Busy' => k \in Busy
  BY DEF Busy, At
<1>3. j \in Busy' => job'[j].met = job[j].met
  BY DEF Busy, At, Idle
<1>4. MetOK'
  BY <1>2, <1>3 DEF MetOK
<1>5. \A k \in Job \ {j} : k \in Busy' => job'[k].met
  <2> SUFFICES ASSUME NEW k \in Job \ {j}, k \in Busy' PROVE job'[k].met
    OBVIOUS
  <2>1. k \in Busy /\ j \in Busy
    BY <1>2 DEF Busy
  <2> QED
    BY <2>1 DEF MetOK
<1>6. \A k \in Job \ {j} : Fresh(k)'
  BY <1>5 DEF Fresh
<1> QED
  BY <1>1, <1>4, <1>6

LEMMA MovedKeeps ==
    ASSUME IInv, NEW j \in Job, ~At(j, "idle"), Shaped',
           \A k \in Job \ {j} : job'[k] = job[k],
           job'[j].met = job[j].met \/ job'[j] = Idle, OpOK(j)', Fresh(j)', LetThrough(j)',
           UNCHANGED <<dataset, records, kind>>, PassedOn',
           marred => marred', justified => justified',
           Unjudged(j) => Unjudged(j)' \/ marred'
    PROVE  IInv'
<1>1. /\ \A k \in Job : OpOK(k)'
      /\ MetOK'
      /\ \A k \in Job \ {j} : Fresh(k)'
  BY Moved DEF IInv, Shaped
<1>2. \A k \in Job : Fresh(k)'
  BY <1>1
<1>3. \A k \in Job \ {j} : Unjudged(k) => Unjudged(k)'
  BY DEF Unjudged
<1>4. Settled'
  <2> SUFFICES ASSUME ~marred', \A k \in Job : ~Unjudged(k)' PROVE InOrder'
    BY DEF Settled
  <2>1. ~marred /\ \A k \in Job : ~Unjudged(k)
    BY <1>3
  <2> QED
    BY <2>1, Kept DEF IInv, Settled
<1>5. \A k \in Job \ {j} : LetThrough(k)'
  BY DEF IInv, LetThrough, At
<1>6. NoneDead'
  BY Kept DEF IInv
<1> QED
  BY <1>1, <1>2, <1>4, <1>5, <1>6 DEF IInv

LEMMA MetAlready ==
    ASSUME NEW w \in Work, NEW b \in BOOLEAN, w.met = b
    PROVE  [w EXCEPT !.met = b] = w
BY DEF Work

\* A job whose encounters are noted goes on as it was.
LEMMA OthersMet ==
    ASSUME NEW k \in Job, job[k] \in Work, OpOK(k),
           job'[k] = [job[k] EXCEPT !.met = k \in Busy]
    PROVE  /\ job'[k] \in Work
           /\ job'[k].pc = job[k].pc /\ job'[k].op = job[k].op /\ job'[k].pass = job[k].pass
           /\ k \in Busy => job'[k].met
           /\ OpOK(k)'
<1>1. PICK b \in BOOLEAN : b <=> k \in Busy
  OBVIOUS
<1>2. b = (k \in Busy)
  BY <1>1
<1>3. job'[k] = [job[k] EXCEPT !.met = b]
  BY <1>2, Zenon
<1>4. /\ job'[k] \in Work /\ job'[k].pc = job[k].pc /\ job'[k].op = job[k].op
      /\ job'[k].pass = job[k].pass /\ job'[k].met = b
  BY <1>3 DEF Work
<1>5. job'[k].pc = "idle" => job'[k] = Idle
  <2> SUFFICES ASSUME job[k].pc = "idle" PROVE job'[k] = Idle
    BY <1>4
  <2>1. job[k] = Idle /\ ~b
    BY <1>1 DEF OpOK, KindOK, At, Busy
  <2>2. ~job[k].met /\ job[k].met \in BOOLEAN
    BY <2>1 DEF Work, Idle
  <2>3. job[k].met = b
    BY <2>1, <2>2
  <2> QED
    BY <1>3, <2>1, <2>3, MetAlready
<1>6. OpOK(k)'
  BY <1>4, <1>5 DEF OpOK, KindOK
<1> QED
  BY <1>1, <1>4, <1>6

\* A job that begins meets whoever is under way, and is met by them.
LEMMA Begun ==
    ASSUME Shaped, \A k \in Job : OpOK(k), MetOK, NEW j \in Job, NEW op, NEW pc,
           Begin(j, op, pc), Shaped', OpOK(j)',
           pc \in {"extract", "check", "stamp", "snapshot", "full", "model"},
           op = "sync" => dataset.live /\ pc = "extract",
           UNCHANGED <<dataset, records, kind>>
    PROVE  /\ \A k \in Job \ {j} : /\ job'[k].pc = job[k].pc /\ job'[k].op = job[k].op
                                  /\ job'[k].pass = job[k].pass
           /\ \A k \in Job : OpOK(k)'
           /\ MetOK'
           /\ \A k \in Job : Fresh(k)'
           /\ \A k \in Job : Unjudged(k) => Unjudged(k)'
<1> DEFINE new == [Idle EXCEPT !.op = op, !.pc = pc, !.first = ~dataset.synced,
                               !.met = Busy # {}, !.seen = In("live")]
<1>1. At(j, "idle") /\ j \notin Busy
  BY DEF Begin, At, Busy
<1>2. job'[j] = new
  BY DEF Begin
<1>3. \A k \in Job \ {j} : OpOK(k)' /\ (k \in Busy => job'[k].met)
  BY OthersMet DEF Begin, Shaped
<1>4. \A k \in Job \ {j} : job'[k].pc = job[k].pc /\ job'[k].op = job[k].op
  BY OthersMet DEF Begin, Shaped
<1>5. \A k \in Job \ {j} : job'[k].pass = job[k].pass
  BY OthersMet DEF Begin, Shaped
<1>6. new.pc = pc /\ new.op = op /\ new.seen = In("live") /\ (new.met <=> Busy # {})
  BY DEF Idle
<1>7. \A k \in Job \ {j} : k \in Busy' <=> k \in Busy
  BY <1>4 DEF Busy, At
<1>8. MetOK'
  <2> SUFFICES ASSUME NEW k \in Job, NEW l \in Job, k # l, k \in Busy', l \in Busy'
               PROVE  job'[k].met
    BY DEF MetOK
  <2>1. CASE k = j
    BY <1>2, <1>6, <1>7, <2>1
  <2>2. CASE k # j
    BY <1>3, <1>7, <2>2
  <2> QED
    BY <2>1, <2>2
<1>9. \A k \in Job \ {j} : Fresh(k)'
  BY <1>3, <1>7 DEF Fresh
<1>10. Fresh(j)'
  <2>1. In("live")' = In("live")
    BY Kept
  <2> QED
    BY <1>2, <1>6, <2>1 DEF Fresh, At, Unjudged
<1>11. \A k \in Job : Unjudged(k) => Unjudged(k)'
  BY <1>1, <1>4 DEF Unjudged, At
<1> QED
  BY <1>3, <1>8, <1>9, <1>10, <1>11, <1>4, <1>5

LEMMA BegunKeeps ==
    ASSUME IInv, NEW j \in Job, NEW op, NEW pc,
           Begin(j, op, pc), Shaped', OpOK(j)',
           pc \in {"extract", "check", "stamp", "snapshot", "full", "model"},
           op = "sync" => dataset.live /\ pc = "extract",
           UNCHANGED <<dataset, records, kind, marred, justified>>,
           PassedOn', pc = "model" /\ op \in {"generate", "auto"} => justified
    PROVE  IInv'
<1>1. /\ \A k \in Job \ {j} : /\ job'[k].pc = job[k].pc /\ job'[k].op = job[k].op
                              /\ job'[k].pass = job[k].pass
      /\ \A k \in Job : OpOK(k)'
      /\ MetOK'
      /\ \A k \in Job : Fresh(k)'
      /\ \A k \in Job : Unjudged(k) => Unjudged(k)'
  BY Begun DEF IInv
<1>2. Settled'
  BY <1>1, Kept DEF IInv, Settled
<1>3. \A k \in Job \ {j} : LetThrough(k)'
  BY <1>1 DEF IInv, LetThrough, At
<1>4. LetThrough(j)'
  <2>1. job'[j].pc = pc /\ job'[j].op = op
    BY DEF Begin, Idle
  <2> QED
    BY <2>1 DEF LetThrough, At
<1>5. NoneDead'
  BY Kept DEF IInv
<1> QED
  BY <1>1, <1>2, <1>3, <1>4, <1>5 DEF IInv

-----------------------------------------------------------------------------
(* What begins *)

Beginnings == {<<"sync", "extract">>, <<"check", "check">>, <<"recheck", "check">>,
               <<"delete", "stamp">>, <<"recompute", "snapshot">>, <<"recompute", "full">>,
               <<"generate", "model">>, <<"auto", "model">>,
               <<"request", "model">>, <<"manual", "model">>}

LEMMA BegunTyped ==
    ASSUME Shaped, \A k \in Job : OpOK(k), NEW j \in Job, NEW op, NEW pc,
           <<op, pc>> \in Beginnings, Begin(j, op, pc)
    PROVE  job' \in [Job -> Work] /\ OpOK(j)'
<1>1. \A k \in Job \ {j} : job'[k] \in Work
  BY OthersMet DEF Begin, Shaped
<1>2. PICK f \in BOOLEAN, m \in BOOLEAN :
          job'[j] = [Idle EXCEPT !.op = op, !.pc = pc, !.first = f, !.met = m,
                                 !.seen = In("live")]
  <2>1. PICK f \in BOOLEAN : f <=> ~dataset.synced
    OBVIOUS
  <2>2. PICK m \in BOOLEAN : m <=> Busy # {}
    OBVIOUS
  <2>3. f = (~dataset.synced) /\ m = (Busy # {})
    BY <2>1, <2>2
  <2>4. job'[j] = [Idle EXCEPT !.op = op, !.pc = pc, !.first = ~dataset.synced,
                               !.met = Busy # {}, !.seen = In("live")]
    BY DEF Begin
  <2> QED
    BY <2>3, <2>4, Zenon
<1>3. Idle \in Work
  BY IdleIsWork
<1>4. In("live") \in SUBSET Load
  BY DEF In
<1>5. op \in Operation
  BY DEF Beginnings, Operation
<1>6. pc \in Stage
  BY DEF Beginnings, Stage, Syncing, Scoring
<1>7. job'[j] \in Work
  BY <1>2, <1>3, <1>4, <1>5, <1>6 DEF Work
<1>8. job' \in [Job -> Work]
  BY <1>1, <1>7 DEF Begin
<1>9. job'[j].op = op /\ job'[j].pc = pc
  BY <1>2 DEF Idle
<1>10. OpOK(j)'
  BY <1>9 DEF OpOK, KindOK, Beginnings, Syncing, Scoring
<1> QED
  BY <1>8, <1>10

LEMMA BegunSound ==
    ASSUME IInv, NEW j \in Job, NEW op, NEW pc, <<op, pc>> \in Beginnings, Begin(j, op, pc),
           op = "sync" => dataset.live,
           pc = "model" /\ op \in {"generate", "auto"} => justified,
           UNCHANGED <<dataset, records, kind, kpis, faults, dates, series, marred, justified>>,
           passed' \in Nat, resynced' \in Nat, queued' \in Nat, starts' \in 0 .. MaxStarts,
           PassedOn'
    PROVE  IInv'
<1>1. job' \in [Job -> Work] /\ OpOK(j)'
  BY BegunTyped DEF IInv
<1>2. Shaped'
  BY <1>1 DEF IInv, Shaped, SeriesTypeOK
<1>3. /\ pc \in {"extract", "check", "stamp", "snapshot", "full", "model"}
      /\ op = "sync" => pc = "extract"
  BY DEF Beginnings
<1> QED
  BY <1>1, <1>2, <1>3, BegunKeeps

LEMMA RequestSound ==
    ASSUME IInv, NEW j \in Job, NEW op, NEW pc, <<op, pc>> \in Beginnings, Request(j, op, pc),
           op = "sync" => dataset.live, op \notin {"generate", "auto"}
    PROVE  IInv'
<1>1. starts' \in 0 .. MaxStarts
  BY PipelineAssumption DEF IInv, Shaped, Request, PipelineAssumption
<1>2. /\ Begin(j, op, pc)
      /\ UNCHANGED <<dataset, records, kind, kpis, faults, dates, series, marred, justified>>
      /\ UNCHANGED <<passed, resynced, queued>>
  BY DEF Request, history, events
<1>3. passed' \in Nat /\ resynced' \in Nat /\ queued' \in Nat /\ PassedOn'
  BY <1>2 DEF IInv, Shaped, PassedOn
<1> QED
  BY <1>1, <1>2, <1>3, BegunSound

LEMMA SyncDatasetSound ==
    ASSUME IInv, NEW j \in Job, sync_dataset(j) PROVE IInv'
BY RequestSound DEF sync_dataset, Beginnings

LEMMA RunQualityCheckSound ==
    ASSUME IInv, NEW j \in Job, run_quality_check(j) PROVE IInv'
BY RequestSound DEF run_quality_check, Beginnings

LEMMA DeleteDatasetSound ==
    ASSUME IInv, NEW j \in Job, delete_dataset(j) PROVE IInv'
BY RequestSound DEF delete_dataset, Beginnings

LEMMA GenerateKpisSound ==
    ASSUME IInv, NEW j \in Job, generate_kpis(j) PROVE IInv'
BY RequestSound DEF generate_kpis, Beginnings

LEMMA CreateKpiManualSound ==
    ASSUME IInv, NEW j \in Job, create_kpi_manual(j) PROVE IInv'
BY RequestSound DEF create_kpi_manual, Beginnings

LEMMA RecomputeKpisForDatasetSound ==
    ASSUME IInv, NEW j \in Job, recompute_kpis_for_dataset(j) PROVE IInv'
BY RequestSound DEF recompute_kpis_for_dataset, Beginnings

LEMMA RecomputeSnapshotSound ==
    ASSUME IInv, NEW j \in Job, recompute_snapshot(j) PROVE IInv'
BY RequestSound DEF recompute_snapshot, Beginnings

LEMMA HandleDatasetSyncedSound ==
    ASSUME IInv, NEW j \in Job, handle_dataset_synced(j) PROVE IInv'
<1>1. /\ Begin(j, "recheck", "check")
      /\ resynced' = resynced - 1 /\ resynced > 0
      /\ UNCHANGED <<dataset, records, kind, kpis, faults, dates, series, marred, justified>>
      /\ UNCHANGED <<passed, queued, starts>>
  BY DEF handle_dataset_synced, history
<1>2. /\ passed' \in Nat /\ resynced' \in Nat /\ queued' \in Nat /\ PassedOn'
      /\ starts' \in 0 .. MaxStarts
  BY <1>1 DEF IInv, Shaped, PassedOn
<1>3. <<"recheck", "check">> \in Beginnings
  BY DEF Beginnings
<1> QED
  BY <1>1, <1>2, <1>3, BegunSound

\* An event or a task may find the dataset gone, and then only it goes.
LEMMA NothingBegun ==
    ASSUME IInv, UNCHANGED <<dataset, records, kind, job, kpis, starts, faults, dates, series,
                             marred, justified>>,
           passed' \in Nat, resynced' \in Nat, queued' \in Nat, PassedOn'
    PROVE  IInv'
<1>1. Shaped'
  BY DEF IInv, Shaped, SeriesTypeOK
<1>2. (\A j \in Job : OpOK(j))' /\ MetOK'
  BY DEF IInv, OpOK, MetOK, Busy, At
<1>3. NoneDead' /\ Settled'
  BY Kept DEF IInv, Settled, Unjudged
<1>4. (\A j \in Job : Fresh(j))'
  <2> SUFFICES ASSUME NEW j \in Job PROVE Fresh(j)'
    OBVIOUS
  <2>1. Fresh(j)
    BY DEF IInv
  <2> QED
    BY <2>1, Kept DEF Fresh, Busy, At, Unjudged, Months
<1>5. (\A j \in Job : LetThrough(j))'
  BY DEF IInv, LetThrough, At
<1> QED
  BY <1>1, <1>2, <1>3, <1>4, <1>5 DEF IInv

LEMMA GenerateSound ==
    ASSUME IInv, NEW j \in Job, NEW op \in {"generate", "auto"}, Generate(j, op), justified,
           UNCHANGED <<dataset, records, kind, kpis, starts, faults, dates, series, marred,
                       justified>>,
           passed' \in Nat, resynced' \in Nat, queued' \in Nat
    PROVE  IInv'
<1>1. PassedOn'
  BY DEF PassedOn
<1>2. CASE dataset.live
  <2>1. Begin(j, op, "model") /\ starts' \in 0 .. MaxStarts
    BY <1>2 DEF Generate, IInv, Shaped
  <2>2. <<op, "model">> \in Beginnings
    BY DEF Beginnings
  <2> QED
    BY <1>1, <2>1, <2>2, BegunSound
<1>3. CASE ~dataset.live
  <2>1. UNCHANGED job
    BY <1>3 DEF Generate
  <2> QED
    BY <1>1, <2>1, NothingBegun
<1> QED
  BY <1>2, <1>3

LEMMA HandleQualityPassedSound ==
    ASSUME IInv, NEW j \in Job, handle_quality_passed(j) PROVE IInv'
<1>1. /\ Generate(j, "generate")
      /\ passed' = passed - 1 /\ passed > 0
      /\ UNCHANGED <<dataset, records, kind, kpis, starts, faults, dates, series, marred,
                     justified>>
      /\ UNCHANGED <<resynced, queued>>
  BY DEF handle_quality_passed, history
<1>2. justified /\ passed' \in Nat /\ resynced' \in Nat /\ queued' \in Nat
  BY <1>1 DEF IInv, Shaped, PassedOn
<1> QED
  BY <1>1, <1>2, GenerateSound

LEMMA AutoGenerateKpisSound ==
    ASSUME IInv, NEW j \in Job, auto_generate_kpis(j) PROVE IInv'
<1>1. /\ Generate(j, "auto")
      /\ queued' = queued - 1 /\ queued > 0
      /\ UNCHANGED <<dataset, records, kind, kpis, starts, faults, dates, series, marred,
                     justified>>
      /\ UNCHANGED <<passed, resynced>>
  BY DEF auto_generate_kpis, history
<1>2. justified /\ passed' \in Nat /\ resynced' \in Nat /\ queued' \in Nat
  BY <1>1 DEF IInv, Shaped, PassedOn
<1> QED
  BY <1>1, <1>2, GenerateSound

-----------------------------------------------------------------------------
(* What ends, and what goes on over the same records *)

LEMMA FinishSound ==
    ASSUME IInv, NEW j \in Job, ~At(j, "idle"), Finish(j),
           UNCHANGED <<dataset, records, kind, starts>>,
           passed' \in Nat, resynced' \in Nat, queued' \in Nat,
           kpis' \in 0 .. MaxKpis, faults' \in 0 .. MaxFaults,
           marred' \in BOOLEAN, justified' \in BOOLEAN, SeriesTypeOK', PassedOn',
           marred => marred', justified => justified', Unjudged(j) => marred'
    PROVE  IInv'
<1>1. /\ job'[j] = Idle
      /\ \A k \in Job \ {j} : job'[k] = job[k]
      /\ job' \in [Job -> Work]
  <2>1. Idle \in Work
    BY IdleIsWork
  <2> QED
    BY <2>1 DEF Finish, IInv, Shaped
<1>2. Shaped'
  BY <1>1 DEF IInv, Shaped
<1>3. OpOK(j)' /\ Fresh(j)' /\ LetThrough(j)'
  BY <1>1 DEF OpOK, KindOK, Fresh, LetThrough, Idle, Busy, At, Syncing, Scoring
<1> QED
  BY <1>1, <1>2, <1>3, MovedKeeps

\* A step that changes nothing but the job.
LEMMA OnlyJob ==
    ASSUME IInv, job' \in [Job -> Work],
           UNCHANGED <<dataset, records, kind, events, kpis, starts, history, dates, series>>,
           faults' \in 0 .. MaxFaults
    PROVE  /\ Shaped' /\ PassedOn'
           /\ marred' = marred /\ justified' = justified
           /\ UNCHANGED <<dataset, records, kind>>
           /\ passed' \in Nat /\ resynced' \in Nat /\ queued' \in Nat
           /\ kpis' \in 0 .. MaxKpis /\ SeriesTypeOK'
BY DEF IInv, Shaped, SeriesTypeOK, PassedOn, events, history

LEMMA FaultTyped ==
    ASSUME Shaped, Fault PROVE faults' \in 0 .. MaxFaults
BY PipelineAssumption DEF Shaped, Fault, PipelineAssumption

LEMMA FinishOnly ==
    ASSUME IInv, NEW j \in Job, ~At(j, "idle"), Finish(j), ~Unjudged(j),
           UNCHANGED <<dataset, records, kind, events, kpis, starts, history, dates, series>>,
           faults' \in 0 .. MaxFaults
    PROVE  IInv'
<1>1. Idle \in Work
  BY IdleIsWork
<1>2. job' \in [Job -> Work]
  BY <1>1 DEF Finish, IInv, Shaped
<1>3. /\ Shaped' /\ PassedOn'
      /\ marred' = marred /\ justified' = justified
      /\ UNCHANGED <<dataset, records, kind>>
      /\ passed' \in Nat /\ resynced' \in Nat /\ queued' \in Nat
      /\ kpis' \in 0 .. MaxKpis /\ SeriesTypeOK'
  BY <1>2, OnlyJob
<1> QED
  BY <1>3, FinishSound DEF IInv, Shaped

LEMMA CrashSound ==
    ASSUME IInv, NEW j \in Job, crash(j) PROVE IInv'
<1>1. /\ ~At(j, "idle") /\ Finish(j) /\ marred' = TRUE /\ justified' = justified
      /\ UNCHANGED <<dataset, records, kind, starts, passed, resynced, queued, kpis, dates,
                     series>>
  BY DEF crash, events
<1>2. faults' \in 0 .. MaxFaults
  BY FaultTyped DEF crash, IInv
<1>3. /\ passed' \in Nat /\ resynced' \in Nat /\ queued' \in Nat /\ kpis' \in 0 .. MaxKpis
      /\ marred' \in BOOLEAN /\ justified' \in BOOLEAN /\ SeriesTypeOK' /\ PassedOn'
  BY <1>1 DEF IInv, Shaped, SeriesTypeOK, PassedOn
<1> QED
  BY <1>1, <1>2, <1>3, FinishSound

LEMMA ExtractRowsSound ==
    ASSUME IInv, NEW j \in Job, extract_rows(j) PROVE IInv'
<1>1. At(j, "extract") /\ ~At(j, "idle") /\ ~Unjudged(j) /\ job[j] \in Work
  BY DEF extract_rows, At, Unjudged, IInv, Shaped
<1>2. PICK k \in Kind :
          job' = [job EXCEPT ![j].pc = "replace", ![j].holds = k, ![j].seen = In("live")]
  BY DEF extract_rows
<1>3. k \in Holding
  BY PipelineAssumption DEF PipelineAssumption, Holding
<1>4. /\ job'[j] = [job[j] EXCEPT !.pc = "replace", !.holds = k, !.seen = In("live")]
      /\ \A i \in Job \ {j} : job'[i] = job[i]
      /\ job' \in [Job -> Work]
  <2>1. In("live") \in SUBSET Load
    BY DEF In
  <2>2. "replace" \in Stage
    BY DEF Stage, Syncing
  <2>3. [job[j] EXCEPT !.pc = "replace", !.holds = k, !.seen = In("live")] \in Work
    BY <1>1, <1>3, <2>1, <2>2 DEF Work
  <2> QED
    BY <1>2, <2>3 DEF IInv, Shaped
<1>5. /\ job'[j].pc = "replace" /\ job'[j].seen = In("live")
      /\ job'[j].met = job[j].met /\ job'[j].op = job[j].op
  BY <1>1, <1>4 DEF Work
<1>6. OpOK(j) /\ Fresh(j)
  BY DEF IInv
<1>7. OpOK(j)'
  BY <1>1, <1>5, <1>6 DEF OpOK, KindOK, At, Syncing, Scoring
<1>8. UNCHANGED <<dataset, records, kind, events, kpis, starts, faults, history, dates, series>>
  BY DEF extract_rows
<1>9. Fresh(j)'
  <2>1. In("live")' = In("live")
    BY <1>8, Kept
  <2> QED
    BY <1>1, <1>5, <1>6, <1>8, <2>1 DEF Fresh, At, Busy, Unjudged
<1>10. LetThrough(j)'
  BY <1>5 DEF LetThrough, At
<1> QED
  BY <1>1, <1>4, <1>5, <1>7, <1>8, <1>9, <1>10, OnlyJob, MovedKeeps DEF IInv, Shaped

LEMMA ExtractFailedSound ==
    ASSUME IInv, NEW j \in Job, extract_failed(j) PROVE IInv'
<1>1. ~At(j, "idle") /\ ~Unjudged(j) /\ Finish(j) /\ faults' \in 0 .. MaxFaults
  BY DEF extract_failed, At, Unjudged, IInv, Shaped
<1> QED
  BY <1>1, FinishOnly DEF extract_failed

LEMMA GotoFacts ==
    ASSUME Shaped, NEW j \in Job, NEW pc \in Stage, Goto(j, pc)
    PROVE  /\ job' \in [Job -> Work]
           /\ \A i \in Job \ {j} : job'[i] = job[i]
           /\ job'[j].pc = pc /\ job'[j].op = job[j].op /\ job'[j].met = job[j].met
           /\ job'[j].pass = job[j].pass /\ job'[j].todo = job[j].todo
<1>1. [job[j] EXCEPT !.pc = pc] \in Work
  BY DEF Shaped, Work
<1>2. job' = [job EXCEPT ![j] = [job[j] EXCEPT !.pc = pc]]
  BY DEF Goto
<1>3. job' \in [Job -> Work] /\ \A i \in Job \ {j} : job'[i] = job[i]
  BY <1>1, <1>2 DEF Shaped
<1>4. job'[j] = [job[j] EXCEPT !.pc = pc]
  BY <1>2 DEF Shaped
<1>5. /\ job'[j].pc = pc /\ job'[j].op = job[j].op /\ job'[j].met = job[j].met
      /\ job'[j].pass = job[j].pass /\ job'[j].todo = job[j].todo
  BY <1>4 DEF Shaped, Work
<1> QED
  BY <1>3, <1>5

LEMMA RunQualityPipelineSound ==
    ASSUME IInv, NEW j \in Job, run_quality_pipeline(j) PROVE IInv'
<1>1. At(j, "check") /\ ~At(j, "idle") /\ job[j] \in Work
  BY DEF run_quality_pipeline, At, IInv, Shaped
<1>2. PICK hours \in Ages :
          job' = [job EXCEPT ![j].pc = "apply", ![j].score = Score(hours),
                             ![j].pass = ~should_quarantine(Score(hours))]
  <2>1. {0} \subseteq Ages
    BY PipelineAssumption DEF PipelineAssumption
  <2> QED
    BY <2>1 DEF run_quality_pipeline
<1>3. hours \in Nat
  BY PipelineAssumption DEF PipelineAssumption
<1>4. PICK s : s = Score(hours)
  OBVIOUS
<1>5. s = ScoreOn(In("live"), kind, dataset.synced, hours) /\ s \in 0 .. 100
  <2>1. s = ScoreOn(In("live"), kind, dataset.synced, hours)
    BY <1>3, <1>4, ScoreIs
  <2>2. In("live") \in SUBSET Load /\ kind \in [Load -> Holding] /\ dataset.synced \in BOOLEAN
    BY DEF In, IInv, Shaped
  <2> QED
    BY <1>3, <2>1, <2>2, ScoreBounds
<1>6. PICK b \in BOOLEAN : b <=> ~should_quarantine(s)
  OBVIOUS
<1>7. /\ job'[j] = [job[j] EXCEPT !.pc = "apply", !.score = s, !.pass = b]
      /\ \A i \in Job \ {j} : job'[i] = job[i]
      /\ job' \in [Job -> Work]
  <2>1. job' = [job EXCEPT ![j] = [job[j] EXCEPT !.pc = "apply", !.score = s,
                                                 !.pass = ~should_quarantine(s)]]
    BY <1>2, <1>4 DEF IInv, Shaped
  <2>2. b = (~should_quarantine(s))
    BY <1>6
  <2>3. job' = [job EXCEPT ![j] = [job[j] EXCEPT !.pc = "apply", !.score = s, !.pass = b]]
    BY <2>1, <2>2, Zenon
  <2>4. "apply" \in Stage
    BY DEF Stage, Scoring
  <2>5. [job[j] EXCEPT !.pc = "apply", !.score = s, !.pass = b] \in Work
    BY <1>1, <1>5, <2>4 DEF Work
  <2> QED
    BY <2>3, <2>5 DEF IInv, Shaped
<1>8. /\ job'[j].pc = "apply" /\ job'[j].score = s /\ job'[j].pass = b
      /\ job'[j].met = job[j].met /\ job'[j].op = job[j].op
  BY <1>1, <1>7 DEF Work
<1>9. OpOK(j) /\ Fresh(j)
  BY DEF IInv
<1>10. OpOK(j)'
  BY <1>1, <1>8, <1>9 DEF OpOK, KindOK, At, Syncing, Scoring
<1>11. UNCHANGED <<dataset, records, kind, events, kpis, starts, faults, history, dates, series>>
  BY DEF run_quality_pipeline
<1>12. Fresh(j)'
  <2> SUFFICES ASSUME ~job'[j].met PROVE Fresh(j)'
    BY DEF Fresh
  <2>1. In("live")' = In("live") /\ Held' = Held
    BY <1>11, Kept
  <2>2. job[j].op = "sync" => dataset.live /\ Cardinality(Held) <= 1 /\ dataset.synced
    BY <1>1, <1>8, <1>9 DEF Fresh, At, Busy, Unjudged
  <2>3. \E h \in Ages :
            job'[j].score = ScoreOn(In("live")', kind', dataset'.synced, h)
    BY <1>5, <1>8, <1>11, <2>1
  <2>4. job'[j].pass <=> ~should_quarantine(job'[j].score)
    BY <1>6, <1>8
  <2> QED
    BY <1>8, <1>11, <2>1, <2>2, <2>3, <2>4 DEF Fresh, At, Unjudged
<1>13. LetThrough(j)'
  BY <1>8 DEF LetThrough, At
<1>14. Unjudged(j) => Unjudged(j)'
  BY <1>8 DEF Unjudged
<1> QED
  BY <1>1, <1>7, <1>8, <1>10, <1>11, <1>12, <1>13, <1>14, OnlyJob, MovedKeeps DEF IInv, Shaped

LEMMA QualityFailedSound ==
    ASSUME IInv, NEW j \in Job, quality_failed(j) PROVE IInv'
<1>1. At(j, "check") /\ ~At(j, "idle") /\ job[j] \in Work
  BY DEF quality_failed, At, IInv, Shaped
<1>2. /\ UNCHANGED <<dataset, records, kind, passed, resynced, queued, kpis, starts, dates, series>>
      /\ marred' = TRUE /\ (justified' = TRUE \/ justified' = justified)
      /\ faults' \in 0 .. MaxFaults
  BY FaultTyped DEF quality_failed, events, NoFault, IInv, Shaped
<1>3. /\ passed' \in Nat /\ resynced' \in Nat /\ queued' \in Nat /\ kpis' \in 0 .. MaxKpis
      /\ marred' \in BOOLEAN /\ justified' \in BOOLEAN /\ (justified => justified')
      /\ SeriesTypeOK' /\ PassedOn'
  <2>1. justified' \in BOOLEAN /\ (justified => justified')
    <3>1. CASE justified' = TRUE
      BY <3>1
    <3>2. CASE justified' = justified
      BY <3>2 DEF IInv, Shaped
    <3> QED
      BY <1>2, <3>1, <3>2
  <2>2. PassedOn'
    BY <1>2, <2>1 DEF IInv, PassedOn
  <2> QED
    BY <1>2, <2>1, <2>2 DEF IInv, Shaped, SeriesTypeOK
<1>4. CASE job[j].op = "sync"
  <2>1. /\ job'[j] = [job[j] EXCEPT !.pc = "announce", !.pass = TRUE]
        /\ \A i \in Job \ {j} : job'[i] = job[i]
        /\ job' \in [Job -> Work] /\ justified' = TRUE
    <3>1. "announce" \in Stage
      BY DEF Stage, Scoring
    <3>2. [job[j] EXCEPT !.pc = "announce", !.pass = TRUE] \in Work
      BY <1>1, <3>1 DEF Work
    <3> QED
      BY <1>4, <3>2 DEF quality_failed, IInv, Shaped
  <2>2. Shaped'
    BY <1>2, <1>3, <2>1 DEF IInv, Shaped
  <2>3. /\ job'[j].pc = "announce" /\ job'[j].met = job[j].met /\ job'[j].op = job[j].op
    BY <1>1, <2>1 DEF Work
  <2>4. OpOK(j)' /\ LetThrough(j)'
    BY <1>4, <2>1, <2>3 DEF OpOK, KindOK, LetThrough, At, Syncing, Scoring
  <2>5. Fresh(j)'
    BY <1>1, <1>2, <1>4, <2>3 DEF IInv, Fresh, At, Busy, Unjudged
  <2> QED
    BY <1>1, <1>2, <1>3, <2>1, <2>2, <2>3, <2>4, <2>5, MovedKeeps
<1>5. CASE job[j].op # "sync"
  <2>1. Finish(j)
    BY <1>5 DEF quality_failed
  <2> QED
    BY <1>1, <1>2, <1>3, <2>1, FinishSound
<1> QED
  BY <1>4, <1>5

LEMMA PublishSound ==
    ASSUME IInv, NEW j \in Job, publish(j) PROVE IInv'
<1>1. At(j, "announce") /\ ~At(j, "idle") /\ ~Unjudged(j) /\ job[j] \in Work
  BY DEF publish, At, Unjudged, IInv, Shaped
<1>2. /\ UNCHANGED <<dataset, records, kind, queued, kpis, starts, faults, marred, justified,
                     dates, series>>
      /\ passed' \in Nat /\ resynced' \in Nat
  BY DEF publish, history, IInv, Shaped
<1>3. /\ queued' \in Nat /\ kpis' \in 0 .. MaxKpis /\ faults' \in 0 .. MaxFaults
      /\ marred' \in BOOLEAN /\ justified' \in BOOLEAN /\ SeriesTypeOK'
  BY <1>2 DEF IInv, Shaped, SeriesTypeOK
<1>4. PassedOn'
  <2>1. CASE job[j].pass
    BY <1>1, <1>2, <2>1 DEF IInv, LetThrough, PassedOn
  <2>2. CASE ~job[j].pass
    <3>1. passed' = passed
      BY <2>2 DEF publish, Announced
    <3> QED
      BY <1>2, <3>1 DEF IInv, PassedOn
  <2> QED
    BY <2>1, <2>2
<1>5. CASE job[j].op = "sync"
  <2>1. Goto(j, "respond") /\ "respond" \in Stage
    BY <1>5 DEF publish, Stage, Syncing
  <2>2. /\ job' \in [Job -> Work]
        /\ \A i \in Job \ {j} : job'[i] = job[i]
        /\ job'[j].pc = "respond" /\ job'[j].op = job[j].op /\ job'[j].met = job[j].met
    BY <2>1, GotoFacts DEF IInv
  <2>3. Shaped'
    BY <1>2, <1>3, <2>2 DEF IInv, Shaped
  <2>4. OpOK(j)' /\ LetThrough(j)' /\ Fresh(j)'
    BY <1>1, <1>2, <1>5, <2>2
       DEF IInv, OpOK, KindOK, LetThrough, Fresh, At, Busy, Unjudged, Syncing, Scoring
  <2> QED
    BY <1>1, <1>2, <1>4, <2>2, <2>3, <2>4, MovedKeeps
<1>6. CASE job[j].op # "sync"
  <2>1. Finish(j)
    BY <1>6 DEF publish
  <2> QED
    BY <1>1, <1>2, <1>3, <1>4, <2>1, FinishSound
<1> QED
  BY <1>5, <1>6

LEMMA PublishFailedSound ==
    ASSUME IInv, NEW j \in Job, publish_failed(j) PROVE IInv'
<1>1. At(j, "announce") /\ ~At(j, "idle") /\ ~Unjudged(j)
  BY DEF publish_failed, At, Unjudged
<1>2. /\ UNCHANGED <<dataset, records, kind, events, kpis, starts, history, dates, series>>
      /\ faults' \in 0 .. MaxFaults
  BY FaultTyped DEF publish_failed, IInv
<1>3. CASE job[j].op = "sync"
  <2>1. Goto(j, "respond") /\ "respond" \in Stage
    BY <1>3 DEF publish_failed, Stage, Syncing
  <2>2. /\ job' \in [Job -> Work]
        /\ \A i \in Job \ {j} : job'[i] = job[i]
        /\ job'[j].pc = "respond" /\ job'[j].op = job[j].op /\ job'[j].met = job[j].met
    BY <2>1, GotoFacts DEF IInv
  <2>3. /\ Shaped' /\ PassedOn'
        /\ marred' = marred /\ justified' = justified
        /\ UNCHANGED <<dataset, records, kind>>
    BY <1>2, <2>2, OnlyJob
  <2>4. OpOK(j)' /\ LetThrough(j)' /\ Fresh(j)'
    BY <1>1, <1>3, <2>2, <2>3
       DEF IInv, OpOK, KindOK, LetThrough, Fresh, At, Busy, Unjudged, Syncing, Scoring
  <2> QED
    BY <1>1, <2>2, <2>3, <2>4, MovedKeeps
<1>4. CASE job[j].op # "sync"
  <2>1. Finish(j)
    BY <1>4 DEF publish_failed
  <2> QED
    BY <1>1, <1>2, <2>1, FinishOnly
<1> QED
  BY <1>3, <1>4

LEMMA RespondSound ==
    ASSUME IInv, NEW j \in Job, respond(j) PROVE IInv'
<1>1. At(j, "respond") /\ ~At(j, "idle") /\ ~Unjudged(j) /\ Finish(j)
  BY DEF respond, At, Unjudged
<1>2. /\ UNCHANGED <<dataset, records, kind, passed, resynced, kpis, starts, faults, marred,
                     justified, dates, series>>
      /\ queued' \in Nat
  BY DEF respond, IInv, Shaped
<1>3. PassedOn'
  <2>1. CASE dataset.status = "quarantined"
    <3>1. queued' = queued
      BY <2>1 DEF respond
    <3> QED
      BY <1>2, <3>1 DEF IInv, PassedOn
  <2>2. CASE dataset.status # "quarantined"
    <3>1. job[j].op = "sync"
      BY <1>1 DEF IInv, OpOK, KindOK, At, Syncing
    <3>2. justified
      BY <1>1, <2>2, <3>1 DEF IInv, LetThrough, At
    <3> QED
      BY <1>2, <3>2 DEF PassedOn
  <2> QED
    BY <2>1, <2>2
<1>4. /\ passed' \in Nat /\ resynced' \in Nat /\ kpis' \in 0 .. MaxKpis
      /\ faults' \in 0 .. MaxFaults /\ marred' \in BOOLEAN /\ justified' \in BOOLEAN
      /\ SeriesTypeOK'
  BY <1>2 DEF IInv, Shaped, SeriesTypeOK
<1> QED
  BY <1>1, <1>2, <1>3, <1>4, FinishSound

LEMMA GenerateKpisForDatasetSound ==
    ASSUME IInv, NEW j \in Job, generate_kpis_for_dataset(j) PROVE IInv'
<1>1. At(j, "model") /\ ~At(j, "idle") /\ ~Unjudged(j)
  BY DEF generate_kpis_for_dataset, At, Unjudged
<1>2. /\ UNCHANGED <<dataset, records, kind, passed, resynced, queued, starts, faults, marred,
                     justified, dates, series>>
      /\ kpis' \in 0 .. MaxKpis
  BY PipelineAssumption
     DEF generate_kpis_for_dataset, history, events, IInv, Shaped, PipelineAssumption
<1>3. PassedOn'
  BY <1>1, <1>2 DEF IInv, LetThrough, PassedOn
<1>4. /\ passed' \in Nat /\ resynced' \in Nat /\ queued' \in Nat
      /\ faults' \in 0 .. MaxFaults /\ marred' \in BOOLEAN /\ justified' \in BOOLEAN
      /\ SeriesTypeOK'
  BY <1>2 DEF IInv, Shaped, SeriesTypeOK
<1>5. CASE kpis = 0
  <2>1. Goto(j, "snapshot") /\ "snapshot" \in Stage
    BY <1>5 DEF generate_kpis_for_dataset, Stage
  <2>2. /\ job' \in [Job -> Work]
        /\ \A i \in Job \ {j} : job'[i] = job[i]
        /\ job'[j].pc = "snapshot" /\ job'[j].op = job[j].op /\ job'[j].met = job[j].met
    BY <2>1, GotoFacts DEF IInv
  <2>3. Shaped'
    BY <1>2, <1>4, <2>2 DEF IInv, Shaped
  <2>4. job[j].op # "sync"
    BY <1>1 DEF IInv, OpOK, KindOK, At, Syncing, Scoring
  <2>5. OpOK(j)' /\ LetThrough(j)' /\ Fresh(j)'
    BY <2>2, <2>4 DEF OpOK, KindOK, LetThrough, Fresh, At, Unjudged, Syncing, Scoring
  <2> QED
    BY <1>1, <1>2, <1>3, <2>2, <2>3, <2>5, MovedKeeps
<1>6. CASE kpis # 0
  <2>1. Finish(j)
    BY <1>6 DEF generate_kpis_for_dataset
  <2> QED
    BY <1>1, <1>2, <1>3, <1>4, <2>1, FinishSound
<1> QED
  BY <1>5, <1>6

LEMMA GenerationFailedSound ==
    ASSUME IInv, NEW j \in Job, generation_failed(j) PROVE IInv'
<1>1. At(j, "model") /\ ~At(j, "idle") /\ ~Unjudged(j) /\ Finish(j)
  BY DEF generation_failed, At, Unjudged
<1>2. faults' \in 0 .. MaxFaults
  BY FaultTyped DEF generation_failed, NoFault, IInv, Shaped
<1> QED
  BY <1>1, <1>2, FinishOnly DEF generation_failed

\* The jobs that make snapshots are not syncs, and let nothing through.
LEMMA SnapshotStep ==
    ASSUME IInv, NEW j \in Job, job[j].pc \in {"snapshot", "months"},
           job' \in [Job -> Work], \A i \in Job \ {j} : job'[i] = job[i],
           job'[j].met = job[j].met, job'[j].op = job[j].op,
           job'[j].pc \in {"months", "full"}, Fresh(j)', SeriesTypeOK',
           UNCHANGED <<dataset, records, kind, events, kpis, starts, faults, history>>
    PROVE  IInv'
<1>1. ~At(j, "idle") /\ ~Unjudged(j) /\ job[j].op # "sync"
  BY DEF At, Unjudged, IInv, OpOK, KindOK, Syncing, Scoring
<1>2. OpOK(j)' /\ LetThrough(j)'
  BY <1>1 DEF OpOK, KindOK, LetThrough, At, Syncing, Scoring
<1>3. Shaped' /\ PassedOn'
  BY DEF IInv, Shaped, PassedOn, events, history
<1>4. UNCHANGED <<dataset, records, kind>> /\ marred' = marred /\ justified' = justified
  BY DEF history
<1> QED
  BY <1>1, <1>2, <1>3, <1>4, MovedKeeps

LEMMA SnapshotKpiSound ==
    ASSUME IInv, NEW j \in Job, snapshot_kpi(j) PROVE IInv'
<1>1. job[j].pc = "snapshot" /\ job[j] \in Work /\ job[j].op # "sync"
  BY DEF snapshot_kpi, At, IInv, Shaped, OpOK, KindOK, Syncing, Scoring
<1>2. UNCHANGED <<dataset, records, kind, events, kpis, starts, faults, history>>
  BY DEF snapshot_kpi
<1>3. UNCHANGED series /\ SeriesTypeOK'
  BY DEF snapshot_kpi, IInv, Shaped, SeriesTypeOK
<1>4. CASE dates = "none"
  <2>1. Goto(j, "full") /\ "full" \in Stage
    BY <1>4 DEF snapshot_kpi, Stage
  <2>2. /\ job' \in [Job -> Work]
        /\ \A i \in Job \ {j} : job'[i] = job[i]
        /\ job'[j].pc = "full" /\ job'[j].op = job[j].op /\ job'[j].met = job[j].met
    BY <2>1, GotoFacts DEF IInv
  <2>3. Fresh(j)'
    BY <1>1, <2>2 DEF Fresh, At, Unjudged
  <2> QED
    BY <1>1, <1>2, <1>3, <2>2, <2>3, SnapshotStep
<1>5. CASE dates # "none"
  <2>1. PICK S \in SUBSET Month : S = MonthsToCompute(Covered)
    BY CoveredMonths DEF IInv
  <2>2. [job[j] EXCEPT !.pc = "months", !.todo = S] \in Work
    <3>1. "months" \in Stage
      BY DEF Stage
    <3> QED
      BY <1>1, <3>1 DEF Work
  <2>3. job' = [job EXCEPT ![j].pc = "months", ![j].todo = S]
    BY <1>5, <2>1 DEF snapshot_kpi
  <2>4. /\ job'[j] = [job[j] EXCEPT !.pc = "months", !.todo = S]
        /\ \A i \in Job \ {j} : job'[i] = job[i]
        /\ job' \in [Job -> Work]
    BY <2>2, <2>3 DEF IInv, Shaped
  <2>5. /\ job'[j].pc = "months" /\ job'[j].todo = S
        /\ job'[j].op = job[j].op /\ job'[j].met = job[j].met
    BY <1>1, <2>4 DEF Work
  <2>6. Fresh(j)'
    <3>1. \A m \in Covered : m \in Months(series) \/ m \in S
      BY <2>1 DEF MonthsToCompute
    <3>2. Covered' = Covered /\ Months(series)' = Months(series)
      BY <1>2, <1>3, Kept DEF Months
    <3> QED
      BY <1>1, <2>5, <3>1, <3>2 DEF Fresh, At, Unjudged
  <2> QED
    BY <1>1, <1>2, <1>3, <2>4, <2>5, <2>6, SnapshotStep
<1> QED
  BY <1>4, <1>5

LEMMA MonthsDoneSound ==
    ASSUME IInv, NEW j \in Job, months_done(j) PROVE IInv'
<1>1. job[j].pc = "months" /\ job[j].op # "sync" /\ ~At(j, "idle") /\ ~Unjudged(j)
  BY DEF months_done, At, Unjudged, IInv, OpOK, KindOK, Syncing, Scoring
<1>2. /\ UNCHANGED <<dataset, records, kind, events, kpis, starts, faults, history, dates, series>>
      /\ faults' \in 0 .. MaxFaults /\ SeriesTypeOK'
  BY DEF months_done, IInv, Shaped, SeriesTypeOK
<1>3. CASE job[j].made
  <2>1. Finish(j)
    BY <1>3 DEF months_done
  <2> QED
    BY <1>1, <1>2, <2>1, FinishOnly
<1>4. CASE ~job[j].made
  <2>1. Goto(j, "full") /\ "full" \in Stage
    BY <1>4 DEF months_done, Stage
  <2>2. /\ job' \in [Job -> Work]
        /\ \A i \in Job \ {j} : job'[i] = job[i]
        /\ job'[j].pc = "full" /\ job'[j].op = job[j].op /\ job'[j].met = job[j].met
    BY <2>1, GotoFacts DEF IInv
  <2>3. Fresh(j)'
    BY <1>1, <2>2 DEF Fresh, At, Unjudged
  <2> QED
    BY <1>1, <1>2, <2>2, <2>3, SnapshotStep
<1> QED
  BY <1>3, <1>4

LEMMA ComputeAndSnapshotSound ==
    ASSUME IInv, NEW j \in Job, compute_and_snapshot(j) PROVE IInv'
<1>1. ~At(j, "idle") /\ ~Unjudged(j) /\ Finish(j)
  BY DEF compute_and_snapshot, At, Unjudged
<1>2. UNCHANGED <<dataset, records, kind, passed, resynced, queued, kpis, starts, faults, marred,
                  justified, dates>>
  BY DEF compute_and_snapshot, events, history
<1>3. series' = series \cup {FullRow(Covered)} \/ series' = series
  BY DEF compute_and_snapshot
<1>4. SeriesTypeOK'
  BY <1>2, <1>3, CoveredMonths DEF IInv, Shaped, SeriesTypeOK
<1>5. /\ passed' \in Nat /\ resynced' \in Nat /\ queued' \in Nat /\ kpis' \in 0 .. MaxKpis
      /\ faults' \in 0 .. MaxFaults /\ marred' \in BOOLEAN /\ justified' \in BOOLEAN
      /\ PassedOn'
  BY <1>2 DEF IInv, Shaped, PassedOn
<1> QED
  BY <1>1, <1>2, <1>4, <1>5, FinishSound

LEMMA ComputeMonthSound ==
    ASSUME IInv, NEW j \in Job, compute_month(j) PROVE IInv'
<1> DEFINE m == Min(job[j].todo)
<1>1. /\ job[j].pc = "months" /\ job[j] \in Work /\ job[j].op # "sync"
      /\ ~At(j, "idle") /\ ~Unjudged(j) /\ job[j].todo # {}
  BY DEF compute_month, At, Unjudged, IInv, Shaped, OpOK, KindOK, Syncing, Scoring
<1>2. UNCHANGED <<dataset, records, kind, events, kpis, starts, faults, history, dates>>
  BY DEF compute_month
<1>3. m \in job[j].todo /\ (\A x \in job[j].todo : m <= x) /\ m \in Month
  <2>1. job[j].todo \in SUBSET Month /\ job[j].todo \in SUBSET Nat
    BY <1>1, SnapshotAssumption DEF Work, SnapshotAssumption
  <2> QED
    BY <1>1, <2>1, MinFacts
<1> HIDE DEF m
<1>4. Covered' = Covered /\ Broken' = Broken
  BY <1>2, Kept
<1>5. ~job[j].met => \A x \in Covered : \/ x \in Months(series) \/ x \in job[j].todo
                                        \/ \E b \in Broken : b <= x
  BY <1>1 DEF IInv, Fresh, At, Busy
\* What is left of the run, its months and its rows, in the cases that go on.
<1>6. ASSUME NEW S \in SUBSET Month, NEW made \in BOOLEAN,
             job' = [job EXCEPT ![j] = [job[j] EXCEPT !.todo = S, !.made = made]],
             SeriesTypeOK',
             ~job[j].met => \A x \in Covered : \/ x \in Months(series') \/ x \in S
                                               \/ \E b \in Broken : b <= x
      PROVE  IInv'
  <2>1. [job[j] EXCEPT !.todo = S, !.made = made] \in Work
    BY <1>1 DEF Work
  <2>2. /\ job'[j] = [job[j] EXCEPT !.todo = S, !.made = made]
        /\ \A i \in Job \ {j} : job'[i] = job[i]
        /\ job' \in [Job -> Work]
    BY <1>6, <2>1 DEF IInv, Shaped
  <2>3. /\ job'[j].pc = "months" /\ job'[j].todo = S
        /\ job'[j].op = job[j].op /\ job'[j].met = job[j].met
    BY <1>1, <2>2 DEF Work
  <2>4. Fresh(j)'
    <3>1. Months(series)' = Months(series')
      BY DEF Months
    <3> QED
      BY <1>1, <1>4, <1>6, <2>3, <3>1 DEF Fresh, At, Unjudged
  <2> QED
    BY <1>1, <1>2, <1>6, <2>2, <2>3, <2>4, SnapshotStep
\* In the cases that end nothing is left to show but the types.
<1>7. ASSUME Finish(j), series' = series PROVE IInv'
  <2>1. faults' \in 0 .. MaxFaults
    BY <1>2 DEF IInv, Shaped
  <2> QED
    BY <1>1, <1>2, <1>7, <2>1, FinishOnly
<1>8. job[j].made \in BOOLEAN /\ job[j].todo \in SUBSET Month
  BY <1>1 DEF Work
<1>9. CASE m \notin Covered /\ job' = [job EXCEPT ![j].todo = @ \ {m}] /\ series' = series
  <2>1. SeriesTypeOK'
    BY <1>2, <1>9 DEF IInv, Shaped, SeriesTypeOK
  <2>2. job' = [job EXCEPT ![j] = [job[j] EXCEPT !.todo = job[j].todo \ {m},
                                                 !.made = job[j].made]]
    <3>1. [job[j] EXCEPT !.todo = job[j].todo \ {m}]
              = [job[j] EXCEPT !.todo = job[j].todo \ {m}, !.made = job[j].made]
      BY <1>1, <1>8 DEF Work
    <3> QED
      BY <1>9, <3>1
  <2>3. ~job[j].met => \A x \in Covered : \/ x \in Months(series') \/ x \in job[j].todo \ {m}
                                          \/ \E b \in Broken : b <= x
    BY <1>5, <1>9
  <2> QED
    BY <1>6, <1>8, <2>1, <2>2, <2>3
<1>10. CASE /\ m \in Broken /\ series' = series
            /\ IF job[j].made THEN job' = [job EXCEPT ![j].todo = {}] ELSE Finish(j)
  <2>1. CASE job[j].made
    <3>1. SeriesTypeOK'
      BY <1>2, <1>10 DEF IInv, Shaped, SeriesTypeOK
    <3>2. job' = [job EXCEPT ![j] = [job[j] EXCEPT !.todo = {}, !.made = job[j].made]]
      <4>1. [job[j] EXCEPT !.todo = {}] = [job[j] EXCEPT !.todo = {}, !.made = job[j].made]
        BY <1>1, <1>8 DEF Work
      <4> QED
        BY <1>10, <2>1, <4>1
    <3>3. ~job[j].met => \A x \in Covered : \/ x \in Months(series') \/ x \in {}
                                            \/ \E b \in Broken : b <= x
      BY <1>3, <1>5, <1>10
    <3> QED
      BY <1>6, <1>8, <3>1, <3>2, <3>3
  <2>2. CASE ~job[j].made
    BY <1>7, <1>10, <2>2
  <2> QED
    BY <2>1, <2>2
<1>11. CASE /\ series' = series \cup {Monthly(m)}
            /\ job' = [job EXCEPT ![j].todo = @ \ {m}, ![j].made = TRUE]
  <2>1. SeriesTypeOK'
    <3>1. Monthly(m) \in SnapshotRow
      BY <1>3 DEF Monthly, SnapshotRow
    <3> QED
      BY <1>2, <1>11, <3>1 DEF IInv, Shaped, SeriesTypeOK
  <2>2. job' = [job EXCEPT ![j] = [job[j] EXCEPT !.todo = job[j].todo \ {m}, !.made = TRUE]]
    BY <1>11 DEF IInv, Shaped
  <2>3. Months(series) \subseteq Months(series') /\ m \in Months(series')
    <3>1. Monthly(m) \in series' /\ Monthly(m).shape = "month" /\ Monthly(m).from = m
      BY <1>11 DEF Monthly
    <3>2. m \in Months(series')
      BY <3>1 DEF Months
    <3>3. series \subseteq series'
      BY <1>11
    <3>4. Months(series) \subseteq Months(series')
      BY <3>3 DEF Months
    <3> QED
      BY <3>2, <3>4
  <2>4. ~job[j].met => \A x \in Covered : \/ x \in Months(series') \/ x \in job[j].todo \ {m}
                                          \/ \E b \in Broken : b <= x
    BY <1>5, <2>3
  <2> QED
    BY <1>6, <1>8, <2>1, <2>2, <2>4
<1>12. CASE Finish(j) /\ series' = series
  BY <1>7, <1>12
<1> QED
  BY <1>9, <1>10, <1>11, <1>12 DEF compute_month, m

-----------------------------------------------------------------------------
(* What changes the records or the dataset *)

LEMMA FewerHeld ==
    ASSUME NEW S, NEW l, S \subseteq {l}
    PROVE  Cardinality(S) <= 1
<1>1. IsFiniteSet({l}) /\ Cardinality({l}) = 1
  BY FS_Singleton
<1> QED
  BY <1>1, FS_Subset

LEMMA ReplaceDatasetRecordsSound ==
    ASSUME IInv, NEW j \in Job, replace_dataset_records(j) PROVE IInv'
<1>1. /\ job[j].pc = "replace" /\ job[j].op = "sync" /\ ~At(j, "idle") /\ job[j] \in Work
  BY DEF replace_dataset_records, At, IInv, Shaped, OpOK, KindOK, Syncing
<1>2. /\ UNCHANGED <<dataset, passed, resynced, queued, kpis, starts, faults, justified, dates,
                     series>>
      /\ records' = Replaced(j) /\ kind' = [kind EXCEPT ![FreeLoad] = job[j].holds]
      /\ marred' = (marred \/ job[j].met)
  BY DEF replace_dataset_records, events, Mar
<1>3. /\ job'[j] = [job[j] EXCEPT !.pc = "mark", !.seen = {}, !.holds = NoKind]
      /\ \A i \in Job \ {j} : job'[i] = job[i]
      /\ job' \in [Job -> Work]
  <2>1. "mark" \in Stage /\ NoKind \in Holding
    BY DEF Stage, Syncing, NoKind, Holding
  <2>2. [job[j] EXCEPT !.pc = "mark", !.seen = {}, !.holds = NoKind] \in Work
    BY <1>1, <2>1 DEF Work
  <2> QED
    BY <2>2 DEF replace_dataset_records, IInv, Shaped
<1>4. job'[j].pc = "mark" /\ job'[j].op = "sync" /\ job'[j].met = job[j].met
  BY <1>1, <1>3 DEF Work
<1>5. records' \in [Load -> {"none", "live", "dead"}]
  BY <1>2 DEF Replaced, IInv, Shaped
<1>6. kind' \in [Load -> Holding]
  BY <1>1, <1>2 DEF Work, IInv, Shaped
<1>7. Shaped'
  <2>1. marred' \in BOOLEAN
    BY <1>2
  <2> QED
    BY <1>2, <1>3, <1>5, <1>6, <2>1 DEF IInv, Shaped, SeriesTypeOK
<1>8. OpOK(j)' /\ LetThrough(j)'
  BY <1>4 DEF OpOK, KindOK, LetThrough, At, Syncing, Scoring
<1>9. /\ \A k \in Job : OpOK(k)'
      /\ MetOK'
      /\ \A k \in Job \ {j} : Fresh(k)'
  BY <1>1, <1>3, <1>4, <1>8, Moved DEF IInv
<1>10. \A l \in Load : l \in In("dead")' => l \in In("dead")
  BY <1>2 DEF In, Replaced
<1>11. NoneDead'
  BY <1>2, <1>10 DEF IInv, NoneDead, In
<1>12. Fresh(j)'
  <2> SUFFICES ASSUME ~job'[j].met PROVE Fresh(j)'
    BY DEF Fresh
  <2>1. dataset.live /\ job[j].seen = In("live") /\ In("dead") = {}
    BY <1>1, <1>4 DEF IInv, Fresh, NoneDead, At, Busy
  <2>2. Held' \subseteq {FreeLoad}
    <3> SUFFICES ASSUME NEW l \in Load, l # FreeLoad PROVE records'[l] = "none"
      BY DEF Held, In
    <3>1. CASE records[l] = "live"
      BY <1>2, <2>1, <3>1 DEF Replaced, In
    <3>2. CASE records[l] = "none"
      BY <1>2, <2>1, <3>2 DEF Replaced, In
    <3> QED
      BY <2>1, <3>1, <3>2 DEF IInv, Shaped, In
  <2>3. Cardinality(Held') <= 1
    BY <2>2, FewerHeld
  <2>4. Cardinality(Held)' <= 1
    BY <2>3
  <2> QED
    BY <1>2, <1>4, <2>1, <2>4 DEF Fresh, At, Unjudged
<1>13. Settled'
  BY <1>4 DEF Settled, Unjudged
<1>14. \A k \in Job \ {j} : LetThrough(k)'
  BY <1>2, <1>3 DEF IInv, LetThrough, At
<1>15. PassedOn'
  BY <1>2 DEF IInv, PassedOn
<1> QED
  BY <1>7, <1>8, <1>9, <1>11, <1>12, <1>13, <1>14, <1>15 DEF IInv

LEMMA MarkSyncedSound ==
    ASSUME IInv, NEW j \in Job, mark_synced(j) PROVE IInv'
<1>1. /\ job[j].pc = "mark" /\ job[j].op = "sync" /\ ~At(j, "idle") /\ Unjudged(j)
  BY DEF mark_synced, At, Unjudged, IInv, OpOK, KindOK, Syncing
<1>2. /\ UNCHANGED <<records, kind, passed, resynced, queued, kpis, starts, faults, marred,
                     justified, dates, series>>
      /\ dataset' = [dataset EXCEPT !.synced = TRUE]
  BY DEF mark_synced, events, history
<1>3. /\ job' \in [Job -> Work]
      /\ \A i \in Job \ {j} : job'[i] = job[i]
      /\ job'[j].pc = "check" /\ job'[j].op = "sync" /\ job'[j].met = job[j].met
  <2>1. Goto(j, "check") /\ "check" \in Stage
    BY DEF mark_synced, Stage, Scoring
  <2> QED
    BY <1>1, <2>1, GotoFacts DEF IInv
<1>4. /\ dataset' \in [live : BOOLEAN, synced : BOOLEAN, status : {"active", "quarantined"},
                       score : 0 .. 100]
      /\ dataset'.live = dataset.live /\ dataset'.status = dataset.status
      /\ dataset'.synced = TRUE
  BY <1>2 DEF IInv, Shaped
<1>5. Shaped'
  BY <1>2, <1>3, <1>4 DEF IInv, Shaped, SeriesTypeOK
<1>6. OpOK(j)' /\ LetThrough(j)'
  BY <1>3 DEF OpOK, KindOK, LetThrough, At, Syncing, Scoring
<1>7. /\ \A k \in Job : OpOK(k)'
      /\ MetOK'
      /\ \A k \in Job \ {j} : Fresh(k)'
  BY <1>1, <1>3, <1>6, Moved DEF IInv
<1>8. In("live")' = In("live") /\ In("dead")' = In("dead") /\ Held' = Held
  BY <1>2 DEF In, Held
<1>9. Fresh(j)'
  BY <1>1, <1>3, <1>4, <1>8 DEF IInv, Fresh, At, Busy, Unjudged
<1>10. Settled'
  BY <1>3 DEF Settled, Unjudged
<1>11. NoneDead'
  BY <1>4, <1>8 DEF IInv, NoneDead
<1>12. \A k \in Job \ {j} : LetThrough(k)'
  BY <1>2, <1>3, <1>4 DEF IInv, LetThrough, At
<1>13. PassedOn'
  BY <1>2 DEF IInv, PassedOn
<1> QED
  BY <1>5, <1>6, <1>7, <1>9, <1>10, <1>11, <1>12, <1>13 DEF IInv

LEMMA ApplyQualityResultSound ==
    ASSUME IInv, NEW j \in Job, apply_quality_result(j) PROVE IInv'
<1>1. /\ job[j].pc = "apply" /\ ~At(j, "idle") /\ job[j] \in Work
      /\ job[j].op \in {"sync", "check", "recheck"}
  BY DEF apply_quality_result, At, IInv, Shaped, OpOK, KindOK, Scoring
<1>2. UNCHANGED <<records, kind, passed, resynced, queued, kpis, starts, faults, dates, series>>
  BY DEF apply_quality_result, events
<1>3. /\ marred' <=> (job[j].met \/ (marred /\ job[j].op # "sync"))
      /\ justified' <=> (job[j].pass \/ ~dataset.live \/ (justified /\ ~NothingElse(j)))
      /\ marred' \in BOOLEAN /\ justified' \in BOOLEAN
  BY DEF apply_quality_result
<1>4. /\ dataset' \in [live : BOOLEAN, synced : BOOLEAN, status : {"active", "quarantined"},
                       score : 0 .. 100]
      /\ dataset'.live = dataset.live /\ dataset'.synced = dataset.synced
      /\ dataset.live => /\ dataset'.score = job[j].score
                         /\ dataset'.status = IF job[j].pass THEN "active" ELSE "quarantined"
      /\ ~dataset.live => dataset' = dataset
  <2>1. CASE dataset.live
    <3>1. job[j].score \in 0 .. 100
      BY <1>1 DEF Work
    <3>2. PICK s \in {"active", "quarantined"} :
              s = IF job[j].pass THEN "active" ELSE "quarantined"
      OBVIOUS
    <3>3. dataset' = [dataset EXCEPT !.score = job[j].score, !.status = s]
      BY <2>1, <3>2 DEF apply_quality_result
    <3> QED
      BY <2>1, <3>1, <3>2, <3>3 DEF IInv, Shaped
  <2>2. CASE ~dataset.live
    BY <2>2 DEF apply_quality_result, IInv, Shaped
  <2> QED
    BY <2>1, <2>2
<1>5. /\ job' \in [Job -> Work]
      /\ \A i \in Job \ {j} : job'[i] = job[i]
      /\ \/ job'[j] = Idle /\ job[j].op = "check"
         \/ /\ job'[j].pc = "announce" /\ job'[j].op = job[j].op /\ job'[j].met = job[j].met
            /\ job'[j].pass = job[j].pass
  <2>1. CASE job[j].op = "check"
    <3>1. Idle \in Work
      BY IdleIsWork
    <3>2. Finish(j)
      BY <2>1 DEF apply_quality_result
    <3> QED
      BY <2>1, <3>1, <3>2 DEF Finish, IInv, Shaped
  <2>2. CASE job[j].op # "check"
    <3>1. Goto(j, "announce") /\ "announce" \in Stage
      BY <2>2 DEF apply_quality_result, Stage, Scoring
    <3> QED
      BY <3>1, GotoFacts DEF IInv
  <2> QED
    BY <2>1, <2>2
<1>6. Shaped'
  BY <1>2, <1>3, <1>4, <1>5 DEF IInv, Shaped, SeriesTypeOK
<1>7. dataset'.status = "quarantined" \/ justified'
  BY <1>3, <1>4
<1>8. OpOK(j)'
  BY <1>1, <1>5 DEF OpOK, KindOK, Idle, Syncing, Scoring
<1>9. LetThrough(j)'
  BY <1>3, <1>5, <1>7 DEF LetThrough, At, Idle
<1>10. /\ \A k \in Job : OpOK(k)'
       /\ MetOK'
       /\ \A k \in Job \ {j} : Fresh(k)'
  BY <1>1, <1>5, <1>8, Moved DEF IInv
<1>11. In("live")' = In("live") /\ In("dead")' = In("dead") /\ Held' = Held
  BY <1>2 DEF In, Held
<1>12. Fresh(j)'
  BY <1>1, <1>4, <1>5 DEF IInv, Fresh, At, Busy, Unjudged, Idle
<1>13. NoneDead'
  BY <1>4, <1>11 DEF IInv, NoneDead
<1>14. \A k \in Job \ {j} : LetThrough(k)'
  <2>1. CASE NothingElse(j)
    <3>1. \A k \in Job \ {j} : job'[k].pc = "idle"
      BY <1>5, <2>1 DEF NothingElse, Busy, At
    <3> QED
      BY <3>1 DEF LetThrough, At
  <2>2. CASE ~NothingElse(j)
    <3>1. justified => justified'
      BY <1>3, <2>2
    <3> QED
      BY <1>5, <1>7, <3>1 DEF IInv, LetThrough, At
  <2> QED
    BY <2>1, <2>2
<1>15. PassedOn'
  <2>1. CASE NothingElse(j)
    BY <1>2, <2>1 DEF NothingElse, PassedOn, IInv, Shaped
  <2>2. CASE ~NothingElse(j)
    BY <1>2, <1>3, <2>2 DEF IInv, PassedOn
  <2> QED
    BY <2>1, <2>2
<1>16. Settled'
  <2> SUFFICES ASSUME ~marred', \A k \in Job : ~Unjudged(k)' PROVE InOrder'
    BY DEF Settled
  <2>1. ~job[j].met /\ (job[j].op # "sync" => ~marred)
    BY <1>3
  <2>2. \A k \in Job \ {j} : ~Unjudged(k)
    BY <1>5 DEF Unjudged
  <2>3. job[j].op # "sync" => InOrder
    BY <2>1, <2>2 DEF IInv, Settled, Unjudged
  <2>4. /\ \E hours \in Ages :
               job[j].score = ScoreOn(In("live"), kind, dataset.synced, hours)
        /\ job[j].pass <=> ~should_quarantine(job[j].score)
        /\ job[j].op = "sync" => dataset.live /\ Cardinality(Held) <= 1
    BY <1>1, <2>1 DEF IInv, Fresh, At, Busy, Unjudged
  <2>5. CASE dataset.live
    <3>1. Held = In("live")
      BY <2>5 DEF IInv, NoneDead, Held
    <3>2. Cardinality(Held)' <= 1
      BY <1>11, <2>3, <2>4 DEF InOrder
    <3>3. dataset'.synced =>
              /\ \E hours \in Ages : dataset'.score = ScoreOn(Held', kind', TRUE, hours)
              /\ dataset'.status = "quarantined" <=> should_quarantine(dataset'.score)
      <4> SUFFICES ASSUME dataset.synced
                   PROVE  /\ \E hours \in Ages :
                                 dataset'.score = ScoreOn(Held', kind', TRUE, hours)
                          /\ dataset'.status = "quarantined"
                                 <=> should_quarantine(dataset'.score)
        BY <1>4
      <4>1. dataset.synced = TRUE
        BY DEF IInv, Shaped
      <4>2. dataset'.score = job[j].score
        BY <1>4, <2>5
      <4>3. \E hours \in Ages : dataset'.score = ScoreOn(Held', kind', TRUE, hours)
        BY <1>2, <1>11, <2>4, <3>1, <4>1, <4>2
      <4>4. dataset'.status = "quarantined" <=> should_quarantine(dataset'.score)
        BY <1>4, <2>4, <2>5, <4>2
      <4> QED
        BY <4>3, <4>4
    <3> QED
      BY <1>4, <2>5, <3>2, <3>3 DEF InOrder
  <2>6. CASE ~dataset.live
    <3>1. UNCHANGED <<dataset, records, kind>>
      BY <1>2, <1>4, <2>6
    <3> QED
      BY <2>3, <2>4, <2>6, <3>1, Kept
  <2> QED
    BY <2>5, <2>6
<1> QED
  BY <1>6, <1>9, <1>10, <1>12, <1>13, <1>14, <1>15, <1>16 DEF IInv

LEMMA StampRecordsSound ==
    ASSUME IInv, NEW j \in Job, stamp_records(j) PROVE IInv'
<1>1. /\ job[j].pc = "stamp" /\ ~At(j, "idle") /\ ~Unjudged(j)
  BY DEF stamp_records, At, Unjudged
<1>2. /\ UNCHANGED <<kind, passed, resynced, queued, kpis, starts, faults, justified, dates, series>>
      /\ marred' = (marred \/ job[j].met)
      /\ records' = [l \in Load |->
             IF l \in job[j].seen \cap In("live") THEN "dead" ELSE records[l]]
      /\ dataset' = [dataset EXCEPT !.live = FALSE]
  BY DEF stamp_records, events, Mar
<1>3. /\ dataset' \in [live : BOOLEAN, synced : BOOLEAN, status : {"active", "quarantined"},
                       score : 0 .. 100]
      /\ ~dataset'.live /\ dataset'.synced = dataset.synced
      /\ dataset'.status = dataset.status /\ dataset'.score = dataset.score
  BY <1>2 DEF IInv, Shaped
<1>4. /\ job'[j] = Idle
      /\ \A i \in Job \ {j} : job'[i] = job[i]
      /\ job' \in [Job -> Work]
  <2>1. Idle \in Work
    BY IdleIsWork
  <2> QED
    BY <2>1 DEF stamp_records, Finish, IInv, Shaped
<1>5. Shaped'
  <2>1. marred' \in BOOLEAN /\ records' \in [Load -> {"none", "live", "dead"}]
    BY <1>2 DEF IInv, Shaped
  <2> QED
    BY <1>2, <1>3, <1>4, <2>1 DEF IInv, Shaped, SeriesTypeOK
<1>6. OpOK(j)' /\ Fresh(j)' /\ LetThrough(j)'
  BY <1>4 DEF OpOK, KindOK, Fresh, LetThrough, Idle, Busy, At, Syncing, Scoring
<1>7. /\ \A k \in Job : OpOK(k)'
      /\ MetOK'
      /\ \A k \in Job \ {j} : Fresh(k)'
  BY <1>1, <1>4, <1>6, Moved DEF IInv
<1>8. NoneDead'
  BY <1>3 DEF NoneDead
<1>9. \A k \in Job \ {j} : LetThrough(k)'
  BY <1>2, <1>3, <1>4 DEF IInv, LetThrough, At
<1>10. PassedOn'
  BY <1>2 DEF IInv, PassedOn
<1>11. Settled'
  <2> SUFFICES ASSUME ~marred', \A k \in Job : ~Unjudged(k)' PROVE InOrder'
    BY DEF Settled
  <2>1. ~job[j].met /\ ~marred
    BY <1>2
  <2>2. \A k \in Job : ~Unjudged(k)
    BY <1>1, <1>4 DEF Unjudged
  <2>3. InOrder
    BY <2>1, <2>2 DEF IInv, Settled
  <2>4. job[j].seen = In("live")
    BY <1>1, <2>1 DEF IInv, Fresh, At, Busy
  <2>5. In("live")' = {}
    BY <1>2, <2>4 DEF In
  <2>6. Held' = Held
    BY <1>2, <2>4 DEF Held, In, IInv, Shaped
  <2> QED
    BY <1>2, <1>3, <2>3, <2>5, <2>6 DEF InOrder
<1> QED
  BY <1>5, <1>6, <1>7, <1>8, <1>9, <1>10, <1>11 DEF IInv

LEMMA RestoreDatasetSound ==
    ASSUME IInv, NEW j \in Job, restore_dataset(j) PROVE IInv'
<1>1. /\ UNCHANGED <<kind, passed, resynced, queued, kpis, starts, faults, justified, dates, series>>
      /\ marred' = (marred \/ Busy # {})
      /\ records' = [l \in Load |-> IF records[l] = "dead" THEN "live" ELSE records[l]]
      /\ dataset' = [dataset EXCEPT !.live = TRUE] /\ ~dataset.live
      /\ job' = [k \in Job |-> [job[k] EXCEPT !.met = k \in Busy]]
  BY DEF restore_dataset, events
<1>2. /\ dataset' \in [live : BOOLEAN, synced : BOOLEAN, status : {"active", "quarantined"},
                       score : 0 .. 100]
      /\ dataset'.live /\ dataset'.synced = dataset.synced
      /\ dataset'.status = dataset.status /\ dataset'.score = dataset.score
  BY <1>1 DEF IInv, Shaped
<1>3. \A k \in Job : /\ job'[k] \in Work
                     /\ job'[k].pc = job[k].pc /\ job'[k].op = job[k].op
                     /\ job'[k].pass = job[k].pass
                     /\ k \in Busy => job'[k].met
                     /\ OpOK(k)'
  BY <1>1, OthersMet DEF IInv, Shaped
<1>4. job' \in [Job -> Work]
  BY <1>1, <1>3
<1>5. Shaped'
  <2>1. marred' \in BOOLEAN /\ records' \in [Load -> {"none", "live", "dead"}]
    BY <1>1 DEF IInv, Shaped
  <2> QED
    BY <1>1, <1>2, <1>4, <2>1 DEF IInv, Shaped, SeriesTypeOK
<1>6. \A k \in Job : k \in Busy' <=> k \in Busy
  BY <1>3 DEF Busy, At
<1>7. MetOK'
  BY <1>3, <1>6 DEF MetOK
<1>8. \A k \in Job : Fresh(k)'
  BY <1>3, <1>6 DEF Fresh
<1>9. NoneDead'
  BY <1>1 DEF NoneDead, In
<1>10. \A k \in Job : LetThrough(k)'
  <2> SUFFICES ASSUME NEW k \in Job PROVE LetThrough(k)'
    OBVIOUS
  <2>1. justified' = justified /\ dataset'.status = dataset.status
    BY <1>1, <1>2
  <2>2. /\ job'[k].pc = job[k].pc /\ job'[k].op = job[k].op
        /\ job'[k].pass = job[k].pass
    BY <1>3
  <2>3. LetThrough(k)
    BY DEF IInv
  <2> QED
    BY <2>1, <2>2, <2>3 DEF LetThrough, At
<1>11. PassedOn'
  BY <1>1 DEF IInv, PassedOn
<1>12. Settled'
  <2> SUFFICES ASSUME ~marred' PROVE InOrder'
    BY DEF Settled
  <2>1. ~marred /\ Busy = {}
    BY <1>1
  <2>2. \A k \in Job : ~Unjudged(k)
    BY <2>1 DEF Busy, Unjudged, At
  <2>3. InOrder
    BY <2>1, <2>2 DEF IInv, Settled
  <2>4. In("live")' = In("live") \cup In("dead") /\ In("dead")' = {}
    BY <1>1 DEF In
  <2>5. Held' = Held
    BY <2>4 DEF Held
  <2> QED
    BY <1>1, <1>2, <2>3, <2>5 DEF InOrder
<1> QED
  BY <1>3, <1>5, <1>7, <1>8, <1>9, <1>10, <1>11, <1>12 DEF IInv

-----------------------------------------------------------------------------
(* The theorems *)

LEMMA CellsOfOne ==
    ASSUME NEW l, NEW n \in Nat
    PROVE  Cardinality({l} \X (1 .. n)) = n
<1>1. IsFiniteSet({l}) /\ Cardinality({l}) = 1
  BY FS_Singleton
<1>2. IsFiniteSet(1 .. n) /\ Cardinality(1 .. n) = n
  BY FS_Interval
<1>3. Cardinality({l} \X (1 .. n)) = Cardinality({l}) * Cardinality(1 .. n)
  BY <1>1, <1>2, FS_Product
<1> QED
  BY <1>1, <1>2, <1>3

LEMMA InitSound == Init => IInv
<1> SUFFICES ASSUME Init PROVE IInv
  OBVIOUS
<1> DEFINE l == CHOOSE i \in Load : TRUE
<1>1. PICK k \in Kind, old \in BOOLEAN :
          LET score == overall_score(measured(k.rows, k.filled, k.typed, 100))
          IN  /\ ~should_quarantine(score)
              /\ kind = [i \in Load |-> IF old /\ i = l THEN k ELSE NoKind]
              /\ records = [i \in Load |-> IF old /\ i = l THEN "live" ELSE "none"]
              /\ dataset = [live |-> TRUE, synced |-> old, status |-> "active",
                            score |-> IF old THEN score ELSE 0]
              /\ kpis = IF old THEN 1 ELSE 0
              /\ justified = old
  BY DEF Init
<1>2. l \in Load
  BY PipelineAssumption DEF PipelineAssumption
<1> HIDE DEF l
<1> DEFINE score == overall_score(measured(k.rows, k.filled, k.typed, 100))
<1>3. /\ ~should_quarantine(score)
      /\ kind = [i \in Load |-> IF old /\ i = l THEN k ELSE NoKind]
      /\ records = [i \in Load |-> IF old /\ i = l THEN "live" ELSE "none"]
      /\ dataset = [live |-> TRUE, synced |-> old, status |-> "active",
                    score |-> IF old THEN score ELSE 0]
      /\ kpis = IF old THEN 1 ELSE 0
      /\ justified = old
  BY <1>1
<1>4. k \in Holding /\ NoKind \in Holding
  BY PipelineAssumption DEF PipelineAssumption, Holding, NoKind
<1>5. score \in 0 .. 100
  <2>1. /\ k.rows \in Nat /\ k.filled \in Nat /\ k.typed \in Nat
        /\ k.typed <= k.filled /\ k.filled <= k.rows /\ 100 \in 0 .. 100
    BY <1>4 DEF Holding
  <2>2. overall_score(measured(k.rows, k.filled, k.typed, 100)) \in 0 .. 100
    BY <2>1, OverallBounds
  <2> QED
    BY <2>2
<1> HIDE DEF score
<1>6. /\ job = [j \in Job |-> Idle]
      /\ passed = 0 /\ resynced = 0 /\ queued = 0
      /\ starts = 0 /\ faults = 0
      /\ marred = FALSE
      /\ dates \in {"listed", "inferred", "none"} /\ series = {}
  BY PipelineAssumption DEF Init, PipelineAssumption
<1>7. Shaped
  <2>1. Idle \in Work
    BY IdleIsWork
  <2>2. dataset \in [live : BOOLEAN, synced : BOOLEAN, status : {"active", "quarantined"},
                     score : 0 .. 100]
    BY <1>3, <1>5
  <2>3. kpis \in 0 .. MaxKpis /\ faults \in 0 .. MaxFaults /\ starts \in 0 .. MaxStarts
    BY <1>3, <1>6, PipelineAssumption DEF PipelineAssumption
  <2>4. records \in [Load -> {"none", "live", "dead"}] /\ kind \in [Load -> Holding]
    BY <1>3, <1>4
  <2>5. justified \in BOOLEAN /\ marred \in BOOLEAN
    BY <1>3, <1>6
  <2> QED
    BY <1>6, <2>1, <2>2, <2>3, <2>4, <2>5 DEF Shaped, SeriesTypeOK
<1>8. \A j \in Job : job[j] = Idle
  BY <1>6
<1>9. \A j \in Job : OpOK(j) /\ Fresh(j) /\ LetThrough(j)
  <2> SUFFICES ASSUME NEW j \in Job PROVE OpOK(j) /\ Fresh(j) /\ LetThrough(j)
    OBVIOUS
  <2>1. job[j] = Idle /\ Idle.pc = "idle" /\ Idle.op = "none"
    BY <1>8 DEF Idle
  <2> QED
    BY <2>1 DEF OpOK, KindOK, Fresh, LetThrough, Busy, At, Syncing, Scoring
<1>10. MetOK
  BY <1>8 DEF MetOK, Busy, At, Idle
<1>11. In("dead") = {} /\ In("live") = IF old THEN {l} ELSE {}
  BY <1>2, <1>3 DEF In
<1>12. NoneDead
  BY <1>11 DEF NoneDead
<1>13. PassedOn
  BY <1>3, <1>6 DEF PassedOn
<1>14. InOrder
  <2>1. Held = IF old THEN {l} ELSE {}
    BY <1>11 DEF Held
  <2>2. Cardinality(Held) <= 1
    BY <2>1, FewerHeld
  <2>3. CASE old
    <3>1. Held = {l} /\ kind \in [Load -> Holding]
      BY <1>7, <2>1, <2>3 DEF Shaped
    <3>2. kind[l] = k
      BY <1>2, <1>3, <2>3
    <3>3. /\ CellsOf({l}, [i \in Load |-> kind[i].rows]) = {l} \X (1 .. k.rows)
          /\ CellsOf({l}, [i \in Load |-> kind[i].filled]) = {l} \X (1 .. k.filled)
          /\ CellsOf({l}, [i \in Load |-> kind[i].typed]) = {l} \X (1 .. k.typed)
      BY <1>2, <3>2 DEF CellsOf
    <3>4. k.rows \in Nat /\ k.filled \in Nat /\ k.typed \in Nat
      BY <1>4 DEF Holding
    <3>5. /\ Cardinality({l} \X (1 .. k.rows)) = k.rows
          /\ Cardinality({l} \X (1 .. k.filled)) = k.filled
          /\ Cardinality({l} \X (1 .. k.typed)) = k.typed
      BY <3>4, CellsOfOne
    <3>6. _recency_score(0) = 100
      BY DEF _recency_score
    <3>7. ScoreOn(Held, kind, TRUE, 0) = score
      BY <3>1, <3>3, <3>5, <3>6 DEF ScoreOn, score
    <3>8. 0 \in Ages
      BY PipelineAssumption DEF PipelineAssumption
    <3>9. dataset.score = score /\ dataset.live /\ dataset.status = "active"
      BY <1>3, <2>3
    <3> QED
      BY <1>3, <2>2, <3>7, <3>8, <3>9 DEF InOrder
  <2>4. CASE ~old
    <3>1. dataset.live /\ ~dataset.synced
      BY <1>3, <2>4
    <3> QED
      BY <2>2, <3>1 DEF InOrder
  <2> QED
    BY <2>3, <2>4
<1>15. Settled
  BY <1>14 DEF Settled
<1> QED
  BY <1>7, <1>9, <1>10, <1>12, <1>13, <1>15 DEF IInv

LEMMA StutterSound == ASSUME IInv, UNCHANGED vars PROVE IInv'
<1>1. /\ UNCHANGED <<dataset, records, kind, job, kpis, starts, faults, dates, series,
                     marred, justified>>
      /\ UNCHANGED <<passed, resynced, queued>>
  BY DEF vars, events, history
<1>2. passed' \in Nat /\ resynced' \in Nat /\ queued' \in Nat /\ PassedOn'
  BY <1>1 DEF IInv, Shaped, PassedOn
<1> QED
  BY <1>1, <1>2, NothingBegun

LEMMA NextSound == ASSUME IInv, [Next]_vars PROVE IInv'
<1>1. ASSUME NEW j \in Job, Arrive(j) PROVE IInv'
  BY <1>1, SyncDatasetSound, RunQualityCheckSound, DeleteDatasetSound, RestoreDatasetSound,
     GenerateKpisSound, CreateKpiManualSound, RecomputeKpisForDatasetSound,
     RecomputeSnapshotSound DEF Arrive
<1>2. ASSUME NEW j \in Job, TakeUp(j) PROVE IInv'
  BY <1>2, HandleDatasetSyncedSound, HandleQualityPassedSound, AutoGenerateKpisSound DEF TakeUp
<1>3. ASSUME NEW j \in Job, Proceed(j) PROVE IInv'
  BY <1>3, ExtractRowsSound, ExtractFailedSound, ReplaceDatasetRecordsSound, MarkSyncedSound,
     RunQualityPipelineSound, QualityFailedSound, ApplyQualityResultSound, PublishSound,
     PublishFailedSound, RespondSound, GenerateKpisForDatasetSound, GenerationFailedSound,
     SnapshotKpiSound, ComputeMonthSound, MonthsDoneSound, ComputeAndSnapshotSound,
     StampRecordsSound DEF Proceed
<1>4. ASSUME NEW j \in Job, crash(j) PROVE IInv'
  BY <1>4, CrashSound
<1>5. CASE UNCHANGED vars
  BY <1>5, StutterSound
<1> QED
  BY <1>1, <1>2, <1>3, <1>4, <1>5 DEF Next

LEMMA Invariance == Spec => []IInv
<1>1. Init => IInv
  BY InitSound
<1>2. IInv /\ [Next]_vars => IInv'
  BY NextSound
<1> QED
  BY <1>1, <1>2, PTL DEF Spec

LEMMA SettledGivesOrder == ASSUME IInv PROVE SyncLeavesOrder
<1>1. TypeOK
  BY DEF IInv, Shaped, Work, TypeOK
<1>2. SyncSettles
  <2> SUFFICES ASSUME ~marred, Busy = {}
               PROVE  /\ Cardinality(Held) <= 1
                      /\ ~dataset.live => In("live") = {}
                      /\ dataset.live /\ dataset.synced =>
                             /\ \E hours \in Ages : dataset.score = Score(hours)
                             /\ dataset.status = "quarantined" <=> should_quarantine(dataset.score)
    BY DEF SyncSettles, Held
  <2>1. \A k \in Job : ~Unjudged(k)
    BY DEF Busy, Unjudged, At
  <2>2. InOrder
    BY <2>1 DEF IInv, Settled
  <2>3. ASSUME dataset.live, dataset.synced
        PROVE  /\ \E hours \in Ages : dataset.score = Score(hours)
               /\ dataset.status = "quarantined" <=> should_quarantine(dataset.score)
    <3>1. PICK hours \in Ages : dataset.score = ScoreOn(Held, kind, TRUE, hours)
      BY <2>2, <2>3 DEF InOrder
    <3>2. Held = In("live") /\ dataset.synced = TRUE
      BY <2>3 DEF IInv, Shaped, NoneDead, Held
    <3>3. hours \in Nat
      BY PipelineAssumption DEF PipelineAssumption
    <3>4. dataset.score = Score(hours)
      BY <3>1, <3>2, <3>3, ScoreIs
    <3> QED
      BY <2>2, <2>3, <3>4 DEF InOrder
  <2> QED
    BY <2>2, <2>3 DEF InOrder
<1> QED
  BY <1>1, <1>2 DEF SyncLeavesOrder

LEMMA FreshGivesMonths == ASSUME IInv PROVE MonthsAreCovered
<1> SUFFICES ASSUME NEW j \in Job, At(j, "months"), job[j].todo = {}, ~job[j].met,
                    NEW m \in Covered
             PROVE  m \in Months(series) \/ \E b \in Broken : b <= m
  BY DEF MonthsAreCovered
<1>1. j \in Busy
  BY DEF Busy, At
<1> QED
  BY <1>1 DEF IInv, Fresh

\* What a dataset is when no job is under way: after a sync that met no other
\* job and no failure, and whatever followed it alone, the rows of one
\* extraction, and the score and the status that belong to them
\* (services/dataset_service.py, services/data_quality_service.py).
THEOREM SyncAlwaysLeavesOrder == Spec => []SyncLeavesOrder
<1>1. IInv => SyncLeavesOrder
  BY SettledGivesOrder
<1> QED
  BY <1>1, Invariance, PTL

\* After a quarantine that found nothing else under way nothing that would make
\* KPIs waits or runs, but for requests, until a check of the dataset passes or
\* fails to run (agents/kpi_agent.py, routers/datasets.py).
THEOREM KpisAlwaysNeedAPass == Spec => []KpisNeedAPass
<1>1. IInv => KpisNeedAPass
  BY DEF IInv, PassedOn, LetThrough, KpisNeedAPass
<1> QED
  BY <1>1, Invariance, PTL

\* A monthly run that met no other job has left no month out, but for those
\* from the first broken one on (services/kpi_calculation_service.py).
THEOREM MonthsAlwaysCovered == Spec => []MonthsAreCovered
<1>1. IInv => MonthsAreCovered
  BY FreshGivesMonths
<1> QED
  BY <1>1, Invariance, PTL
-----------------------------------------------------------------------------
(* The limiter *)

LEMMA DivBound ==
    ASSUME NEW t \in Nat, NEW k \in Nat \ {0}
    PROVE  /\ t \div k \in Nat
           /\ (t \div k) * k <= t
           /\ t < (t \div k + 1) * k
OBVIOUS

LEMMA Windows ==
    ASSUME NEW t \in Nat
    PROVE  /\ window_id(t) \in Nat
           /\ window_id(t) * Window <= t
           /\ t < (window_id(t) + 1) * Window
BY DivBound, RateLimitAssumption DEF window_id

LEMMA OfOneWindow ==
    ASSUME NEW n \in Nat, NEW asked \in [1 .. n -> [at : Nat, up : BOOLEAN]], NEW w \in Nat
    PROVE  LET S == {i \in Admitted(asked) : window_id(asked[i].at) = w}
           IN  IsFiniteSet(S) /\ Cardinality(S) <= Limit
<1> DEFINE S == {i \in Admitted(asked) : window_id(asked[i].at) = w}
           Before(i) == {j \in 1 .. i : asked[j].up /\ window_id(asked[j].at) = window_id(asked[i].at)}
<1>1. S \subseteq 1 .. n /\ S \in SUBSET Nat
  BY DEF Admitted
<1>2. IsFiniteSet(S)
  BY <1>1, FS_Interval, FS_Subset
<1>3. CASE S = {}
  BY <1>2, <1>3, FS_EmptySet, RateLimitAssumption
<1>4. CASE S # {}
  <2>1. PICK m \in S : \A i \in S : i <= m
    BY <1>1, <1>2, <1>4, Greatest
  <2>2. m \in 1 .. n /\ asked[m].at \in Nat /\ asked[m].up /\ _retry_after(asked, m) = 0
    BY <1>1, <2>1 DEF Admitted
  <2>3. seconds_left(asked[m].at) # 0
    BY DEF seconds_left
  <2>4. Cardinality(Before(m)) <= Limit
    BY <2>2, <2>3 DEF _retry_after, Fits, incr
  <2>5. S \subseteq Before(m)
    BY <1>1, <2>1, <2>2 DEF Admitted
  <2>6. IsFiniteSet(Before(m))
    <3>1. IsFiniteSet(1 .. m) /\ Before(m) \in SUBSET (1 .. m)
      BY <2>2, FS_Interval
    <3> QED
      BY <3>1, FS_Subset
  <2>7. Cardinality(S) <= Cardinality(Before(m))
    BY <2>5, <2>6, FS_Subset
  <2> QED
    BY <1>2, <2>4, <2>6, <2>7, FS_CardinalityType, RateLimitAssumption
<1> QED
  BY <1>3, <1>4

\* Whatever the limit, the window and the order of the requests, in any time of
\* the length of a window at most twice the limit of them is let through, but
\* for what passes while Redis does not answer (_retry_after in
\* core/rate_limit.py).
THEOREM BurstAlwaysAtMostTwice ==
    ASSUME NEW n \in Nat, NEW asked \in [1 .. n -> [at : Nat, up : BOOLEAN]], NEW t \in Nat
    PROVE  AtMostTwice(asked, t)
<1> DEFINE S(w) == {i \in Admitted(asked) : window_id(asked[i].at) = w}
           A == {i \in Admitted(asked) : asked[i].at \in t .. t + Window - 1}
           w0 == window_id(t)
<1>1. w0 \in Nat /\ w0 * Window <= t /\ t < (w0 + 1) * Window
  BY Windows
<1>2. ASSUME NEW x \in Nat, x \in t .. t + Window - 1
      PROVE  window_id(x) \in {w0, w0 + 1}
  <2> DEFINE w == window_id(x)
  <2>1. w \in Nat /\ w * Window <= x /\ x < (w + 1) * Window
    BY Windows
  <2>2. Window \in Nat /\ Window > 0 /\ x <= t + Window - 1 /\ t <= x
    BY <1>2, RateLimitAssumption
  <2> HIDE DEF w, w0
  <2>3. ASSUME w < w0 PROVE FALSE
    <3>1. (w + 1) * Window <= w0 * Window
      BY <1>1, <2>1, <2>2, <2>3
    <3> QED
      BY <1>1, <2>1, <2>2, <3>1
  <2>4. ASSUME w > w0 + 1 PROVE FALSE
    <3>1. (w0 + 2) * Window <= w * Window
      BY <1>1, <2>1, <2>2, <2>4
    <3>2. (w0 + 2) * Window = (w0 + 1) * Window + Window
      BY <1>1, <2>2
    <3> QED
      BY <1>1, <2>1, <2>2, <3>1, <3>2
  <2>5. w \in {w0, w0 + 1}
    BY <1>1, <2>1, <2>3, <2>4
  <2> QED
    BY <2>5 DEF w
<1>3. A \subseteq S(w0) \cup S(w0 + 1)
  BY <1>2 DEF Admitted
<1>4. ASSUME NEW w \in Nat
      PROVE  IsFiniteSet(S(w)) /\ Cardinality(S(w)) <= Limit
  BY OfOneWindow
<1>5. w0 + 1 \in Nat
  BY <1>1
<1> HIDE DEF S, w0
<1>6. /\ IsFiniteSet(S(w0) \cup S(w0 + 1))
      /\ Cardinality(S(w0) \cup S(w0 + 1)) <= 2 * Limit
  <2> DEFINE P == S(w0)
             Q == S(w0 + 1)
  <2>1. /\ IsFiniteSet(P) /\ Cardinality(P) <= Limit /\ IsFiniteSet(Q) /\ Cardinality(Q) <= Limit
    BY <1>1, <1>4, <1>5
  <2> HIDE DEF P, Q
  <2>2. IsFiniteSet(P \cap Q)
    BY <2>1, FS_Intersection
  <2>3. /\ IsFiniteSet(P \cup Q)
        /\ Cardinality(P \cup Q) = Cardinality(P) + Cardinality(Q) - Cardinality(P \cap Q)
    BY <2>1, FS_Union
  <2>4. Cardinality(P) \in Nat /\ Cardinality(Q) \in Nat /\ Cardinality(P \cap Q) \in Nat
    BY <2>1, <2>2, FS_CardinalityType
  <2>5. Cardinality(P \cup Q) <= 2 * Limit
    BY <2>1, <2>3, <2>4, RateLimitAssumption
  <2> QED
    BY <2>3, <2>5 DEF P, Q
<1>7. IsFiniteSet(A) /\ Cardinality(A) <= Cardinality(S(w0) \cup S(w0 + 1))
  BY <1>3, <1>6, FS_Subset
<1>8. Cardinality(A) <= 2 * Limit
  BY <1>6, <1>7, FS_CardinalityType, RateLimitAssumption
<1> QED
  BY <1>8 DEF AtMostTwice

\* A caller who is turned away and waits as long as announced, and the fraction
\* of a second that int() cut off, finds a new window (_retry_after).
THEOREM WaitAlwaysSuffices ==
    ASSUME NEW n \in Nat, NEW asked \in [1 .. n -> [at : Nat, up : BOOLEAN]], NEW i \in 1 .. n
    PROVE  WaitSuffices(asked, i)
<1> DEFINE at == asked[i].at
           w == window_id(at)
           left == (w + 1) * Window - at
           later == at + (_retry_after(asked, i) + 1) * TicksPerSecond - 1
<1> SUFFICES ASSUME _retry_after(asked, i) > 0
             PROVE  window_id(later) > w
  BY DEF WaitSuffices
<1>1. at \in Nat
  OBVIOUS
<1> HIDE DEF at
<1>2. w \in Nat /\ at < (w + 1) * Window /\ Window \in Nat /\ Window > 0
  <2>1. w \in Nat /\ at < (w + 1) * Window
    BY <1>1, Windows
  <2> QED
    BY <2>1, RateLimitAssumption
<1>3. TicksPerSecond \in Nat /\ TicksPerSecond > 0
  BY RateLimitAssumption
<1>4. _retry_after(asked, i) = seconds_left(at)
  BY DEF _retry_after, at
<1>5. left \in Nat /\ left = (w + 1) * Window - at
  BY <1>1, <1>2
<1> DEFINE q == left \div TicksPerSecond
           s == seconds_left(at)
<1>6. s = IF q < 1 THEN 1 ELSE q
  BY DEF seconds_left
<1> HIDE DEF left
<1>7. q \in Nat /\ left < (q + 1) * TicksPerSecond
  <2>1. TicksPerSecond \in Nat \ {0} /\ left \in Nat
    BY <1>3, <1>5
  <2>2. ASSUME NEW t \in Nat, NEW k \in Nat \ {0}
        PROVE  t \div k \in Nat /\ t < (t \div k + 1) * k
    BY DivBound
  <2> QED
    BY <2>1, <2>2, Zenon
<1> HIDE DEF q, s, w
<1>8. s \in Nat /\ q + 1 <= s + 1
  BY <1>6, <1>7
<1>9. (q + 1) * TicksPerSecond <= (s + 1) * TicksPerSecond
  BY <1>3, <1>7, <1>8
<1>10. (s + 1) * TicksPerSecond \in Nat /\ (q + 1) * TicksPerSecond \in Nat
       /\ (w + 1) * Window \in Nat
  BY <1>2, <1>3, <1>7, <1>8
<1>11. later = at + (s + 1) * TicksPerSecond - 1
  BY <1>4 DEF s, at
<1>12. later \in Nat /\ (w + 1) * Window <= later
  BY <1>1, <1>5, <1>7, <1>9, <1>10, <1>11
<1> HIDE DEF later
<1> DEFINE v == window_id(later)
<1>13. v \in Nat /\ later < (v + 1) * Window
  BY <1>12, Windows
<1> HIDE DEF v
<1>14. ASSUME v <= w PROVE FALSE
  <2>1. (v + 1) * Window <= (w + 1) * Window /\ (v + 1) * Window \in Nat
    BY <1>2, <1>13, <1>14
  <2> QED
    BY <1>10, <1>12, <1>13, <2>1
<1>15. w < v
  BY <1>2, <1>13, <1>14
<1> QED
  BY <1>15 DEF v

LEMMA BurstsAreBounded ==
    ASSUME NEW asked \in Asked
    PROVE  /\ \A t \in Clock : AtMostTwice(asked, t)
           /\ \A i \in DOMAIN asked : WaitSuffices(asked, i)
<1> DEFINE Answered == [at : Clock, up : BOOLEAN]
<1>1. Clock \subseteq Nat /\ asked \in Seq(Answered)
  BY RateLimitAssumption
<1>2. /\ Len(asked) \in Nat /\ DOMAIN asked = 1 .. Len(asked)
      /\ asked \in [1 .. Len(asked) -> Answered]
  <2> HIDE DEF Answered
  <2> QED
    BY <1>1
<1>3. asked \in [1 .. Len(asked) -> [at : Nat, up : BOOLEAN]]
  BY <1>1, <1>2
<1> QED
  BY <1>1, <1>2, <1>3, BurstAlwaysAtMostTwice, WaitAlwaysSuffices

\* Whatever requests come at whatever times, and whether or not Redis answers
\* them, no more than twice the limit is let through in the length of a window,
\* and the announced wait is long enough (_retry_after in core/rate_limit.py).
THEOREM BurstAlwaysBounded == Spec => []BurstAtMostTwice
<1>1. BurstAtMostTwice
  BY BurstsAreBounded DEF BurstAtMostTwice
<1> QED
  BY <1>1, PTL
=============================================================================
