---------------------------- MODULE CatalogProofs ----------------------------
(***************************************************************************)
(* Proof that the tree of connectors, datasets, KPIs and leaves stays      *)
(* sound under any number of overlapping requests.  A request works with   *)
(* what it collected when it began; the invariant says what that is worth  *)
(* by the time it is used.  Two requests that overlap know of each other,  *)
(* so what a deletion has missed came alive in a request that met it.      *)
(***************************************************************************)
EXTENDS Catalog, TLAPS

JobRecord ==
    [pc : {"idle", "insert", "stamp", "restore"},
     op : {"none", "create_dataset", "generate", "detect", "delete_dataset", "delete_connector",
           "restore_dataset", "restore_connector"},
     target : Row \cup {NoRow}, datasets : SUBSET Dataset, kpis : SUBSET Kpi, met : BOOLEAN]

Typed ==
    /\ row \in [Row -> Cell] /\ schema \in [Dataset -> Cell] /\ description \in [Table -> Cell]
    /\ job \in [Job -> JobRecord]
    /\ clock \in 0 .. MaxClock /\ starts \in 0 .. MaxStarts
    /\ hurried \subseteq Row /\ revived \subseteq Dataset
    /\ taken \in [Row -> SUBSET Row]

\* The foreign keys.
KeysHold == \A r \in Row \ Connector : Exists(r) => Exists(ParentOf[r])

NoneFromTomorrow == \A r \in Row : IsDeleted(r) => row[r].at <= clock

\* Requests that overlap know it.
AllMet == \A i, j \in Busy : i # j => job[i].met

\* What came alive since a deletion began did so in a request that met it.
OnlyHurried(rows) == \A r \in rows : IsLive(r) => r \in hurried

\* Rows that were there, and alive today.
Recent(rows) == \A r \in rows : row[r] # None /\ (IsDeleted(r) => row[r].at = clock)

\* The rows a cascade has collected are below its target.
CollectedOK(j) ==
    /\ job[j].target \in Connector \cup Dataset
    /\ row[job[j].target] # None
    /\ job[j].target \in Dataset => job[j].datasets = {job[j].target}
    /\ job[j].target \in Connector => job[j].datasets \subseteq Below(Dataset, {job[j].target})
    /\ job[j].kpis \subseteq Below(Kpi, job[j].datasets)

InsertOK(j) ==
    /\ job[j].target \in Row \ Connector
    /\ row[job[j].target] = None
    /\ ~job[j].met => ~IsDeleted(ParentOf[job[j].target])
    /\ \A i \in Busy \ {j} : job[i].target # job[j].target

Missed(j) == Below(Dataset, {job[j].target}) \ job[j].datasets

StampOK(j) ==
    /\ CollectedOK(j)
    /\ Recent({job[j].target} \cup job[j].datasets \cup job[j].kpis)
    /\ OnlyHurried(Missed(j))
    /\ OnlyHurried(Below(Kpi, Missed(j)))
    /\ OnlyHurried(Below(Leaf, Below(Kpi, job[j].datasets) \ job[j].kpis))

RestoreOK(j) ==
    /\ CollectedOK(j)
    /\ ~job[j].met => \A d \in Missed(j) : ~IsDeleted(d)

JobsOK ==
    \A j \in Job :
        /\ At(j, "insert") => InsertOK(j)
        /\ At(j, "stamp") => StampOK(j)
        /\ At(j, "restore") => RestoreOK(j)

\* KPIs go and come back with their dataset, unless requests overlap.
KpisGoWithDataset ==
    \A k \in Kpi : IsDeleted(k) /\ IsLive(ParentOf[k]) => ParentOf[k] \in hurried

\* A row, and the datasets and KPIs above it.
Line(r) ==
    {r} \cup (IF r \in Kpi \cup Leaf THEN {ParentOf[r]} ELSE {})
        \cup (IF r \in Leaf THEN {ParentOf[ParentOf[r]]} ELSE {})

\* q is there, and if it is deleted it was so when p was, or later.
Outlasts(q, p) == Exists(q) /\ (IsDeleted(q) => row[q].at >= row[p].at)

\* What a deletion has taken is below its target, and is not purged before it,
\* on its own account or on account of what is between.
TakenOK ==
    \A p \in Row :
        /\ taken[p] # {} => p \in Connector \cup Dataset /\ row[p].state \in {"deleted", "purged"}
        /\ \A r \in taken[p] :
               /\ p \in Line(r) \/ \E d \in Line(r) \cap Dataset : ParentOf[d] = p
               /\ IsDeleted(p) => \A q \in Line(r) : Outlasts(q, p)

IInv ==
    /\ Typed
    /\ KeysHold
    /\ NoneFromTomorrow
    /\ AllMet
    /\ JobsOK
    /\ NothingOutlives
    /\ KpisGoWithDataset
    /\ TakenOK

-----------------------------------------------------------------------------
(* Lemmas *)

LEMMA Kinds ==
    /\ \A r \in Row \ Connector : ParentOf[r] \in Row /\ ParentOf[r] \notin Leaf
    /\ \A d \in Dataset : ParentOf[d] \in Connector /\ d \notin Connector \cup Kpi \cup Leaf
    /\ \A k \in Kpi : ParentOf[k] \in Dataset /\ k \notin Connector \cup Dataset \cup Leaf
    /\ \A l \in Leaf : ParentOf[l] \in Kpi /\ l \notin Connector \cup Dataset \cup Kpi
    /\ \A c \in Connector : c \notin Dataset \cup Kpi \cup Leaf
    /\ NoRow \notin Row
BY CatalogAssumption DEF CatalogAssumption, Row

LEMMA CellFacts ==
    /\ None \in Cell /\ Live \in Cell /\ Purged \in Cell
    /\ None.state = "none" /\ Live.state = "live" /\ Purged.state = "purged"
    /\ Stamp.state = "deleted" /\ Stamp.at = clock
    /\ clock \in 0 .. MaxClock => Stamp \in Cell
BY CatalogAssumption DEF CatalogAssumption, None, Live, Purged, Stamp, Cell

LEMMA PutFacts ==
    ASSUME NEW cells, NEW rows, NEW cell
    PROVE  /\ DOMAIN Put(cells, rows, cell) = DOMAIN cells
           /\ \A r \in DOMAIN cells :
                  Put(cells, rows, cell)[r] = IF r \in rows THEN cell ELSE cells[r]
BY DEF Put

LEMMA PutTyped ==
    ASSUME NEW D, NEW C, NEW cells \in [D -> C], NEW rows, NEW cell \in C
    PROVE  Put(cells, rows, cell) \in [D -> C]
BY DEF Put

LEMMA PutWhereTyped ==
    ASSUME NEW D, NEW C, NEW cells \in [D -> C], NEW rows, NEW cell \in C, NEW state
    PROVE  PutWhere(cells, rows, state, cell) \in [D -> C]
BY DEF PutWhere, Put

LEMMA RowStates ==
    ASSUME NEW r \in Row
    PROVE  /\ IsLive(r) => ~IsDeleted(r) /\ Exists(r)
           /\ Exists(r) => row[r] # None
           /\ row[r] = None => row[r].state = "none"
           /\ row[r].state = "purged" => ~Exists(r) /\ row[r] # None
BY DEF IsLive, IsDeleted, Exists, None

\* Nothing that is said of rows changes with what they do not depend on.
LEMMA RowsUnchanged ==
    ASSUME KeysHold, NoneFromTomorrow, NothingOutlives, KpisGoWithDataset, TakenOK,
           UNCHANGED <<row, clock, history>>
    PROVE  KeysHold' /\ NoneFromTomorrow' /\ NothingOutlives' /\ KpisGoWithDataset' /\ TakenOK'
<1> USE DEF history
<1>1. KeysHold' /\ NoneFromTomorrow'
  BY DEF KeysHold, NoneFromTomorrow, Exists, IsLive, IsDeleted
<1>2. NothingOutlives' /\ KpisGoWithDataset'
  BY DEF NothingOutlives, KpisGoWithDataset, Exists, IsLive, IsDeleted
<1>3. TakenOK'
  BY DEF TakenOK, Outlasts, Exists, IsLive, IsDeleted
<1> QED
  BY <1>1, <1>2, <1>3

-----------------------------------------------------------------------------
(* Requests begin *)

\* What is known of the requests once one has begun.
Begun(j, pc, target, datasets, kpis) ==
    /\ j \notin Busy /\ Busy' = Busy \cup {j}
    /\ job' \in [Job -> JobRecord]
    /\ job'[j].pc = pc /\ job'[j].target = target
    /\ job'[j].datasets = datasets /\ job'[j].kpis = kpis
    /\ job'[j].met <=> Busy # {}
    /\ \A i \in Job \ {j} :
           /\ job'[i].pc = job[i].pc /\ job'[i].target = job[i].target
           /\ job'[i].datasets = job[i].datasets /\ job'[i].kpis = job[i].kpis
           /\ job'[i].met <=> i \in Busy

LEMMA BeginFacts ==
    ASSUME Typed, NEW j \in Job, NEW pc \in {"insert", "stamp", "restore"},
           NEW op \in {"create_dataset", "generate", "detect", "delete_dataset",
                       "delete_connector", "restore_dataset", "restore_connector"},
           NEW target \in Row, NEW datasets \in SUBSET Dataset, NEW kpis \in SUBSET Kpi,
           Begin(j, pc, op, target, datasets, kpis)
    PROVE  Begun(j, pc, target, datasets, kpis)
<1> DEFINE new == [pc |-> pc, op |-> op, target |-> target, datasets |-> datasets,
                   kpis |-> kpis, met |-> Busy # {}]
<1>1. /\ job[j].pc = "idle"
      /\ job' = [k \in Job |-> IF k = j THEN new ELSE [job[k] EXCEPT !.met = k \in Busy]]
  BY DEF Begin, At
<1>2. job'[j] = new
  BY <1>1
<1>3. \A i \in Job \ {j} : job'[i] = [job[i] EXCEPT !.met = i \in Busy]
  BY <1>1
<1>4. new \in JobRecord
  BY DEF JobRecord
<1>5. \A i \in Job : job[i] \in JobRecord
  BY DEF Typed
<1>6. ASSUME NEW i \in Job \ {j}
      PROVE  /\ job'[i] \in JobRecord
             /\ job'[i].pc = job[i].pc /\ job'[i].target = job[i].target
             /\ job'[i].datasets = job[i].datasets /\ job'[i].kpis = job[i].kpis
             /\ (job'[i].met <=> i \in Busy)
  <2> DEFINE b == i \in Busy
  <2>1. b \in BOOLEAN /\ (b <=> i \in Busy)
    OBVIOUS
  <2>2. job'[i] = [job[i] EXCEPT !.met = b]
    BY <1>3
  <2> HIDE DEF b
  <2>3. /\ job'[i] \in JobRecord /\ job'[i].met = b
        /\ job'[i].pc = job[i].pc /\ job'[i].target = job[i].target
        /\ job'[i].datasets = job[i].datasets /\ job'[i].kpis = job[i].kpis
    BY <1>5, <2>1, <2>2 DEF JobRecord
  <2> QED
    BY <2>1, <2>3
<1>7. job' \in [Job -> JobRecord]
  <2> HIDE DEF new
  <2>1. \A i \in Job : job'[i] \in JobRecord
    BY <1>2, <1>4, <1>6
  <2>2. job' = [k \in Job |-> job'[k]]
    BY <1>1
  <2> QED
    BY <2>1, <2>2
<1>8. j \notin Busy /\ Busy' = Busy \cup {j}
  BY <1>1, <1>2, <1>6 DEF Busy, At
<1>9. /\ job'[j].pc = pc /\ job'[j].target = target
      /\ job'[j].datasets = datasets /\ job'[j].kpis = kpis
  BY <1>2
<1>10. job'[j].met <=> Busy # {}
  <2> DEFINE b == Busy # {}
  <2>1. b <=> Busy # {}
    OBVIOUS
  <2>2. job'[j] = [pc |-> pc, op |-> op, target |-> target, datasets |-> datasets,
                   kpis |-> kpis, met |-> b]
    BY <1>2
  <2> HIDE DEF b
  <2>3. job'[j].met = b
    BY <2>2
  <2> QED
    BY <2>1, <2>3
<1> HIDE DEF new
<1> QED
  BY <1>6, <1>7, <1>8, <1>9, <1>10 DEF Begun

\* Those under way only learn that they have met one more.
LEMMA BeginKeeps ==
    ASSUME IInv, NEW j \in Job, NEW pc \in {"insert", "stamp", "restore"},
           NEW op \in {"create_dataset", "generate", "detect", "delete_dataset",
                       "delete_connector", "restore_dataset", "restore_connector"},
           NEW target \in Row, NEW datasets \in SUBSET Dataset, NEW kpis \in SUBSET Kpi,
           Begin(j, pc, op, target, datasets, kpis),
           \A i \in Busy : At(i, "insert") => job[i].target # target,
           pc = "insert" => InsertOK(j)',
           pc = "stamp" => StampOK(j)',
           pc = "restore" => RestoreOK(j)'
    PROVE  IInv'
<1>0. Begun(j, pc, target, datasets, kpis)
  BY BeginFacts DEF IInv
<1> USE DEF IInv
<1>1. UNCHANGED <<row, schema, description, clock, history>> /\ starts' \in 0 .. MaxStarts
  BY CatalogAssumption DEF Begin, Typed, CatalogAssumption
<1>2. /\ j \notin Busy /\ Busy' = Busy \cup {j}
      /\ job' \in [Job -> JobRecord]
      /\ job'[j].pc = pc /\ job'[j].target = target
      /\ job'[j].met <=> Busy # {}
      /\ \A i \in Job \ {j} :
             /\ job'[i].pc = job[i].pc /\ job'[i].target = job[i].target
             /\ job'[i].datasets = job[i].datasets /\ job'[i].kpis = job[i].kpis
             /\ job'[i].met <=> i \in Busy
  BY <1>0 DEF Begun
<1>3. Typed'
  BY <1>1, <1>2 DEF Typed, history
<1>4. AllMet'
  <2> SUFFICES ASSUME NEW i \in Busy', NEW k \in Busy', i # k
               PROVE  job'[i].met
    BY DEF AllMet
  <2>1. i \in Job /\ k \in Job
    BY DEF Busy
  <2>2. CASE i = j
    BY <1>2, <2>2
  <2>3. CASE i # j
    BY <1>2, <2>1, <2>3
  <2> QED
    BY <2>2, <2>3
<1>5. ASSUME NEW i \in Job \ {j}
      PROVE  /\ At(i, "insert")' => InsertOK(i)'
             /\ At(i, "stamp")' => StampOK(i)'
             /\ At(i, "restore")' => RestoreOK(i)'
  <2>1. At(i, "insert")' => InsertOK(i)'
    <3> SUFFICES ASSUME At(i, "insert")' PROVE InsertOK(i)'
      OBVIOUS
    <3>1. At(i, "insert") /\ InsertOK(i) /\ i \in Busy
      BY <1>2 DEF JobsOK, At, Busy
    <3>2. \A k \in Busy' \ {i} : job'[k].target # job'[i].target
      BY <1>2, <3>1 DEF InsertOK, Busy
    <3> QED
      BY <1>1, <1>2, <3>1, <3>2 DEF InsertOK
  <2>2. At(i, "stamp")' => StampOK(i)'
    <3> SUFFICES ASSUME At(i, "stamp")' PROVE StampOK(i)'
      OBVIOUS
    <3>1. StampOK(i)
      BY <1>2 DEF JobsOK, At
    <3> QED
      BY <1>1, <1>2, <3>1 DEF StampOK, CollectedOK, Recent, OnlyHurried, Missed, IsLive, IsDeleted,
         history
  <2>3. At(i, "restore")' => RestoreOK(i)'
    <3> SUFFICES ASSUME At(i, "restore")' PROVE RestoreOK(i)'
      OBVIOUS
    <3>1. RestoreOK(i) /\ job'[i].met
      BY <1>2 DEF JobsOK, At, Busy
    <3> QED
      BY <1>1, <1>2, <3>1 DEF RestoreOK, CollectedOK
  <2> QED
    BY <2>1, <2>2, <2>3
<1>6. JobsOK'
  <2>1. ASSUME NEW q \in {"insert", "stamp", "restore"}, At(j, q)' PROVE q = pc
    BY <1>2, <2>1 DEF At
  <2> QED
    BY <1>5, <2>1 DEF JobsOK
<1> QED
  BY <1>1, <1>3, <1>4, <1>6, RowsUnchanged

LEMMA InsertBegins ==
    ASSUME IInv, NEW j \in Job, NEW r \in Row \ Connector,
           NEW op \in {"create_dataset", "generate", "detect"},
           Unused(r), IsLive(ParentOf[r]), Begin(j, "insert", op, r, {}, {})
    PROVE  IInv'
<1>0. r \in Row /\ {} \in SUBSET Dataset /\ {} \in SUBSET Kpi
  OBVIOUS
<1>1. /\ Busy' = Busy \cup {j} /\ job'[j].target = r
      /\ \A i \in Job \ {j} : job'[i].target = job[i].target
      /\ UNCHANGED row
  <2>1. Begun(j, "insert", r, {}, {})
    BY <1>0, BeginFacts DEF IInv
  <2> QED
    BY <2>1 DEF Begun, Begin
<1>2. ~IsDeleted(ParentOf[r])'
  BY <1>1 DEF IsLive, IsDeleted
<1>3. InsertOK(j)'
  BY <1>1, <1>2 DEF InsertOK, Unused, Busy
<1> QED
  BY <1>0, <1>3, BeginKeeps DEF Unused

\* What a cascade leaves out when it collects the rows alive of its datasets.
LEMMA DeletionBegins ==
    ASSUME IInv, NEW j \in Job, NEW t \in Connector \cup Dataset,
           NEW op \in {"delete_dataset", "delete_connector"}, NEW datasets \in SUBSET Dataset,
           NEW kpis, kpis = OnlyLive(Below(Kpi, datasets)), IsLive(t),
           \/ t \in Dataset /\ datasets = {t}
           \/ t \in Connector /\ datasets = OnlyLive(Below(Dataset, {t})),
           Begin(j, "stamp", op, t, datasets, kpis)
    PROVE  IInv'
<1> USE DEF IInv
<1> DEFINE missed == Below(Dataset, {t}) \ datasets
<1>1. t \in Row /\ kpis \in SUBSET Kpi
  BY DEF Row, OnlyLive, Below
<1>2. /\ job'[j].target = t /\ job'[j].datasets = datasets /\ job'[j].kpis = kpis
      /\ UNCHANGED <<row, clock, history>>
  <2>1. Begun(j, "stamp", t, datasets, kpis)
    BY <1>1, BeginFacts
  <2> QED
    BY <2>1 DEF Begun, Begin
<1>3. \A i \in Busy : At(i, "insert") => job[i].target # t
  BY <1>1, RowStates DEF JobsOK, InsertOK, Busy
<1>4. CollectedOK(j)'
  <2>1. row[t] # None
    BY <1>1, RowStates
  <2>2. t \in Dataset => datasets = {t}
    BY Kinds
  <2>3. t \in Connector => datasets \subseteq Below(Dataset, {t})
    BY Kinds DEF OnlyLive
  <2> QED
    BY <1>2, <2>1, <2>2, <2>3 DEF CollectedOK, OnlyLive
<1>5. Recent({t} \cup datasets \cup kpis)'
  <2>1. \A q \in {t} \cup datasets \cup kpis : q \in Row /\ IsLive(q)
    BY <1>1 DEF OnlyLive, Below, Row
  <2>2. \A q \in {t} \cup datasets \cup kpis : row[q] # None /\ ~IsDeleted(q)
    BY <2>1, RowStates
  <2> QED
    BY <1>2, <2>2 DEF Recent, IsDeleted
<1>6. \A d \in missed : d \in Dataset /\ ~IsLive(d)
  BY Kinds DEF OnlyLive, Below
<1>7. \A k \in Below(Kpi, datasets) \ kpis : k \in Kpi /\ ~IsLive(k)
  BY DEF OnlyLive, Below
<1>8. ASSUME NEW q \in Kpi \cup Leaf, IsLive(q), ~IsLive(ParentOf[q])
      PROVE  q \in hurried
  <2>1. q \in Row \ Connector /\ q \notin Dataset /\ Exists(q)
    BY <1>8, Kinds, RowStates DEF Row
  <2>2. IsDeleted(ParentOf[q])
    BY <1>8, <2>1 DEF KeysHold, Exists
  <2>3. ~IsDeleted(q)
    BY <1>8, <2>1, RowStates
  <2> QED
    BY <2>1, <2>2, <2>3 DEF NothingOutlives, Typed
<1>9. OnlyHurried(missed) /\ OnlyHurried(Below(Kpi, missed))
  BY <1>6, <1>8 DEF OnlyHurried, Below
<1>10. OnlyHurried(Below(Leaf, Below(Kpi, datasets) \ kpis))
  BY <1>7, <1>8 DEF OnlyHurried, Below
<1>11. StampOK(j)'
  <2>1. Missed(j)' = missed
    BY <1>2 DEF Missed
  <2>2. /\ OnlyHurried(missed)' /\ OnlyHurried(Below(Kpi, missed))'
        /\ OnlyHurried(Below(Leaf, Below(Kpi, datasets) \ kpis))'
    BY <1>2, <1>9, <1>10 DEF OnlyHurried, IsLive, history
  <2> QED
    BY <1>2, <1>4, <1>5, <2>1, <2>2 DEF StampOK
<1> QED
  BY <1>1, <1>3, <1>11, BeginKeeps

LEMMA RestorationBegins ==
    ASSUME IInv, NEW j \in Job, NEW t \in Connector \cup Dataset,
           NEW op \in {"restore_dataset", "restore_connector"}, NEW datasets \in SUBSET Dataset,
           NEW kpis, kpis = OnlyDeleted(Below(Kpi, datasets)), IsDeleted(t),
           \/ t \in Dataset /\ datasets = {t}
           \/ t \in Connector /\ datasets = OnlyDeleted(Below(Dataset, {t})),
           Begin(j, "restore", op, t, datasets, kpis)
    PROVE  IInv'
<1>1. t \in Row /\ kpis \in SUBSET Kpi
  BY DEF Row, OnlyDeleted, Below
<1>2. /\ job'[j].target = t /\ job'[j].datasets = datasets /\ job'[j].kpis = kpis
      /\ UNCHANGED row
  <2>1. Begun(j, "restore", t, datasets, kpis)
    BY <1>1, BeginFacts DEF IInv
  <2> QED
    BY <2>1 DEF Begun, Begin
<1>3. row[t] # None
  BY <1>1, RowStates DEF Exists
<1>4. \A i \in Busy : At(i, "insert") => job[i].target # t
  BY <1>3 DEF IInv, JobsOK, InsertOK, Busy
<1>5. CollectedOK(j)'
  <2>1. t \in Dataset => datasets = {t}
    BY Kinds
  <2>2. t \in Connector => datasets \subseteq Below(Dataset, {t})
    BY Kinds DEF OnlyDeleted
  <2> QED
    BY <1>2, <1>3, <2>1, <2>2 DEF CollectedOK, OnlyDeleted
<1>6. \A d \in Below(Dataset, {t}) \ datasets : ~IsDeleted(d)'
  BY <1>2, Kinds DEF OnlyDeleted, Below, IsDeleted
<1>7. RestoreOK(j)'
  BY <1>2, <1>5, <1>6 DEF RestoreOK, Missed
<1> QED
  BY <1>1, <1>4, <1>7, BeginKeeps

-----------------------------------------------------------------------------
(* Requests end *)

\* What a step of one request does to the rows, as far as the others can tell.
StepOfOne(j) ==
    /\ j \in Busy
    /\ job' = [job EXCEPT ![j] = Idle]
    /\ hurried \subseteq hurried'
    /\ UNCHANGED clock
    /\ \A r \in Row :
           \/ row'[r] = row[r]
           \/ row'[r] = Stamp /\ row[r] # None
           \/ /\ row'[r] = Live /\ (row[r] # None \/ (At(j, "insert") /\ r = job[j].target))
              /\ job[j].met => r \in hurried'

LEMMA EndFacts ==
    ASSUME Typed, NEW j \in Job, job' = [job EXCEPT ![j] = Idle]
    PROVE  /\ job' \in [Job -> JobRecord] /\ job'[j] = Idle
           /\ \A i \in Job \ {j} : job'[i] = job[i]
           /\ Busy' = Busy \ {j} /\ Idle.pc = "idle"
<1>1. Idle \in JobRecord /\ Idle.pc = "idle"
  BY DEF Idle, JobRecord
<1>2. /\ job' \in [Job -> JobRecord] /\ job'[j] = Idle
      /\ \A i \in Job \ {j} : job'[i] = job[i]
  BY <1>1 DEF Typed
<1> QED
  BY <1>1, <1>2 DEF Busy, At

LEMMA OthersKeep ==
    ASSUME IInv, NEW j \in Job, StepOfOne(j)
    PROVE  AllMet' /\ JobsOK'
<1> USE DEF IInv, StepOfOne
<1>1. /\ job'[j] = Idle /\ Idle.pc = "idle"
      /\ \A i \in Job \ {j} : job'[i] = job[i]
      /\ Busy' = Busy \ {j}
  BY EndFacts
<1>2. AllMet'
  BY <1>1 DEF AllMet, Busy
<1>3. \A q \in Row : row[q] # None => row'[q] # None
  BY CellFacts
<1>4. ASSUME NEW i \in Job \ {j}, i \in Busy
      PROVE  /\ job[j].met /\ job[i].met /\ job'[i] = job[i]
             /\ \A q \in Row : IsLive(q)' => IsLive(q) \/ q \in hurried'
  <2>1. job[j].met /\ job[i].met /\ job'[i] = job[i]
    BY <1>1, <1>4 DEF AllMet
  <2> QED
    BY <2>1, CellFacts DEF IsLive
<1>5. ASSUME NEW i \in Job \ {j}, At(i, "insert")' PROVE InsertOK(i)'
  <2>1. At(i, "insert") /\ i \in Busy
    BY <1>1, <1>5 DEF At, Busy
  <2>2. InsertOK(i) /\ job[i].met /\ job'[i] = job[i]
    BY <1>4, <2>1 DEF JobsOK
  <2>3. job[j].target # job[i].target /\ job[i].target \in Row /\ row[job[i].target] = None
    BY <2>2 DEF InsertOK
  <2>4. row'[job[i].target] = None
    BY <2>3
  <2>5. \A k \in Busy' \ {i} : job'[k].target # job[i].target
    BY <1>1, <2>2 DEF InsertOK, Busy
  <2> QED
    BY <2>2, <2>3, <2>4, <2>5 DEF InsertOK
<1>6. ASSUME NEW i \in Job \ {j}, At(i, "stamp")' PROVE StampOK(i)'
  <2>1. At(i, "stamp") /\ i \in Busy
    BY <1>1, <1>6 DEF At, Busy
  <2>2. /\ StampOK(i) /\ job'[i] = job[i]
        /\ \A q \in Row : IsLive(q)' => IsLive(q) \/ q \in hurried'
    BY <1>4, <2>1 DEF JobsOK
  <2>3. {job[i].target} \cup job[i].datasets \cup job[i].kpis \subseteq Row
    BY <2>2 DEF StampOK, CollectedOK, Below, Row, Typed, JobRecord
  <2>4. CollectedOK(i)'
    BY <1>3, <2>2, <2>3 DEF StampOK, CollectedOK
  <2>5. \A q \in Row : IsDeleted(q)' => (IsDeleted(q) /\ row'[q] = row[q]) \/ row'[q].at = clock
    BY CellFacts DEF IsDeleted
  <2>6. Recent({job[i].target} \cup job[i].datasets \cup job[i].kpis)'
    BY <1>3, <2>2, <2>3, <2>5 DEF StampOK, Recent
  <2>7. ASSUME NEW S \in SUBSET Row, OnlyHurried(S)
        PROVE  \A q \in S : IsLive(q)' => q \in hurried'
    BY <2>2, <2>7 DEF OnlyHurried
  <2>8. /\ Missed(i) \in SUBSET Row /\ Below(Kpi, Missed(i)) \in SUBSET Row
        /\ Below(Leaf, Below(Kpi, job[i].datasets) \ job[i].kpis) \in SUBSET Row
    BY DEF Missed, Below, Row
  <2>9. /\ \A q \in Missed(i) : IsLive(q)' => q \in hurried'
        /\ \A q \in Below(Kpi, Missed(i)) : IsLive(q)' => q \in hurried'
        /\ \A q \in Below(Leaf, Below(Kpi, job[i].datasets) \ job[i].kpis) :
               IsLive(q)' => q \in hurried'
    BY <2>2, <2>7, <2>8 DEF StampOK
  <2>10. Missed(i)' = Missed(i)
    BY <2>2 DEF Missed
  <2> QED
    BY <2>2, <2>4, <2>6, <2>9, <2>10 DEF StampOK, OnlyHurried
<1>7. ASSUME NEW i \in Job \ {j}, At(i, "restore")' PROVE RestoreOK(i)'
  <2>1. At(i, "restore") /\ i \in Busy
    BY <1>1, <1>7 DEF At, Busy
  <2>2. RestoreOK(i) /\ job[i].met /\ job'[i] = job[i]
    BY <1>4, <2>1 DEF JobsOK
  <2>3. job[i].target \in Row
    BY <2>2 DEF RestoreOK, CollectedOK, Row
  <2> QED
    BY <1>3, <2>2, <2>3 DEF RestoreOK, CollectedOK
<1>8. JobsOK'
  BY <1>1, <1>5, <1>6, <1>7 DEF JobsOK, At
<1> QED
  BY <1>2, <1>8

LEMMA RefusedKeeps ==
    ASSUME IInv, NEW j \in Job, j \in Busy, Refused(j)
    PROVE  IInv'
<1> USE DEF IInv
<1>1. /\ job' = [job EXCEPT ![j] = Idle]
      /\ UNCHANGED <<row, schema, description, clock, starts, history>>
  BY DEF Refused, Finish
<1>2. StepOfOne(j)
  BY <1>1 DEF StepOfOne, history
<1>3. AllMet' /\ JobsOK'
  BY <1>2, OthersKeep
<1>4. Typed'
  BY <1>1, EndFacts DEF Typed, history
<1> QED
  BY <1>1, <1>3, <1>4, RowsUnchanged

LEMMA InsertKeeps ==
    ASSUME IInv, NEW j \in Job, insert(j)
    PROVE  IInv'
<1> USE DEF IInv
<1> DEFINE r == job[j].target
<1>1. /\ At(j, "insert") /\ Exists(ParentOf[r])
      /\ row' = [row EXCEPT ![r] = Live]
      /\ hurried' = IF job[j].met THEN hurried \cup {r} ELSE hurried
      /\ job' = [job EXCEPT ![j] = Idle]
      /\ UNCHANGED <<schema, description, clock, starts, revived, taken>>
  BY DEF insert, Insertable, Hurry, Finish
<1>2. /\ InsertOK(j) /\ r \in Row \ Connector /\ row[r] = None /\ j \in Busy
      /\ ~job[j].met => ~IsDeleted(ParentOf[r])
  BY <1>1 DEF JobsOK, InsertOK, Busy, At
<1>3. ParentOf[r] \in Row /\ ParentOf[r] # r
  BY <1>1, <1>2, Kinds, RowStates
<1> HIDE DEF r
<1>4. row'[r] = Live /\ (\A q \in Row \ {r} : row'[q] = row[q]) /\ row' \in [Row -> Cell]
  BY <1>1, <1>2, CellFacts DEF Typed
<1>5. StepOfOne(j)
  BY <1>1, <1>2, <1>4 DEF StepOfOne, r
<1>6. AllMet' /\ JobsOK'
  BY <1>5, OthersKeep
<1>7. Typed'
  BY <1>1, <1>2, <1>4, EndFacts DEF Typed
<1>8. row[r].state = "none" /\ row'[r].state = "live"
  BY <1>2, <1>4, CellFacts
<1>9. KeysHold'
  BY <1>1, <1>3, <1>4, <1>8, Kinds DEF KeysHold, Exists, IsLive, IsDeleted
<1>10. NoneFromTomorrow'
  BY <1>1, <1>4, <1>8 DEF NoneFromTomorrow, IsDeleted
<1>11. NothingOutlives'
  <2> SUFFICES ASSUME NEW q \in Row \ Connector, Exists(q)', IsDeleted(ParentOf[q])',
                      q \notin hurried' \cup revived'
               PROVE  IsDeleted(q)' /\ row'[q].at <= row'[ParentOf[q]].at
    BY DEF NothingOutlives
  <2>1. ParentOf[q] \in Row \ {r} /\ IsDeleted(ParentOf[q])
    BY <1>4, <1>8, Kinds DEF IsDeleted
  <2>2. q # r
    BY <1>1, <1>2, <2>1 DEF r
  <2> QED
    BY <1>1, <1>4, <1>8, <2>1, <2>2 DEF NothingOutlives, Exists, IsLive, IsDeleted
<1>12. KpisGoWithDataset'
  <2> SUFFICES ASSUME NEW k \in Kpi, IsDeleted(k)', IsLive(ParentOf[k])'
               PROVE  ParentOf[k] \in hurried'
    BY DEF KpisGoWithDataset
  <2>1. k \in Row \ Connector /\ ParentOf[k] \in Row /\ IsDeleted(k) /\ k # r
    BY <1>4, <1>8, Kinds DEF Row, IsDeleted
  <2>2. Exists(ParentOf[k])
    BY <2>1 DEF KeysHold, Exists
  <2> QED
    BY <1>1, <1>4, <1>8, <2>1, <2>2 DEF KpisGoWithDataset, Exists, IsLive, IsDeleted
<1>13. TakenOK'
  <2> SUFFICES ASSUME NEW p \in Row
               PROVE  /\ taken[p] # {} => p \in Connector \cup Dataset
                                          /\ row'[p].state \in {"deleted", "purged"}
                      /\ \A q \in taken[p] :
                             /\ p \in Line(q) \/ \E d \in Line(q) \cap Dataset : ParentOf[d] = p
                             /\ IsDeleted(p)' => \A x \in Line(q) : Outlasts(x, p)'
    BY <1>1 DEF TakenOK
  <2>1. taken[p] # {} => p # r
    BY <1>2, RowStates DEF TakenOK
  <2>2. ASSUME NEW q \in taken[p], IsDeleted(p)', NEW x \in Line(q)
        PROVE  Outlasts(x, p)'
    <3>1. p # r /\ row'[p] = row[p] /\ IsDeleted(p)
      BY <1>4, <1>8, <2>1, <2>2 DEF IsDeleted
    <3>2. Outlasts(x, p)
      BY <2>2, <3>1 DEF TakenOK
    <3>3. x \in Row
      BY <2>2, Kinds DEF Typed, Line, Row
    <3>4. x # r
      BY <1>8, <3>2 DEF Outlasts, Exists, IsLive, IsDeleted
    <3> QED
      BY <1>4, <1>8, <3>1, <3>2, <3>3, <3>4 DEF Outlasts, Exists, IsLive, IsDeleted
  <2> QED
    BY <1>4, <2>1, <2>2 DEF TakenOK
<1> QED
  BY <1>6, <1>7, <1>9, <1>10, <1>11, <1>12, <1>13

-----------------------------------------------------------------------------
(* Cascades end *)

\* Where a cascade gets to, by kind of row.
LEMMA ReachedFacts ==
    ASSUME Typed, NEW j \in Job, CollectedOK(j)
    PROVE  /\ Reached(j) \subseteq Dataset \cup Kpi \cup Leaf
           /\ \A d \in Dataset : d \in job[j].datasets => d \in Reached(j)
           /\ \A d \in Dataset : d \in Reached(j) =>
                  \/ d = job[j].target
                  \/ job[j].target \in Connector /\ ParentOf[d] = job[j].target
           /\ \A k \in Kpi : k \in Reached(j) <=> ParentOf[k] \in job[j].datasets
           /\ \A l \in Leaf : l \in Reached(j) <=> ParentOf[l] \in job[j].kpis
<1>1. job[j].datasets \subseteq Dataset /\ job[j].kpis \subseteq Kpi
  BY DEF Typed, JobRecord
<1>2. Datasets(j) \subseteq Dataset /\ job[j].datasets \subseteq Datasets(j)
  BY <1>1 DEF Datasets, CollectedOK, Below
<1>3. \A d \in Datasets(j) :
          \/ d = job[j].target
          \/ job[j].target \in Connector /\ ParentOf[d] = job[j].target
  BY <1>1 DEF Datasets, CollectedOK, Below
<1>4. /\ \A d \in Dataset : d \in Reached(j) <=> d \in Datasets(j)
      /\ \A k \in Kpi : k \in Reached(j) <=> ParentOf[k] \in job[j].datasets
      /\ \A l \in Leaf : l \in Reached(j) <=> ParentOf[l] \in job[j].kpis
  BY <1>2, Kinds DEF Reached, Below
<1> QED
  BY <1>2, <1>3, <1>4 DEF Reached, Below

LEMMA LineFacts ==
    /\ \A r \in Row : r \in Line(r) /\ Line(r) \subseteq Row
    /\ \A r \in Connector \cup Dataset : Line(r) = {r}
    /\ \A k \in Kpi : Line(k) = {k, ParentOf[k]}
    /\ \A l \in Leaf : Line(l) = {l, ParentOf[l], ParentOf[ParentOf[l]]}
    /\ KeysHold => \A r \in Row : Exists(r) => \A x \in Line(r) : Exists(x)
<1>1. \A r \in Connector \cup Dataset : Line(r) = {r}
  BY Kinds DEF Line
<1>2. \A k \in Kpi : Line(k) = {k, ParentOf[k]}
  BY Kinds DEF Line
<1>3. \A l \in Leaf : Line(l) = {l, ParentOf[l], ParentOf[ParentOf[l]]}
  BY Kinds DEF Line
<1>4. \A r \in Row : r \in Line(r) /\ Line(r) \subseteq Row
  BY <1>1, <1>2, <1>3, Kinds DEF Row
<1>5. ASSUME KeysHold, NEW r \in Row, Exists(r)
      PROVE  \A x \in Line(r) : Exists(x)
  <2>1. CASE r \in Connector \cup Dataset
    BY <1>1, <1>5, <2>1
  <2>2. CASE r \in Kpi
    BY <1>2, <1>5, <2>2, Kinds DEF KeysHold
  <2>3. CASE r \in Leaf
    <3>1. ParentOf[r] \in Row \ Connector /\ Exists(ParentOf[r])
      BY <1>5, <2>3, Kinds DEF KeysHold, Row
    <3> QED
      BY <1>3, <1>5, <2>3, <3>1 DEF KeysHold
  <2> QED
    BY <2>1, <2>2, <2>3 DEF Row
<1> QED
  BY <1>1, <1>2, <1>3, <1>4, <1>5

LEMMA StampKeeps ==
    ASSUME IInv, NEW j \in Job, stamp(j)
    PROVE  IInv'
<1> USE DEF IInv
<1> DEFINE t == job[j].target
           D == job[j].datasets
           K == job[j].kpis
           rows == {t} \cup OnlyLive(Reached(j))
<1>1. /\ At(j, "stamp") /\ Exists(t)
      /\ row' = Put(row, rows, Stamp)
      /\ taken' = [taken EXCEPT ![t] = rows]
      /\ job' = [job EXCEPT ![j] = Idle]
      /\ UNCHANGED <<clock, starts, hurried, revived>>
  BY DEF stamp, Finish
<1>2. StampOK(j) /\ j \in Busy
  BY <1>1 DEF JobsOK, Busy, At
<1>3. /\ CollectedOK(j) /\ t \in Row /\ t \in Connector \cup Dataset
      /\ D \subseteq Dataset /\ K \subseteq Kpi
      /\ t \in Dataset => D = {t}
      /\ \A k \in K : ParentOf[k] \in D
      /\ \A q \in {t} \cup D \cup K : IsDeleted(q) => row[q].at = clock
  BY <1>2 DEF StampOK, CollectedOK, Row, Typed, JobRecord, Recent, Below
<1>4. /\ rows \subseteq Row /\ t \in rows
      /\ \A q \in rows : Exists(q) /\ (q = t \/ (q \in Reached(j) /\ IsLive(q)))
      /\ \A q \in Reached(j) : IsLive(q) => q \in rows
  BY <1>1, <1>3, ReachedFacts, RowStates DEF OnlyLive, Row, Exists
<1> HIDE DEF rows
<1>5. /\ \A q \in rows : row'[q].state = "deleted" /\ row'[q].at = clock /\ row'[q] = Stamp
      /\ \A q \in Row \ rows : row'[q] = row[q]
      /\ row' \in [Row -> Cell]
  <2>1. Stamp \in Cell /\ Stamp.state = "deleted" /\ Stamp.at = clock
    BY CellFacts DEF Typed
  <2>2. row' \in [Row -> Cell]
    BY <1>1, <2>1, PutTyped DEF Typed
  <2>3. DOMAIN row = Row
    BY DEF Typed
  <2>4. \A q \in Row : row'[q] = IF q \in rows THEN Stamp ELSE row[q]
    BY <1>1, <2>3, PutFacts
  <2> QED
    BY <1>4, <2>1, <2>2, <2>4
<1>6. StepOfOne(j)
  <2>1. \A q \in rows : row[q] # None
    BY <1>4, RowStates
  <2> QED
    BY <1>1, <1>2, <1>5, <2>1 DEF StepOfOne
<1>7. AllMet' /\ JobsOK'
  BY <1>6, OthersKeep
<1>8. Typed'
  <2>1. Stamp \in Cell
    BY CellFacts DEF Typed
  <2>2. schema' \in [Dataset -> Cell] /\ description' \in [Table -> Cell]
    BY <2>1, PutWhereTyped DEF stamp, Typed
  <2>3. taken' \in [Row -> SUBSET Row]
    BY <1>1, <1>3, <1>4 DEF Typed
  <2> QED
    BY <1>1, <1>5, <2>2, <2>3, EndFacts DEF Typed
<1>9. \A q \in Row : Exists(q)' <=> Exists(q)
  BY <1>4, <1>5 DEF Exists, IsLive, IsDeleted
<1>10. KeysHold' /\ NoneFromTomorrow'
  BY <1>1, <1>5, <1>9, Kinds DEF KeysHold, NoneFromTomorrow, IsDeleted, Typed
<1>11. \A q \in Row \ Connector : IsLive(q) /\ q \notin rows /\ ParentOf[q] \in rows => q \in hurried
  <2> SUFFICES ASSUME NEW q \in Row \ Connector, IsLive(q), q \notin rows, ParentOf[q] \in rows
               PROVE  q \in hurried
    OBVIOUS
  <2> DEFINE p == ParentOf[q]
  <2>1. q \notin Reached(j) /\ (p = t \/ p \in Reached(j))
    BY <1>4
  <2>2. CASE q \in Dataset
    <3>1. p = t
      BY <1>3, <2>1, <2>2, Kinds, ReachedFacts
    <3>2. q \in Missed(j)
      BY <1>3, <2>1, <2>2, <3>1, ReachedFacts DEF Missed, Below
    <3> QED
      BY <1>2, <3>2 DEF StampOK, OnlyHurried
  <2>3. CASE q \in Kpi
    <3>1. p \in Dataset /\ p \notin D /\ p # t
      BY <1>3, <2>1, <2>3, Kinds, ReachedFacts
    <3>2. p \in Missed(j)
      BY <1>3, <2>1, <3>1, ReachedFacts DEF Missed, Below
    <3> QED
      BY <1>2, <2>3, <3>2 DEF StampOK, OnlyHurried, Below
  <2>4. CASE q \in Leaf
    <3>1. p \in Kpi /\ p \notin K /\ p \in Reached(j)
      BY <1>3, <2>1, <2>4, Kinds, ReachedFacts
    <3>2. ParentOf[p] \in D
      BY <1>3, <3>1, ReachedFacts
    <3> QED
      BY <1>2, <2>4, <3>1, <3>2 DEF StampOK, OnlyHurried, Below
  <2> QED
    BY <2>2, <2>3, <2>4 DEF Row
<1>12. NothingOutlives'
  <2> SUFFICES ASSUME NEW q \in Row \ Connector, Exists(q)', IsDeleted(ParentOf[q])',
                      q \notin hurried \cup revived
               PROVE  IsDeleted(q)' /\ row'[q].at <= row'[ParentOf[q]].at
    BY <1>1 DEF NothingOutlives
  <2> DEFINE p == ParentOf[q]
  <2>1. p \in Row /\ Exists(q) /\ q \in Row /\ clock \in Nat
    BY <1>9, Kinds DEF Typed
  <2>2. CASE q \in rows
    <3>1. row'[q].at = clock /\ IsDeleted(q)'
      BY <1>5, <2>2 DEF IsDeleted
    <3>2. CASE p \in rows
      BY <1>5, <2>1, <3>1, <3>2
    <3>3. CASE p \notin rows
      <4>1. IsDeleted(p) /\ row'[p] = row[p]
        BY <1>5, <2>1, <3>3 DEF IsDeleted
      <4>2. IsDeleted(q) /\ row[q].at <= row[p].at
        BY <2>1, <4>1 DEF NothingOutlives
      <4>3. q = t
        BY <1>4, <2>1, <2>2, <4>2, RowStates
      <4>4. row[q].at = clock
        BY <1>3, <4>2, <4>3
      <4> QED
        BY <3>1, <4>1, <4>2, <4>4
    <3> QED
      BY <3>2, <3>3
  <2>3. CASE q \notin rows
    <3>1. row'[q] = row[q]
      BY <1>5, <2>1, <2>3
    <3>2. CASE p \in rows
      <4>1. IsDeleted(q)
        BY <1>11, <2>1, <2>3, <3>2 DEF Exists
      <4>2. row'[p].at = clock
        BY <1>5, <3>2
      <4> QED
        BY <2>1, <3>1, <4>1, <4>2 DEF NoneFromTomorrow, IsDeleted
    <3>3. CASE p \notin rows
      <4>1. IsDeleted(p) /\ row'[p] = row[p]
        BY <1>5, <2>1, <3>3 DEF IsDeleted
      <4> QED
        BY <2>1, <3>1, <4>1 DEF NothingOutlives, IsDeleted
    <3> QED
      BY <3>2, <3>3
  <2> QED
    BY <2>2, <2>3
<1>13. KpisGoWithDataset'
  <2> SUFFICES ASSUME NEW k \in Kpi, IsDeleted(k)', IsLive(ParentOf[k])'
               PROVE  ParentOf[k] \in hurried
    BY <1>1 DEF KpisGoWithDataset
  <2> DEFINE d == ParentOf[k]
  <2>1. d \in Dataset /\ d \in Row /\ k \in Row
    BY Kinds DEF Row
  <2>2. d \notin rows /\ IsLive(d)
    BY <1>5, <2>1 DEF IsLive
  <2>3. k \notin rows
    <3>1. d \notin D
      BY <1>3, <1>4, <2>1, <2>2, ReachedFacts
    <3> QED
      BY <1>3, <1>4, <3>1, Kinds, ReachedFacts
  <2>4. IsDeleted(k)
    BY <1>5, <2>1, <2>3 DEF IsDeleted
  <2> QED
    BY <2>2, <2>4 DEF KpisGoWithDataset
<1>14. \A q \in rows : /\ t \in Line(q) \/ \E d \in Line(q) \cap Dataset : ParentOf[d] = t
                       /\ Line(q) \subseteq {q} \cup D \cup K
  <2> SUFFICES ASSUME NEW q \in rows
               PROVE  /\ t \in Line(q) \/ \E d \in Line(q) \cap Dataset : ParentOf[d] = t
                      /\ Line(q) \subseteq {q} \cup D \cup K
    OBVIOUS
  <2>1. \A d \in D : d \in Dataset /\ (d = t \/ ParentOf[d] = t)
    BY <1>3, ReachedFacts
  <2>2. CASE q = t
    BY <1>3, <2>2, LineFacts
  <2>3. CASE q \in Dataset /\ q \in Reached(j)
    BY <1>3, <2>3, LineFacts, ReachedFacts
  <2>4. CASE q \in Kpi /\ q \in Reached(j)
    BY <1>3, <2>1, <2>4, LineFacts, ReachedFacts
  <2>5. CASE q \in Leaf /\ q \in Reached(j)
    <3>1. ParentOf[q] \in K /\ ParentOf[ParentOf[q]] \in D
      BY <1>3, <2>5, ReachedFacts
    <3> QED
      BY <2>1, <2>5, <3>1, LineFacts
  <2> QED
    BY <1>3, <1>4, <2>2, <2>3, <2>4, <2>5, ReachedFacts
<1>15. TakenOK'
  <2> SUFFICES ASSUME NEW p \in Row
               PROVE  /\ taken'[p] # {} => p \in Connector \cup Dataset
                                           /\ row'[p].state \in {"deleted", "purged"}
                      /\ \A q \in taken'[p] :
                             /\ p \in Line(q) \/ \E d \in Line(q) \cap Dataset : ParentOf[d] = p
                             /\ IsDeleted(p)' => \A x \in Line(q) : Outlasts(x, p)'
    BY DEF TakenOK
  <2>1. clock \in Nat
    BY DEF Typed
  <2>2. CASE p = t
    <3>1. taken'[p] = rows /\ row'[p].state = "deleted" /\ row'[p].at = clock
      BY <1>1, <1>4, <1>5, <2>2 DEF Typed
    <3>2. ASSUME NEW q \in rows, NEW x \in Line(q) PROVE Outlasts(x, p)'
      <4>1. x \in Row /\ Exists(x) /\ Exists(x)'
        BY <1>4, <1>9, <3>2, LineFacts
      <4>2. CASE x \in rows
        BY <1>5, <2>1, <3>1, <4>1, <4>2 DEF Outlasts
      <4>3. CASE x \notin rows
        <5>1. x \in D \cup K /\ row'[x] = row[x]
          BY <1>5, <1>14, <3>2, <4>1, <4>3
        <5> QED
          BY <1>3, <2>1, <3>1, <4>1, <5>1 DEF Outlasts, IsDeleted
      <4> QED
        BY <4>2, <4>3
    <3> QED
      BY <1>3, <1>14, <2>2, <3>1, <3>2
  <2>3. CASE p # t
    <3>1. taken'[p] = taken[p]
      BY <1>1, <2>3 DEF Typed
    <3>2. taken[p] # {} => p \notin rows /\ row'[p] = row[p]
      BY <1>4, <1>5, <2>3 DEF TakenOK, IsLive
    <3>3. ASSUME NEW q \in taken[p], IsDeleted(p)', NEW x \in Line(q) PROVE Outlasts(x, p)'
      <4>1. row'[p] = row[p] /\ IsDeleted(p)
        BY <3>2, <3>3 DEF IsDeleted
      <4>2. Outlasts(x, p) /\ x \in Row
        BY <3>3, <4>1, LineFacts DEF TakenOK, Typed
      <4>3. row[p].at <= clock /\ row[p].at \in Nat
        BY <4>1 DEF NoneFromTomorrow, Typed, Cell
      <4>4. Exists(x)'
        BY <1>9, <4>2 DEF Outlasts
      <4> QED
        BY <1>5, <2>1, <4>1, <4>2, <4>3, <4>4 DEF Outlasts, IsDeleted
    <3> QED
      BY <3>1, <3>2, <3>3 DEF TakenOK
  <2> QED
    BY <2>2, <2>3
<1> QED
  BY <1>7, <1>8, <1>10, <1>12, <1>13, <1>15

LEMMA RestoreKeeps ==
    ASSUME IInv, NEW j \in Job, restore(j)
    PROVE  IInv'
<1> USE DEF IInv
<1> DEFINE t == job[j].target
           D == job[j].datasets
           K == job[j].kpis
           rows == {t} \cup {r \in Reached(j) : Exists(r)}
<1>1. /\ At(j, "restore") /\ Exists(t)
      /\ row' = Put(row, rows, Live)
      /\ hurried' = IF job[j].met THEN hurried \cup rows ELSE hurried
      /\ revived' = IF t \in Dataset /\ ~IsLive(ParentOf[t]) THEN revived \cup {t} ELSE revived
      /\ taken' = Put(taken, rows, {})
      /\ job' = [job EXCEPT ![j] = Idle]
      /\ UNCHANGED <<clock, starts>>
  BY DEF restore, Finish, Hurry
<1>2. RestoreOK(j) /\ j \in Busy
  BY <1>1 DEF JobsOK, Busy, At
<1>3. /\ CollectedOK(j) /\ t \in Row /\ t \in Connector \cup Dataset
      /\ D \subseteq Dataset /\ K \subseteq Kpi
      /\ t \in Dataset => D = {t}
      /\ \A k \in K : ParentOf[k] \in D
  BY <1>2 DEF RestoreOK, CollectedOK, Row, Typed, JobRecord, Below
<1>4. /\ rows \subseteq Row /\ t \in rows
      /\ \A q \in rows : Exists(q) /\ (q = t \/ q \in Reached(j))
      /\ \A q \in Reached(j) : Exists(q) => q \in rows
  BY <1>1, <1>3, ReachedFacts DEF Row
<1> HIDE DEF rows
<1>5. /\ \A q \in rows : row'[q].state = "live" /\ row'[q] = Live
      /\ \A q \in Row \ rows : row'[q] = row[q]
      /\ row' \in [Row -> Cell]
  <2>1. row' \in [Row -> Cell]
    BY <1>1, CellFacts, PutTyped DEF Typed
  <2>2. DOMAIN row = Row
    BY DEF Typed
  <2>3. \A q \in Row : row'[q] = IF q \in rows THEN Live ELSE row[q]
    BY <1>1, <2>2, PutFacts
  <2> QED
    BY <1>4, CellFacts, <2>1, <2>3
<1>6. StepOfOne(j)
  <2>1. \A q \in rows : row[q] # None
    BY <1>4, RowStates
  <2>2. hurried \subseteq hurried' /\ (job[j].met => rows \subseteq hurried')
    BY <1>1
  <2>3. \A r \in Row :
            \/ row'[r] = row[r]
            \/ row'[r] = Live /\ row[r] # None /\ (job[j].met => r \in hurried')
    BY <1>5, <2>1, <2>2
  <2>4. job' = [job EXCEPT ![j] = Idle] /\ UNCHANGED clock
    BY <1>1
  <2> QED
    BY <1>2, <2>2, <2>3, <2>4 DEF StepOfOne
<1>7. AllMet' /\ JobsOK'
  BY <1>6, OthersKeep
<1>8. /\ \A q \in rows : taken'[q] = {}
      /\ \A q \in Row \ rows : taken'[q] = taken[q]
      /\ taken' \in [Row -> SUBSET Row]
  <2>1. DOMAIN taken = Row
    BY DEF Typed
  <2>2. taken' \in [Row -> SUBSET Row]
    BY <1>1, PutTyped DEF Typed
  <2> QED
    BY <1>1, <1>4, <2>1, <2>2, PutFacts
<1>9. Typed'
  <2>1. schema' \in [Dataset -> Cell] /\ description' \in [Table -> Cell]
    BY CellFacts, PutWhereTyped DEF restore, Typed
  <2>2. hurried' \subseteq Row /\ revived' \subseteq Dataset
    BY <1>1, <1>4 DEF Typed
  <2> QED
    BY <1>1, <1>5, <1>8, <2>1, <2>2, EndFacts DEF Typed
<1>10. /\ \A q \in Row : Exists(q)' <=> Exists(q)
       /\ \A q \in Row : IsDeleted(q)' => q \notin rows /\ row'[q] = row[q] /\ IsDeleted(q)
       /\ hurried \subseteq hurried' /\ revived \subseteq revived'
  BY <1>1, <1>4, <1>5 DEF Exists, IsLive, IsDeleted
<1>11. KeysHold' /\ NoneFromTomorrow'
  BY <1>1, <1>10, Kinds DEF KeysHold, NoneFromTomorrow
<1>12. NothingOutlives'
  <2> SUFFICES ASSUME NEW q \in Row \ Connector, Exists(q)', IsDeleted(ParentOf[q])',
                      q \notin hurried' \cup revived'
               PROVE  IsDeleted(q)' /\ row'[q].at <= row'[ParentOf[q]].at
    BY DEF NothingOutlives
  <2> DEFINE p == ParentOf[q]
  <2>1. /\ p \in Row /\ Exists(q) /\ q \in Row
        /\ p \notin rows /\ row'[p] = row[p] /\ IsDeleted(p) /\ Exists(p)
    BY <1>10, Kinds DEF Exists
  <2>2. q \notin rows
    <3> SUFFICES ASSUME q \in rows PROVE FALSE
      OBVIOUS
    <3>1. CASE q = t
      BY <1>1, <1>3, <2>1, <3>1, RowStates
    <3>2. CASE q # t /\ q \in Dataset
      BY <1>3, <1>4, <2>1, <3>2, ReachedFacts
    <3>3. CASE q \in Kpi
      <4>1. p \in D
        BY <1>3, <1>4, <3>3, Kinds, ReachedFacts
      <4> QED
        BY <1>3, <1>4, <2>1, <4>1, ReachedFacts
    <3>4. CASE q \in Leaf
      <4>1. p \in K
        BY <1>3, <1>4, <3>4, Kinds, ReachedFacts
      <4> QED
        BY <1>3, <1>4, <2>1, <4>1, ReachedFacts
    <3> QED
      BY <3>1, <3>2, <3>3, <3>4 DEF Row
  <2> QED
    BY <1>5, <1>10, <2>1, <2>2 DEF NothingOutlives, IsDeleted
<1>13. KpisGoWithDataset'
  <2> SUFFICES ASSUME NEW k \in Kpi, IsDeleted(k)', IsLive(ParentOf[k])'
               PROVE  ParentOf[k] \in hurried'
    BY DEF KpisGoWithDataset
  <2> DEFINE d == ParentOf[k]
  <2>1. d \in Dataset /\ d \in Row /\ k \in Row /\ k \notin rows /\ IsDeleted(k) /\ Exists(k)
    BY <1>10, Kinds DEF Row, Exists
  <2>2. CASE d \notin rows
    <3>1. IsLive(d)
      BY <1>5, <2>1, <2>2 DEF IsLive
    <3> QED
      BY <1>10, <2>1, <3>1 DEF KpisGoWithDataset
  <2>3. CASE d \in rows
    <3>1. d \notin D /\ d # t
      BY <1>3, <1>4, <2>1, ReachedFacts
    <3>2. d \in Missed(j)
      BY <1>3, <1>4, <2>1, <2>3, <3>1, ReachedFacts DEF Missed, Below
    <3>3. CASE job[j].met
      BY <1>1, <2>3, <3>3
    <3>4. CASE ~job[j].met
      <4>1. IsLive(d)
        BY <1>2, <1>4, <2>3, <3>2, <3>4 DEF RestoreOK, Exists
      <4> QED
        BY <1>10, <2>1, <4>1 DEF KpisGoWithDataset
    <3> QED
      BY <3>3, <3>4
  <2> QED
    BY <2>2, <2>3
<1>14. TakenOK'
  <2> SUFFICES ASSUME NEW p \in Row, NEW q \in taken'[p]
               PROVE  /\ p \in Connector \cup Dataset
                      /\ row'[p].state \in {"deleted", "purged"}
                      /\ p \in Line(q) \/ \E d \in Line(q) \cap Dataset : ParentOf[d] = p
                      /\ IsDeleted(p)' => \A x \in Line(q) : Outlasts(x, p)'
    BY DEF TakenOK
  <2>1. p \notin rows /\ taken'[p] = taken[p] /\ row'[p] = row[p]
    BY <1>5, <1>8
  <2>2. ASSUME IsDeleted(p)', NEW x \in Line(q) PROVE Outlasts(x, p)'
    <3>1. x \in Row /\ Outlasts(x, p)
      BY <1>10, <2>1, <2>2, LineFacts DEF TakenOK, Typed
    <3> QED
      BY <1>10, <2>1, <3>1 DEF Outlasts
  <2> QED
    BY <2>1, <2>2 DEF TakenOK
<1> QED
  BY <1>7, <1>9, <1>11, <1>12, <1>13, <1>14

-----------------------------------------------------------------------------
(* Steps outside of requests *)

\* Purging a set of rows that takes what is below along, but nothing a
\* restore has been promised.
LEMMA PurgedKeeps ==
    ASSUME IInv, NEW G \in SUBSET Row,
           row' = Put(row, {r \in G : Exists(r)}, Purged),
           UNCHANGED <<job, clock, history>>, starts' \in 0 .. MaxStarts,
           schema' \in [Dataset -> Cell], description' \in [Table -> Cell],
           \A r \in Row \ Connector : Exists(r) /\ ParentOf[r] \in G => r \in G,
           \A p \in Row \ G : IsDeleted(p) => \A q \in taken[p] : Line(q) \cap G = {}
    PROVE  IInv'
<1> USE DEF IInv, history
<1>1. row' \in [Row -> Cell]
  BY CellFacts, PutTyped DEF Typed
<1>2. \A q \in Row : row'[q] = IF q \in G /\ Exists(q) THEN Purged ELSE row[q]
  <2>1. DOMAIN row = Row
    BY DEF Typed
  <2> QED
    BY <2>1, PutFacts
<1>3. Typed'
  BY <1>1 DEF Typed
<1>4. \A q \in Row :
          /\ Exists(q)' => q \notin G
          /\ q \notin G => row'[q] = row[q]
          /\ IsDeleted(q)' => IsDeleted(q) /\ q \notin G
          /\ IsLive(q)' => IsLive(q) /\ q \notin G
          /\ Exists(q)' => Exists(q)
          /\ row[q] = None => row'[q] = None
          /\ row[q] # None => row'[q] # None
  BY <1>2, CellFacts, RowStates DEF Exists, IsLive, IsDeleted
<1>5. KeysHold'
  <2> SUFFICES ASSUME NEW r \in Row \ Connector, Exists(r)' PROVE Exists(ParentOf[r])'
    BY DEF KeysHold
  <2>1. ParentOf[r] \in Row /\ Exists(r) /\ r \notin G
    BY <1>4, Kinds
  <2>2. ParentOf[r] \notin G /\ Exists(ParentOf[r])
    BY <2>1 DEF KeysHold
  <2> QED
    BY <1>4, <2>1, <2>2 DEF Exists, IsLive, IsDeleted
<1>6. NoneFromTomorrow'
  BY <1>4 DEF NoneFromTomorrow
<1>7. AllMet'
  BY DEF AllMet, Busy, At
<1>8. NothingOutlives'
  <2> SUFFICES ASSUME NEW q \in Row \ Connector, Exists(q)', IsDeleted(ParentOf[q])',
                      q \notin hurried \cup revived
               PROVE  IsDeleted(q)' /\ row'[q].at <= row'[ParentOf[q]].at
    BY DEF NothingOutlives
  <2>1. ParentOf[q] \in Row
    BY Kinds
  <2> QED
    BY <1>4, <2>1 DEF NothingOutlives, IsDeleted
<1>9. KpisGoWithDataset'
  <2>1. \A k \in Kpi : k \in Row /\ ParentOf[k] \in Row
    BY Kinds DEF Row
  <2> QED
    BY <1>4, <2>1 DEF KpisGoWithDataset
<1>10. TakenOK'
  <2> SUFFICES ASSUME NEW p \in Row, NEW q \in taken[p]
               PROVE  /\ p \in Connector \cup Dataset
                      /\ row'[p].state \in {"deleted", "purged"}
                      /\ p \in Line(q) \/ \E d \in Line(q) \cap Dataset : ParentOf[d] = p
                      /\ IsDeleted(p)' => \A x \in Line(q) : Outlasts(x, p)'
    BY DEF TakenOK
  <2>1. row'[p].state \in {"deleted", "purged"}
    BY <1>2, CellFacts DEF TakenOK
  <2>2. ASSUME IsDeleted(p)', NEW x \in Line(q) PROVE Outlasts(x, p)'
    <3>1. IsDeleted(p) /\ p \notin G /\ row'[p] = row[p]
      BY <1>4, <2>2
    <3>2. x \in Row /\ Outlasts(x, p) /\ x \notin G
      BY <2>2, <3>1, LineFacts DEF TakenOK, Typed
    <3> QED
      BY <1>4, <3>1, <3>2 DEF Outlasts, Exists, IsLive, IsDeleted
  <2> QED
    BY <2>1, <2>2 DEF TakenOK
<1>11. JobsOK'
  <2> SUFFICES ASSUME NEW j \in Job
               PROVE  /\ At(j, "insert") => InsertOK(j)'
                      /\ At(j, "stamp") => StampOK(j)'
                      /\ At(j, "restore") => RestoreOK(j)'
    BY DEF JobsOK, At
  <2>1. ASSUME At(j, "insert") PROVE InsertOK(j)'
    <3>1. InsertOK(j)
      BY <2>1 DEF JobsOK
    <3>2. job[j].target \in Row \ Connector /\ ParentOf[job[j].target] \in Row
      BY <3>1, Kinds DEF InsertOK
    <3> QED
      BY <1>4, <3>1, <3>2 DEF InsertOK, Busy, At
  <2>2. ASSUME CollectedOK(j)
        PROVE  CollectedOK(j)' /\ {job[j].target} \cup job[j].datasets \cup job[j].kpis \subseteq Row
    <3>1. {job[j].target} \cup job[j].datasets \cup job[j].kpis \subseteq Row
      BY <2>2 DEF CollectedOK, Row, Typed, JobRecord
    <3> QED
      BY <1>4, <2>2, <3>1 DEF CollectedOK
  <2>3. ASSUME At(j, "stamp") PROVE StampOK(j)'
    <3>1. StampOK(j)
      BY <2>3 DEF JobsOK
    <3>2. Recent({job[j].target} \cup job[j].datasets \cup job[j].kpis)'
      BY <1>4, <2>2, <3>1 DEF StampOK, Recent
    <3>3. ASSUME NEW S \in SUBSET Row, OnlyHurried(S)
          PROVE  \A q \in S : IsLive(q)' => q \in hurried
      BY <1>4, <3>3 DEF OnlyHurried
    <3>4. /\ Missed(j) \in SUBSET Row /\ Below(Kpi, Missed(j)) \in SUBSET Row
          /\ Below(Leaf, Below(Kpi, job[j].datasets) \ job[j].kpis) \in SUBSET Row
      BY DEF Missed, Below, Row
    <3>5. /\ \A q \in Missed(j) : IsLive(q)' => q \in hurried
          /\ \A q \in Below(Kpi, Missed(j)) : IsLive(q)' => q \in hurried
          /\ \A q \in Below(Leaf, Below(Kpi, job[j].datasets) \ job[j].kpis) :
                 IsLive(q)' => q \in hurried
      BY <3>1, <3>3, <3>4 DEF StampOK
    <3>6. Missed(j)' = Missed(j)
      BY DEF Missed
    <3> QED
      BY <2>2, <3>1, <3>2, <3>5, <3>6 DEF StampOK, OnlyHurried
  <2>4. ASSUME At(j, "restore") PROVE RestoreOK(j)'
    <3>1. RestoreOK(j)
      BY <2>4 DEF JobsOK
    <3>2. Missed(j)' = Missed(j) /\ Missed(j) \subseteq Row
      BY DEF Missed, Below, Row
    <3> QED
      BY <1>4, <2>2, <3>1, <3>2 DEF RestoreOK
  <2> QED
    BY <2>1, <2>3, <2>4
<1> QED
  BY <1>3, <1>5, <1>6, <1>7, <1>8, <1>9, <1>10, <1>11

LEMMA PurgeExpiredKeeps ==
    ASSUME IInv, purge_expired_soft_deletes
    PROVE  IInv'
<1> USE DEF IInv
<1> DEFINE E == {r \in Row : Expired(row[r])}
           G == PurgeRows
<1>1. /\ ~PurgeRefused /\ row' = Put(row, {r \in G : Exists(r)}, Purged)
      /\ UNCHANGED <<job, clock, starts, history>>
  BY DEF purge_expired_soft_deletes, Gone
<1>2. schema' \in [Dataset -> Cell] /\ description' \in [Table -> Cell]
  BY CellFacts, PutTyped DEF purge_expired_soft_deletes, Typed
<1>3. /\ G \in SUBSET Row /\ E \subseteq G
      /\ \A r \in G : \/ r \in E
                      \/ r \in Kpi /\ ParentOf[r] \in E
                      \/ r \in Leaf /\ (ParentOf[r] \in E \/ ParentOf[ParentOf[r]] \in E)
      /\ \A k \in Kpi : ParentOf[k] \in E => k \in G
      /\ \A l \in Leaf : ParentOf[l] \in E => l \in G
      /\ \A l \in Leaf : ParentOf[ParentOf[l]] \in E => l \in G
  BY Kinds DEF PurgeRows, WithBelow, Below, Row
<1>4. \A r \in Row \ Connector : Exists(r) /\ ParentOf[r] \in G => r \in G
  <2> SUFFICES ASSUME NEW r \in Row \ Connector, Exists(r), ParentOf[r] \in G
               PROVE  r \in G
    OBVIOUS
  <2>1. CASE r \in Dataset
    BY <1>1, <2>1 DEF PurgeRefused
  <2>2. CASE r \in Kpi
    BY <1>3, <2>2, Kinds
  <2>3. CASE r \in Leaf
    BY <1>3, <2>3, Kinds
  <2> QED
    BY <2>1, <2>2, <2>3 DEF Row
<1>5. ASSUME NEW p \in Row \ G, IsDeleted(p), NEW q \in taken[p]
      PROVE  Line(q) \cap G = {}
  <2>1. q \in Row /\ \A x \in Line(q) : x \in Row /\ Outlasts(x, p)
    BY <1>5, LineFacts DEF TakenOK, Typed
  <2>2. p \notin E
    BY <1>3
  <2>3. \A x \in Line(q) : x \notin E
    <3> SUFFICES ASSUME NEW x \in Line(q), x \in E PROVE FALSE
      OBVIOUS
    <3>1. IsDeleted(x) /\ row[x].at + Window < clock
      BY DEF Expired, IsDeleted
    <3>2. ~(row[p].at + Window < clock)
      BY <1>5, <2>2 DEF Expired, IsDeleted
    <3>3. row[x].at >= row[p].at
      BY <2>1, <3>1 DEF Outlasts
    <3>4. row[x].at \in Nat /\ row[p].at \in Nat /\ clock \in Nat /\ Window \in Nat
      BY <2>1, CatalogAssumption DEF Typed, Cell, CatalogAssumption
    <3> QED
      BY <3>1, <3>2, <3>3, <3>4
  <2> SUFFICES ASSUME NEW x \in Line(q), x \in G PROVE FALSE
    OBVIOUS
  <2>4. x \in Kpi => ParentOf[x] \in Line(q)
    BY <2>1, LineFacts, Kinds DEF Row
  <2>5. x \in Leaf => ParentOf[x] \in Line(q) /\ ParentOf[ParentOf[x]] \in Line(q)
    BY <2>1, LineFacts, Kinds DEF Row
  <2> QED
    BY <1>3, <2>3, <2>4, <2>5
<1> HIDE DEF G
<1> QED
  BY <1>1, <1>2, <1>3, <1>4, <1>5, PurgedKeeps DEF Typed

LEMMA PurgeConnectorKeeps ==
    ASSUME IInv, NEW c \in Connector, purge_connector(c)
    PROVE  IInv'
<1> USE DEF IInv
<1> DEFINE D == {d \in Below(Dataset, {c}) : Exists(d)}
           G == {c} \cup WithBelow(D)
<1>1. /\ row' = Put(row, {r \in G : Exists(r)}, Purged)
      /\ UNCHANGED <<job, clock, history>> /\ starts' \in 0 .. MaxStarts
  BY CatalogAssumption DEF purge_connector, Gone, Typed, CatalogAssumption
<1>2. schema' \in [Dataset -> Cell] /\ description' \in [Table -> Cell]
  BY CellFacts, PutTyped DEF purge_connector, Typed
<1>3. /\ G \in SUBSET Row
      /\ \A r \in G : \/ r = c
                      \/ r \in Dataset /\ r \in D
                      \/ r \in Kpi /\ ParentOf[r] \in D
                      \/ r \in Leaf /\ ParentOf[ParentOf[r]] \in D
      /\ D \subseteq G
      /\ \A k \in Kpi : ParentOf[k] \in D => k \in G
      /\ \A l \in Leaf : ParentOf[ParentOf[l]] \in D => l \in G
  BY Kinds DEF WithBelow, Below, Row
<1>4. \A d \in D : d \in Dataset /\ ParentOf[d] = c
  BY DEF Below
<1>5. \A r \in Row \ Connector : Exists(r) /\ ParentOf[r] \in G => r \in G
  <2> SUFFICES ASSUME NEW r \in Row \ Connector, Exists(r), ParentOf[r] \in G
               PROVE  r \in G
    OBVIOUS
  <2>1. CASE r \in Dataset
    <3>1. r \in D
      BY <1>3, <2>1, Kinds DEF Below
    <3> QED
      BY <1>3, <3>1
  <2>2. CASE r \in Kpi
    <3>1. ParentOf[r] \in Dataset /\ ParentOf[r] \notin Connector \cup Kpi \cup Leaf
      BY <2>2, Kinds
    <3>2. ParentOf[r] \in D
      BY <1>3, <3>1
    <3> QED
      BY <1>3, <2>2, <3>2
  <2>3. CASE r \in Leaf
    <3>1. ParentOf[r] \in Kpi /\ ParentOf[r] \notin Connector \cup Dataset \cup Leaf
      BY <2>3, Kinds
    <3>2. ParentOf[ParentOf[r]] \in D
      BY <1>3, <3>1
    <3> QED
      BY <1>3, <2>3, <3>2
  <2> QED
    BY <2>1, <2>2, <2>3 DEF Row
<1>6. ASSUME NEW p \in Row \ G, IsDeleted(p), NEW q \in taken[p]
      PROVE  Line(q) \cap G = {}
  <2>1. /\ q \in Row /\ p \in Connector \cup Dataset
        /\ p \in Line(q) \/ \E d \in Line(q) \cap Dataset : ParentOf[d] = p
        /\ \A x \in Line(q) : Exists(x)
    BY <1>6 DEF TakenOK, Typed, Outlasts
  <2>2. p # c /\ p \notin D
    BY <1>3
  <2>3. \A d \in Line(q) \cap Dataset : d \notin D
    <3> SUFFICES ASSUME NEW d \in Line(q) \cap Dataset, d \in D PROVE FALSE
      OBVIOUS
    <3>1. \A e \in Line(q) : e \in Dataset => e = d
      BY <2>1, LineFacts, Kinds DEF Row
    <3>2. \A e \in Line(q) : e \notin Connector
      BY <2>1, LineFacts, Kinds DEF Row
    <3> QED
      BY <1>4, <2>1, <2>2, <3>1, <3>2
  <2>4. c \notin Line(q)
    <3>1. c \in Line(q) => Line(q) = {c}
      BY <2>1, LineFacts, Kinds DEF Row
    <3> QED
      BY <2>1, <2>2, <3>1, Kinds
  <2> SUFFICES ASSUME NEW x \in Line(q), x \in G PROVE FALSE
    OBVIOUS
  <2>5. x \in Kpi => ParentOf[x] \in Line(q)
    BY <2>1, LineFacts, Kinds DEF Row
  <2>6. x \in Leaf => ParentOf[ParentOf[x]] \in Line(q)
    BY <2>1, LineFacts, Kinds DEF Row
  <2> QED
    BY <1>3, <1>4, <2>3, <2>4, <2>5, <2>6
<1> HIDE DEF G
<1> QED
  BY <1>1, <1>2, <1>3, <1>5, <1>6, PurgedKeeps

LEMMA CreateConnectorKeeps ==
    ASSUME IInv, NEW c \in Connector, create_connector(c)
    PROVE  IInv'
<1> USE DEF IInv, history
<1>1. /\ row[c] = None /\ row' = [row EXCEPT ![c] = Live]
      /\ UNCHANGED <<schema, description, job, clock, history>> /\ starts' \in 0 .. MaxStarts
  BY CatalogAssumption DEF create_connector, Typed, CatalogAssumption
<1>2. /\ c \in Row /\ row[c].state = "none" /\ row'[c].state = "live" /\ row'[c] # None
      /\ \A q \in Row \ {c} : row'[q] = row[q]
      /\ row' \in [Row -> Cell]
  BY <1>1, CellFacts DEF Row, Typed
<1>3. Typed'
  BY <1>1, <1>2 DEF Typed
<1>4. AllMet'
  BY <1>1 DEF AllMet, Busy, At
<1>5. KeysHold'
  BY <1>2, Kinds DEF KeysHold, Exists, IsLive, IsDeleted
<1>6. NoneFromTomorrow'
  BY <1>1, <1>2 DEF NoneFromTomorrow, IsDeleted
<1>7. \A r \in Row \ Connector : r # c /\ ParentOf[r] \in Row
  BY Kinds
<1>8. NothingOutlives'
  BY <1>1, <1>2, <1>7 DEF NothingOutlives, Exists, IsLive, IsDeleted
<1>9. KpisGoWithDataset'
  BY <1>1, <1>2, <1>7, Kinds DEF KpisGoWithDataset, IsLive, IsDeleted, Row
<1>10. TakenOK'
  <2> SUFFICES ASSUME NEW p \in Row, NEW q \in taken[p]
               PROVE  /\ p \in Connector \cup Dataset
                      /\ row'[p].state \in {"deleted", "purged"}
                      /\ p \in Line(q) \/ \E d \in Line(q) \cap Dataset : ParentOf[d] = p
                      /\ IsDeleted(p)' => \A x \in Line(q) : Outlasts(x, p)'
    BY <1>1 DEF TakenOK
  <2>1. p # c /\ row'[p] = row[p]
    BY <1>2 DEF TakenOK
  <2>2. ASSUME IsDeleted(p)', NEW x \in Line(q) PROVE Outlasts(x, p)'
    <3>1. x \in Row /\ Outlasts(x, p)
      BY <2>1, <2>2, LineFacts DEF TakenOK, Typed, IsDeleted
    <3> QED
      BY <1>2, <2>1, <3>1 DEF Outlasts, Exists, IsLive, IsDeleted
  <2> QED
    BY <2>1, <2>2 DEF TakenOK
<1>11. JobsOK'
  <2> SUFFICES ASSUME NEW j \in Job
               PROVE  /\ At(j, "insert") => InsertOK(j)'
                      /\ At(j, "stamp") => StampOK(j)'
                      /\ At(j, "restore") => RestoreOK(j)'
    BY <1>1 DEF JobsOK, At
  <2>1. ASSUME At(j, "insert") PROVE InsertOK(j)'
    <3>1. InsertOK(j)
      BY <2>1 DEF JobsOK
    <3>2. job[j].target \in Row \ Connector /\ ParentOf[job[j].target] \in Row
      BY <3>1, Kinds DEF InsertOK
    <3> QED
      BY <1>1, <1>2, <3>1, <3>2 DEF InsertOK, Busy, At, IsDeleted
  <2>2. ASSUME CollectedOK(j)
        PROVE  CollectedOK(j)' /\ {job[j].target} \cup job[j].datasets \cup job[j].kpis \subseteq Row
    <3>1. {job[j].target} \cup job[j].datasets \cup job[j].kpis \subseteq Row
      BY <2>2 DEF CollectedOK, Row, Typed, JobRecord
    <3> QED
      BY <1>1, <1>2, <2>2, <3>1 DEF CollectedOK
  <2>3. \A S \in SUBSET (Row \ {c}) : OnlyHurried(S) => OnlyHurried(S)'
    BY <1>1, <1>2 DEF OnlyHurried, IsLive
  <2>4. /\ Missed(j) \in SUBSET (Row \ {c}) /\ Below(Kpi, Missed(j)) \in SUBSET (Row \ {c})
        /\ Below(Leaf, Below(Kpi, job[j].datasets) \ job[j].kpis) \in SUBSET (Row \ {c})
        /\ Missed(j)' = Missed(j)
    BY <1>1, Kinds DEF Missed, Below, Row
  <2>5. ASSUME At(j, "stamp") PROVE StampOK(j)'
    <3>1. StampOK(j)
      BY <2>5 DEF JobsOK
    <3>2. Recent({job[j].target} \cup job[j].datasets \cup job[j].kpis)'
      BY <1>1, <1>2, <2>2, <3>1 DEF StampOK, Recent, IsDeleted
    <3> QED
      BY <1>1, <2>2, <2>3, <2>4, <3>1, <3>2 DEF StampOK, OnlyHurried
  <2>6. ASSUME At(j, "restore") PROVE RestoreOK(j)'
    <3>1. RestoreOK(j)
      BY <2>6 DEF JobsOK
    <3> QED
      BY <1>1, <1>2, <2>2, <2>4, <3>1 DEF RestoreOK, IsDeleted
  <2> QED
    BY <2>1, <2>5, <2>6
<1> QED
  BY <1>3, <1>4, <1>5, <1>6, <1>8, <1>9, <1>10, <1>11

\* Nothing that the invariant is about but the day, or the descriptions, changes.
LEMMA JobsUnchanged ==
    ASSUME JobsOK, AllMet, UNCHANGED <<row, hurried, job>>, Busy = {} \/ UNCHANGED clock
    PROVE  JobsOK' /\ AllMet'
<1>1. AllMet'
  BY DEF AllMet, Busy, At
<1>2. CASE Busy = {}
  BY <1>1, <1>2 DEF JobsOK, Busy, At
<1>3. CASE UNCHANGED clock
  <2> SUFFICES ASSUME NEW j \in Job
               PROVE  /\ At(j, "insert") => InsertOK(j)'
                      /\ At(j, "stamp") => StampOK(j)'
                      /\ At(j, "restore") => RestoreOK(j)'
    BY <1>1 DEF JobsOK, At
  <2>1. InsertOK(j) => InsertOK(j)'
    BY DEF InsertOK, Busy, At, IsDeleted
  <2>2. StampOK(j) => StampOK(j)'
    BY <1>3 DEF StampOK, CollectedOK, Recent, OnlyHurried, Missed, IsLive, IsDeleted
  <2>3. RestoreOK(j) => RestoreOK(j)'
    BY DEF RestoreOK, CollectedOK, Missed, IsDeleted
  <2> QED
    BY <2>1, <2>2, <2>3 DEF JobsOK
<1> QED
  BY <1>1, <1>2, <1>3

LEMMA DetectKeeps ==
    ASSUME IInv, NEW d \in Dataset, detect(d)
    PROVE  IInv'
<1> USE DEF IInv
<1>1. UNCHANGED <<row, job, clock, starts, history>>
  BY DEF detect
<1>2. schema' \in [Dataset -> Cell] /\ description' \in [Table -> Cell]
  BY CellFacts, CatalogAssumption DEF detect, Typed, CatalogAssumption
<1>3. Typed'
  BY <1>1, <1>2 DEF Typed, history
<1>4. JobsOK' /\ AllMet'
  BY <1>1, JobsUnchanged DEF history
<1> QED
  BY <1>1, <1>3, <1>4, RowsUnchanged

LEMMA TickKeeps ==
    ASSUME IInv, Tick
    PROVE  IInv'
<1> USE DEF IInv
<1>1. /\ Busy = {} /\ clock' = clock + 1 /\ clock' \in 0 .. MaxClock
      /\ UNCHANGED <<row, schema, description, job, starts, history>>
  BY CatalogAssumption DEF Tick, Typed, CatalogAssumption
<1>2. Typed'
  BY <1>1 DEF Typed, history
<1>3. JobsOK' /\ AllMet'
  BY <1>1, JobsUnchanged DEF history
<1>4. KeysHold'
  BY <1>1 DEF KeysHold, Exists, IsLive, IsDeleted
<1>5. NoneFromTomorrow'
  BY <1>1 DEF NoneFromTomorrow, IsDeleted, Typed, Cell
<1>6. NothingOutlives' /\ KpisGoWithDataset'
  BY <1>1 DEF NothingOutlives, KpisGoWithDataset, Exists, IsLive, IsDeleted, history
<1>7. TakenOK'
  BY <1>1 DEF TakenOK, Outlasts, Exists, IsLive, IsDeleted, history
<1> QED
  BY <1>2, <1>3, <1>4, <1>5, <1>6, <1>7

LEMMA UnchangedKeeps ==
    ASSUME IInv, UNCHANGED vars
    PROVE  IInv'
<1> USE DEF IInv
<1>1. Typed'
  BY DEF vars, history, Typed
<1>2. JobsOK' /\ AllMet'
  BY JobsUnchanged DEF vars, history
<1>3. UNCHANGED <<row, clock, history>>
  BY DEF vars
<1> QED
  BY <1>1, <1>2, <1>3, RowsUnchanged

-----------------------------------------------------------------------------
(* Theorems *)

LEMMA InitEstablishes == Init => IInv
<1> SUFFICES ASSUME Init PROVE IInv
  OBVIOUS
<1> USE DEF Init
<1>1. Typed
  <2>1. Idle \in JobRecord
    BY DEF Idle, JobRecord
  <2> QED
    BY <2>1, CellFacts, CatalogAssumption DEF Typed, CatalogAssumption
<1>2. \A r \in Row : /\ ~IsDeleted(r)
                     /\ Exists(r) <=> r \in Present
  BY CellFacts DEF Exists, IsLive, IsDeleted
<1>3. KeysHold
  BY <1>2, Kinds, CatalogAssumption DEF KeysHold, CatalogAssumption
<1>4. Busy = {} /\ \A j \in Job : job[j].pc = "idle"
  BY DEF Busy, At, Idle
<1>5. AllMet /\ JobsOK
  BY <1>4 DEF AllMet, JobsOK, At
<1>6. NoneFromTomorrow /\ NothingOutlives /\ KpisGoWithDataset
  BY <1>2, Kinds DEF NoneFromTomorrow, NothingOutlives, KpisGoWithDataset, Row
<1>7. TakenOK
  BY DEF TakenOK
<1> QED
  BY <1>1, <1>3, <1>5, <1>6, <1>7 DEF IInv

LEMMA StepKeeps == IInv /\ [Next]_vars => IInv'
<1> SUFFICES ASSUME IInv, [Next]_vars PROVE IInv'
  OBVIOUS
<1>1. CASE UNCHANGED vars
  BY <1>1, UnchangedKeeps
<1>2. CASE Tick
  BY <1>2, TickKeeps
<1>3. CASE purge_expired_soft_deletes
  BY <1>3, PurgeExpiredKeeps
<1>4. ASSUME NEW c \in Connector, create_connector(c) \/ purge_connector(c) PROVE IInv'
  BY <1>4, CreateConnectorKeeps, PurgeConnectorKeeps
<1>5. ASSUME NEW d \in Dataset, detect(d) PROVE IInv'
  BY <1>5, DetectKeeps
<1>6. ASSUME NEW j \in Job, NEW c \in Connector, delete_connector(j, c) PROVE IInv'
  <2>1. DatasetsToStamp(c) \in SUBSET Dataset
    BY DEF DatasetsToStamp, OnlyLive, Below
  <2> QED
    BY <1>6, <2>1, DeletionBegins DEF delete_connector, DatasetsToStamp
<1>7. ASSUME NEW j \in Job, NEW c \in Connector, restore_connector(j, c) PROVE IInv'
  <2>1. CollectedDatasets(c) \in SUBSET Dataset
    BY DEF CollectedDatasets, OnlyDeleted, Below
  <2> QED
    BY <1>7, <2>1, RestorationBegins DEF restore_connector, CollectedDatasets, Restorable
<1>8. ASSUME NEW j \in Job, NEW d \in Dataset, create_dataset(j, d) PROVE IInv'
  BY <1>8, InsertBegins, Kinds DEF create_dataset, Row
<1>9. ASSUME NEW j \in Job, NEW d \in Dataset, delete_dataset(j, d) PROVE IInv'
  BY <1>9, DeletionBegins DEF delete_dataset
<1>10. ASSUME NEW j \in Job, NEW d \in Dataset, restore_dataset(j, d) PROVE IInv'
  BY <1>10, RestorationBegins DEF restore_dataset, Restorable
<1>11. ASSUME NEW j \in Job, NEW k \in Kpi, generate_kpis_for_dataset(j, k) PROVE IInv'
  BY <1>11, InsertBegins, Kinds DEF generate_kpis_for_dataset, Row
<1>12. ASSUME NEW j \in Job, NEW l \in Leaf, detect_for_kpi(j, l) PROVE IInv'
  BY <1>12, InsertBegins, Kinds DEF detect_for_kpi, Row
<1>13. ASSUME NEW j \in Job, insert(j) PROVE IInv'
  BY <1>13, InsertKeeps
<1>14. ASSUME NEW j \in Job, insert_refused(j) \/ cascade_refused(j) PROVE IInv'
  <2>1. j \in Busy /\ Refused(j)
    BY <1>14 DEF insert_refused, cascade_refused, At, Busy
  <2> QED
    BY <2>1, RefusedKeeps
<1>15. ASSUME NEW j \in Job, stamp(j) PROVE IInv'
  BY <1>15, StampKeeps
<1>16. ASSUME NEW j \in Job, restore(j) PROVE IInv'
  BY <1>16, RestoreKeeps
<1> QED
  BY <1>1, <1>2, <1>3, <1>4, <1>5, <1>6, <1>7, <1>8, <1>9, <1>10, <1>11, <1>12, <1>13, <1>14,
     <1>15, <1>16 DEF Next

LEMMA IInvIsEnough == IInv => CatalogIsSound /\ RestorableIsWhole /\ CardIsExact
<1> SUFFICES ASSUME IInv PROVE CatalogIsSound /\ RestorableIsWhole /\ CardIsExact
  OBVIOUS
<1> USE DEF IInv
<1>1. TypeOK
  BY DEF Typed, TypeOK, JobRecord
<1>2. RestorableIsWhole
  <2>1. \A p \in Connector \cup Dataset : \A r \in taken[p] : p \in Row /\ r \in Line(r)
    BY LineFacts DEF Typed, Row
  <2> QED
    BY <2>1 DEF TakenOK, Outlasts, RestorableIsWhole, Restorable
<1>3. CardIsExact
  <2> SUFFICES ASSUME NEW c \in Connector, Restorable(c), Below(Dataset, {c}) \cap hurried = {}
               PROVE  _archived_kpi_count(c) = Cardinality(AfterRestore(c))
    BY DEF CardIsExact
  <2> DEFINE kpis == Below(Kpi, Below(Dataset, {c}))
  <2>1. ASSUME NEW k \in kpis, Exists(k)
        PROVE  IsLive(k) \/ (k \in Below(Kpi, CollectedDatasets(c)) /\ IsDeleted(k))
    <3>1. /\ k \in Kpi /\ k \in Row \ Connector /\ ParentOf[k] \in Below(Dataset, {c})
          /\ ParentOf[k] \in Row
      BY Kinds DEF Below, Row
    <3>2. Exists(ParentOf[k])
      BY <2>1, <3>1 DEF KeysHold
    <3>3. IsDeleted(k) => IsDeleted(ParentOf[k])
      BY <3>1, <3>2 DEF KpisGoWithDataset, Exists
    <3> QED
      BY <2>1, <3>1, <3>3 DEF Exists, CollectedDatasets, OnlyDeleted, Below
  <2>2. {k \in kpis : Exists(k)} = AfterRestore(c)
    BY <2>1 DEF AfterRestore, Exists
  <2> QED
    BY <2>2 DEF _archived_kpi_count
<1> QED
  BY <1>1, <1>2, <1>3 DEF CatalogIsSound

LEMMA AlwaysIInv == Spec => []IInv
<1>1. Init => IInv
  BY InitEstablishes
<1>2. IInv /\ [Next]_vars => IInv'
  BY StepKeeps
<1> QED
  BY <1>1, <1>2, PTL DEF Spec

\* However deletions, restorations, inserts and purges overlap, what hangs on a
\* deleted row is deleted no later than it, but for what was restored on its
\* own or came alive while another request was under way (delete_connector,
\* restore_connector, delete_dataset, restore_dataset).
THEOREM CatalogAlwaysSound == Spec => []CatalogIsSound
<1>1. IInv => CatalogIsSound
  BY IInvIsEnough
<1> QED
  BY <1>1, AlwaysIInv, PTL

\* As long as a restore is granted, the purge has taken none of the rows the
\* deletion had stamped (purge_expired_soft_deletes, _purge_connector).
THEOREM RestorableAlwaysWhole == Spec => []RestorableIsWhole
<1>1. IInv => RestorableIsWhole
  BY IInvIsEnough
<1> QED
  BY <1>1, AlwaysIInv, PTL

\* The card of an archived connector counts just the KPIs a restore brings back,
\* unless a dataset of it came alive while another request was under way
\* (_archived_kpi_count, restore_connector).
THEOREM CardAlwaysExact == Spec => []CardIsExact
<1>1. IInv => CardIsExact
  BY IInvIsEnough
<1> QED
  BY <1>1, AlwaysIInv, PTL
=============================================================================
