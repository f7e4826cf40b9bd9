------------------------------- MODULE Catalog -------------------------------
(***************************************************************************)
(* Soft deletion down the tree of connectors, datasets, KPIs and what       *)
(* hangs on a KPI: archive and restore of a connector                      *)
(* (services/connector_service.py), delete and restore of a dataset        *)
(* (services/dataset_service.py), the purge by age and on demand           *)
(* (services/purge_service.py), and the requests that add rows below.      *)
(*                                                                         *)
(* A cascade first collects the identities of the rows it is about and     *)
(* then updates, some tables by those identities and some by their parent, *)
(* in one transaction at READ COMMITTED.  A request that adds a row looks  *)
(* at the parent first and inserts later, often after waiting for a model. *)
(***************************************************************************)
EXTENDS Naturals, FiniteSets

CONSTANTS
    Connector, Dataset, Kpi,
    Leaf,         \* insights, snapshots, versions, ...: rows the cascades reach through KPI ids
    ParentOf,     \* the row each dataset, KPI and leaf belongs to
    NameOf,       \* names of connectors and datasets
    Table,
    TableOf,      \* the source table of each dataset
    Present,      \* rows that exist to begin with
    NoRow,
    Job,          \* requests that can run at the same time
    Window,       \* SOFT_DELETE_WINDOW_DAYS
    MaxClock,     \* bound: days
    MaxStarts     \* bound: requests

Row == Connector \cup Dataset \cup Kpi \cup Leaf

ASSUME CatalogAssumption ==
    \* every kind of row is a table of its own, with a foreign key to the one above
    /\ Connector \cap (Dataset \cup Kpi \cup Leaf) = {}
    /\ Dataset \cap (Kpi \cup Leaf) = {} /\ Kpi \cap Leaf = {}
    /\ DOMAIN ParentOf = Row \ Connector
    /\ \A d \in Dataset : ParentOf[d] \in Connector
    /\ \A k \in Kpi : ParentOf[k] \in Dataset
    /\ \A l \in Leaf : ParentOf[l] \in Kpi
    /\ NoRow \notin Row /\ Present \subseteq Row
    /\ \A r \in Present \ Connector : ParentOf[r] \in Present
    /\ TableOf \in [Dataset -> Table]
    /\ {Window, MaxClock, MaxStarts} \subseteq Nat

VARIABLES
    row,          \* each row: state, and the day of its soft deletion
    schema,       \* the schema_metadata row of each dataset
    description,  \* the embedding of each table's description
    job,
    clock,        \* days
    starts,
    hurried,      \* history: rows made live by a request that met another one
    revived,      \* history: datasets restored while their connector was archived
    taken         \* history: the rows stamped by the deletion of each row, until it is restored

history == <<hurried, revived, taken>>
vars == <<row, schema, description, job, clock, starts, history>>

Cell == [state : {"none", "live", "deleted", "purged"}, at : 0 .. MaxClock]
Idle == [pc |-> "idle", op |-> "none", target |-> NoRow, datasets |-> {}, kpis |-> {},
         met |-> FALSE]

TypeOK ==
    /\ row \in [Row -> Cell] /\ schema \in [Dataset -> Cell] /\ description \in [Table -> Cell]
    /\ \A j \in Job :
           /\ job[j].pc \in {"idle", "insert", "stamp", "restore"}
           /\ job[j].target \in Row \cup {NoRow}
           /\ job[j].datasets \subseteq Dataset /\ job[j].kpis \subseteq Kpi
    /\ clock \in 0 .. MaxClock /\ starts \in 0 .. MaxStarts
    /\ hurried \subseteq Row /\ revived \subseteq Dataset

None == [state |-> "none", at |-> 0]
Live == [state |-> "live", at |-> 0]
Purged == [state |-> "purged", at |-> 0]

Init ==
    /\ row = [r \in Row |-> IF r \in Present THEN Live ELSE None]
    /\ schema = [d \in Dataset |-> None]
    /\ description = [t \in Table |-> None]
    /\ job = [j \in Job |-> Idle]
    /\ clock = 0 /\ starts = 0
    /\ hurried = {} /\ revived = {}
    /\ taken = [r \in Row |-> {}]

-----------------------------------------------------------------------------
(* Helpers *)

At(j, pc) == job[j].pc = pc
IsLive(r) == row[r].state = "live"
IsDeleted(r) == row[r].state = "deleted"
Exists(r) == IsLive(r) \/ IsDeleted(r)
Below(kind, parents) == {r \in kind : ParentOf[r] \in parents}
OnlyLive(rows) == {r \in rows : IsLive(r)}
OnlyDeleted(rows) == {r \in rows : IsDeleted(r)}
TablesOf(datasets, states) == {TableOf[d] : d \in {e \in datasets : schema[e].state \in states}}

Stamp == [state |-> "deleted", at |-> clock]
Put(cells, rows, cell) == [r \in DOMAIN cells |-> IF r \in rows THEN cell ELSE cells[r]]
PutWhere(cells, rows, state, cell) ==
    Put(cells, {r \in rows : cells[r].state = state}, cell)

\* deleted_at < now - SOFT_DELETE_WINDOW_DAYS
Expired(cell) == cell.state = "deleted" /\ cell.at + Window < clock

Busy == {j \in Job : ~At(j, "idle")}
Begin(j, pc, op, target, datasets, kpis) ==
    /\ At(j, "idle")
    /\ starts < MaxStarts
    /\ starts' = starts + 1
    /\ job' = [k \in Job |->
           IF k = j THEN [pc |-> pc, op |-> op, target |-> target, datasets |-> datasets,
                          kpis |-> kpis, met |-> Busy # {}]
           ELSE [job[k] EXCEPT !.met = k \in Busy]]
    /\ UNCHANGED <<row, schema, description, clock, history>>
Finish(j) == job' = [job EXCEPT ![j] = Idle]
Hurry(j, rows) == hurried' = IF job[j].met THEN hurried \cup rows ELSE hurried
\* A constraint of the database refuses the commit: the request ends, nothing changes.
Refused(j) ==
    /\ Finish(j)
    /\ UNCHANGED <<row, schema, description, clock, starts, history>>

-----------------------------------------------------------------------------
(* Rows come into being *)

\* An identity that no row has, nor is about to have.
Unused(r) == row[r] = None /\ \A i \in Busy : job[i].target # r

\* The name is free among the connectors that are not archived.
create_connector(c) ==
    /\ row[c] = None
    /\ \A b \in Connector : IsLive(b) => NameOf[b] # NameOf[c]
    /\ starts < MaxStarts /\ starts' = starts + 1
    /\ row' = [row EXCEPT ![c] = Live]
    /\ UNCHANGED <<schema, description, job, clock, history>>

\* The name is looked for among the datasets that are not deleted.
create_dataset(j, d) ==
    /\ Unused(d)
    /\ \A e \in Dataset : IsLive(e) => NameOf[e] # NameOf[d]
    /\ IsLive(ParentOf[d])
    /\ Begin(j, "insert", "create_dataset", d, {}, {})

generate_kpis_for_dataset(j, k) ==
    /\ Unused(k)
    /\ IsLive(ParentOf[k])
    /\ Begin(j, "insert", "generate", k, {}, {})

detect_for_kpi(j, l) ==
    /\ Unused(l)
    /\ IsLive(ParentOf[l])
    /\ Begin(j, "insert", "detect", l, {}, {})

\* The foreign key asks for the parent's row, deleted or not; the name of a
\* dataset is unique among all rows.
Insertable(r) ==
    /\ Exists(ParentOf[r])
    /\ r \in Dataset => \A e \in Dataset : Exists(e) => NameOf[e] # NameOf[r]

insert(j) ==
    LET r == job[j].target
    IN  /\ At(j, "insert")
        /\ Insertable(r)
        /\ row' = [row EXCEPT ![r] = Live]
        /\ Hurry(j, {r})
        /\ Finish(j)
        /\ UNCHANGED <<schema, description, clock, starts, revived, taken>>

insert_refused(j) ==
    /\ At(j, "insert")
    /\ ~Insertable(job[j].target)
    /\ Refused(j)

\* Schema detection of a dataset: one description per table name, one
\* schema_metadata row per dataset and table.
detect(d) ==
    /\ Exists(d)
    /\ schema[d] # Live \/ description[TableOf[d]] # Live
    /\ schema' = [schema EXCEPT ![d] = Live]
    /\ description' = [description EXCEPT ![TableOf[d]] = Live]
    /\ UNCHANGED <<row, job, clock, starts, history>>

-----------------------------------------------------------------------------
(* Cascades *)

delete_dataset(j, d) ==
    /\ IsLive(d)
    /\ Begin(j, "stamp", "delete_dataset", d, {d}, OnlyLive(Below(Kpi, {d})))

\* mutant: datasets deleted before are taken along
DatasetsToStamp_all(c) == Below(Dataset, {c})
DatasetsToStamp(c) == OnlyLive(Below(Dataset, {c}))

delete_connector(j, c) ==
    LET datasets == DatasetsToStamp(c)
    IN  /\ IsLive(c)
        /\ Begin(j, "stamp", "delete_connector", c, datasets, OnlyLive(Below(Kpi, datasets)))

\* Datasets a cascade reaches: through its connector, if it collected any.
Datasets(j) ==
    IF job[j].target \in Connector /\ job[j].datasets # {}
    THEN Below(Dataset, {job[j].target}) ELSE job[j].datasets
\* mutant: the datasets of a connector are forgotten
Reached_by_kpi(j) ==
    (job[j].datasets \cap {job[j].target})
        \cup Below(Kpi, job[j].datasets) \cup Below(Leaf, job[j].kpis)
\* KPIs by dataset, and what hangs on a KPI by the collected identities.
Reached(j) ==
    Datasets(j) \cup Below(Kpi, job[j].datasets) \cup Below(Leaf, job[j].kpis)

stamp(j) ==
    LET rows == {job[j].target} \cup OnlyLive(Reached(j))
    IN  /\ At(j, "stamp")
        /\ Exists(job[j].target)
        /\ row' = Put(row, rows, Stamp)
        /\ schema' = PutWhere(schema, job[j].datasets, "live", Stamp)
        /\ description' = PutWhere(description, TablesOf(job[j].datasets, {"live"}), "live", Stamp)
        /\ taken' = [taken EXCEPT ![job[j].target] = rows]
        /\ Finish(j)
        /\ UNCHANGED <<clock, starts, hurried, revived>>

\* The restore's own comparison with the window.
Restorable(r) == IsDeleted(r) /\ ~(row[r].at + Window < clock)

restore_dataset(j, d) ==
    /\ Restorable(d)
    /\ Begin(j, "restore", "restore_dataset", d, {d}, OnlyDeleted(Below(Kpi, {d})))

\* mutant: datasets whose own window is over stay deleted
CollectedDatasets_in_window(c) == {d \in OnlyDeleted(Below(Dataset, {c})) : Restorable(d)}
CollectedDatasets(c) == OnlyDeleted(Below(Dataset, {c}))

restore_connector(j, c) ==
    LET datasets == CollectedDatasets(c)
    IN  /\ Restorable(c)
        /\ Begin(j, "restore", "restore_connector", c, datasets,
                   OnlyDeleted(Below(Kpi, datasets)))

NameFree(r) == r \in Connector => \A c \in Connector \ {r} : IsLive(c) => NameOf[c] # NameOf[r]

\* Everything below comes back, whenever and however it was deleted.
restore(j) ==
    LET rows == {job[j].target} \cup {r \in Reached(j) : Exists(r)}
    IN  /\ At(j, "restore")
        /\ Exists(job[j].target) /\ NameFree(job[j].target)
        /\ row' = Put(row, rows, Live)
        /\ schema' = PutWhere(schema, job[j].datasets, "deleted", Live)
        /\ description' = PutWhere(description, TablesOf(job[j].datasets, {"live", "deleted"}),
                                   "deleted", Live)
        /\ Hurry(j, rows)
        /\ revived' = IF job[j].target \in Dataset /\ ~IsLive(ParentOf[job[j].target])
                      THEN revived \cup {job[j].target} ELSE revived
        /\ taken' = Put(taken, rows, {})
        /\ Finish(j)
        /\ UNCHANGED <<clock, starts>>

cascade_refused(j) ==
    /\ \/ At(j, "stamp") /\ ~Exists(job[j].target)
       \/ At(j, "restore") /\ ~(Exists(job[j].target) /\ NameFree(job[j].target))
    /\ Refused(j)

-----------------------------------------------------------------------------
(* Purge *)

\* A row that goes takes the rows below it along, as the foreign keys of KPIs
\* and leaves say; that of a dataset to its connector refuses instead.
WithBelow(rows) ==
    LET kpis == (rows \cap Kpi) \cup Below(Kpi, rows)
    IN  rows \cup kpis \cup Below(Leaf, kpis)
Gone(rows) == Put(row, {r \in rows : Exists(r)}, Purged)

PurgeRows == WithBelow({r \in Row : Expired(row[r])})
PurgeRefused ==
    \E d \in Dataset : Exists(d) /\ d \notin PurgeRows /\ ParentOf[d] \in PurgeRows

purge_expired_soft_deletes ==
    /\ ~PurgeRefused
    /\ row' = Gone(PurgeRows)
    /\ schema' = Put(schema, {d \in Dataset : Expired(schema[d])}, Purged)
    /\ description' = Put(description, {t \in Table : Expired(description[t])}, Purged)
    /\ UNCHANGED <<job, clock, starts, history>>

purge_connector(c) ==
    LET datasets == {d \in Below(Dataset, {c}) : Exists(d)}
        tables == TablesOf(datasets, {"live", "deleted"})
    IN  /\ IsDeleted(c)
        /\ starts < MaxStarts /\ starts' = starts + 1
        /\ row' = Gone({c} \cup WithBelow(datasets))
        /\ schema' = Put(schema, {d \in datasets : schema[d] # None}, Purged)
        /\ description' = Put(description, tables, Purged)
        /\ UNCHANGED <<job, clock, history>>

\* Requests are over within the day they start.
Tick ==
    /\ clock < MaxClock
    /\ Busy = {}
    /\ clock' = clock + 1
    /\ UNCHANGED <<row, schema, description, job, starts, history>>

-----------------------------------------------------------------------------
Next ==
    \/ Tick
    \/ purge_expired_soft_deletes
    \/ \E c \in Connector : create_connector(c) \/ purge_connector(c)
    \/ \E d \in Dataset : detect(d)
    \/ \E j \in Job :
        \/ \E c \in Connector : delete_connector(j, c) \/ restore_connector(j, c)
        \/ \E d \in Dataset :
               create_dataset(j, d) \/ delete_dataset(j, d) \/ restore_dataset(j, d)
        \/ \E k \in Kpi : generate_kpis_for_dataset(j, k)
        \/ \E l \in Leaf : detect_for_kpi(j, l)
        \/ insert(j) \/ insert_refused(j)
        \/ stamp(j) \/ restore(j) \/ cascade_refused(j)

Spec == Init /\ [][Next]_vars

-----------------------------------------------------------------------------
(* Properties *)

\* Nothing outlives the row above it: what hangs on a deleted row is deleted,
\* no later than it, except for a dataset restored on its own under an
\* archived connector and for rows that came alive while another request was
\* under way.
NothingOutlives ==
    \A r \in Row \ Connector :
        Exists(r) /\ IsDeleted(ParentOf[r]) /\ r \notin hurried \cup revived =>
            IsDeleted(r) /\ row[r].at <= row[ParentOf[r]].at

\* Every row is well formed, and nothing outlives the row above it.
CatalogIsSound == TypeOK /\ NothingOutlives

\* "Deleted rows older than 7 days": as long as a restore is granted, the
\* purge has taken none of the rows that deletion had stamped, whatever was
\* deleted, restored and purged elsewhere in between.
RestorableIsWhole ==
    \A p \in Connector \cup Dataset :
        Restorable(p) => \A r \in taken[p] : Exists(r)

\* The card of an archived connector counts the KPIs a restore would bring
\* back, although one counts by connector and the other goes down through the
\* datasets it finds deleted: unless another request was under way when a
\* dataset of it came alive.  A restore of the connector that overtakes the
\* deletion of one of its datasets brings that back without its KPIs.
_archived_kpi_count(c) == Cardinality({k \in Below(Kpi, Below(Dataset, {c})) : Exists(k)})
AfterRestore(c) ==
    LET rows == Below(Kpi, CollectedDatasets(c))
    IN  {k \in Below(Kpi, Below(Dataset, {c})) : IsLive(k) \/ (k \in rows /\ IsDeleted(k))}
CardIsExact ==
    \A c \in Connector :
        Restorable(c) /\ Below(Dataset, {c}) \cap hurried = {} =>
            _archived_kpi_count(c) = Cardinality(AfterRestore(c))

\* "Two datasets sharing a table name (e.g. two connectors pointed at the same
\* source DB) don't clobber each other's schema annotations": a live dataset
\* that has been described stays described.  What becomes of the one can take
\* the description of the other along, and no run checks this.
DescriptionIsOwn ==
    \A d \in Dataset :
        IsLive(d) /\ schema[d].state = "live" => description[TableOf[d]].state = "live"
=============================================================================
