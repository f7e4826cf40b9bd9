----------------------------- MODULE AgentStream -----------------------------
(***************************************************************************)
(* The agents' event bus: app/agents/messaging.py over Redis Streams.      *)
(*                                                                         *)
(* A stream is an append-only list.  A consumer group keeps a cursor over  *)
(* each stream it subscribes to and the list of entries it has given out   *)
(* that nobody has acknowledged (Redis calls it the PEL).  A worker polls  *)
(* for entries beyond the cursor only, hands each one of the batch to      *)
(* handle_event and acknowledges it when that returns.  Nothing catches    *)
(* what handle_event raises, so an exception ends the worker with the rest *)
(* of its batch; nothing in the code ever claims an unacknowledged entry.  *)
(*                                                                         *)
(* What the handler does is left to the modules that refine this one.      *)
(***************************************************************************)
EXTENDS Naturals, Sequences, FiniteSets

CONSTANTS
    Message,     \* payloads
    Stream,      \* events:<event_type>
    Group,       \* consumer groups, one per kind of agent
    Worker,      \* worker processes
    GroupOf,     \* the group a worker reads for
    Subscribed,  \* event_types of each group, in the order they are asked for
    Count,       \* entries of one stream that a read returns at most
    MaxEntries,  \* bound: entries ever published on a stream
    MaxDeaths    \* bound: times a worker dies, by a crash or by an exception

ASSUME StreamAssumption ==
    /\ GroupOf \in [Worker -> Group]
    /\ Subscribed \in [Group -> Seq(Stream)]
    /\ \A g \in Group : \A i, j \in DOMAIN Subscribed[g] :
           Subscribed[g][i] = Subscribed[g][j] => i = j  \* the keys of a dict
    /\ Count \in Nat \ {0}
    /\ MaxEntries \in Nat
    /\ MaxDeaths \in Nat

VARIABLES
    entries,    \* the streams
    groups,     \* groups that exist on the broker
    cursor,     \* last entry given to each group, by stream
    pel,        \* entries given out and not acknowledged, by group
    worker,     \* each worker: what it does and the rest of its batch
    attempted,  \* history: entries whose handler was entered, by group
    returned,   \* history: entries whose handler returned, by group
    deaths

busVars == <<entries, groups, cursor, pel, worker, attempted, returned, deaths>>

Entry == Stream \X (1 .. MaxEntries)
Topics(g) == {Subscribed[g][i] : i \in DOMAIN Subscribed[g]}
WorkerState == {"new", "polling", "ready", "handling", "handled", "dead"}

TypeOK ==
    /\ entries \in [Stream -> Seq(Message)]
    /\ \A s \in Stream : Len(entries[s]) <= MaxEntries
    /\ groups \subseteq Group
    /\ cursor \in [Group -> [Stream -> 0 .. MaxEntries]]
    /\ pel \in [Group -> SUBSET Entry]
    /\ worker \in [Worker -> [state : WorkerState, batch : SUBSET Entry]]
    /\ attempted \in [Group -> SUBSET Entry]
    /\ returned \in [Group -> SUBSET Entry]
    /\ deaths \in 0 .. MaxDeaths

Init ==
    /\ entries = [s \in Stream |-> <<>>]
    /\ groups = {}
    /\ cursor = [g \in Group |-> [s \in Stream |-> 0]]
    /\ pel = [g \in Group |-> {}]
    /\ worker = [w \in Worker |-> [state |-> "new", batch |-> {}]]
    /\ attempted = [g \in Group |-> {}]
    /\ returned = [g \in Group |-> {}]
    /\ deaths = 0

-----------------------------------------------------------------------------
(* Helpers *)

In(w, state) == worker[w].state = state
Become(w, state) == worker' = [worker EXCEPT ![w].state = state]

\* The entries of a stream that the group has not been given, Count at most.
Fresh(g, s) ==
    {e \in Entry : /\ e[1] = s
                   /\ e[2] > cursor[g][s]
                   /\ e[2] <= cursor[g][s] + Count
                   /\ e[2] <= Len(entries[s])}
Response(g) == UNION {Fresh(g, s) : s \in Topics(g)}

\* The order in which a poll goes through its response: stream by stream as
\* subscribed, and within a stream from the oldest entry on.
Before(g, e, f) ==
    IF e[1] = f[1] THEN e[2] < f[2]
    ELSE \E i, j \in DOMAIN Subscribed[g] :
             i < j /\ Subscribed[g][i] = e[1] /\ Subscribed[g][j] = f[1]

IsCurrent(w, e) ==
    /\ e \in worker[w].batch
    /\ \A f \in worker[w].batch : f # e => Before(GroupOf[w], e, f)

-----------------------------------------------------------------------------
(* The broker and the workers *)

publish(s, m) ==
    /\ Len(entries[s]) < MaxEntries
    /\ entries' = [entries EXCEPT ![s] = Append(@, m)]
    /\ UNCHANGED <<groups, cursor, pel, worker, attempted, returned, deaths>>

\* A worker process starts, for the first time or again.  A group that is not
\* there is created at the beginning of its streams, one that is there keeps
\* its cursor (BUSYGROUP).
ensure_consumer_groups(w) ==
    /\ worker[w].state \in {"new", "dead"}
    /\ groups' = groups \cup {GroupOf[w]}
    /\ worker' = [worker EXCEPT ![w] = [state |-> "polling", batch |-> {}]]
    /\ UNCHANGED <<entries, cursor, pel, attempted, returned, deaths>>

Advanced(g) ==
    [cursor EXCEPT ![g] = [s \in Stream |-> @[s] + Cardinality(Response(g) \cap ({s} \X Nat))]]

\* XREADGROUP with id ">": the broker moves the cursor and enters the batch
\* into the PEL at once.
poll_once(w) ==
    LET g == GroupOf[w]
    IN  /\ In(w, "polling")
        /\ Response(g) # {}
        /\ cursor' = Advanced(g)
        /\ pel' = [pel EXCEPT ![g] = @ \cup Response(g)]
        /\ worker' = [worker EXCEPT ![w] = [state |-> "ready", batch |-> Response(g)]]
        /\ UNCHANGED <<entries, groups, attempted, returned, deaths>>

\* handle_event is entered with the next entry of the batch.
enter_handler(w) ==
    /\ In(w, "ready")
    /\ \E e \in Entry :
           /\ IsCurrent(w, e)
           /\ attempted' = [attempted EXCEPT ![GroupOf[w]] = @ \cup {e}]
    /\ Become(w, "handling")
    /\ UNCHANGED <<entries, groups, cursor, pel, returned, deaths>>

handler_returns(w) ==
    /\ In(w, "handling")
    /\ \E e \in Entry :
           /\ IsCurrent(w, e)
           /\ returned' = [returned EXCEPT ![GroupOf[w]] = @ \cup {e}]
    /\ Become(w, "handled")
    /\ UNCHANGED <<entries, groups, cursor, pel, attempted, deaths>>

xack_batch(w) == \* mutant: one acknowledgement for the whole batch
    /\ In(w, "handled")
    /\ pel' = [pel EXCEPT ![GroupOf[w]] = @ \ worker[w].batch]
    /\ worker' = [worker EXCEPT ![w] = [state |-> "polling", batch |-> {}]]
    /\ UNCHANGED <<entries, groups, cursor, attempted, returned, deaths>>

xack_one_per_poll(w) == \* mutant: the loop ends after one entry
    /\ In(w, "handled")
    /\ \E e \in Entry : IsCurrent(w, e) /\ pel' = [pel EXCEPT ![GroupOf[w]] = @ \ {e}]
    /\ worker' = [worker EXCEPT ![w] = [state |-> "polling", batch |-> {}]]
    /\ UNCHANGED <<entries, groups, cursor, attempted, returned, deaths>>

xack(w) ==
    /\ In(w, "handled")
    /\ \E e \in Entry :
           /\ IsCurrent(w, e)
           /\ pel' = [pel EXCEPT ![GroupOf[w]] = @ \ {e}]
           /\ worker' = [worker EXCEPT ![w] =
                  [state |-> IF @.batch = {e} THEN "polling" ELSE "ready",
                   batch |-> @.batch \ {e}]]
    /\ UNCHANGED <<entries, groups, cursor, attempted, returned, deaths>>

\* The handler raises, the broker cannot be reached, or the process is killed:
\* the worker ends and forgets its batch.
die(w) ==
    /\ deaths < MaxDeaths
    /\ worker[w].state \notin {"new", "dead"}
    /\ deaths' = deaths + 1
    /\ worker' = [worker EXCEPT ![w] = [state |-> "dead", batch |-> {}]]
    /\ UNCHANGED <<entries, groups, cursor, pel, attempted, returned>>

-----------------------------------------------------------------------------
Work(w) == poll_once(w) \/ enter_handler(w) \/ handler_returns(w) \/ xack(w)

Next ==
    \/ \E s \in Stream, m \in Message : publish(s, m)
    \/ \E w \in Worker : ensure_consumer_groups(w) \/ Work(w) \/ die(w)

Spec == Init /\ [][Next]_busVars

\* A worker that runs polls forever and every worker is deployed once; nothing
\* restarts one that died.
FairSpec ==
    /\ Spec
    /\ \A w \in Worker : WF_busVars(Work(w))
    /\ \A w \in Worker : WF_busVars(In(w, "new") /\ ensure_consumer_groups(w))

-----------------------------------------------------------------------------
(* Properties *)

Delivered(g) == {e \in Entry : e[1] \in Topics(g) /\ e[2] <= cursor[g][e[1]]}
Members(g) == {w \in Worker : GroupOf[w] = g}
InHand(g) == UNION {worker[w].batch : w \in Members(g)}
Stranded(g) == pel[g] \ InHand(g)

\* Within a group an entry is in the hands of one worker only, and a handler
\* is never entered for it a second time, deaths and restarts included.
AtMostOnce ==
    \A w \in Worker :
        /\ \A v \in Members(GroupOf[w]) \ {w} : worker[w].batch \cap worker[v].batch = {}
        /\ In(w, "ready") => worker[w].batch \cap attempted[GroupOf[w]] = {}

\* What left the unacknowledged list was handled to the end.
AckedWasHandled == \A g \in Group : Delivered(g) \ pel[g] \subseteq returned[g]

\* A group skips nothing: whatever a worker has not been given is still ahead
\* of the cursor, also what was published before the group existed.
NothingSkipped ==
    \A g \in Group : Delivered(g) \subseteq attempted[g] \cup InHand(g) \cup Stranded(g)

\* While no worker has died, every unacknowledged entry is in a worker's batch:
\* only a death loses one.
LostOnlyByDeath == deaths = 0 => \A g \in Group : Stranded(g) = {}

\* An entry is handed over only when every older entry of its stream was, is
\* in the batch of another worker of the group, or died with one.
HandedOverInOrder ==
    \A g \in Group : \A e \in attempted[g] : \A f \in Delivered(g) :
        f[1] = e[1] /\ f[2] < e[2] =>
            \/ f \in attempted[g] \cup Stranded(g)
            \/ \E w \in Members(g) : f \in worker[w].batch /\ e \notin worker[w].batch

\* What a group is given: every entry once and in its order, none skipped, none
\* acknowledged before it was handled, none lost but by the death of a worker.
DeliveryIsSound ==
    TypeOK /\ AtMostOnce /\ AckedWasHandled /\ NothingSkipped /\ LostOnlyByDeath /\ HandedOverInOrder

\* Every entry is handled to the end by every group that subscribes to its
\* stream and has a worker, unless a worker has died.
EveryEntryHandled ==
    \A g \in Group, e \in Entry :
        (/\ Members(g) # {}
         /\ e[1] \in Topics(g)
         /\ e[2] <= Len(entries[e[1]])) ~> (e \in returned[g] \/ deaths > 0)
=============================================================================
