----------------------- MODULE StreamAndReportProofs -----------------------
(***************************************************************************)
(* Proofs about what hears of insights and tells of them.  The two ways of *)
(* reading the event streams: AgentStream, the consumer groups, for every  *)
(* set of streams, groups and workers, every subscription and every bound  *)
(* on entries and deaths; and LiveFeeds, the readers without a group, for  *)
(* every set of readers, users and watched streams and every bound on      *)
(* messages, restarts and failures.  And Reports, for every set of KPIs,   *)
(* datasets, dashboards and users, all that a detection may find, and      *)
(* every bound on insights, work, changes and failures.                    *)
(***************************************************************************)
EXTENDS AgentStream, LiveFeeds, Reports, FiniteSetTheorems, SequenceTheorems,
        WellFoundedInduction, TLAPS

(* AgentStream: the inductive invariant *)

\* A group is given entries that exist.
CursorBehind == \A g \in Group, s \in Stream : cursor[g][s] <= Len(entries[s])

\* Entries in a hand are pending, pending and attempted ones were given out,
\* and a handler returns only after it was entered.
BookIsOrdered ==
    /\ \A w \in Worker : worker[w].batch \subseteq pel[GroupOf[w]]
    /\ \A g \in Group :
           /\ pel[g] \subseteq Delivered(g)
           /\ attempted[g] \subseteq Delivered(g)
           /\ returned[g] \subseteq attempted[g]

\* A worker between two entries has tried nothing of its batch; one inside or
\* past a handler has tried the current entry only.
Current(w, e) ==
    /\ IsCurrent(w, e)
    /\ e \in attempted[GroupOf[w]]
    /\ In(w, "handled") => e \in returned[GroupOf[w]]
    /\ worker[w].batch \cap attempted[GroupOf[w]] \subseteq {e}
WorkerOK(w) ==
    /\ worker[w].state \in {"new", "polling", "dead"} => worker[w].batch = {}
    /\ worker[w].state \in {"handling", "handled"} => \E e \in Entry : Current(w, e)
WorkersOK == \A w \in Worker : WorkerOK(w)

IInv ==
    /\ TypeOK /\ CursorBehind /\ BookIsOrdered /\ WorkersOK
    /\ AtMostOnce /\ AckedWasHandled /\ LostOnlyByDeath /\ HandedOverInOrder

-----------------------------------------------------------------------------
(* What a read gives out *)

\* The n entries of a stream that follow entry c are n.
Run(s, c, n) == {s} \X (c + 1 .. c + n)

LEMMA RunOfEntries ==
  ASSUME NEW s, NEW c \in Nat, NEW n \in Nat
  PROVE  Cardinality(Run(s, c, n)) = n
<1> DEFINE R == Run(s, c, n)
           f == [i \in 1 .. n |-> <<s, c + i>>]
<1>1. f \in [1 .. n -> R]
  BY DEF Run
<1>2. \A i, j \in 1 .. n : f[i] = f[j] => i = j
  OBVIOUS
<1>3. ASSUME NEW e \in R PROVE \E i \in 1 .. n : f[i] = e
  <2>1. e = <<s, c + (e[2] - c)>> /\ e[2] - c \in 1 .. n
    BY DEF Run
  <2> QED
    BY <2>1
<1>4. f \in Bijection(1 .. n, R)
  BY <1>1, <1>2, <1>3 DEF Bijection, Injection, Surjection, IsInjective
<1>5. ExistsBijection(1 .. n, R)
  BY <1>4 DEF ExistsBijection
<1> QED
  BY <1>5, FS_CountingElements

\* The number of entries of s in the response for g.
Given(g, s) == Cardinality(Response(g) \cap ({s} \X Nat))

LEMMA ResponseFacts ==
  ASSUME TypeOK, CursorBehind, NEW g \in Group, NEW s \in Stream
  PROVE  /\ Given(g, s) \in Nat
         /\ cursor[g][s] \in Nat
         /\ cursor[g][s] + Given(g, s) <= Len(entries[s])
         /\ s \notin Topics(g) => Given(g, s) = 0
         /\ \A i \in 1 .. MaxEntries :
                <<s, i>> \in Response(g) <=>
                    s \in Topics(g) /\ i \in cursor[g][s] + 1 .. cursor[g][s] + Given(g, s)
<1> DEFINE c == cursor[g][s]
           top == Len(entries[s])
           n == IF top <= c + Count THEN top - c ELSE Count
<1>1. /\ c \in Nat /\ top \in Nat /\ c <= top /\ top <= MaxEntries
      /\ Count \in Nat /\ MaxEntries \in Nat
  BY StreamAssumption DEF TypeOK, CursorBehind
<1>2. n \in Nat /\ c + n <= top
  BY <1>1
<1>3. CASE s \in Topics(g)
  <2>1. \A e : e \in Response(g) /\ e[1] = s <=> e \in Fresh(g, s)
    <3>1. ASSUME NEW e, e \in Response(g), e[1] = s PROVE e \in Fresh(g, s)
      <4> PICK t \in Topics(g) : e \in Fresh(g, t)
        BY <3>1 DEF Response
      <4> QED
        BY <3>1 DEF Fresh
    <3>2. Fresh(g, s) \subseteq Response(g)
      BY <1>3 DEF Response
    <3> QED
      BY <3>1, <3>2 DEF Fresh
  <2>2. \A e : e \in Fresh(g, s) <=> e \in Entry /\ e[1] = s /\ e[2] \in c + 1 .. c + n
    <3>1. ASSUME NEW i \in 1 .. MaxEntries
          PROVE  i \in c + 1 .. c + n <=> i > c /\ i <= c + Count /\ i <= top
      BY <1>1
    <3>2. \A e \in Entry : e[2] \in 1 .. MaxEntries
      BY DEF Entry
    <3> HIDE DEF n, c, top
    <3>3. \A e : e \in Fresh(g, s) <=>
                     e \in Entry /\ e[1] = s /\ e[2] > c /\ e[2] <= c + Count /\ e[2] <= top
      BY DEF Fresh, c, top
    <3> QED
      BY <3>1, <3>2, <3>3
  <2>3. Response(g) \cap ({s} \X Nat) = Run(s, c, n)
    <3> HIDE DEF n, c
    <3> USE DEF Run
    <3>1. ASSUME NEW e \in Response(g) \cap ({s} \X Nat) PROVE e \in Run(s, c, n)
      BY <2>1, <2>2 DEF Entry
    <3>2. ASSUME NEW e \in Run(s, c, n) PROVE e \in Response(g) \cap ({s} \X Nat)
      <4>1. e = <<s, e[2]>> /\ e[1] = s /\ e[2] \in c + 1 .. c + n
        OBVIOUS
      <4>2. e[2] \in 1 .. MaxEntries
        BY <1>1, <1>2, <4>1
      <4> QED
        BY <2>1, <2>2, <4>1, <4>2 DEF Entry
    <3> QED
      BY <3>1, <3>2
  <2>4. Given(g, s) = n
    <3> HIDE DEF n, c
    <3>1. c \in Nat /\ n \in Nat
      BY <1>1, <1>2
    <3>2. Cardinality(Run(s, c, n)) = n
      BY <3>1, RunOfEntries
    <3> QED
      BY <2>3, <3>2 DEF Given
  <2>5. ASSUME NEW i \in 1 .. MaxEntries
        PROVE  <<s, i>> \in Response(g) <=> i \in c + 1 .. c + n
    BY <1>1, <2>1, <2>2 DEF Entry
  <2> QED
    BY <1>1, <1>2, <1>3, <2>4, <2>5
<1>4. CASE s \notin Topics(g)
  <2>1. Response(g) \cap ({s} \X Nat) = {}
    BY <1>4 DEF Response, Fresh
  <2>2. Given(g, s) = 0
    BY <2>1, FS_EmptySet DEF Given
  <2>3. \A i \in 1 .. MaxEntries : <<s, i>> \notin Response(g)
    BY <1>4 DEF Response, Fresh
  <2> QED
    BY <1>1, <1>4, <2>2, <2>3
<1> QED
  BY <1>3, <1>4

LEMMA BeforeIsStrict ==
  ASSUME NEW g \in Group, NEW e \in Entry, NEW f \in Entry, Before(g, e, f)
  PROVE  ~ Before(g, f, e)
<1>1. CASE e[1] = f[1]
  BY <1>1 DEF Before, Entry
<1>2. CASE e[1] # f[1]
  BY <1>2, StreamAssumption DEF Before
<1> QED
  BY <1>1, <1>2

\* There is one current entry at most.
LEMMA OneCurrent ==
  ASSUME TypeOK, NEW w \in Worker, NEW e \in Entry, NEW f \in Entry,
         IsCurrent(w, e), IsCurrent(w, f)
  PROVE  e = f
  BY BeforeIsStrict, StreamAssumption DEF IsCurrent, TypeOK

-----------------------------------------------------------------------------
(* One lemma for each action *)

LEMMA PublishKeeps ==
  ASSUME IInv, NEW s \in Stream, NEW m \in Message, publish(s, m)
  PROVE  IInv'
<1> USE DEF IInv, publish
<1>1. /\ entries' \in [Stream -> Seq(Message)]
      /\ \A t \in Stream : Len(entries'[t]) <= MaxEntries /\ Len(entries[t]) <= Len(entries'[t])
  BY StreamAssumption DEF TypeOK
<1>2. TypeOK'
  BY <1>1 DEF TypeOK
<1>3. CursorBehind'
  BY <1>1, StreamAssumption DEF CursorBehind, TypeOK
<1>4. BookIsOrdered' /\ AtMostOnce' /\ AckedWasHandled' /\ LostOnlyByDeath' /\ HandedOverInOrder'
  BY DEF BookIsOrdered, AtMostOnce, AckedWasHandled, LostOnlyByDeath, HandedOverInOrder,
     Delivered, Members, InHand, Stranded, In
<1>5. WorkersOK'
  BY DEF WorkersOK, WorkerOK, Current, IsCurrent, In
<1> QED
  BY <1>2, <1>3, <1>4, <1>5

\* What a worker does leaves the other workers' hands alone.
Others(w) == \A v \in Worker \ {w} : worker'[v] = worker[v]

LEMMA OthersStayOK ==
  ASSUME NEW w \in Worker, Others(w), WorkersOK, NEW v \in Worker \ {w},
         attempted'[GroupOf[v]] \cap worker[v].batch = attempted[GroupOf[v]] \cap worker[v].batch,
         returned[GroupOf[v]] \subseteq returned'[GroupOf[v]]
  PROVE  WorkerOK(v)'
<1>1. worker'[v] = worker[v] /\ WorkerOK(v)
  BY DEF Others, WorkersOK
<1>2. ASSUME NEW e \in Entry, Current(v, e) PROVE Current(v, e)'
  BY <1>1, <1>2 DEF Current, IsCurrent, In
<1> QED
  BY <1>1, <1>2 DEF WorkerOK

\* A worker that starts, or dies, has nothing in its hands.
LEMMA EmptyHandsKeep ==
  ASSUME IInv, NEW w \in Worker, NEW state \in {"polling", "dead"},
         worker' = [worker EXCEPT ![w] = [state |-> state, batch |-> {}]],
         worker[w].batch = {} \/ deaths' > 0,
         groups' \subseteq Group, deaths' \in 0 .. MaxDeaths, deaths <= deaths',
         UNCHANGED <<entries, cursor, pel, attempted, returned>>
  PROVE  IInv'
<1> USE DEF IInv
<1>1. /\ worker'[w] = [state |-> state, batch |-> {}]
      /\ Others(w)
      /\ worker' \in [Worker -> [state : WorkerState, batch : SUBSET Entry]]
  BY DEF Others, TypeOK, WorkerState
<1>2. TypeOK' /\ CursorBehind'
  BY <1>1 DEF TypeOK, CursorBehind
<1>3. \A v \in Worker : worker'[v].batch \subseteq worker[v].batch
  BY <1>1 DEF Others
<1>4. \A g \in Group : Delivered(g)' = Delivered(g) /\ InHand(g)' \subseteq InHand(g)
  BY <1>3 DEF Delivered, InHand, Members
<1>5. BookIsOrdered' /\ AckedWasHandled'
  BY <1>3, <1>4 DEF BookIsOrdered, AckedWasHandled
<1>6. WorkersOK'
  <2>1. WorkerOK(w)'
    BY <1>1 DEF WorkerOK
  <2> QED
    BY <1>1, <2>1, OthersStayOK DEF WorkersOK
<1>7. AtMostOnce'
  BY <1>1, <1>3 DEF AtMostOnce, Members, In, Others
<1>8. LostOnlyByDeath'
  <2>1. CASE worker[w].batch = {}
    <3>1. \A g \in Group : InHand(g)' = InHand(g)
      BY <1>1, <2>1 DEF InHand, Members, Others
    <3> QED
      BY <3>1 DEF LostOnlyByDeath, Stranded, TypeOK
  <2>2. CASE deaths' > 0
    BY <2>2 DEF LostOnlyByDeath
  <2> QED
    BY <2>1, <2>2
<1>9. HandedOverInOrder'
  <2> SUFFICES ASSUME NEW g \in Group, NEW e \in attempted[g], NEW f \in Delivered(g),
                      f[1] = e[1], f[2] < e[2]
               PROVE  (\/ f \in attempted[g] \cup Stranded(g)
                       \/ \E v \in Members(g) : f \in worker[v].batch /\ e \notin worker[v].batch)'
    BY <1>4 DEF HandedOverInOrder
  <2>1. Stranded(g) \subseteq Stranded(g)'
    BY <1>4 DEF Stranded
  <2>2. CASE f \in attempted[g] \cup Stranded(g)
    BY <2>1, <2>2
  <2>3. ASSUME NEW v \in Members(g), f \in worker[v].batch, e \notin worker[v].batch
        PROVE  \/ f \in Stranded(g)'
               \/ f \in worker'[v].batch /\ e \notin worker'[v].batch
    <3>1. CASE v # w
      BY <1>1, <2>3, <3>1 DEF Others, Members
    <3>2. CASE v = w
      <4>1. f \in pel[g] /\ \A u \in Members(g) \ {w} : f \notin worker[u].batch
        BY <2>3, <3>2 DEF BookIsOrdered, Members, AtMostOnce
      <4>2. f \notin InHand(g)'
        BY <1>1, <4>1 DEF InHand, Members, Others
      <4> QED
        BY <4>1, <4>2 DEF Stranded
    <3> QED
      BY <3>1, <3>2
  <2> QED
    BY <2>2, <2>3 DEF HandedOverInOrder, Members
<1> QED
  BY <1>2, <1>5, <1>6, <1>7, <1>8, <1>9

LEMMA StartKeeps ==
  ASSUME IInv, NEW w \in Worker, ensure_consumer_groups(w)
  PROVE  IInv'
<1>1. worker[w].batch = {}
  BY DEF IInv, WorkersOK, WorkerOK, ensure_consumer_groups
<1>2. groups' \subseteq Group
  BY StreamAssumption DEF ensure_consumer_groups, IInv, TypeOK
<1>3. deaths' \in 0 .. MaxDeaths /\ deaths <= deaths'
  BY StreamAssumption DEF ensure_consumer_groups, IInv, TypeOK
<1> QED
  BY <1>1, <1>2, <1>3, EmptyHandsKeep DEF ensure_consumer_groups

LEMMA DieKeeps ==
  ASSUME IInv, NEW w \in Worker, die(w)
  PROVE  IInv'
<1>1. deaths' \in 0 .. MaxDeaths /\ deaths' > 0 /\ deaths <= deaths'
  BY StreamAssumption DEF die, IInv, TypeOK
<1> QED
  BY <1>1, EmptyHandsKeep DEF die, IInv, TypeOK

\* What a poll does to what a group was given.
LEMMA PollFacts ==
  ASSUME TypeOK, CursorBehind, NEW w \in Worker, poll_once(w)
  PROVE  /\ cursor' \in [Group -> [Stream -> 0 .. MaxEntries]] /\ CursorBehind'
         /\ Response(GroupOf[w]) \subseteq Entry
         /\ Delivered(GroupOf[w])' = Delivered(GroupOf[w]) \cup Response(GroupOf[w])
         /\ \A e \in Response(GroupOf[w]), f \in Delivered(GroupOf[w]) :
                e[1] = f[1] => f[2] < e[2]
         /\ \A g \in Group \ {GroupOf[w]} : Delivered(g)' = Delivered(g)
<1> DEFINE g == GroupOf[w]
<1>0. /\ g \in Group /\ MaxEntries \in Nat
      /\ cursor \in [Group -> [Stream -> 0 .. MaxEntries]] /\ entries' = entries
      /\ \A s \in Stream : Len(entries[s]) \in Nat /\ Len(entries[s]) <= MaxEntries
  <2>1. entries \in [Stream -> Seq(Message)] /\ MaxEntries \in Nat
    BY StreamAssumption DEF TypeOK
  <2>2. \A s \in Stream : Len(entries[s]) \in Nat
    BY <2>1
  <2> QED
    BY <2>1, <2>2, StreamAssumption DEF TypeOK, poll_once
<1>1. cursor' = [cursor EXCEPT ![g] = [s \in Stream |-> @[s] + Given(g, s)]]
  BY DEF poll_once, Advanced, Given
<1>2. \A s \in Stream : cursor'[g][s] = cursor[g][s] + Given(g, s)
  BY <1>0, <1>1
<1>3. \A h \in Group \ {g} : cursor'[h] = cursor[h]
  BY <1>0, <1>1
<1>4. \A s \in Stream :
          /\ Given(g, s) \in Nat /\ cursor[g][s] \in Nat
          /\ cursor[g][s] + Given(g, s) <= Len(entries[s])
          /\ s \notin Topics(g) => Given(g, s) = 0
          /\ \A i \in 1 .. MaxEntries :
                <<s, i>> \in Response(g) <=>
                    s \in Topics(g) /\ i \in cursor[g][s] + 1 .. cursor[g][s] + Given(g, s)
  BY <1>0, ResponseFacts
<1>5. \A s \in Stream : cursor'[g][s] \in 0 .. MaxEntries /\ cursor'[g][s] <= Len(entries[s])
  BY <1>0, <1>2, <1>4
<1>6. cursor' \in [Group -> [Stream -> 0 .. MaxEntries]]
  BY <1>0, <1>1, <1>2, <1>5
<1>7. CursorBehind'
  BY <1>0, <1>3, <1>5 DEF CursorBehind
<1>8. Response(g) \subseteq Entry
  BY DEF Response, Fresh
<1>9. ASSUME NEW e \in Entry
      PROVE  /\ e[1] \in Stream /\ e[2] \in 1 .. MaxEntries
             /\ e \in Response(g) <=> /\ e[1] \in Topics(g)
                                      /\ e[2] > cursor[g][e[1]] /\ e[2] <= cursor'[g][e[1]]
  <2>1. e = <<e[1], e[2]>> /\ e[1] \in Stream /\ e[2] \in 1 .. MaxEntries
    BY DEF Entry
  <2>2. e \in Response(g) <=>
            e[1] \in Topics(g) /\ e[2] \in cursor[g][e[1]] + 1 .. cursor[g][e[1]] + Given(g, e[1])
    BY <1>4, <2>1
  <2> QED
    BY <1>0, <1>2, <1>4, <2>1, <2>2
<1>10. Delivered(g)' = Delivered(g) \cup Response(g)
  BY <1>2, <1>4, <1>8, <1>9 DEF Delivered
<1>11. \A e \in Response(g), f \in Delivered(g) : e[1] = f[1] => f[2] < e[2]
  BY <1>0, <1>8, <1>9 DEF Delivered
<1>12. \A h \in Group \ {g} : Delivered(h)' = Delivered(h)
  BY <1>3 DEF Delivered
<1> QED
  BY <1>6, <1>7, <1>8, <1>10, <1>11, <1>12

LEMMA PollKeeps ==
  ASSUME IInv, NEW w \in Worker, poll_once(w)
  PROVE  IInv'
<1> DEFINE g == GroupOf[w]
           R == Response(g)
<1> USE DEF IInv
<1>0. g \in Group /\ worker[w].state = "polling" /\ worker[w].batch = {}
  BY StreamAssumption DEF poll_once, In, WorkersOK, WorkerOK
<1>1. /\ worker'[w] = [state |-> "ready", batch |-> R] /\ Others(w)
      /\ worker' \in [Worker -> [state : WorkerState, batch : SUBSET Entry]]
  BY PollFacts DEF poll_once, Others, TypeOK, WorkerState
<1>2. /\ pel'[g] = pel[g] \cup R /\ \A h \in Group \ {g} : pel'[h] = pel[h]
      /\ pel' \in [Group -> SUBSET Entry]
  BY <1>0, PollFacts DEF poll_once, TypeOK
<1>3. UNCHANGED <<entries, groups, attempted, returned, deaths>>
  BY DEF poll_once
<1>4. /\ R \subseteq Entry /\ Delivered(g)' = Delivered(g) \cup R
      /\ R \cap Delivered(g) = {}
      /\ \A h \in Group \ {g} : Delivered(h)' = Delivered(h)
  <2>1. ASSUME NEW e \in R, e \in Delivered(g) PROVE FALSE
    BY <2>1, PollFacts DEF Entry
  <2> QED
    BY <2>1, PollFacts
<1>5. TypeOK' /\ CursorBehind'
  BY <1>1, <1>2, <1>3, PollFacts DEF TypeOK
<1>6. \A h \in Group : Delivered(h) \subseteq Delivered(h)'
  BY <1>4
<1>7. \A v \in Worker \ {w} : worker'[v].batch = worker[v].batch
  BY <1>1 DEF Others
<1>8. \A v \in Members(g) : worker[v].batch \cap R = {}
  <2>1. ASSUME NEW v \in Members(g) PROVE worker[v].batch \subseteq Delivered(g)
    <3>1. v \in Worker /\ GroupOf[v] = g
      BY DEF Members
    <3>2. worker[v].batch \subseteq pel[g] /\ pel[g] \subseteq Delivered(g)
      BY <1>0, <3>1 DEF BookIsOrdered
    <3> QED
      BY <3>2
  <2> QED
    BY <1>4, <2>1
<1>9. attempted[g] \cap R = {}
  BY <1>0, <1>4 DEF BookIsOrdered
<1>10. BookIsOrdered'
  <2>1. \A v \in Worker : worker'[v].batch \subseteq pel'[GroupOf[v]]
    <3>1. worker'[w].batch \subseteq pel'[GroupOf[w]]
      BY <1>1, <1>2
    <3>2. ASSUME NEW v \in Worker \ {w} PROVE worker'[v].batch \subseteq pel'[GroupOf[v]]
      <4>1. GroupOf[v] \in Group /\ worker[v].batch \subseteq pel[GroupOf[v]]
        BY StreamAssumption DEF BookIsOrdered
      <4>2. pel[GroupOf[v]] \subseteq pel'[GroupOf[v]]
        BY <1>2, <4>1
      <4> QED
        BY <1>7, <4>1, <4>2
    <3> QED
      BY <3>1, <3>2
  <2> QED
    BY <1>2, <1>3, <1>4, <2>1 DEF BookIsOrdered
<1>11. WorkersOK'
  BY <1>1, <1>3, OthersStayOK DEF WorkersOK, WorkerOK
<1>12. AtMostOnce'
  <2>1. ASSUME NEW u \in Worker, NEW v \in Members(GroupOf[u]) \ {u}
        PROVE  worker'[u].batch \cap worker'[v].batch = {}
    BY <1>1, <1>7, <1>8 DEF AtMostOnce, Members
  <2>2. ASSUME NEW u \in Worker, In(u, "ready")'
        PROVE  worker'[u].batch \cap attempted[GroupOf[u]] = {}
    BY <1>1, <1>9, <2>2 DEF AtMostOnce, Others, In
  <2> QED
    BY <1>3, <2>1, <2>2 DEF AtMostOnce, Members
<1>13. AckedWasHandled'
  BY <1>2, <1>3, <1>4 DEF AckedWasHandled
<1>14. /\ InHand(g)' = InHand(g) \cup R
       /\ \A h \in Group \ {g} : InHand(h)' = InHand(h)
  BY <1>0, <1>1, <1>7 DEF InHand, Members
<1>15. \A h \in Group : Stranded(h)' = Stranded(h)
  BY <1>2, <1>4, <1>14 DEF Stranded, BookIsOrdered
<1>16. LostOnlyByDeath'
  BY <1>3, <1>15 DEF LostOnlyByDeath
<1>17. HandedOverInOrder'
  <2> SUFFICES ASSUME NEW h \in Group, NEW e \in attempted[h], NEW f \in Delivered(h)',
                      f[1] = e[1], f[2] < e[2]
               PROVE  \/ f \in attempted[h] \cup Stranded(h)
                      \/ \E v \in Members(h) : f \in worker'[v].batch /\ e \notin worker'[v].batch
    BY <1>3, <1>15 DEF HandedOverInOrder, Members
  <2>1. e \in Delivered(h)
    BY DEF BookIsOrdered
  <2>2. f \in Delivered(h)
    <3>1. CASE h = g /\ f \in R
      <4>1. e[2] < f[2] /\ e[2] \in Nat /\ f[2] \in Nat
        BY <1>4, <2>1, <3>1, PollFacts DEF Delivered, Entry
      <4> QED
        BY <4>1
    <3> QED
      BY <1>4, <3>1
  <2>3. ASSUME NEW v \in Members(h), f \in worker[v].batch, e \notin worker[v].batch
        PROVE  f \in worker'[v].batch /\ e \notin worker'[v].batch
    BY <1>0, <1>7, <2>3 DEF Members
  <2> QED
    BY <2>2, <2>3 DEF HandedOverInOrder
<1> QED
  BY <1>5, <1>10, <1>11, <1>12, <1>13, <1>16, <1>17

\* A worker changes its state and keeps its batch.
LEMMA BecomeFacts ==
  ASSUME worker \in [Worker -> [state : WorkerState, batch : SUBSET Entry]],
         NEW w \in Worker, NEW s \in WorkerState, Become(w, s)
  PROVE  /\ worker'[w].state = s /\ worker'[w].batch = worker[w].batch
         /\ Others(w)
         /\ worker' \in [Worker -> [state : WorkerState, batch : SUBSET Entry]]
<1> DEFINE new == [worker[w] EXCEPT !.state = s]
<1>1. worker' = [worker EXCEPT ![w] = new]
  BY DEF Become
<1>2. /\ new \in [state : WorkerState, batch : SUBSET Entry]
      /\ new.state = s /\ new.batch = worker[w].batch
  OBVIOUS
<1> QED
  BY <1>1, <1>2 DEF Others

LEMMA EnterKeeps ==
  ASSUME IInv, NEW w \in Worker, enter_handler(w)
  PROVE  IInv'
<1> DEFINE g == GroupOf[w]
<1> USE DEF IInv
<1>1. PICK e \in Entry : /\ IsCurrent(w, e)
                         /\ attempted' = [attempted EXCEPT ![g] = @ \cup {e}]
  BY DEF enter_handler
<1>2. g \in Group /\ worker[w].state = "ready" /\ e \in worker[w].batch
  BY <1>1, StreamAssumption DEF enter_handler, In, IsCurrent
<1>3. /\ worker'[w].state = "handling" /\ worker'[w].batch = worker[w].batch
      /\ Others(w)
      /\ worker' \in [Worker -> [state : WorkerState, batch : SUBSET Entry]]
  BY BecomeFacts DEF enter_handler, TypeOK, WorkerState
<1>4. /\ attempted'[g] = attempted[g] \cup {e}
      /\ \A h \in Group \ {g} : attempted'[h] = attempted[h]
      /\ attempted' \in [Group -> SUBSET Entry]
  BY <1>1, <1>2 DEF TypeOK
<1>5. UNCHANGED <<entries, groups, cursor, pel, returned, deaths>>
  BY DEF enter_handler
<1>6. TypeOK' /\ CursorBehind'
  BY <1>3, <1>4, <1>5 DEF TypeOK, CursorBehind
<1>7. \A v \in Worker : worker'[v].batch = worker[v].batch
  BY <1>3 DEF Others
<1>8. \A h \in Group : /\ Delivered(h)' = Delivered(h) /\ InHand(h)' = InHand(h)
                       /\ Stranded(h)' = Stranded(h)
  BY <1>5, <1>7 DEF Delivered, InHand, Stranded, Members
<1>9. e \in Delivered(g)
  BY <1>2 DEF BookIsOrdered
<1>10. BookIsOrdered' /\ AckedWasHandled' /\ LostOnlyByDeath'
  BY <1>4, <1>5, <1>7, <1>8, <1>9 DEF BookIsOrdered, AckedWasHandled, LostOnlyByDeath
<1>11. worker[w].batch \cap attempted[g] = {}
  BY <1>2 DEF AtMostOnce, In
<1>12. \A v \in Worker \ {w} : GroupOf[v] = g => e \notin worker[v].batch
  BY <1>2 DEF AtMostOnce, Members
<1>13. \A v \in Worker \ {w} :
           attempted'[GroupOf[v]] \cap worker[v].batch = attempted[GroupOf[v]] \cap worker[v].batch
  <2> TAKE v \in Worker \ {w}
  <2>1. GroupOf[v] \in Group
    BY StreamAssumption
  <2> QED
    BY <1>4, <1>12, <2>1
<1>14. WorkersOK'
  <2>1. Current(w, e)'
    BY <1>1, <1>3, <1>4, <1>11 DEF Current, IsCurrent, In
  <2>2. WorkerOK(w)'
    BY <1>3, <2>1 DEF WorkerOK
  <2> QED
    BY <1>3, <1>5, <1>13, <2>2, OthersStayOK DEF WorkersOK
<1>15. AtMostOnce'
  <2>1. \A v \in Worker : \A u \in Members(GroupOf[v]) \ {v} :
            worker'[v].batch \cap worker'[u].batch = {}
    BY <1>7 DEF AtMostOnce, Members
  <2>2. ASSUME NEW v \in Worker, worker'[v].state = "ready"
        PROVE  worker'[v].batch \cap attempted'[GroupOf[v]] = {}
    <3>1. v # w /\ worker[v].state = "ready" /\ worker'[v].batch = worker[v].batch
      BY <1>3, <2>2 DEF Others
    <3> QED
      BY <1>13, <3>1 DEF AtMostOnce, In
  <2> QED
    BY <2>1, <2>2 DEF AtMostOnce, Members, In
<1>16. HandedOverInOrder'
  <2> SUFFICES ASSUME NEW h \in Group, NEW d \in attempted'[h], NEW f \in Delivered(h),
                      f[1] = d[1], f[2] < d[2]
               PROVE  \/ f \in attempted'[h] \cup Stranded(h)
                      \/ \E v \in Members(h) : f \in worker[v].batch /\ d \notin worker[v].batch
    BY <1>7, <1>8 DEF HandedOverInOrder, Members
  <2>1. CASE d \in attempted[h]
    BY <1>2, <1>4, <2>1 DEF HandedOverInOrder
  <2>2. CASE h = g /\ d = e
    <3>1. CASE f \in worker[w].batch
      <4>1. Before(g, e, f) /\ f[1] = e[1] /\ f[2] < e[2]
        BY <1>1, <2>2, <3>1 DEF IsCurrent, Delivered, Entry
      <4>2. e[2] \in Nat /\ f[2] \in Nat /\ e[2] < f[2]
        BY <4>1 DEF Before, Entry, Delivered
      <4> QED
        BY <4>1, <4>2
    <3>2. CASE \E v \in Members(g) \ {w} : f \in worker[v].batch
      BY <1>12, <2>2, <3>2 DEF Members
    <3>3. CASE f \in pel[g] \ InHand(g)
      BY <2>2, <3>3 DEF Stranded
    <3>4. CASE f \notin pel[g]
      <4>1. f \in attempted[g]
        BY <1>2, <2>2, <3>4 DEF AckedWasHandled, BookIsOrdered
      <4> QED
        BY <1>4, <2>2, <4>1
    <3> QED
      BY <3>1, <3>2, <3>3, <3>4 DEF InHand
  <2> QED
    BY <1>2, <1>4, <2>1, <2>2
<1> QED
  BY <1>6, <1>10, <1>14, <1>15, <1>16

LEMMA ReturnKeeps ==
  ASSUME IInv, NEW w \in Worker, handler_returns(w)
  PROVE  IInv'
<1> DEFINE g == GroupOf[w]
<1> USE DEF IInv
<1>1. PICK e \in Entry : /\ IsCurrent(w, e)
                         /\ returned' = [returned EXCEPT ![g] = @ \cup {e}]
  BY DEF handler_returns
<1>2. PICK d \in Entry : Current(w, d)
  BY DEF handler_returns, In, WorkersOK, WorkerOK
<1>3. d = e
  BY <1>1, <1>2, OneCurrent DEF Current
<1>4. g \in Group /\ worker[w].state = "handling" /\ e \in attempted[g]
  BY <1>2, <1>3, StreamAssumption DEF handler_returns, In, Current
<1>5. /\ worker'[w].state = "handled" /\ worker'[w].batch = worker[w].batch
      /\ Others(w)
      /\ worker' \in [Worker -> [state : WorkerState, batch : SUBSET Entry]]
  BY BecomeFacts DEF handler_returns, TypeOK, WorkerState
<1>6. /\ returned'[g] = returned[g] \cup {e}
      /\ \A h \in Group \ {g} : returned'[h] = returned[h]
      /\ returned' \in [Group -> SUBSET Entry]
  BY <1>1, <1>4 DEF TypeOK
<1>7. UNCHANGED <<entries, groups, cursor, pel, attempted, deaths>>
  BY DEF handler_returns
<1>8. TypeOK' /\ CursorBehind'
  BY <1>5, <1>6, <1>7 DEF TypeOK, CursorBehind
<1>9. \A v \in Worker : worker'[v].batch = worker[v].batch
  BY <1>5 DEF Others
<1>10. \A h \in Group : /\ Delivered(h)' = Delivered(h) /\ InHand(h)' = InHand(h)
                        /\ Stranded(h)' = Stranded(h)
  BY <1>7, <1>9 DEF Delivered, InHand, Stranded, Members
<1>11. BookIsOrdered' /\ AckedWasHandled' /\ LostOnlyByDeath'
  BY <1>4, <1>6, <1>7, <1>9, <1>10 DEF BookIsOrdered, AckedWasHandled, LostOnlyByDeath
<1>12. WorkersOK'
  <2>1. Current(w, e)'
    BY <1>2, <1>3, <1>5, <1>6, <1>7 DEF Current, IsCurrent, In
  <2>2. WorkerOK(w)'
    BY <1>5, <2>1 DEF WorkerOK
  <2>3. \A h \in Group : returned[h] \subseteq returned'[h]
    BY <1>4, <1>6
  <2>4. \A v \in Worker : returned[GroupOf[v]] \subseteq returned'[GroupOf[v]]
    BY <2>3, StreamAssumption
  <2> QED
    BY <1>5, <1>7, <2>2, <2>4, OthersStayOK DEF WorkersOK
<1>13. AtMostOnce'
  BY <1>5, <1>7, <1>9 DEF AtMostOnce, Members, In, Others
<1>14. HandedOverInOrder'
  BY <1>7, <1>9, <1>10 DEF HandedOverInOrder, Members
<1> QED
  BY <1>8, <1>11, <1>12, <1>13, <1>14

LEMMA AckKeeps ==
  ASSUME IInv, NEW w \in Worker, xack(w)
  PROVE  IInv'
<1> DEFINE g == GroupOf[w]
<1> USE DEF IInv
<1>1. PICK e \in Entry :
          /\ IsCurrent(w, e)
          /\ pel' = [pel EXCEPT ![g] = @ \ {e}]
          /\ worker' = [worker EXCEPT ![w] =
                 [state |-> IF @.batch = {e} THEN "polling" ELSE "ready",
                  batch |-> @.batch \ {e}]]
  BY DEF xack
<1>2. PICK d \in Entry : Current(w, d)
  BY DEF xack, In, WorkersOK, WorkerOK
<1>3. d = e
  BY <1>1, <1>2, OneCurrent DEF Current
<1>4. /\ g \in Group /\ e \in worker[w].batch
      /\ e \in attempted[g] /\ e \in returned[g]
      /\ worker[w].batch \cap attempted[g] \subseteq {e}
  BY <1>2, <1>3, StreamAssumption DEF xack, In, Current, IsCurrent
<1>5. /\ worker'[w].state \in {"polling", "ready"}
      /\ worker'[w].state = "polling" => worker'[w].batch = {}
      /\ worker'[w].batch = worker[w].batch \ {e}
      /\ Others(w)
      /\ worker' \in [Worker -> [state : WorkerState, batch : SUBSET Entry]]
  BY <1>1 DEF Others, TypeOK, WorkerState
<1>6. /\ pel'[g] = pel[g] \ {e}
      /\ \A h \in Group \ {g} : pel'[h] = pel[h]
      /\ pel' \in [Group -> SUBSET Entry]
  BY <1>1, <1>4 DEF TypeOK
<1>7. UNCHANGED <<entries, groups, cursor, attempted, returned, deaths>>
  BY DEF xack
<1>8. TypeOK' /\ CursorBehind'
  BY <1>5, <1>6, <1>7 DEF TypeOK, CursorBehind
<1>9. \A v \in Worker \ {w} : /\ worker'[v] = worker[v]
                              /\ GroupOf[v] = g => e \notin worker[v].batch
  BY <1>4, <1>5 DEF Others, AtMostOnce, Members
<1>10. \A h \in Group : Delivered(h)' = Delivered(h)
  BY <1>7 DEF Delivered
<1>11. /\ InHand(g)' = InHand(g) \ {e} /\ e \in InHand(g)
       /\ \A h \in Group \ {g} : InHand(h)' = InHand(h)
  BY <1>4, <1>5, <1>9 DEF InHand, Members
<1>12. \A h \in Group : Stranded(h)' = Stranded(h)
  BY <1>6, <1>11 DEF Stranded
<1>13. BookIsOrdered'
  <2>1. worker'[w].batch \subseteq pel'[g]
    BY <1>5, <1>6 DEF BookIsOrdered
  <2>2. ASSUME NEW v \in Worker \ {w} PROVE worker'[v].batch \subseteq pel'[GroupOf[v]]
    <3>1. GroupOf[v] \in Group /\ worker[v].batch \subseteq pel[GroupOf[v]]
      BY StreamAssumption DEF BookIsOrdered
    <3> QED
      BY <1>6, <1>9, <3>1
  <2>3. \A h \in Group : pel'[h] \subseteq pel[h]
    BY <1>6
  <2> QED
    BY <1>7, <1>10, <2>1, <2>2, <2>3 DEF BookIsOrdered
<1>14. AckedWasHandled'
  BY <1>4, <1>6, <1>7, <1>10 DEF AckedWasHandled
<1>15. LostOnlyByDeath'
  BY <1>7, <1>12 DEF LostOnlyByDeath
<1>16. WorkersOK'
  <2>1. WorkerOK(w)'
    BY <1>5 DEF WorkerOK
  <2> QED
    BY <1>5, <1>7, <2>1, OthersStayOK DEF WorkersOK
<1>17. AtMostOnce'
  <2>1. \A v \in Worker : worker'[v].batch \subseteq worker[v].batch
    BY <1>5, <1>9
  <2>2. worker'[w].batch \cap attempted'[g] = {}
    BY <1>4, <1>5, <1>7
  <2> QED
    BY <1>7, <1>9, <2>1, <2>2 DEF AtMostOnce, Members, In
<1>18. HandedOverInOrder'
  <2> SUFFICES ASSUME NEW h \in Group, NEW b \in attempted[h], NEW f \in Delivered(h),
                      f[1] = b[1], f[2] < b[2]
               PROVE  \/ f \in attempted[h] \cup Stranded(h)
                      \/ \E v \in Members(h) : f \in worker'[v].batch /\ b \notin worker'[v].batch
    BY <1>7, <1>10, <1>12 DEF HandedOverInOrder, Members
  <2>1. ASSUME NEW v \in Members(h), f \in worker[v].batch, b \notin worker[v].batch
        PROVE  \/ f \in attempted[h]
               \/ f \in worker'[v].batch /\ b \notin worker'[v].batch
    <3>1. CASE v = w
      BY <1>4, <1>5, <2>1, <3>1 DEF Members
    <3>2. CASE v # w
      BY <1>9, <2>1, <3>2 DEF Members
    <3> QED
      BY <3>1, <3>2
  <2> QED
    BY <2>1 DEF HandedOverInOrder
<1> QED
  BY <1>8, <1>13, <1>14, <1>15, <1>16, <1>17, <1>18

-----------------------------------------------------------------------------
(* Theorems *)

LEMMA InitEstablishes == Init => IInv
<1> SUFFICES ASSUME Init PROVE IInv
  OBVIOUS
<1> USE DEF Init
<1>1. TypeOK
  BY StreamAssumption DEF TypeOK, WorkerState
<1>2. CursorBehind
  BY DEF CursorBehind
<1>3. \A g \in Group : Delivered(g) = {}
  BY DEF Delivered, Entry
<1>4. \A w \in Worker : worker[w].state = "new" /\ worker[w].batch = {}
  OBVIOUS
<1>5. BookIsOrdered
  BY StreamAssumption, <1>4 DEF BookIsOrdered
<1>6. WorkersOK
  BY <1>4 DEF WorkersOK, WorkerOK
<1>7. AtMostOnce /\ AckedWasHandled /\ LostOnlyByDeath /\ HandedOverInOrder
  BY <1>3, <1>4 DEF AtMostOnce, In, AckedWasHandled, LostOnlyByDeath, Stranded, HandedOverInOrder
<1> QED
  BY <1>1, <1>2, <1>5, <1>6, <1>7 DEF IInv

LEMMA StepKeeps == IInv /\ [Next]_busVars => IInv'
<1> SUFFICES ASSUME IInv, [Next]_busVars PROVE IInv'
  OBVIOUS
<1>1. CASE UNCHANGED busVars
  <2> USE <1>1 DEF busVars, IInv
  <2>1. TypeOK' /\ CursorBehind' /\ BookIsOrdered'
    BY DEF TypeOK, CursorBehind, BookIsOrdered, Delivered
  <2>2. WorkersOK'
    BY DEF WorkersOK, WorkerOK, Current, IsCurrent, In
  <2>3. AtMostOnce' /\ AckedWasHandled' /\ LostOnlyByDeath' /\ HandedOverInOrder'
    BY DEF AtMostOnce, AckedWasHandled, LostOnlyByDeath, HandedOverInOrder,
       Delivered, Members, InHand, Stranded, In
  <2> QED
    BY <2>1, <2>2, <2>3
<1>2. ASSUME NEW s \in Stream, NEW m \in Message, publish(s, m) PROVE IInv'
  BY <1>2, PublishKeeps
<1>3. ASSUME NEW w \in Worker, ensure_consumer_groups(w) PROVE IInv'
  BY <1>3, StartKeeps
<1>4. ASSUME NEW w \in Worker, Work(w) PROVE IInv'
  <2>1. CASE poll_once(w)
    BY <2>1, PollKeeps
  <2>2. CASE enter_handler(w)
    BY <2>2, EnterKeeps
  <2>3. CASE handler_returns(w)
    BY <2>3, ReturnKeeps
  <2>4. CASE xack(w)
    BY <2>4, AckKeeps
  <2> QED
    BY <1>4, <2>1, <2>2, <2>3, <2>4 DEF Work
<1>5. ASSUME NEW w \in Worker, die(w) PROVE IInv'
  BY <1>5, DieKeeps
<1> QED
  BY <1>1, <1>2, <1>3, <1>4, <1>5 DEF Next

LEMMA IInvIsEnough == IInv => DeliveryIsSound
<1>1. ASSUME IInv PROVE NothingSkipped
  BY <1>1 DEF IInv, BookIsOrdered, AckedWasHandled, NothingSkipped, Stranded
<1> QED
  BY <1>1 DEF IInv, DeliveryIsSound

\* Whatever workers start, die and start again, a group is given every entry of
\* its streams once, in order and with none skipped; what is acknowledged was
\* handled, and only a worker's death strands an entry (AgentRuntime.poll_once,
\* EventBus.ensure_consumer_groups).
THEOREM DeliveryAlwaysSound == Spec => []DeliveryIsSound
<1>1. Init => IInv
  BY InitEstablishes
<1>2. IInv /\ [Next]_busVars => IInv'
  BY StepKeeps
<1>3. IInv => DeliveryIsSound
  BY IInvIsEnough
<1> QED
  BY <1>1, <1>2, <1>3, PTL DEF Spec

-----------------------------------------------------------------------------
(* LiveFeeds: the inductive invariant *)

ReaderState == [state : {"stopped", "between", "blocked", "reading", "writing"},
                pos : [Feed -> 0 .. MaxMessages], batch : Seq(Block), left : SUBSET User]

\* A block is of a watched stream, within what was published, and goes on where
\* the position is: at it while the message in hand is written, past it before.
BlockOK(r, rd, ends, i) ==
    LET b == rd.batch[i] IN
    /\ b.feed \in Watches[r]
    /\ b.next <= b.last /\ b.last <= ends[b.feed]
    /\ rd.state = "writing" /\ i = 1 => rd.pos[b.feed] = b.next
    /\ ~(rd.state = "writing" /\ i = 1) => rd.pos[b.feed] = End \/ b.next = rd.pos[b.feed] + 1
    /\ \A j \in DOMAIN rd.batch : i # j => rd.batch[j].feed # b.feed
ReaderOK(r, rd, ends) ==
    /\ rd.state = "stopped" => rd = Stopped
    /\ rd.state \in {"between", "blocked"} => rd.batch = <<>>
    /\ rd.state \in {"reading", "writing"} => rd.batch # <<>>
    /\ rd.state = "writing" => r \in Fanout
    /\ rd.state = "blocked" => \A f \in Watches[r] : rd.pos[f] \in {End, ends[f]}
    /\ \A f \in Feed : rd.pos[f] <= ends[f]
    /\ \A i \in DOMAIN rd.batch : BlockOK(r, rd, ends, i)
ReadersOK == \A r \in Reader : ReaderOK(r, reader[r], published)

\* A bell of a user is behind a fan-out that runs: behind its position, the
\* message it writes to that user, and the messages it has in its response.
Behind(rd, u, m) ==
    /\ rd.pos[m[1]] # End => m[2] <= rd.pos[m[1]]
    /\ rd.state = "writing" /\ u \in rd.left /\ m[1] = rd.batch[1].feed => m[2] < rd.batch[1].next
    /\ rd.pos[m[1]] = End =>
           \A i \in DOMAIN rd.batch : rd.batch[i].feed = m[1] => m[2] < rd.batch[i].next
BellsOK ==
    \A u \in User : \A i \in DOMAIN bells[u] :
        /\ bells[u][i][2] <= published[bells[u][i][1]]
        /\ \A r \in Fanout : reader[r].state # "stopped" => Behind(reader[r], u, bells[u][i])

FeedsInv == FeedsTypeOK /\ ReadersOK /\ TailIsGapless /\ BellsOnceInOrder /\ BellsOK

-----------------------------------------------------------------------------

LEMMA StoppedFacts == Stopped \in ReaderState /\ Stopped.batch = <<>>
BY FeedAssumption DEF Stopped, ReaderState, End

LEMMA FeedsInitEstablishes == FeedsInit => FeedsInv
<1> SUFFICES ASSUME FeedsInit PROVE FeedsInv
  OBVIOUS
<1>1. FeedsTypeOK
  BY FeedAssumption, StoppedFacts DEF FeedsInit, FeedsTypeOK, ReaderState, NothingGot
<1>2. ReadersOK
  BY FeedAssumption, StoppedFacts DEF FeedsInit, ReadersOK, ReaderOK, Stopped, End
<1>3. TailIsGapless
  BY FeedAssumption DEF FeedsInit, TailIsGapless, Is, Stopped, NothingGot
<1>4. BellsOnceInOrder /\ BellsOK
  BY DEF FeedsInit, BellsOnceInOrder, BellsOK
<1> QED
  BY <1>1, <1>2, <1>3, <1>4 DEF FeedsInv

\* What there is to read.
LEMMA ReadingFacts ==
    ASSUME FeedsTypeOK, NEW r \in Reader, ReaderOK(r, reader[r], published), NEW s \in Responses(r)
    PROVE  /\ s \in Seq(Block)
           /\ \A i \in DOMAIN s :
                  LET b == s[i] IN
                  /\ b.feed \in Watches[r] /\ b.next = Resolved(r, b.feed) + 1
                  /\ b.next <= b.last /\ b.last <= published[b.feed]
                  /\ \A j \in DOMAIN s : i # j => s[j].feed # b.feed
           /\ s = <<>> => \A f \in Watches[r] : reader[r].pos[f] \in {End, published[f]}
<1>1. PICK turns \in SetToSeqs(Ready(r)) : s = [i \in DOMAIN turns |-> NextBlock(r, turns[i])]
  BY DEF Responses
<1>2. Watches[r] \subseteq Feed /\ IsFiniteSet(Watches[r])
  BY FeedAssumption
<1>3. IsFiniteSet(Ready(r)) /\ Ready(r) \subseteq Watches[r]
  BY <1>2, FS_Subset DEF Ready
<1> DEFINE n == Cardinality(Ready(r))
<1>4. n \in Nat /\ (n = 0 => Ready(r) = {})
  BY <1>3, FS_CardinalityType, FS_EmptySet
<1>5. /\ turns \in [1 .. n -> Ready(r)]
      /\ \A i, j \in 1 .. n : i # j => turns[i] # turns[j]
  BY DEF SetToSeqs
<1>6. s = [i \in 1 .. n |-> NextBlock(r, turns[i])]
  BY <1>1, <1>5
<1>7. reader[r].pos \in [Feed -> 0 .. MaxMessages] /\ published \in [Feed -> 0 .. MaxMessages]
  BY DEF FeedsTypeOK
<1>8. ASSUME NEW f \in Ready(r)
      PROVE  /\ NextBlock(r, f) \in Block /\ NextBlock(r, f).feed = f
             /\ NextBlock(r, f).next = Resolved(r, f) + 1
             /\ NextBlock(r, f).next <= NextBlock(r, f).last /\ NextBlock(r, f).last <= published[f]
  <2>1. f \in Feed /\ Resolved(r, f) \in 0 .. MaxMessages /\ published[f] \in 0 .. MaxMessages
        /\ Resolved(r, f) < published[f]
    BY <1>2, <1>3, <1>7 DEF Ready, Resolved
  <2>2. ReadCount \in Nat /\ ReadCount > 0 /\ MaxMessages \in Nat
    BY FeedAssumption
  <2> QED
    BY <2>1, <2>2 DEF NextBlock, Block
<1>9. s \in Seq(Block)
  BY <1>4, <1>5, <1>6, <1>8
<1>10. ASSUME NEW i \in DOMAIN s
       PROVE  /\ s[i].feed \in Watches[r] /\ s[i].next = Resolved(r, s[i].feed) + 1
              /\ s[i].next <= s[i].last /\ s[i].last <= published[s[i].feed]
              /\ \A j \in DOMAIN s : i # j => s[j].feed # s[i].feed
  <2>1. i \in 1 .. n /\ turns[i] \in Ready(r)
    BY <1>5, <1>6
  <2>2. s[i] = NextBlock(r, turns[i]) /\ s[i].feed = turns[i]
    BY <1>6, <1>8, <2>1
  <2>3. ASSUME NEW j \in DOMAIN s, i # j PROVE s[j].feed # s[i].feed
    <3>1. j \in 1 .. n /\ s[j] = NextBlock(r, turns[j]) /\ turns[j] \in Ready(r)
      BY <1>5, <1>6
    <3> QED
      BY <1>5, <1>8, <2>1, <2>2, <2>3, <3>1
  <2> QED
    BY <1>3, <1>8, <2>1, <2>2, <2>3
<1>11. ASSUME s = <<>>, NEW f \in Watches[r] PROVE reader[r].pos[f] \in {End, published[f]}
  <2>1. n = 0
    BY <1>4, <1>6, <1>11
  <2>2. ~(Resolved(r, f) < published[f])
    BY <1>4, <2>1 DEF Ready
  <2>3. reader[r].pos[f] <= published[f]
    BY <1>2 DEF ReaderOK
  <2> QED
    BY <1>2, <1>7, <2>2, <2>3 DEF Resolved, Has
<1> QED
  BY <1>9, <1>10, <1>11

-----------------------------------------------------------------------------
(* A reader goes on *)

\* The position is at the message in hand.
AtHand(r, rd, ends) ==
    /\ rd.batch # <<>>
    /\ \A f \in Feed : rd.pos[f] <= ends[f]
    /\ rd.pos[rd.batch[1].feed] = rd.batch[1].next
    /\ \A i \in DOMAIN rd.batch :
           LET b == rd.batch[i] IN
           /\ b.feed \in Watches[r] /\ b.next <= b.last /\ b.last <= ends[b.feed]
           /\ i # 1 => rd.pos[b.feed] = End \/ b.next = rd.pos[b.feed] + 1
           /\ \A j \in DOMAIN rd.batch : i # j => rd.batch[j].feed # b.feed

LEMMA NotEmpty ==
    ASSUME NEW S, NEW s \in Seq(S), s # <<>>
    PROVE  /\ Len(s) \in Nat /\ Len(s) >= 1 /\ DOMAIN s = 1 .. Len(s)
           /\ 1 \in DOMAIN s /\ s[1] \in S
OBVIOUS

LEMMA ElementsOf ==
    ASSUME NEW rd \in ReaderState
    PROVE  rd.batch \in Seq(Block) /\ \A i \in DOMAIN rd.batch : rd.batch[i] \in Block
<1>1. rd.batch \in Seq(Block)
  BY DEF ReaderState
<1> QED
  BY <1>1

LEMMA HandFacts ==
    ASSUME NEW rd \in ReaderState, rd.batch # <<>>
    PROVE  /\ 1 \in DOMAIN rd.batch /\ rd.batch[1] \in Block
           /\ rd.batch[1].feed \in Feed
           /\ rd.batch[1].next \in 1 .. MaxMessages /\ rd.batch[1].last \in 1 .. MaxMessages
<1>1. 1 \in DOMAIN rd.batch /\ rd.batch[1] \in Block
  BY ElementsOf, NotEmpty
<1> QED
  BY <1>1 DEF Block

\* Moving the position to the message in hand keeps the reader in order.
LEMMA AdvanceFacts ==
    ASSUME NEW r \in Reader, NEW rd \in ReaderState, NEW ends \in [Feed -> 0 .. MaxMessages],
           ReaderOK(r, rd, ends), rd.state = "reading"
    PROVE  /\ Advance(rd) \in ReaderState
           /\ Advance(rd).state = "reading" /\ Advance(rd).batch = rd.batch
           /\ Advance(rd).left = rd.left
           /\ Advance(rd).pos = [rd.pos EXCEPT ![rd.batch[1].feed] = rd.batch[1].next]
           /\ AtHand(r, Advance(rd), ends)
<1>1. rd.batch # <<>> /\ 1 \in DOMAIN rd.batch /\ rd.batch[1].feed \in Feed
      /\ rd.batch[1].next \in 1 .. MaxMessages
  BY HandFacts DEF ReaderOK
<1>2. rd.pos \in [Feed -> 0 .. MaxMessages] /\ MaxMessages \in Nat
  BY FeedAssumption DEF ReaderState
<1>3. /\ Advance(rd).state = "reading" /\ Advance(rd).batch = rd.batch
      /\ Advance(rd).left = rd.left
      /\ Advance(rd).pos = [rd.pos EXCEPT ![rd.batch[1].feed] = rd.batch[1].next]
  BY DEF Advance, ReaderState
<1>4. Advance(rd) \in ReaderState
  <2>1. [rd.pos EXCEPT ![rd.batch[1].feed] = rd.batch[1].next] \in [Feed -> 0 .. MaxMessages]
    BY <1>1, <1>2
  <2> QED
    BY <2>1 DEF Advance, ReaderState
<1>5. \A i \in DOMAIN rd.batch :
          /\ rd.batch[i].feed \in Watches[r] /\ rd.batch[i].next <= rd.batch[i].last
          /\ rd.batch[i].last <= ends[rd.batch[i].feed]
          /\ rd.pos[rd.batch[i].feed] = End \/ rd.batch[i].next = rd.pos[rd.batch[i].feed] + 1
          /\ \A j \in DOMAIN rd.batch : i # j => rd.batch[j].feed # rd.batch[i].feed
  BY DEF ReaderOK, BlockOK
<1>6. \A i \in DOMAIN rd.batch : rd.batch[i].feed \in Feed
  BY ElementsOf DEF Block
<1>7. \A f \in Feed : Advance(rd).pos[f] <= ends[f]
  <2>1. rd.batch[1].next <= rd.batch[1].last /\ rd.batch[1].last <= ends[rd.batch[1].feed]
    BY <1>1, <1>5
  <2>2. rd.batch[1].last \in Nat /\ rd.batch[1].next \in Nat /\ ends[rd.batch[1].feed] \in Nat
    BY <1>1, HandFacts
  <2>3. rd.batch[1].next <= ends[rd.batch[1].feed]
    BY <2>1, <2>2
  <2>4. \A f \in Feed : rd.pos[f] <= ends[f]
    BY DEF ReaderOK
  <2> QED
    BY <1>1, <1>2, <1>3, <2>3, <2>4
<1>8. Advance(rd).pos[rd.batch[1].feed] = rd.batch[1].next
  BY <1>1, <1>2, <1>3
<1>9. ASSUME NEW i \in DOMAIN rd.batch, i # 1
      PROVE  \/ Advance(rd).pos[rd.batch[i].feed] = End
             \/ rd.batch[i].next = Advance(rd).pos[rd.batch[i].feed] + 1
  BY <1>1, <1>2, <1>3, <1>5, <1>6, <1>9
<1> QED
  BY <1>1, <1>3, <1>4, <1>5, <1>7, <1>8, <1>9 DEF AtHand

\* What is left of a response: the block in hand without its first message, or
\* the blocks after it.
LEMMA RemainingFacts ==
    ASSUME NEW batch \in Seq(Block), batch # <<>>
    PROVE  /\ Remaining(batch) \in Seq(Block)
           /\ batch[1].next < batch[1].last =>
                 /\ DOMAIN Remaining(batch) = DOMAIN batch
                 /\ Remaining(batch)[1] = [batch[1] EXCEPT !.next = @ + 1]
                 /\ \A i \in DOMAIN batch : i # 1 => Remaining(batch)[i] = batch[i]
           /\ ~(batch[1].next < batch[1].last) =>
                 \A i \in DOMAIN Remaining(batch) :
                    i + 1 \in DOMAIN batch /\ i + 1 # 1 /\ Remaining(batch)[i] = batch[i + 1]
<1>1. 1 \in DOMAIN batch /\ batch[1] \in Block
  BY NotEmpty
<1>2. CASE batch[1].next < batch[1].last
  <2> DEFINE b == [batch[1] EXCEPT !.next = @ + 1]
  <2>1. b \in Block
    <3>1. batch[1].next \in Nat /\ batch[1].last \in 1 .. MaxMessages /\ MaxMessages \in Nat
      BY <1>1, FeedAssumption DEF Block
    <3>2. batch[1].next + 1 \in 1 .. MaxMessages
      BY <1>2, <3>1
    <3> QED
      BY <1>1, <3>2 DEF Block
  <2>2. Remaining(batch) = [batch EXCEPT ![1] = b]
    BY <1>1, <1>2 DEF Remaining
  <2> HIDE DEF b
  <2>3. [batch EXCEPT ![1] = b] \in Seq(Block)
    BY <1>1, <2>1
  <2>4. /\ DOMAIN Remaining(batch) = DOMAIN batch /\ Remaining(batch)[1] = b
        /\ \A i \in DOMAIN batch : i # 1 => Remaining(batch)[i] = batch[i]
    BY <1>1, <2>2
  <2> QED
    BY <1>2, <2>2, <2>3, <2>4 DEF b
<1>3. CASE ~(batch[1].next < batch[1].last)
  <2>1. Remaining(batch) = Tail(batch)
    BY <1>3 DEF Remaining
  <2>2. /\ Tail(batch) \in Seq(Block)
        /\ \A i \in DOMAIN Tail(batch) :
              i + 1 \in DOMAIN batch /\ i + 1 # 1 /\ Tail(batch)[i] = batch[i + 1]
    OBVIOUS
  <2> QED
    BY <1>3, <2>1, <2>2
<1> QED
  BY <1>2, <1>3

\* The loop goes on with what is left and stays within the response.
LEMMA RestFacts ==
    ASSUME NEW r \in Reader, NEW rd \in ReaderState, NEW ends \in [Feed -> 0 .. MaxMessages],
           AtHand(r, rd, ends)
    PROVE  /\ Rest(rd) \in ReaderState /\ ReaderOK(r, Rest(rd), ends)
           /\ Rest(rd).pos = rd.pos /\ Rest(rd).left = {}
           /\ Rest(rd).state \in {"between", "reading"}
           /\ \A i \in DOMAIN Rest(rd).batch :
                 \/ Rest(rd).batch[i].feed = rd.batch[1].feed
                 \/ \E k \in DOMAIN rd.batch : Rest(rd).batch[i] = rd.batch[k]
<1> DEFINE batch == rd.batch
           rest == Remaining(batch)
<1>1. /\ batch \in Seq(Block) /\ batch # <<>>
      /\ rd.pos \in [Feed -> 0 .. MaxMessages]
  BY DEF AtHand, ReaderState
<1>2. 1 \in DOMAIN batch /\ batch[1] \in Block /\ batch[1].next \in Nat /\ batch[1].last \in Nat
  BY <1>1, HandFacts DEF Block
<1>3. /\ Rest(rd).batch = rest /\ Rest(rd).pos = rd.pos /\ Rest(rd).left = {}
      /\ Rest(rd).state = IF rest = <<>> THEN "between" ELSE "reading"
  BY DEF Rest, ReaderState
<1>4. rest \in Seq(Block)
  BY <1>1, RemainingFacts
<1>5. Rest(rd) \in ReaderState
  BY <1>4 DEF Rest, ReaderState
<1>6. \A i \in DOMAIN batch :
          /\ batch[i].feed \in Watches[r] /\ batch[i].next <= batch[i].last
          /\ batch[i].last <= ends[batch[i].feed]
          /\ i # 1 => rd.pos[batch[i].feed] = End \/ batch[i].next = rd.pos[batch[i].feed] + 1
          /\ \A j \in DOMAIN batch : i # j => batch[j].feed # batch[i].feed
  BY DEF AtHand
<1>7. rd.pos[batch[1].feed] = batch[1].next /\ \A f \in Feed : rd.pos[f] <= ends[f]
  BY DEF AtHand
<1> HIDE DEF batch, rest
<1>8. CASE batch[1].next < batch[1].last
  <2>1. /\ DOMAIN rest = DOMAIN batch /\ rest[1] = [batch[1] EXCEPT !.next = @ + 1]
        /\ \A i \in DOMAIN batch : i # 1 => rest[i] = batch[i]
    BY <1>1, <1>8, RemainingFacts DEF rest
  <2>2. /\ rest[1].feed = batch[1].feed /\ rest[1].last = batch[1].last
        /\ rest[1].next = batch[1].next + 1
    BY <1>2, <2>1 DEF Block
  <2>3. \A i \in DOMAIN rest : rest[i].feed = batch[i].feed
    BY <2>1, <2>2
  <2>4. ASSUME NEW i \in DOMAIN rest
        PROVE  /\ rest[i].feed \in Watches[r] /\ rest[i].next <= rest[i].last
               /\ rest[i].last <= ends[rest[i].feed]
               /\ rd.pos[rest[i].feed] = End \/ rest[i].next = rd.pos[rest[i].feed] + 1
               /\ \A j \in DOMAIN rest : i # j => rest[j].feed # rest[i].feed
               /\ rest[i].feed = batch[1].feed \/ \E k \in DOMAIN batch : rest[i] = batch[k]
    <3>1. CASE i = 1
      <4>1. /\ rest[1].feed \in Watches[r] /\ rest[1].last <= ends[rest[1].feed]
            /\ \A j \in DOMAIN rest : 1 # j => rest[j].feed # rest[1].feed
        BY <1>2, <1>6, <2>1, <2>2, <2>3
      <4>2. rest[1].next <= rest[1].last
        BY <1>2, <1>8, <2>2
      <4>3. rest[1].next = rd.pos[rest[1].feed] + 1
        BY <1>7, <2>2
      <4> QED
        BY <2>2, <3>1, <4>1, <4>2, <4>3
    <3>2. CASE i # 1
      BY <1>6, <2>1, <2>3, <3>2
    <3> QED
      BY <3>1, <3>2
  <2>5. rest # <<>>
    BY <1>2, <2>1
  <2> QED
    BY <1>3, <1>5, <1>7, <2>4, <2>5 DEF ReaderOK, BlockOK, batch
<1>9. CASE ~(batch[1].next < batch[1].last)
  <2>1. \A i \in DOMAIN rest : i + 1 \in DOMAIN batch /\ i + 1 # 1 /\ rest[i] = batch[i + 1]
    BY <1>1, <1>9, RemainingFacts DEF rest
  <2>2. \A i, j \in DOMAIN rest : i # j => i + 1 # j + 1
    BY <1>4
  <2>3. \A i \in DOMAIN rest :
               /\ rest[i].feed \in Watches[r] /\ rest[i].next <= rest[i].last
               /\ rest[i].last <= ends[rest[i].feed]
               /\ rd.pos[rest[i].feed] = End \/ rest[i].next = rd.pos[rest[i].feed] + 1
               /\ \A j \in DOMAIN rest : i # j => rest[j].feed # rest[i].feed
               /\ \E k \in DOMAIN batch : rest[i] = batch[k]
    BY <1>6, <2>1, <2>2
  <2> QED
    BY <1>3, <1>5, <1>7, <2>3 DEF ReaderOK, BlockOK, batch
<1> QED
  BY <1>8, <1>9

\* Taking the message in hand leaves the bells behind, and goes on with no gap.
LEMMA TakingIsBehind ==
    ASSUME NEW r \in Reader, NEW rd \in ReaderState, NEW ends \in [Feed -> 0 .. MaxMessages],
           ReaderOK(r, rd, ends), rd.state = "reading",
           NEW u \in User, NEW m \in Event, Behind(rd, u, m)
    PROVE  /\ m[1] = rd.batch[1].feed => m[2] < rd.batch[1].next
           /\ \A to \in SUBSET User :
                 Behind([Advance(rd) EXCEPT !.state = "writing", !.left = to], u, m)
           /\ Behind(Rest(Advance(rd)), u, m)
<1> DEFINE ad == Advance(rd)
<1>1. /\ ad \in ReaderState /\ ad.batch = rd.batch /\ AtHand(r, ad, ends)
      /\ ad.pos = [rd.pos EXCEPT ![rd.batch[1].feed] = rd.batch[1].next]
  BY AdvanceFacts
<1>2. /\ rd.batch # <<>> /\ 1 \in DOMAIN rd.batch /\ rd.batch[1].feed \in Feed
      /\ rd.batch[1].next \in 1 .. MaxMessages /\ rd.pos \in [Feed -> 0 .. MaxMessages]
      /\ m[1] \in Feed /\ m[2] \in Nat
  BY HandFacts DEF ReaderOK, ReaderState, Event
<1>3. rd.pos[rd.batch[1].feed] = End \/ rd.batch[1].next = rd.pos[rd.batch[1].feed] + 1
  BY <1>2 DEF ReaderOK, BlockOK
<1>4. m[1] = rd.batch[1].feed => m[2] < rd.batch[1].next
  BY <1>2, <1>3 DEF Behind
<1>5. /\ ad.pos[m[1]] # End => m[2] <= ad.pos[m[1]]
      /\ ad.pos[m[1]] = End => m[1] # rd.batch[1].feed
                               /\ \A i \in DOMAIN rd.batch :
                                     rd.batch[i].feed = m[1] => m[2] < rd.batch[i].next
  BY <1>1, <1>2, <1>4 DEF Behind, End
<1> HIDE DEF ad
<1>6. ASSUME NEW to \in SUBSET User
      PROVE  Behind([ad EXCEPT !.state = "writing", !.left = to], u, m)
  <2> DEFINE w == [ad EXCEPT !.state = "writing", !.left = to]
  <2>1. w.pos = ad.pos /\ w.batch = rd.batch
    BY <1>1 DEF ReaderState
  <2> HIDE DEF w
  <2>2. Behind(w, u, m)
    BY <1>4, <1>5, <2>1 DEF Behind
  <2> QED
    BY <2>2 DEF w
<1>7. Behind(Rest(ad), u, m)
  <2>1. /\ Rest(ad).pos = ad.pos /\ Rest(ad).state \in {"between", "reading"}
        /\ \A i \in DOMAIN Rest(ad).batch :
              \/ Rest(ad).batch[i].feed = rd.batch[1].feed
              \/ \E k \in DOMAIN rd.batch : Rest(ad).batch[i] = rd.batch[k]
    BY <1>1, RestFacts
  <2> QED
    BY <1>5, <2>1 DEF Behind
<1> QED
  BY <1>4, <1>6, <1>7 DEF ad

\* A run of numbers goes on with the next one.
LEMMA Appended ==
    ASSUME NEW t \in Seq(1 .. MaxMessages), NEW n \in 1 .. MaxMessages,
           \A i \in DOMAIN t : t[i] = t[1] + i - 1,
           t # <<>> => n = t[Len(t)] + 1
    PROVE  /\ Append(t, n) \in Seq(1 .. MaxMessages) /\ Append(t, n) # <<>>
           /\ \A i \in DOMAIN Append(t, n) : Append(t, n)[i] = Append(t, n)[1] + i - 1
           /\ Append(t, n)[Len(Append(t, n))] = n
<1>1. Append(t, n) \in Seq(1 .. MaxMessages) /\ Append(t, n) # <<>>
      /\ Len(Append(t, n)) = Len(t) + 1 /\ DOMAIN Append(t, n) = 1 .. Len(t) + 1
      /\ Append(t, n)[Len(t) + 1] = n
      /\ \A i \in 1 .. Len(t) : Append(t, n)[i] = t[i]
  <2>1. /\ Append(t, n) \in Seq(1 .. MaxMessages) /\ Append(t, n) # <<>>
        /\ Len(Append(t, n)) = Len(t) + 1 /\ Append(t, n)[Len(t) + 1] = n
        /\ \A i \in 1 .. Len(t) : Append(t, n)[i] = t[i]
    <3> DEFINE S == 1 .. MaxMessages
    <3>1. t \in Seq(S) /\ n \in S
      OBVIOUS
    <3> HIDE DEF S
    <3>2. /\ Append(t, n) \in Seq(S) /\ Append(t, n) # <<>>
          /\ Len(Append(t, n)) = Len(t) + 1 /\ Append(t, n)[Len(t) + 1] = n
          /\ \A i \in 1 .. Len(t) : Append(t, n)[i] = t[i]
      BY <3>1, AppendProperties
    <3> QED
      BY <3>2 DEF S
  <2>2. DOMAIN Append(t, n) = 1 .. Len(Append(t, n))
    BY <2>1
  <2> QED
    BY <2>1, <2>2
<1>2. CASE t = <<>>
  BY <1>1, <1>2
<1>3. CASE t # <<>>
  <2>1. /\ Len(t) \in Nat /\ Len(t) >= 1 /\ DOMAIN t = 1 .. Len(t)
        /\ t[1] \in 1 .. MaxMessages
    BY <1>3, NotEmpty
  <2>2. Append(t, n)[1] = t[1] /\ t[Len(t)] = t[1] + Len(t) - 1 /\ n = t[Len(t)] + 1
    BY <1>1, <1>3, <2>1
  <2>3. ASSUME NEW i \in 1 .. Len(t) + 1 PROVE Append(t, n)[i] = Append(t, n)[1] + i - 1
    <3>1. CASE i = Len(t) + 1
      BY <1>1, <2>1, <2>2, <3>1
    <3>2. CASE i \in 1 .. Len(t)
      BY <1>1, <2>1, <2>2, <3>2
    <3> QED
      BY <2>1, <3>1, <3>2
  <2> QED
    BY <1>1, <2>3
<1> QED
  BY <1>2, <1>3

-----------------------------------------------------------------------------
(* The steps *)

\* A reader changes on its own, and takes nothing.
LEMMA OneReader ==
    ASSUME FeedsInv, NEW r \in Reader, NEW rd \in ReaderState,
           reader' = [reader EXCEPT ![r] = rd],
           UNCHANGED <<published, got, account, bells, updates>>,
           starts' \in 0 .. MaxStarts, faults' \in 0 .. MaxFaults,
           ReaderOK(r, rd, published),
           reader[r].state # "stopped" \/ rd.state = "stopped",
           rd.state # "stopped" => rd.pos = reader[r].pos,
           r \in Fanout /\ rd.state # "stopped" =>
              \A u \in User, m \in Event :
                 m[2] <= published[m[1]] /\ Behind(reader[r], u, m) => Behind(rd, u, m)
    PROVE  FeedsInv'
<1>1. /\ \A q \in Reader : q # r => reader'[q] = reader[q]
      /\ reader'[r] = rd /\ reader' \in [Reader -> ReaderState]
  BY DEF FeedsInv, FeedsTypeOK, ReaderState
<1>2. FeedsTypeOK'
  BY <1>1 DEF FeedsInv, FeedsTypeOK, ReaderState
<1>3. ReadersOK'
  BY <1>1 DEF FeedsInv, ReadersOK
<1>4. TailIsGapless'
  BY <1>1 DEF FeedsInv, TailIsGapless, Is
<1>5. BellsOnceInOrder'
  BY DEF FeedsInv, BellsOnceInOrder
<1>6. BellsOK'
  <2>1. \A u \in User : \A i \in DOMAIN bells[u] : bells[u][i] \in Event
    BY DEF FeedsInv, FeedsTypeOK
  <2> QED
    BY <1>1, <2>1, FeedAssumption DEF FeedsInv, BellsOK
<1> QED
  BY <1>2, <1>3, <1>4, <1>5, <1>6 DEF FeedsInv

\* A reader takes the message in hand.
LEMMA Taking ==
    ASSUME FeedsInv, NEW r \in Reader, NEW rd \in ReaderState,
           Is(r, "reading"), Take(r), reader' = [reader EXCEPT ![r] = rd],
           UNCHANGED <<published, account, bells, starts, updates, faults>>,
           ReaderOK(r, rd, published), rd.state # "stopped",
           rd.pos = Advance(reader[r]).pos,
           \A u \in User, m \in Event : Behind(reader[r], u, m) => Behind(rd, u, m)
    PROVE  FeedsInv'
<1> DEFINE f == Hand(r).feed
           n == Hand(r).next
<1>1. /\ \A q \in Reader : q # r => reader'[q] = reader[q]
      /\ reader'[r] = rd /\ reader' \in [Reader -> ReaderState]
      /\ reader[r] \in ReaderState /\ published \in [Feed -> 0 .. MaxMessages]
      /\ got \in [Reader -> [Feed -> Seq(1 .. MaxMessages)]]
      /\ \A u \in User : \A i \in DOMAIN bells[u] : bells[u][i] \in Event
  BY DEF FeedsInv, FeedsTypeOK, ReaderState
<1>2. ReaderOK(r, reader[r], published) /\ reader[r].batch # <<>>
  BY DEF FeedsInv, ReadersOK, ReaderOK, Is
<1>3. f \in Feed /\ n \in 1 .. MaxMessages /\ 1 \in DOMAIN reader[r].batch
  BY <1>1, <1>2, HandFacts DEF Hand
<1>4. rd.pos = [reader[r].pos EXCEPT ![f] = n] /\ reader[r].pos \in [Feed -> 0 .. MaxMessages]
  BY <1>1, <1>2, AdvanceFacts DEF Is, Hand, ReaderState
<1>5. reader[r].pos[f] = End \/ n = reader[r].pos[f] + 1
  BY <1>2, <1>3 DEF ReaderOK, BlockOK, Is, Hand
<1> DEFINE t == got[r][f]
<1>6. /\ t \in Seq(1 .. MaxMessages) /\ \A i \in DOMAIN t : t[i] = t[1] + i - 1
      /\ reader[r].pos[f] = (IF t = <<>> THEN End ELSE t[Len(t)])
  BY <1>1, <1>3 DEF FeedsInv, TailIsGapless, Is
<1>7. t # <<>> => n = t[Len(t)] + 1
  <2>1. ASSUME t # <<>> PROVE t[Len(t)] \in 1 .. MaxMessages
    <3> DEFINE S == 1 .. MaxMessages
    <3>1. t \in Seq(S)
      BY <1>6
    <3> HIDE DEF S
    <3>2. Len(t) \in DOMAIN t
      BY <2>1, <3>1, NotEmpty
    <3>3. t[Len(t)] \in S
      BY <3>1, <3>2
    <3> QED
      BY <3>3 DEF S
  <2> QED
    BY <1>5, <1>6, <2>1 DEF End
<1>8. got' = [got EXCEPT ![r] = [got[r] EXCEPT ![f] = Append(t, n)]]
  BY <1>1, <1>3 DEF Take
<1> HIDE DEF t, f, n
<1>9. /\ Append(t, n) \in Seq(1 .. MaxMessages) /\ Append(t, n) # <<>>
      /\ \A i \in DOMAIN Append(t, n) : Append(t, n)[i] = Append(t, n)[1] + i - 1
      /\ Append(t, n)[Len(Append(t, n))] = n
  BY <1>3, <1>6, <1>7, Appended
<1>10. /\ got' \in [Reader -> [Feed -> Seq(1 .. MaxMessages)]]
       /\ got'[r][f] = Append(t, n)
       /\ \A q \in Reader, g \in Feed : ~(q = r /\ g = f) => got'[q][g] = got[q][g]
  BY <1>1, <1>3, <1>8, <1>9
<1>11. FeedsTypeOK'
  BY <1>1, <1>10 DEF FeedsInv, FeedsTypeOK, ReaderState
<1>12. ReadersOK'
  BY <1>1 DEF FeedsInv, ReadersOK
<1>13. TailIsGapless'
  <2> SUFFICES ASSUME NEW q \in Reader, NEW g \in Feed
               PROVE  /\ \A i \in DOMAIN got'[q][g] : got'[q][g][i] = got'[q][g][1] + i - 1
                      /\ reader'[q].state # "stopped" =>
                            reader'[q].pos[g] =
                               (IF got'[q][g] = <<>> THEN End ELSE got'[q][g][Len(got'[q][g])])
    BY DEF TailIsGapless, Is
  <2>1. /\ \A i \in DOMAIN got[q][g] : got[q][g][i] = got[q][g][1] + i - 1
        /\ reader[q].state # "stopped" =>
              reader[q].pos[g] = (IF got[q][g] = <<>> THEN End ELSE got[q][g][Len(got[q][g])])
    BY DEF FeedsInv, TailIsGapless, Is
  <2>2. CASE q = r /\ g = f
    BY <1>1, <1>3, <1>4, <1>9, <1>10, <2>2
  <2>3. CASE q = r /\ g # f
    <3>1. reader'[q].pos[g] = reader[q].pos[g] /\ reader[q].state # "stopped"
      BY <1>1, <1>3, <1>4, <2>3 DEF Is
    <3> QED
      BY <1>10, <2>1, <2>3, <3>1
  <2>4. CASE q # r
    BY <1>1, <1>10, <2>1, <2>4
  <2> QED
    BY <2>2, <2>3, <2>4
<1>14. BellsOnceInOrder'
  BY DEF FeedsInv, BellsOnceInOrder
<1>15. BellsOK'
  <2>1. reader[r].state # "stopped"
    BY DEF Is
  <2> QED
    BY <1>1, <2>1 DEF FeedsInv, BellsOK
<1> QED
  BY <1>11, <1>12, <1>13, <1>14, <1>15 DEF FeedsInv


(* The actions of a reader *)

\* An endpoint pushes.
LEMMA Pushing == ASSUME FeedsInv, NEW r \in Reader, push(r) PROVE FeedsInv'
<1>1. reader[r] \in ReaderState /\ published \in [Feed -> 0 .. MaxMessages]
      /\ ReaderOK(r, reader[r], published) /\ reader[r].state = "reading"
  BY DEF FeedsInv, FeedsTypeOK, ReaderState, ReadersOK, push, Is
<1> DEFINE rd == Rest(Advance(reader[r]))
<1>2. /\ rd \in ReaderState /\ ReaderOK(r, rd, published) /\ rd.state # "stopped"
      /\ rd.pos = Advance(reader[r]).pos
  BY <1>1, AdvanceFacts, RestFacts
<1>3. \A u \in User, m \in Event : Behind(reader[r], u, m) => Behind(rd, u, m)
  BY <1>1, TakingIsBehind
<1>4. reader' = [reader EXCEPT ![r] = rd]
  BY DEF push
<1> HIDE DEF rd
<1> QED
  BY <1>2, <1>3, <1>4, Taking DEF push

\* The fan-out takes an event, for no one or for the users it loads.
LEMMA Starting == ASSUME FeedsInv, NEW r \in Reader, write_notifications(r) PROVE FeedsInv'
<1>1. reader[r] \in ReaderState /\ published \in [Feed -> 0 .. MaxMessages]
      /\ ReaderOK(r, reader[r], published) /\ reader[r].state = "reading"
  BY DEF FeedsInv, FeedsTypeOK, ReaderState, ReadersOK, write_notifications, Is
<1> DEFINE to == Targets(Hand(r).feed)
           ad == Advance(reader[r])
<1>2. CASE to = {}
  <2> DEFINE rd == Rest(ad)
  <2>1. /\ rd \in ReaderState /\ ReaderOK(r, rd, published) /\ rd.state # "stopped"
        /\ rd.pos = ad.pos
    BY <1>1, AdvanceFacts, RestFacts
  <2>2. \A u \in User, m \in Event : Behind(reader[r], u, m) => Behind(rd, u, m)
    BY <1>1, TakingIsBehind
  <2>3. reader' = [reader EXCEPT ![r] = rd]
    BY <1>2 DEF write_notifications
  <2> HIDE DEF rd
  <2> QED
    BY <2>1, <2>2, <2>3, Taking DEF write_notifications
<1>3. CASE to # {}
  <2> DEFINE rd == [ad EXCEPT !.state = "writing", !.left = to]
  <2>1. /\ ad \in ReaderState /\ ad.batch = reader[r].batch /\ AtHand(r, ad, published)
    BY <1>1, AdvanceFacts
  <2>2. /\ rd \in ReaderState /\ rd.state = "writing" /\ rd.pos = ad.pos /\ rd.batch = ad.batch
    BY <2>1 DEF ReaderState, Targets
  <2>3. \A u \in User, m \in Event : Behind(reader[r], u, m) => Behind(rd, u, m)
    BY <1>1, TakingIsBehind DEF Targets
  <2>4. reader' = [reader EXCEPT ![r] = rd]
    BY <1>3 DEF write_notifications
  <2>5. ReaderOK(r, rd, published)
    <3> HIDE DEF rd, ad
    <3>1. r \in Fanout
      BY DEF write_notifications
    <3> QED
      BY <2>1, <2>2, <3>1 DEF ReaderOK, BlockOK, AtHand
  <2> HIDE DEF rd
  <2> QED
    BY <2>2, <2>3, <2>4, <2>5, Taking DEF write_notifications
<1> QED
  BY <1>2, <1>3

\* A reader that writes rows stands at the message in hand.
LEMMA WritingFacts ==
    ASSUME FeedsInv, NEW r \in Reader, Is(r, "writing")
    PROVE  /\ reader[r] \in ReaderState /\ published \in [Feed -> 0 .. MaxMessages]
           /\ ReaderOK(r, reader[r], published) /\ AtHand(r, reader[r], published) /\ r \in Fanout
           /\ Hand(r).feed \in Feed /\ Hand(r).next \in 1 .. MaxMessages
           /\ Hand(r).next <= published[Hand(r).feed]
           /\ reader[r].pos[Hand(r).feed] = Hand(r).next
<1>1. reader[r] \in ReaderState /\ published \in [Feed -> 0 .. MaxMessages]
      /\ ReaderOK(r, reader[r], published) /\ reader[r].state = "writing"
  BY DEF FeedsInv, FeedsTypeOK, ReaderState, ReadersOK, Is
<1>2. reader[r].batch # <<>> /\ r \in Fanout
  BY <1>1 DEF ReaderOK
<1>3. 1 \in DOMAIN reader[r].batch /\ Hand(r) \in Block
  BY <1>1, <1>2, HandFacts DEF Hand
<1>4. AtHand(r, reader[r], published)
  BY <1>1, <1>2, <1>3 DEF ReaderOK, BlockOK, AtHand
<1>5. Hand(r).next <= Hand(r).last /\ Hand(r).last <= published[Hand(r).feed]
      /\ reader[r].pos[Hand(r).feed] = Hand(r).next
  BY <1>3, <1>4 DEF AtHand, Hand
<1>6. Hand(r).next \in Nat /\ Hand(r).last \in Nat /\ published[Hand(r).feed] \in Nat
  BY <1>1, <1>3 DEF Block
<1>7. Hand(r).next <= published[Hand(r).feed]
  BY <1>5, <1>6
<1> QED
  BY <1>1, <1>2, <1>3, <1>4, <1>5, <1>7 DEF Block

\* A bell up to the message in hand stays behind what follows it.
LEMMA RestIsBehind ==
    ASSUME NEW r \in Reader, NEW rd \in ReaderState, NEW ends \in [Feed -> 0 .. MaxMessages],
           AtHand(r, rd, ends), NEW u, NEW m \in Event,
           rd.pos[m[1]] # End => m[2] <= rd.pos[m[1]],
           rd.pos[m[1]] = End =>
              \A i \in DOMAIN rd.batch : rd.batch[i].feed = m[1] => m[2] < rd.batch[i].next
    PROVE  Behind(Rest(rd), u, m)
<1>1. /\ Rest(rd).pos = rd.pos /\ Rest(rd).state \in {"between", "reading"}
      /\ \A i \in DOMAIN Rest(rd).batch :
            \/ Rest(rd).batch[i].feed = rd.batch[1].feed
            \/ \E k \in DOMAIN rd.batch : Rest(rd).batch[i] = rd.batch[k]
  BY RestFacts
<1>2. rd.pos[rd.batch[1].feed] # End
  BY HandFacts DEF AtHand, End
<1> QED
  BY <1>1, <1>2 DEF Behind

\* A failed write ends the event.
LEMMA Failing == ASSUME FeedsInv, NEW r \in Reader, write_fails(r) PROVE FeedsInv'
<1>1. Is(r, "writing")
  BY DEF write_fails
<1> DEFINE rd == Rest(reader[r])
<1>2. /\ reader[r] \in ReaderState /\ published \in [Feed -> 0 .. MaxMessages]
      /\ AtHand(r, reader[r], published)
  BY <1>1, WritingFacts
<1>3. /\ rd \in ReaderState /\ ReaderOK(r, rd, published) /\ rd.pos = reader[r].pos
  BY <1>2, RestFacts
<1>4. \A u \in User, m \in Event : Behind(reader[r], u, m) => Behind(rd, u, m)
  BY <1>2, RestIsBehind DEF Behind
<1>5. reader' = [reader EXCEPT ![r] = rd] /\ reader[r].state # "stopped"
      /\ faults' \in 0 .. MaxFaults /\ starts' \in 0 .. MaxStarts
      /\ UNCHANGED <<published, got, account, bells, updates>>
  BY <1>1, FeedAssumption DEF write_fails, Is, FeedsInv, FeedsTypeOK
<1> HIDE DEF rd
<1> QED
  BY <1>3, <1>4, <1>5, OneReader

\* A row is written: later than every row of that type the user has.
LEMMA Ringing == ASSUME FeedsInv, NEW r \in Reader, create_notification(r) PROVE FeedsInv'
<1>1. Is(r, "writing")
  BY DEF create_notification
<1> DEFINE f == Hand(r).feed
           n == Hand(r).next
<1>2. /\ reader[r] \in ReaderState /\ published \in [Feed -> 0 .. MaxMessages]
      /\ ReaderOK(r, reader[r], published) /\ AtHand(r, reader[r], published) /\ r \in Fanout
      /\ f \in Feed /\ n \in 1 .. MaxMessages /\ n <= published[f]
      /\ reader[r].pos[f] = n
  BY <1>1, WritingFacts
<1>3. PICK u \in reader[r].left :
         Ring(u, r) /\ reader' = [reader EXCEPT ![r] = Rung(reader[r], u)]
  BY DEF create_notification
<1>4. UNCHANGED <<published, got, account, starts, updates, faults>>
  BY DEF create_notification
<1>5. u \in User /\ bells \in [User -> Seq(Event)] /\ <<f, n>> \in Event
      /\ reader \in [Reader -> ReaderState]
  BY <1>2 DEF ReaderState, FeedsInv, FeedsTypeOK, Event
<1> DEFINE rd == Rung(reader[r], u)
           s == bells[u]
<1>6. /\ rd \in ReaderState /\ ReaderOK(r, rd, published) /\ rd.pos = reader[r].pos
      /\ rd.state # "stopped"
  <2>1. CASE reader[r].left = {u}
    BY <1>2, <2>1, RestFacts DEF Rung
  <2>2. CASE reader[r].left # {u}
    <3>1. /\ rd \in ReaderState /\ rd.pos = reader[r].pos /\ rd.batch = reader[r].batch
          /\ rd.state = "writing" /\ reader[r].state = "writing"
      BY <1>1, <1>2, <2>2 DEF Rung, ReaderState, Is
    <3> HIDE DEF rd
    <3>2. ReaderOK(r, rd, published)
      BY <1>2, <3>1 DEF ReaderOK, BlockOK
    <3> QED
      BY <3>1, <3>2
  <2> QED
    BY <2>1, <2>2
<1>7. ASSUME NEW v \in User, NEW m \in Event, Behind(reader[r], v, m) PROVE Behind(rd, v, m)
  <2>1. CASE reader[r].left = {u}
    BY <1>2, <1>7, <2>1, RestIsBehind DEF Rung, Behind
  <2>2. CASE reader[r].left # {u}
    <3>1. /\ rd.pos = reader[r].pos /\ rd.batch = reader[r].batch
          /\ rd.left \subseteq reader[r].left
          /\ rd.state = reader[r].state
      BY <1>2, <2>2 DEF Rung, ReaderState
    <3> QED
      BY <1>7, <3>1 DEF Behind
  <2> QED
    BY <2>1, <2>2
<1>8. Behind(rd, u, <<f, n>>)
  <2>1. <<f, n>>[1] = f /\ <<f, n>>[2] = n /\ n # End /\ n <= n
    BY <1>2 DEF End
  <2>2. CASE reader[r].left = {u}
    BY <1>2, <1>5, <2>1, <2>2, RestIsBehind DEF Rung
  <2>3. CASE reader[r].left # {u}
    <3>1. rd.pos = reader[r].pos /\ u \notin rd.left
      BY <1>2, <2>3 DEF Rung, ReaderState
    <3> QED
      BY <1>2, <2>1, <3>1 DEF Behind
  <2> QED
    BY <2>2, <2>3
<1>9. \A i \in DOMAIN s : s[i][1] = f => s[i][2] < n
  BY <1>1, <1>2, <1>3, <1>5 DEF FeedsInv, BellsOK, Behind, Is, Hand
<1>10. bells' = [bells EXCEPT ![u] = Append(@, <<f, n>>)]
  BY <1>3 DEF Ring
<1> HIDE DEF rd, f, n
<1>11. /\ Append(s, <<f, n>>) \in Seq(Event)
       /\ Len(Append(s, <<f, n>>)) = Len(s) + 1
       /\ Append(s, <<f, n>>)[Len(s) + 1] = <<f, n>>
       /\ \A i \in 1 .. Len(s) : Append(s, <<f, n>>)[i] = s[i]
  BY <1>5, AppendProperties
<1>12. /\ bells' \in [User -> Seq(Event)] /\ bells'[u] = Append(s, <<f, n>>)
       /\ \A v \in User : v # u => bells'[v] = bells[v]
  BY <1>10, <1>5, <1>11
<1>13. /\ Len(s) \in Nat /\ DOMAIN s = 1 .. Len(s) /\ DOMAIN bells'[u] = 1 .. Len(s) + 1
       /\ bells'[u][Len(s) + 1] = <<f, n>>
       /\ \A i \in 1 .. Len(s) : bells'[u][i] = s[i]
  BY <1>5, <1>11, <1>12
<1>14. /\ reader' = [reader EXCEPT ![r] = rd] /\ reader'[r] = rd
       /\ \A q \in Reader : q # r => reader'[q] = reader[q]
  <2>1. reader' = [reader EXCEPT ![r] = rd]
    BY <1>3 DEF rd
  <2> QED
    BY <1>5, <1>6, <2>1
<1>15. FeedsTypeOK'
  BY <1>4, <1>5, <1>6, <1>12, <1>14 DEF FeedsInv, FeedsTypeOK, ReaderState
<1>16. ReadersOK'
  BY <1>4, <1>6, <1>14 DEF FeedsInv, ReadersOK
<1>17. TailIsGapless'
  <2>1. reader[r].state # "stopped"
    BY <1>1 DEF Is
  <2> QED
    BY <1>4, <1>6, <1>14, <2>1 DEF FeedsInv, TailIsGapless, Is
<1>18. BellsOnceInOrder'
  <2> SUFFICES ASSUME NEW v \in User, NEW i \in DOMAIN bells'[v], NEW j \in DOMAIN bells'[v],
                      i < j, bells'[v][i][1] = bells'[v][j][1]
               PROVE  bells'[v][i][2] < bells'[v][j][2]
    BY DEF BellsOnceInOrder
  <2>1. CASE v # u
    BY <1>12, <2>1 DEF FeedsInv, BellsOnceInOrder
  <2>2. CASE v = u /\ j = Len(s) + 1
    <3>1. i \in DOMAIN s /\ bells'[u][i] = s[i]
      BY <1>13, <2>2
    <3> QED
      BY <1>9, <1>13, <2>2, <3>1
  <2>3. CASE v = u /\ j # Len(s) + 1
    <3>1. i \in 1 .. Len(s) + 1 /\ j \in 1 .. Len(s) + 1 /\ i < j /\ j # Len(s) + 1
      BY <1>13, <2>3
    <3>2. i \in 1 .. Len(s) /\ j \in 1 .. Len(s)
      BY <1>13, <3>1
    <3>3. i \in DOMAIN s /\ j \in DOMAIN s /\ bells'[u][i] = s[i] /\ bells'[u][j] = s[j]
      BY <1>13, <3>2
    <3> QED
      BY <2>3, <3>3 DEF FeedsInv, BellsOnceInOrder
  <2> QED
    BY <2>1, <2>2, <2>3
<1>19. BellsOK'
  <2> SUFFICES ASSUME NEW v \in User, NEW i \in DOMAIN bells'[v]
               PROVE  /\ bells'[v][i][2] <= published'[bells'[v][i][1]]
                      /\ \A q \in Fanout : reader'[q].state # "stopped" =>
                            Behind(reader'[q], v, bells'[v][i])
    BY DEF BellsOK
  <2>1. \A q \in Fanout : q = r
    BY <1>2, FeedAssumption
  <2>2. reader[r].state # "stopped"
    BY <1>1 DEF Is
  <2>3. ASSUME i \in DOMAIN bells[v], bells'[v][i] = bells[v][i]
        PROVE  /\ bells'[v][i][2] <= published'[bells'[v][i][1]]
               /\ \A q \in Fanout : Behind(reader'[q], v, bells'[v][i])
    <3>1. bells[v][i] \in Event
      BY <1>5, <2>3
    <3> QED
      BY <1>2, <1>4, <1>7, <1>14, <2>1, <2>2, <2>3, <3>1 DEF FeedsInv, BellsOK
  <2>4. ASSUME v = u, i = Len(s) + 1
        PROVE  /\ bells'[v][i][2] <= published'[bells'[v][i][1]]
               /\ \A q \in Fanout : Behind(reader'[q], v, bells'[v][i])
    BY <1>2, <1>4, <1>8, <1>13, <1>14, <2>1, <2>4
  <2> QED
    BY <1>12, <1>13, <2>3, <2>4
<1> QED
  BY <1>15, <1>16, <1>17, <1>18, <1>19 DEF FeedsInv

\* A read: blocks go on where the positions are.
LEMMA Reading == ASSUME FeedsInv, NEW r \in Reader, xread(r) PROVE FeedsInv'
<1>1. PICK s \in Responses(r) :
         reader' = [reader EXCEPT ![r] =
             [@ EXCEPT !.state = IF s = <<>> THEN "blocked" ELSE "reading", !.batch = s]]
  BY DEF xread
<1> DEFINE rd == [reader[r] EXCEPT !.state = IF s = <<>> THEN "blocked" ELSE "reading", !.batch = s]
<1>2. FeedsTypeOK /\ reader[r] \in ReaderState /\ ReaderOK(r, reader[r], published)
      /\ reader[r].state = "between"
  BY DEF FeedsInv, FeedsTypeOK, ReaderState, ReadersOK, xread, Is
<1>3. /\ s \in Seq(Block)
      /\ \A i \in DOMAIN s :
             /\ s[i].feed \in Watches[r] /\ s[i].next = Resolved(r, s[i].feed) + 1
             /\ s[i].next <= s[i].last /\ s[i].last <= published[s[i].feed]
             /\ \A j \in DOMAIN s : i # j => s[j].feed # s[i].feed
      /\ s = <<>> => \A f \in Watches[r] : reader[r].pos[f] \in {End, published[f]}
  BY <1>2, ReadingFacts
<1>4. /\ rd \in ReaderState /\ rd.pos = reader[r].pos /\ rd.batch = s
      /\ rd.state = IF s = <<>> THEN "blocked" ELSE "reading"
  BY <1>2, <1>3 DEF ReaderState
<1> HIDE DEF rd
<1>5. \A i \in DOMAIN s : rd.pos[s[i].feed] = End \/ s[i].next = rd.pos[s[i].feed] + 1
  BY <1>3, <1>4 DEF Resolved, Has
<1>6. ReaderOK(r, rd, published)
  BY <1>2, <1>3, <1>4, <1>5 DEF ReaderOK, BlockOK
<1>7. ASSUME NEW m \in Event, m[2] <= published[m[1]], NEW i \in DOMAIN s, s[i].feed = m[1],
             rd.pos[m[1]] = End
      PROVE  m[2] < s[i].next
  <2>1. s[i].next = published[m[1]] + 1
    BY <1>3, <1>4, <1>7 DEF Resolved, Has
  <2>2. m[1] \in Feed /\ m[2] \in Nat /\ published[m[1]] \in Nat
    BY <1>2 DEF FeedsTypeOK, Event
  <2> QED
    BY <1>7, <2>1, <2>2
<1>8. \A u \in User, m \in Event :
         m[2] <= published[m[1]] /\ Behind(reader[r], u, m) => Behind(rd, u, m)
  BY <1>4, <1>7 DEF Behind
<1>9. reader' = [reader EXCEPT ![r] = rd]
  BY <1>1 DEF rd
<1>10. /\ UNCHANGED <<published, got, account, bells, updates>>
       /\ starts' \in 0 .. MaxStarts /\ faults' \in 0 .. MaxFaults
  BY DEF xread, FeedsInv, FeedsTypeOK
<1> QED
  BY <1>2, <1>4, <1>6, <1>8, <1>9, <1>10, OneReader

\* A block ends with nothing read: the positions are where they were.
LEMMA Waking == ASSUME FeedsInv, NEW r \in Reader, block_ends(r) PROVE FeedsInv'
<1> DEFINE rd == [reader[r] EXCEPT !.state = "between"]
<1>1. reader[r] \in ReaderState /\ ReaderOK(r, reader[r], published) /\ reader[r].state = "blocked"
  BY DEF FeedsInv, FeedsTypeOK, ReaderState, ReadersOK, block_ends, Is
<1>2. /\ rd \in ReaderState /\ rd.pos = reader[r].pos /\ rd.batch = reader[r].batch
      /\ rd.state = "between" /\ rd.left = reader[r].left
  BY <1>1 DEF ReaderState
<1>3. reader' = [reader EXCEPT ![r] = rd]
  BY DEF block_ends
<1> HIDE DEF rd
<1>4. ReaderOK(r, rd, published)
  BY <1>1, <1>2 DEF ReaderOK
<1>5. \A u \in User, m \in Event : Behind(reader[r], u, m) => Behind(rd, u, m)
  BY <1>2 DEF Behind
<1>6. /\ UNCHANGED <<published, got, account, bells, updates>>
      /\ starts' \in 0 .. MaxStarts /\ faults' \in 0 .. MaxFaults
  BY DEF block_ends, FeedsInv, FeedsTypeOK
<1> QED
  BY <1>1, <1>2, <1>3, <1>4, <1>5, <1>6, OneReader

\* A reader ends.
LEMMA Stopping == ASSUME FeedsInv, NEW r \in Reader, stop(r) PROVE FeedsInv'
<1>1. Stopped \in ReaderState /\ Stopped.state = "stopped" /\ Stopped.batch = <<>>
      /\ \A f \in Feed : Stopped.pos[f] = 0
  BY StoppedFacts DEF Stopped, End
<1>2. ReaderOK(r, Stopped, published)
  BY <1>1 DEF ReaderOK, FeedsInv, FeedsTypeOK
<1>3. /\ UNCHANGED <<published, got, account, bells, updates>>
      /\ starts' \in 0 .. MaxStarts /\ faults' \in 0 .. MaxFaults
      /\ reader' = [reader EXCEPT ![r] = Stopped]
  BY DEF stop, FeedsInv, FeedsTypeOK
<1> QED
  BY <1>1, <1>2, <1>3, OneReader

\* A reader starts at the end of its streams.
LEMMA Beginning == ASSUME FeedsInv, NEW r \in Reader, start(r) PROVE FeedsInv'
<1> DEFINE rd == [Stopped EXCEPT !.state = "between"]
<1>1. /\ rd \in ReaderState /\ rd.state = "between" /\ rd.batch = <<>>
      /\ rd.pos = [f \in Feed |-> End] /\ rd.left = {}
  BY StoppedFacts DEF Stopped, ReaderState
<1>2. /\ reader' = [reader EXCEPT ![r] = rd] /\ got' = [got EXCEPT ![r] = NothingGot]
      /\ UNCHANGED <<published, account, bells, updates, faults>>
  BY DEF start
<1> HIDE DEF rd
<1>3. /\ reader'[r] = rd /\ \A q \in Reader : q # r => reader'[q] = reader[q]
      /\ reader' \in [Reader -> ReaderState]
      /\ got' \in [Reader -> [Feed -> Seq(1 .. MaxMessages)]]
      /\ got'[r] = [f \in Feed |-> <<>>]
      /\ \A q \in Reader : q # r => got'[q] = got[q]
  BY <1>1, <1>2 DEF FeedsInv, FeedsTypeOK, ReaderState, NothingGot
<1>4. starts' \in 0 .. MaxStarts
  BY FeedAssumption DEF start, FeedsInv, FeedsTypeOK
<1>5. FeedsTypeOK'
  BY <1>2, <1>3, <1>4 DEF FeedsInv, FeedsTypeOK, ReaderState
<1>6. ReadersOK'
  <2>1. \A f \in Feed : rd.pos[f] <= published[f]
    BY <1>1 DEF End, FeedsInv, FeedsTypeOK
  <2>2. ReaderOK(r, rd, published)
    BY <1>1, <2>1 DEF ReaderOK
  <2> QED
    BY <1>2, <1>3, <2>2 DEF FeedsInv, ReadersOK
<1>7. TailIsGapless'
  <2> SUFFICES ASSUME NEW q \in Reader, NEW g \in Feed
               PROVE  /\ \A i \in DOMAIN got'[q][g] : got'[q][g][i] = got'[q][g][1] + i - 1
                      /\ reader'[q].state # "stopped" =>
                            reader'[q].pos[g] =
                               (IF got'[q][g] = <<>> THEN End ELSE got'[q][g][Len(got'[q][g])])
    BY DEF TailIsGapless, Is
  <2>1. CASE q = r
    <3>1. got'[q][g] = <<>> /\ reader'[q].pos[g] = End
      BY <1>1, <1>3, <2>1
    <3>2. DOMAIN got'[q][g] = {}
      BY <3>1
    <3>3. \A i \in DOMAIN got'[q][g] : got'[q][g][i] = got'[q][g][1] + i - 1
      BY <3>2
    <3>4. reader'[q].pos[g] =
             (IF got'[q][g] = <<>> THEN End ELSE got'[q][g][Len(got'[q][g])])
      BY <3>1, Zenon
    <3> QED
      BY <3>3, <3>4
  <2>2. CASE q # r
    <3>1. got'[q] = got[q] /\ reader'[q] = reader[q]
      BY <1>3, <2>2
    <3>2. /\ \A i \in DOMAIN got[q][g] : got[q][g][i] = got[q][g][1] + i - 1
          /\ reader[q].state # "stopped" =>
                reader[q].pos[g] = (IF got[q][g] = <<>> THEN End ELSE got[q][g][Len(got[q][g])])
      BY DEF FeedsInv, TailIsGapless, Is
    <3> QED
      BY <3>1, <3>2, Zenon
  <2> QED
    BY <2>1, <2>2
<1>8. BellsOnceInOrder'
  BY <1>2 DEF FeedsInv, BellsOnceInOrder
<1>9. BellsOK'
  <2>1. \A u \in User, m \in Event : Behind(rd, u, m)
    BY <1>1 DEF Behind, End, Event
  <2>2. \A u \in User : \A i \in DOMAIN bells[u] : bells[u][i] \in Event
    BY DEF FeedsInv, FeedsTypeOK
  <2> QED
    BY <1>2, <1>3, <2>1, <2>2, FeedAssumption DEF FeedsInv, BellsOK
<1> QED
  BY <1>5, <1>6, <1>7, <1>8, <1>9 DEF FeedsInv


\* A message reaches the readers blocked on its stream.
LEMMA Publishing == ASSUME FeedsInv, NEW f \in Feed, publish_event(f) PROVE FeedsInv'
<1> DEFINE n == published[f] + 1
           b == [feed |-> f, next |-> n, last |-> n]
           Woken(r) == reader[r].state = "blocked" /\ f \in Watches[r]
           woken(r) == [reader[r] EXCEPT !.state = "reading", !.batch = <<b>>]
<1>1. /\ published \in [Feed -> 0 .. MaxMessages] /\ MaxMessages \in Nat /\ n \in 1 .. MaxMessages
      /\ b \in Block /\ reader \in [Reader -> ReaderState]
      /\ \A u \in User : \A i \in DOMAIN bells[u] : bells[u][i] \in Event
  <2>1. published[f] \in 0 .. MaxMessages /\ MaxMessages \in Nat /\ published[f] < MaxMessages
    BY FeedAssumption DEF FeedsInv, FeedsTypeOK, publish_event
  <2>2. n \in 1 .. MaxMessages
    BY <2>1
  <2>3. b \in Block
    BY <2>2 DEF Block
  <2>4. \A u \in User : \A i \in DOMAIN bells[u] : bells[u][i] \in Event
    BY DEF FeedsInv, FeedsTypeOK
  <2> QED
    BY <2>1, <2>2, <2>3, <2>4 DEF FeedsInv, FeedsTypeOK, ReaderState
<1>2. /\ published' = [published EXCEPT ![f] = n]
      /\ published' \in [Feed -> 0 .. MaxMessages] /\ published'[f] = n
      /\ \A g \in Feed : published[g] <= published'[g] /\ (g # f => published'[g] = published[g])
  <2>1. published' = [published EXCEPT ![f] = n]
    BY DEF publish_event
  <2>2. n \in 0 .. MaxMessages /\ published[f] <= n
    BY <1>1
  <2> HIDE DEF n
  <2> QED
    BY <1>1, <2>1, <2>2
<1>3. UNCHANGED <<got, account, bells, starts, updates, faults>>
  BY DEF publish_event
<1>4. reader' = [r \in Reader |-> IF Woken(r) THEN woken(r) ELSE reader[r]]
  BY DEF publish_event, Is
<1>5. ASSUME NEW r \in Reader
      PROVE  /\ woken(r) \in ReaderState /\ woken(r).pos = reader[r].pos
             /\ woken(r).batch = <<b>> /\ woken(r).state = "reading"
  <2>1. <<b>> \in Seq(Block)
    BY <1>1
  <2> HIDE DEF b
  <2> QED
    BY <1>1, <2>1 DEF ReaderState
<1> HIDE DEF b, n, woken
<1>6. /\ reader' \in [Reader -> ReaderState]
      /\ \A r \in Reader : Woken(r) => reader'[r] = woken(r)
      /\ \A r \in Reader : ~Woken(r) => reader'[r] = reader[r]
      /\ \A r \in Reader : reader'[r].pos = reader[r].pos
      /\ \A r \in Reader : reader'[r].state = "stopped" <=> reader[r].state = "stopped"
  BY <1>1, <1>4, <1>5
<1>7. FeedsTypeOK'
  BY <1>2, <1>3, <1>6 DEF FeedsInv, FeedsTypeOK, ReaderState
<1>8. b.feed = f /\ b.next = n /\ b.last = n /\ DOMAIN <<b>> = {1} /\ <<b>>[1] = b /\ <<b>> # <<>>
  BY DEF b
<1>9. ReadersOK'
  <2> SUFFICES ASSUME NEW r \in Reader PROVE ReaderOK(r, reader'[r], published')
    BY DEF ReadersOK
  <2>1. ReaderOK(r, reader[r], published) /\ Watches[r] \subseteq Feed /\ reader[r] \in ReaderState
    BY <1>1, FeedAssumption DEF FeedsInv, ReadersOK
  <2>2. reader[r].pos \in [Feed -> 0 .. MaxMessages]
    BY <2>1 DEF ReaderState
  <2>3. \A g \in Feed : reader[r].pos[g] <= published'[g]
    BY <1>1, <1>2, <2>1, <2>2 DEF ReaderOK
  <2>4. CASE Woken(r)
    <3>1. reader[r].pos[f] = End \/ n = reader[r].pos[f] + 1
      BY <2>1, <2>4 DEF ReaderOK, n
    <3> DEFINE rd == woken(r)
    <3>2. /\ rd.pos = reader[r].pos /\ rd.batch = <<b>> /\ rd.state = "reading"
          /\ f \in Watches[r] /\ n <= n
      BY <1>1, <1>5, <2>4
    <3> HIDE DEF rd
    <3>3. ASSUME NEW i \in DOMAIN rd.batch PROVE BlockOK(r, rd, published', i)
      BY <1>2, <1>8, <3>1, <3>2 DEF BlockOK
    <3>4. ReaderOK(r, rd, published')
      BY <1>8, <2>3, <3>2, <3>3 DEF ReaderOK
    <3> QED
      BY <1>6, <2>4, <3>4 DEF rd
  <2>5. CASE ~Woken(r)
    <3>1. reader[r].state = "blocked" =>
             \A g \in Watches[r] : reader[r].pos[g] \in {End, published'[g]}
      BY <1>2, <2>1, <2>5 DEF ReaderOK
    <3>2. ASSUME NEW i \in DOMAIN reader[r].batch
          PROVE  BlockOK(r, reader[r], published', i)
      <4>1. BlockOK(r, reader[r], published, i) /\ reader[r].batch[i] \in Block
        BY <2>1, ElementsOf DEF ReaderOK
      <4>2. reader[r].batch[i].last <= published'[reader[r].batch[i].feed]
        BY <1>1, <1>2, <4>1 DEF BlockOK, Block
      <4> QED
        BY <4>1, <4>2 DEF BlockOK
    <3>3. ReaderOK(r, reader[r], published')
      BY <2>1, <2>3, <3>1, <3>2 DEF ReaderOK
    <3> QED
      BY <1>6, <2>5, <3>3
  <2> QED
    BY <2>4, <2>5
<1>10. TailIsGapless'
  BY <1>3, <1>6 DEF FeedsInv, TailIsGapless, Is
<1>11. BellsOnceInOrder'
  BY <1>3 DEF FeedsInv, BellsOnceInOrder
<1>12. BellsOK'
  <2> SUFFICES ASSUME NEW u \in User, NEW i \in DOMAIN bells[u]
               PROVE  /\ bells[u][i][2] <= published'[bells[u][i][1]]
                      /\ \A r \in Fanout : reader'[r].state # "stopped" =>
                            Behind(reader'[r], u, bells[u][i])
    BY <1>3 DEF BellsOK
  <2> DEFINE m == bells[u][i]
  <2>1. /\ m \in Event /\ m[1] \in Feed /\ m[2] \in Nat /\ m[2] <= published[m[1]]
        /\ \A r \in Fanout : reader[r].state # "stopped" => Behind(reader[r], u, m)
    BY <1>1 DEF Event, FeedsInv, BellsOK
  <2> HIDE DEF m
  <2>2. m[2] <= published'[m[1]] /\ (m[1] = f => m[2] < n)
    BY <1>1, <1>2, <2>1 DEF n
  <2>3. ASSUME NEW r \in Fanout, reader'[r].state # "stopped" PROVE Behind(reader'[r], u, m)
    <3>1. r \in Reader
      BY FeedAssumption
    <3>2. CASE Woken(r)
      BY <1>5, <1>6, <1>8, <2>1, <2>2, <2>3, <3>1, <3>2 DEF Behind
    <3>3. CASE ~Woken(r)
      BY <1>6, <2>1, <2>3, <3>1, <3>3
    <3> QED
      BY <3>2, <3>3
  <2> QED
    BY <2>2, <2>3 DEF m
<1> QED
  BY <1>7, <1>9, <1>10, <1>11, <1>12 DEF FeedsInv

\* A changed account disturbs no reader.
LEMMA Updating == ASSUME FeedsInv, NEW u \in User, update_user(u) PROVE FeedsInv'
<1>1. account' \in [User -> [role : Role, active : BOOLEAN]] /\ updates' \in 0 .. MaxUpdates
  BY FeedAssumption DEF update_user, FeedsInv, FeedsTypeOK, Role
<1>2. UNCHANGED <<published, reader, got, bells, starts, faults>>
  BY DEF update_user
<1> QED
  BY <1>1, <1>2
  DEF FeedsInv, FeedsTypeOK, ReadersOK, ReaderOK, TailIsGapless, Is, BellsOnceInOrder, BellsOK,
      Behind

LEMMA FeedsStepKeeps == FeedsInv /\ [FeedsNext]_feedVars => FeedsInv'
<1> SUFFICES ASSUME FeedsInv, [FeedsNext]_feedVars PROVE FeedsInv'
  OBVIOUS
<1>1. ASSUME NEW f \in Feed, publish_event(f) PROVE FeedsInv'
  BY <1>1, Publishing
<1>2. ASSUME NEW r \in Reader, start(r) PROVE FeedsInv'
  BY <1>2, Beginning
<1>3. ASSUME NEW r \in Reader, xread(r) PROVE FeedsInv'
  BY <1>3, Reading
<1>4. ASSUME NEW r \in Reader, push(r) PROVE FeedsInv'
  BY <1>4, Pushing
<1>5. ASSUME NEW r \in Reader, write_notifications(r) PROVE FeedsInv'
  BY <1>5, Starting
<1>6. ASSUME NEW r \in Reader, create_notification(r) PROVE FeedsInv'
  BY <1>6, Ringing
<1>7. ASSUME NEW r \in Reader, block_ends(r) PROVE FeedsInv'
  BY <1>7, Waking
<1>8. ASSUME NEW r \in Reader, write_fails(r) PROVE FeedsInv'
  BY <1>8, Failing
<1>9. ASSUME NEW r \in Reader, stop(r) PROVE FeedsInv'
  BY <1>9, Stopping
<1>10. ASSUME NEW u \in User, update_user(u) PROVE FeedsInv'
  BY <1>10, Updating
<1>11. CASE UNCHANGED feedVars
  BY <1>11
  DEF feedVars, FeedsInv, FeedsTypeOK, ReadersOK, ReaderOK, BlockOK, TailIsGapless, Is,
      BellsOnceInOrder, BellsOK, Behind
<1> QED
  BY <1>1, <1>2, <1>3, <1>4, <1>5, <1>6, <1>7, <1>8, <1>9, <1>10, <1>11 DEF FeedsNext, Loop

\* Whatever times out, fails, stops and starts again, a reader that follows a
\* stream gets each message of it once and in order from the first on, and no user
\* is rung twice for an event or out of order (notification_fanout.run,
\* _write_notifications, the stream endpoints of insights and dashboards).
THEOREM FeedsAlwaysSound == FeedsSpec => []FeedsAreSound
<1>1. FeedsInv => FeedsAreSound
  BY DEF FeedsInv, FeedsAreSound
<1> QED
  BY <1>1, FeedsInitEstablishes, FeedsStepKeeps, PTL DEF FeedsSpec

-----------------------------------------------------------------------------
(* Reports: the inductive invariant *)

\* Insights, and what a report says of a set of KPIs, insights about them, and
\* datasets.
Noted ==
    [id : Id, kpi : Kpi, severity : {"none", "info", "warning", "critical"}, anomaly : BOOLEAN,
     z : Nat, slope : Nat]
About == [kpis : SUBSET Kpi, events : SUBSET Noted, sources : SUBSET Dataset]
Contents == {ReportData(a.kpis, {e \in a.events : e.kpi \in a.kpis}, a.sources) : a \in About}
Mail == [role : {"executive", "manager", "analyst"}, kpis : SUBSET Kpi, pending : SUBSET Kpi,
         events : SUBSET Noted]
MailData ==
    {build_user_weekly_data(m.role, m.kpis, m.pending, m.events) : m \in Mail}
      \cup {build_user_monthly_data(m.role, m.kpis, m.pending, m.events) : m \in Mail}

\* The work there is.
Building ==
    [op : {"agent", "reader"}, pc : {"gather", "upsert", "insert"}, insight : Id, score : -1 .. 100]
Generating ==
    [op : {"report"}, pc : {"fetch", "events", "persist"}, report : Report, scope : Scope,
     body : {Empty} \cup [kpis : SUBSET Kpi] \cup Contents]
Listing == [op : {"mail"}, kind : Kind, pc : {"list", "next"}, todo : SUBSET Staff]
Sending ==
    [op : {"mail"}, kind : Kind, pc : {"send"}, todo : SUBSET Staff, to : Staff, data : MailData]
AnyWork == {Idle} \cup Building \cup Generating \cup Listing \cup Sending

\* Work on an insight is about one there is, and has its score once it is past
\* reading; work on a report has its KPIs, and then its contents.
WorkOK(j) ==
    /\ j \in Building => j.insight <= Len(insight) /\ (j.pc # "gather" => j.score >= 0)
    /\ j \in Generating =>
           /\ j.pc = "events" => j.body \in [kpis : SUBSET Kpi]
           /\ j.pc = "persist" => j.body \in Contents
JobsOK == job \in [Req -> AnyWork] /\ \A r \in Req : WorkOK(job[r])

FactsOK ==
    /\ insight \in Seq(Noted) /\ Len(insight) <= MaxInsights
    /\ facts \in [Dataset -> {Unknown} \cup [quality : 0 .. 100, age : Nat]]
ReceiptsOK ==
    /\ receipt \in [Id -> [score : -1 .. 100, live : BOOLEAN]]
    /\ \A i \in Id : receipt[i] # NoReceipt => i <= Len(insight)
PagesOK ==
    /\ report \in [Report -> [status : {"none", "generating", "ready", "failed", "deleted"},
                              body : {Empty} \cup Contents]]
    /\ \A p \in Report : report[p].status = "ready" <=> report[p].body \in Contents
PeopleOK ==
    /\ active \subseteq Staff /\ mailed \subseteq Kind \X Staff
    /\ shows \in [Dashboard -> SUBSET Kpi]

ReportsInv == FactsOK /\ ReceiptsOK /\ PagesOK /\ PeopleOK /\ JobsOK

-----------------------------------------------------------------------------
(* What is in a report *)

LEMMA BelowIsWellFounded == IsWellFoundedOn({p \in Nat \X Nat : p[1] < p[2]}, Nat)
<1>1. {p \in Nat \X Nat : p[1] < p[2]} = OpToRel(<, Nat)
  BY DEF OpToRel
<1> QED
  BY <1>1, NatLessThanWellFounded

\* Of insights about one KPI there is a latest.
LEMMA LatestExists ==
    ASSUME NEW E \in SUBSET Noted, E # {}
    PROVE  \E e \in E : \A f \in E : f.id <= e.id
<1> DEFINE T == {MaxInsights - e.id : e \in E}
<1>1. MaxInsights \in Nat /\ \A e \in E : e.id \in 1 .. MaxInsights
  BY ReceiptsAssumption DEF Noted, Id
<1>2. T \in SUBSET Nat /\ T # {}
  BY <1>1
<1>3. \E x \in T : \A y \in T : ~(<<y, x>> \in {p \in Nat \X Nat : p[1] < p[2]})
  BY <1>2, BelowIsWellFounded, WFMin
<1>4. PICK e \in E : \A f \in E : ~(MaxInsights - f.id < MaxInsights - e.id)
  <2>1. PICK x \in T : \A y \in T : ~(<<y, x>> \in {p \in Nat \X Nat : p[1] < p[2]})
    BY <1>3
  <2>2. \A y \in T : ~(y < x)
    BY <1>2, <2>1
  <2> QED
    BY <2>2
<1> QED
  BY <1>1, <1>4

\* The parts of a report agree.
AddsUp(body) ==
    LET listed == UNION {body.sections[c] : c \in DOMAIN body.sections}
        anomalies == {e \in listed : e.anomaly}
    IN  /\ {e.kpi : e \in listed} = DOMAIN body.trends /\ DOMAIN body.trends \subseteq body.kpis
        /\ body.appendix.anomalies = Cardinality(anomalies)
        /\ anomalies \subseteq DOMAIN body.actions /\ DOMAIN body.actions \subseteq listed
        /\ \A e \in DOMAIN body.actions : e.severity = "critical" => body.actions[e] = 1

LEMMA ContentsAddUp ==
    ASSUME NEW body \in Contents
    PROVE  AddsUp(body) /\ body # Empty
<1>1. PICK K \in SUBSET Kpi, D \in SUBSET Noted, S \in SUBSET Dataset :
          body = ReportData(K, {e \in D : e.kpi \in K}, S)
  <2>1. PICK a \in About : body = ReportData(a.kpis, {e \in a.events : e.kpi \in a.kpis}, a.sources)
    BY DEF Contents
  <2> QED
    BY <2>1 DEF About
<1> DEFINE E == {e \in D : e.kpi \in K}
<1>2. E \in SUBSET Noted /\ \A e \in E : e.kpi \in K
  OBVIOUS
<1>3. /\ body.sections = _build_insight_sections(E, K) /\ body.kpis = K
      /\ body.trends = _build_time_intelligence(E, K)
      /\ body.actions = _build_decision_actions(E, K)
      /\ body.appendix = _build_appendix(K, E, S)
      /\ DOMAIN body = {"kpis", "sections", "trends", "actions", "told", "appendix"}
  BY <1>1 DEF ReportData
<1>4. body # Empty
  <2>1. DOMAIN Empty = {"kpis"}
    BY DEF Empty
  <2> QED
    BY <1>3, <2>1
<1> HIDE DEF E
<1>5. UNION {body.sections[c] : c \in DOMAIN body.sections} = E
  <2> DEFINE category(e) == _normalize_category(CategoryOf[e.kpi])
             categories == {category(e) : e \in E}
  <2>1. {e \in E : e.kpi \in K} = E
    BY <1>2
  <2>2. body.sections = [c \in categories |-> {e \in E : category(e) = c}]
    BY <1>3, <2>1 DEF _build_insight_sections
  <2> HIDE DEF category
  <2>3. DOMAIN body.sections = categories
    BY <2>2
  <2>4. \A c \in categories : body.sections[c] = {e \in E : category(e) = c}
    BY <2>2
  <2> QED
    BY <2>3, <2>4
<1>6. {e.kpi : e \in E} = DOMAIN body.trends
  <2> DEFINE latest == {e \in E : e.kpi \in K /\ \A f \in E : f.kpi = e.kpi => f.id <= e.id}
  <2>1. DOMAIN body.trends = {e.kpi : e \in latest}
    BY <1>3 DEF _build_time_intelligence
  <2>2. ASSUME NEW e \in E PROVE \E l \in latest : l.kpi = e.kpi
    <3> DEFINE F == {f \in E : f.kpi = e.kpi}
    <3>1. F \in SUBSET Noted /\ F # {}
      BY <1>2
    <3>2. PICK l \in F : \A f \in F : f.id <= l.id
      BY <3>1, LatestExists
    <3> QED
      BY <1>2, <3>2
  <2> QED
    BY <2>1, <2>2
<1>7. body.appendix.anomalies = Cardinality({e \in E : e.anomaly})
  BY <1>3 DEF _build_appendix
<1>8. /\ DOMAIN body.actions = {f \in E : Notable(f) /\ f.kpi \in K}
      /\ \A e \in DOMAIN body.actions : body.actions[e] = _priority(e)
  BY <1>3 DEF _build_decision_actions
<1>9. \A e \in E : e.severity = "critical" => _priority(e) = 1
  BY DEF _priority
<1>10. /\ {e \in E : e.anomaly} \subseteq DOMAIN body.actions /\ DOMAIN body.actions \subseteq E
       /\ \A e \in DOMAIN body.actions : e.severity = "critical" => body.actions[e] = 1
  BY <1>2, <1>8, <1>9 DEF Notable
<1>11. DOMAIN body.trends \subseteq body.kpis
  BY <1>2, <1>3, <1>6
<1> QED
  BY <1>4, <1>5, <1>6, <1>7, <1>10, <1>11, Zenon DEF AddsUp

\* What is read for a report is about its KPIs.
LEMMA InScopeIsSubset == ASSUME NEW scope \in Scope PROVE InScope(scope) \in SUBSET Kpi
<1>1. scope = "global" \/ scope \in Dashboard \/ scope \in Dataset
  BY ReportsAssumption
<1> QED
  BY <1>1 DEF InScope, certified, certified_kpis_for_connector

LEMMA EventsAreNoted == ASSUME FactsOK PROVE LiveEvents \in SUBSET Noted
BY DEF FactsOK, LiveEvents, Events

LEMMA DataIsContents ==
    ASSUME FactsOK, NEW scope \in Scope, NEW kpis \in SUBSET Kpi
    PROVE  ReportData(kpis, Covered(kpis), Sources(scope, kpis)) \in Contents
<1>1. list_insights(Cap) \in SUBSET Noted
  BY EventsAreNoted DEF list_insights, First
<1>2. \A k \in kpis : DatasetOf[k] \in Dataset
  BY ReceiptsAssumption
<1>3. Sources(scope, kpis) \in SUBSET Dataset
  BY <1>2 DEF Sources
<1> DEFINE a == [kpis |-> kpis, events |-> list_insights(Cap), sources |-> Sources(scope, kpis)]
<1>4. a \in About
  BY <1>1, <1>3 DEF About
<1>5. ReportData(kpis, Covered(kpis), Sources(scope, kpis))
         = ReportData(a.kpis, {e \in a.events : e.kpi \in a.kpis}, a.sources)
  BY DEF Covered
<1> HIDE DEF a
<1> QED
  BY <1>4, <1>5 DEF Contents

\* A score is a percentage, whatever the insight and the dataset.
LEMMA WeightsFacts ==
    ASSUME NEW a \in 0 .. 100, NEW b \in 0 .. 100, NEW c \in 0 .. 100, NEW h \in 0 .. 100
    PROVE  (40 * a + 30 * b + 20 * c + 10 * h) \div 100 \in 0 .. 100
OBVIOUS

LEMMA ScoreIsPercentage ==
    ASSUME NEW e \in Noted, NEW d \in {Unknown} \cup [quality : 0 .. 100, age : Nat], NEW n \in Nat
    PROVE  compute_confidence(e, d, n) \in 0 .. 100
<1> DEFINE z == AtMost(100, (100 * e.z) \div 4)
           trend == AtMost(100, (100 * e.slope) \div 20)
           top == IF z > trend THEN z ELSE trend
<1>1. z \in 0 .. 100 /\ trend \in 0 .. 100
  BY DEF AtMost, Noted
<1>2. top \in 0 .. 100
  BY <1>1
<1>3. _statistical_strength(e) = 30 + (70 * top) \div 100
  BY DEF _statistical_strength
<1> HIDE DEF z, trend, top
<1>4. _statistical_strength(e) \in 0 .. 100
  BY <1>2, <1>3
<1>5. d.quality \in -1 .. 100 /\ d.age \in Int /\ d.age >= -1
  BY DEF Unknown
<1>6. _data_quality(d) \in 0 .. 100
  BY <1>5 DEF _data_quality, AtMost
<1>7. _freshness(d) \in 0 .. 100
  <2>1. CASE d.age < 0
    BY <2>1 DEF _freshness
  <2>2. CASE d.age \in 0 .. 1
    BY <2>2 DEF _freshness
  <2>3. CASE d.age >= 168
    BY <2>3 DEF _freshness
  <2>4. CASE d.age > 1 /\ d.age < 168
    <3>1. _freshness(d) = 100 - (100 * (d.age - 1)) \div 167
      BY <1>5, <2>4 DEF _freshness
    <3> QED
      BY <1>5, <2>4, <3>1
  <2> QED
    BY <1>5, <2>1, <2>2, <2>3, <2>4
<1>8. _history_depth(n) \in 0 .. 100
  BY DEF _history_depth, AtMost
<1> QED
  BY <1>4, <1>6, <1>7, <1>8, WeightsFacts, Zenon DEF compute_confidence

-----------------------------------------------------------------------------
(* AnyWork begins, goes on and ends *)

LEMMA IdleFacts == Idle \in AnyWork /\ WorkOK(Idle)
BY DEF Idle, AnyWork, WorkOK, Building, Generating

LEMMA ReportsInitEstablishes == ReportsInit => ReportsInv
<1> SUFFICES ASSUME NEW rows \in Rows, NEW gone \in Gone, ReceiptsInit(rows, gone), ReportsInit
             PROVE  ReportsInv
  BY DEF ReportsInit
<1>1. rows \in Seq(Finding) /\ Len(rows) \in Nat /\ Len(rows) <= MaxInsights /\ MaxInsights \in Nat
  BY ReportsAssumption, ReceiptsAssumption
<1>2. insight = [i \in 1 .. Len(rows) |-> Insight(i, rows[i])]
  BY DEF ReceiptsInit
<1>3. \A i \in 1 .. Len(rows) : Insight(i, rows[i]) \in Noted
  <2>1. ASSUME NEW i \in Id, NEW row \in Finding PROVE Insight(i, row) \in Noted
    BY DEF Insight, Noted, Finding
  <2>2. \A i \in 1 .. Len(rows) : i \in Id /\ rows[i] \in Finding
    BY <1>1 DEF Id
  <2> QED
    BY <2>1, <2>2
<1>4. insight \in Seq(Noted) /\ Len(insight) = Len(rows)
  BY <1>1, <1>2, <1>3
<1>5. FactsOK
  BY <1>1, <1>4 DEF ReceiptsInit, FactsOK
<1>6. ReceiptsOK
  <2>1. \A i \in DOMAIN insight \ unheard : i <= Len(insight)
    BY <1>1, <1>2, <1>4
  <2> QED
    BY <2>1 DEF ReceiptsInit, ReceiptsOK, NoReceipt
<1>7. PagesOK
  <2>1. Empty \notin Contents
    BY ContentsAddUp
  <2> QED
    BY <2>1 DEF ReportsInit, PagesOK, Blank
<1>8. PeopleOK
  BY ReportsAssumption DEF ReportsInit, PeopleOK
<1>9. JobsOK
  BY IdleFacts DEF ReceiptsInit, JobsOK
<1> QED
  BY <1>5, <1>6, <1>7, <1>8, <1>9 DEF ReportsInv

LEMMA OneWorker ==
    ASSUME JobsOK, NEW r \in Req, NEW j \in AnyWork, WorkOK(j), job' = [job EXCEPT ![r] = j],
           UNCHANGED insight
    PROVE  JobsOK'
<1>1. job' \in [Req -> AnyWork] /\ job'[r] = j /\ \A q \in Req : q # r => job'[q] = job[q]
  BY DEF JobsOK
<1>2. \A x : WorkOK(x) => WorkOK(x)'
  BY DEF WorkOK
<1> QED
  BY <1>1, <1>2 DEF JobsOK

LEMMA KindsOfWork ==
    ASSUME JobsOK, NEW r \in Req
    PROVE  /\ job[r] \in AnyWork /\ WorkOK(job[r]) /\ job \in [Req -> AnyWork]
           /\ job[r].op \in {"agent", "reader"} => job[r] \in Building
           /\ job[r].op = "report" => job[r] \in Generating
           /\ job[r].op = "mail" => job[r] \in Listing \cup Sending
           /\ At(r, "mail", "list") \/ At(r, "mail", "next") => job[r] \in Listing
           /\ At(r, "mail", "send") => job[r] \in Sending
<1>1. job[r] \in AnyWork /\ WorkOK(job[r]) /\ job \in [Req -> AnyWork]
  BY DEF JobsOK
<1>2. ASSUME NEW j \in AnyWork
      PROVE  /\ j.op \in {"agent", "reader"} => j \in Building
             /\ j.op = "report" => j \in Generating
             /\ j.op = "mail" => j \in Listing \cup Sending
             /\ j.op = "mail" /\ j.pc \in {"list", "next"} => j \in Listing
             /\ j.op = "mail" /\ j.pc = "send" => j \in Sending
  <2>1. CASE j = Idle
    BY <2>1 DEF Idle
  <2>2. CASE j \in Building
    BY <2>2 DEF Building
  <2>3. CASE j \in Generating
    BY <2>3 DEF Generating
  <2>4. CASE j \in Listing
    BY <2>4 DEF Listing
  <2>5. CASE j \in Sending
    BY <2>5 DEF Sending
  <2> QED
    BY <2>1, <2>2, <2>3, <2>4, <2>5 DEF AnyWork
<1> QED
  BY <1>1, <1>2 DEF At

\* Mail work and new work need nothing more than their types.
LEMMA NothingMore ==
    ASSUME NEW j, j \in Listing \cup Sending
    PROVE  j \in AnyWork /\ WorkOK(j)
<1>1. j.op = "mail"
  BY DEF Listing, Sending
<1>2. j \notin Building /\ j \notin Generating
  BY <1>1 DEF Building, Generating
<1> QED
  BY <1>2 DEF AnyWork, WorkOK

\* AnyWork that ends leaves the rest as it was.
LEMMA Finished == ASSUME JobsOK, NEW r \in Req, Finish(r), UNCHANGED insight PROVE JobsOK'
BY IdleFacts, OneWorker DEF Finish

-----------------------------------------------------------------------------
(* Receipts *)

LEMMA GatherKeeps ==
    ASSUME ReportsInv, NEW r \in Req, NEW i \in DOMAIN insight, NEW op \in {"agent", "reader"},
           job' = [job EXCEPT ![r] = Gather(op, i)], UNCHANGED insight
    PROVE  JobsOK'
<1>1. i \in Id /\ i <= Len(insight)
  BY ReceiptsAssumption DEF ReportsInv, FactsOK, Id
<1>2. Gather(op, i) \in Building /\ Gather(op, i).op # "report"
  BY <1>1 DEF Gather, Building
<1>3. Gather(op, i) \in AnyWork /\ WorkOK(Gather(op, i))
  BY <1>1, <1>2 DEF AnyWork, WorkOK, Generating, Gather
<1> QED
  BY <1>3, OneWorker DEF ReportsInv

LEMMA HandleKeeps ==
    ASSUME ReportsInv, NEW r \in Req, NEW i \in DOMAIN insight, Reporting,
           handle_event(r, i) \/ get_insight_explanation(r, i)
    PROVE  ReportsInv'
<1>1. \E op \in {"agent", "reader"} : job' = [job EXCEPT ![r] = Gather(op, i)]
  BY DEF handle_event, get_insight_explanation, Begin
<1>2. UNCHANGED <<data, receipt>>
  BY DEF handle_event, get_insight_explanation
<1>3. JobsOK'
  BY <1>1, <1>2, GatherKeeps DEF data
<1> QED
  BY <1>2, <1>3 DEF Reporting, data, ReportsInv, FactsOK, ReceiptsOK, PagesOK, PeopleOK

LEMMA BuildKeeps ==
    ASSUME ReportsInv, NEW r \in Req, Reporting, build_explanation(r)
    PROVE  ReportsInv'
<1> DEFINE e == insight[job[r].insight]
           d == facts[DatasetOf[e.kpi]]
           score == compute_confidence(e, d, e.id)
           j == [job[r] EXCEPT !.pc = "upsert", !.score = score]
<1>1. job[r] \in Building /\ job[r].insight \in Id /\ job[r].insight <= Len(insight)
  BY KindsOfWork DEF build_explanation, Builds, ReportsInv, WorkOK, Building
<1>2. e \in Noted /\ e.kpi \in Kpi /\ e.id \in Nat
  <2>1. job[r].insight \in DOMAIN insight
    BY <1>1, ReceiptsAssumption DEF ReportsInv, FactsOK, Id
  <2>2. e \in Noted
    BY <2>1 DEF ReportsInv, FactsOK
  <2> QED
    BY <2>2 DEF Noted, Id
<1>3. d \in {Unknown} \cup [quality : 0 .. 100, age : Nat]
  BY <1>2, ReceiptsAssumption DEF ReportsInv, FactsOK
<1>4. score \in 0 .. 100
  BY <1>2, <1>3, ScoreIsPercentage
<1>5. /\ job' = [job EXCEPT ![r] = j] /\ UNCHANGED <<data, receipt>>
  BY DEF build_explanation
<1> HIDE DEF e, d, score
<1>6. j \in Building /\ j.insight = job[r].insight /\ j.score >= 0 /\ j.op # "report"
  <2>1. score \in -1 .. 100 /\ score >= 0
    BY <1>4
  <2>2. j \in Building /\ j.insight = job[r].insight /\ j.score = score /\ j.op # "report"
    BY <1>1, <2>1 DEF Building
  <2> QED
    BY <2>1, <2>2
<1> HIDE DEF j
<1>7. j \in AnyWork /\ WorkOK(j)
  BY <1>1, <1>6 DEF AnyWork, WorkOK, Generating
<1>8. JobsOK'
  BY <1>5, <1>7, OneWorker DEF ReportsInv, data
<1> QED
  BY <1>5, <1>8 DEF Reporting, data, ReportsInv, FactsOK, ReceiptsOK, PagesOK, PeopleOK

LEMMA WriteKeeps ==
    ASSUME ReportsInv, NEW r \in Req, job[r] \in Building, job[r].pc # "gather",
           Write(r) \/ UNCHANGED receipt, UNCHANGED insight
    PROVE  ReceiptsOK'
<1>1. job[r].insight \in Id /\ job[r].insight <= Len(insight) /\ job[r].score \in -1 .. 100
  BY KindsOfWork DEF ReportsInv, WorkOK, Building
<1>2. CASE Write(r)
  <2> DEFINE new == [score |-> job[r].score, live |-> TRUE]
  <2>1. receipt' = [receipt EXCEPT ![job[r].insight] = new]
    BY <1>2 DEF Write
  <2>2. new \in [score : -1 .. 100, live : BOOLEAN]
    BY <1>1
  <2> HIDE DEF new
  <2> QED
    BY <1>1, <2>1, <2>2 DEF ReportsInv, ReceiptsOK
<1>3. CASE UNCHANGED receipt
  BY <1>3 DEF ReportsInv, ReceiptsOK
<1> QED
  BY <1>2, <1>3

LEMMA UpsertKeeps ==
    ASSUME ReportsInv, NEW r \in Req, Reporting, upsert_explanation(r) \/ insert_explanation(r)
    PROVE  ReportsInv'
<1> DEFINE j == [job[r] EXCEPT !.pc = "insert"]
<1>1. /\ job[r] \in Building /\ job[r].pc # "gather" /\ WorkOK(job[r])
      /\ UNCHANGED data /\ (Write(r) \/ UNCHANGED receipt)
      /\ Finish(r) \/ Goto(r, "insert")
  BY KindsOfWork DEF upsert_explanation, insert_explanation, Builds, ReportsInv
<1>2. ReceiptsOK'
  BY <1>1, WriteKeeps DEF data
<1>3. JobsOK'
  <2>1. CASE Finish(r)
    BY <1>1, <2>1, Finished DEF ReportsInv, data
  <2>2. CASE Goto(r, "insert")
    <3>1. j \in Building /\ j.insight = job[r].insight /\ j.score = job[r].score /\ j.op # "report"
      BY <1>1 DEF Building
    <3>2. job' = [job EXCEPT ![r] = j]
      BY <2>2 DEF Goto
    <3> HIDE DEF j
    <3>3. j \in AnyWork /\ WorkOK(j)
      BY <1>1, <3>1 DEF AnyWork, WorkOK, Generating
    <3> QED
      BY <1>1, <3>2, <3>3, OneWorker DEF ReportsInv, data
  <2> QED
    BY <1>1, <2>1, <2>2
<1> QED
  BY <1>1, <1>2, <1>3 DEF Reporting, data, ReportsInv, FactsOK, PagesOK, PeopleOK

-----------------------------------------------------------------------------
(* Reports *)

\* A report that changes is not ready without contents.
LEMMA PageKeeps ==
    ASSUME ReportsInv, NEW p \in Report,
           NEW st \in {"none", "generating", "ready", "failed", "deleted"},
           NEW body \in {Empty} \cup Contents, st = "ready" <=> body \in Contents,
           \/ report' = [report EXCEPT ![p] = [status |-> st, body |-> body]]
           \/ SetReport(p, st, body)
           \/ UNCHANGED report
    PROVE  PagesOK'
<1> DEFINE new == [status |-> st, body |-> body]
<1>1. report' = [report EXCEPT ![p] = new] \/ UNCHANGED report
  <2>1. CASE SetReport(p, st, body) /\ report[p].status = "deleted"
    BY <2>1 DEF SetReport, ReportsInv, PagesOK
  <2>2. CASE SetReport(p, st, body) /\ report[p].status # "deleted"
    BY <2>2 DEF SetReport
  <2> QED
    BY <2>1, <2>2
<1>2. /\ new \in [status : {"none", "generating", "ready", "failed", "deleted"},
                 body : {Empty} \cup Contents]
      /\ new.status = "ready" <=> new.body \in Contents
  OBVIOUS
<1> HIDE DEF new
<1> QED
  BY <1>1, <1>2 DEF ReportsInv, PagesOK

LEMMA EmptyIsNoContents == Empty \notin Contents
BY ContentsAddUp

LEMMA AskKeeps ==
    ASSUME ReportsInv, NEW r \in Req, NEW p \in Report,
           delete_report(r, p) \/ \E scope \in Scope : generate_report(r, p, scope)
    PROVE  ReportsInv'
<1>1. UNCHANGED <<receipts, shows, active, mailed>>
  BY DEF delete_report, generate_report, Asks
<1>2. CASE delete_report(r, p)
  <2>1. report' = [report EXCEPT ![p] = [status |-> "deleted", body |-> Empty]] /\ UNCHANGED job
    BY <1>2 DEF delete_report, Blank
  <2>2. PagesOK'
    BY <2>1, PageKeeps, EmptyIsNoContents
  <2> QED
    BY <1>1, <2>1, <2>2
    DEF receipts, data, ReportsInv, FactsOK, ReceiptsOK, PeopleOK, JobsOK, WorkOK
<1>3. ASSUME NEW scope \in Scope, generate_report(r, p, scope) PROVE ReportsInv'
  <2> DEFINE j == [op |-> "report", pc |-> "fetch", report |-> p, scope |-> scope, body |-> Empty]
  <2>1. /\ report' = [report EXCEPT ![p] = [status |-> "generating", body |-> Empty]]
        /\ job' = [job EXCEPT ![r] = j]
    BY <1>3 DEF generate_report, Begin, Blank
  <2>2. PagesOK'
    BY <2>1, PageKeeps, EmptyIsNoContents
  <2>3. j \in Generating /\ j.pc = "fetch" /\ j.op = "report"
    BY DEF Generating
  <2> HIDE DEF j
  <2>4. j \in AnyWork /\ WorkOK(j)
    BY <2>3 DEF AnyWork, WorkOK, Building
  <2>5. JobsOK'
    BY <1>1, <2>1, <2>4, OneWorker DEF ReportsInv, receipts, data
  <2> QED
    BY <1>1, <2>2, <2>5 DEF receipts, data, ReportsInv, FactsOK, ReceiptsOK, PeopleOK
<1> QED
  BY <1>2, <1>3

LEMMA FetchKeeps ==
    ASSUME ReportsInv, NEW r \in Req, fetch_kpis(r) \/ fetch_events(r)
    PROVE  ReportsInv'
<1>1. /\ job[r] \in Generating /\ job[r].scope \in Scope /\ WorkOK(job[r])
      /\ UNCHANGED <<receipts, shows, active, report, mailed>>
  BY KindsOfWork DEF fetch_kpis, fetch_events, At, Stays, ReportsInv, Generating
<1>2. PICK j : /\ job' = [job EXCEPT ![r] = j] /\ j \in Generating
               /\ \/ j.pc = "events" /\ j.body \in [kpis : SUBSET Kpi]
                  \/ j.pc = "persist" /\ j.body \in Contents
  <2>1. CASE fetch_kpis(r)
    <3> DEFINE kpis == InScope(job[r].scope)
               j == [job[r] EXCEPT !.pc = "events", !.body = [kpis |-> kpis]]
    <3>1. kpis \in SUBSET Kpi
      BY <1>1, InScopeIsSubset
    <3>2. job' = [job EXCEPT ![r] = j]
      BY <2>1 DEF fetch_kpis
    <3> HIDE DEF kpis
    <3>3. [kpis |-> kpis] \in [kpis : SUBSET Kpi]
      BY <3>1
    <3>4. j \in Generating /\ j.pc = "events" /\ j.body = [kpis |-> kpis]
      BY <1>1, <3>3 DEF Generating
    <3>5. j.body \in [kpis : SUBSET Kpi]
      BY <3>3, <3>4
    <3> HIDE DEF j
    <3> QED
      BY <3>2, <3>4, <3>5, Zenon
  <2>2. CASE fetch_events(r)
    <3> DEFINE kpis == job[r].body.kpis
               body == ReportData(kpis, Covered(kpis), Sources(job[r].scope, kpis))
               j == [job[r] EXCEPT !.pc = "persist", !.body = body]
    <3>1. kpis \in SUBSET Kpi
      BY <1>1, <2>2 DEF fetch_events, At, WorkOK
    <3>2. job' = [job EXCEPT ![r] = j]
      BY <2>2 DEF fetch_events
    <3> HIDE DEF kpis
    <3>3. body \in Contents
      BY <1>1, <3>1, DataIsContents DEF ReportsInv
    <3> HIDE DEF body
    <3>4. j \in Generating /\ j.pc = "persist" /\ j.body = body
      BY <1>1, <3>3 DEF Generating
    <3> HIDE DEF j
    <3> QED
      BY <3>2, <3>3, <3>4, Zenon
  <2> QED
    BY <2>1, <2>2
<1>3. j \in AnyWork /\ WorkOK(j)
  <2>1. j.op = "report"
    BY <1>2 DEF Generating
  <2> QED
    BY <1>2, <2>1 DEF AnyWork, WorkOK, Building
<1>4. JobsOK'
  BY <1>1, <1>2, <1>3, OneWorker DEF ReportsInv, receipts, data
<1> QED
  BY <1>1, <1>4 DEF receipts, data, ReportsInv, FactsOK, ReceiptsOK, PagesOK, PeopleOK

\* What ends the work on a report leaves it ready with contents, or without.
LEMMA ReportEndKeeps ==
    ASSUME ReportsInv, NEW r \in Req,
           \/ report_not_found(r) \/ persist_report(r)
           \/ generation_fails(r) \/ database_fails(r)
    PROVE  ReportsInv'
<1>1. /\ job[r].op = "report" /\ Finish(r)
      /\ UNCHANGED <<receipts, shows, active, mailed>>
  BY DEF report_not_found, persist_report, generation_fails, database_fails, At, Stays
<1>2. job[r] \in Generating /\ job[r].report \in Report /\ WorkOK(job[r])
  BY <1>1, KindsOfWork DEF ReportsInv, Generating
<1>3. PagesOK'
  <2>1. CASE persist_report(r)
    BY <1>2, <2>1, PageKeeps DEF persist_report, At, WorkOK
  <2>2. CASE generation_fails(r)
    BY <1>2, <2>2, PageKeeps, EmptyIsNoContents DEF generation_fails, Fail
  <2>3. CASE report_not_found(r) \/ database_fails(r)
    BY <2>3 DEF report_not_found, database_fails, ReportsInv, PagesOK
  <2> QED
    BY <2>1, <2>2, <2>3
<1>4. JobsOK'
  BY <1>1, Finished DEF ReportsInv, receipts, data
<1> QED
  BY <1>1, <1>3, <1>4 DEF receipts, data, ReportsInv, FactsOK, ReceiptsOK, PeopleOK

-----------------------------------------------------------------------------
(* Mails *)

LEMMA MailStepKeeps ==
    ASSUME ReportsInv, NEW r \in Req, NEW j, j \in Listing \cup Sending,
           job' = [job EXCEPT ![r] = j], mailed' \subseteq Kind \X Staff,
           UNCHANGED <<receipts, shows, active, report>>
    PROVE  ReportsInv'
<1>1. j \in AnyWork /\ WorkOK(j)
  BY NothingMore
<1>2. JobsOK'
  BY <1>1, OneWorker DEF ReportsInv, receipts, data
<1> QED
  BY <1>2 DEF receipts, data, ReportsInv, FactsOK, ReceiptsOK, PagesOK, PeopleOK

LEMMA RunKeeps ==
    ASSUME ReportsInv, NEW r \in Req, NEW kind \in Kind, run_job(r, kind)
    PROVE  ReportsInv'
<1> DEFINE j == [op |-> "mail", kind |-> kind, pc |-> "list", todo |-> {}]
<1>1. /\ job' = [job EXCEPT ![r] = j] /\ UNCHANGED <<receipts, shows, active, report, mailed>>
  BY DEF run_job, Asks, Begin
<1>2. j \in Listing
  BY DEF Listing
<1> HIDE DEF j
<1> QED
  BY <1>1, <1>2, MailStepKeeps DEF ReportsInv, PeopleOK

LEMMA ListKeeps ==
    ASSUME ReportsInv, NEW r \in Req, list_users(r) \/ \E u \in Staff : skip_user(r, u)
    PROVE  ReportsInv'
<1>1. /\ job[r] \in Listing /\ UNCHANGED <<receipts, shows, active, report, mailed>>
  BY KindsOfWork DEF list_users, skip_user, Stays, ReportsInv
<1>2. PICK j \in Listing : job' = [job EXCEPT ![r] = j]
  <2>1. CASE list_users(r)
    <3> DEFINE todo == {u \in active : StaffRole[u] \in Readers[job[r].kind]}
               j == [job[r] EXCEPT !.pc = "next", !.todo = todo]
    <3>1. todo \in SUBSET Staff
      BY DEF ReportsInv, PeopleOK
    <3>2. job' = [job EXCEPT ![r] = j]
      BY <2>1 DEF list_users
    <3> HIDE DEF todo
    <3>3. j \in Listing
      BY <1>1, <3>1 DEF Listing
    <3> QED
      BY <3>2, <3>3
  <2>2. ASSUME NEW u \in Staff, skip_user(r, u)
        PROVE  \E j \in Listing : job' = [job EXCEPT ![r] = j]
    <3> DEFINE j == [job[r] EXCEPT !.todo = @ \ {u}]
    <3>1. job' = [job EXCEPT ![r] = j]
      BY <2>2 DEF skip_user, Skip
    <3>2. j \in Listing
      BY <1>1 DEF Listing
    <3> QED
      BY <3>1, <3>2
  <2> QED
    BY <2>1, <2>2
<1> QED
  BY <1>1, <1>2, MailStepKeeps DEF ReportsInv, PeopleOK

LEMMA BuildMailKeeps ==
    ASSUME ReportsInv, NEW r \in Req, NEW u \in Staff, build_mail(r, u)
    PROVE  ReportsInv'
<1>1. /\ job[r] \in Listing /\ UNCHANGED <<receipts, shows, active, report, mailed>>
  BY KindsOfWork DEF build_mail, Stays, ReportsInv
<1> DEFINE kind == job[r].kind
           ids == _get_user_dashboards_and_kpi_ids(u)
           told == build_user_data(kind, u, ids)
           j == [op |-> "mail", kind |-> kind, pc |-> "send", todo |-> job[r].todo \ {u},
                 to |-> u, data |-> told]
<1>2. job' = [job EXCEPT ![r] = j]
  BY DEF build_mail
<1>3. ids \in SUBSET Kpi
  BY DEF _get_user_dashboards_and_kpi_ids, ReportsInv, PeopleOK
<1> HIDE DEF ids
<1>4. told \in MailData
  <2> DEFINE kpis == certified \cap ids
             pending == {k \in ids \ kpis : Live(k)}
             events == {e \in LiveEvents : e.kpi \in kpis /\ Age(kind, e)}
             m == [role |-> StaffRole[u], kpis |-> kpis, pending |-> pending, events |-> events]
  <2>1. told = IF kind = "weekly" THEN build_user_weekly_data(m.role, m.kpis, m.pending, m.events)
               ELSE build_user_monthly_data(m.role, m.kpis, m.pending, m.events)
    BY DEF build_user_data
  <2>2. kpis \in SUBSET Kpi /\ pending \in SUBSET Kpi
    BY <1>3
  <2>3. events \in SUBSET Noted
    BY EventsAreNoted DEF ReportsInv
  <2>4. StaffRole[u] \in {"executive", "manager", "analyst"}
    BY ReportsAssumption
  <2> HIDE DEF kpis, pending, events
  <2>5. m \in Mail
    BY <2>2, <2>3, <2>4 DEF Mail
  <2> HIDE DEF m, told
  <2> QED
    BY <2>1, <2>5 DEF MailData
<1> HIDE DEF told
<1>5. j \in Sending
  BY <1>1, <1>4 DEF Sending, Listing
<1> HIDE DEF j
<1> QED
  BY <1>1, <1>2, <1>5, MailStepKeeps DEF ReportsInv, PeopleOK

LEMMA SendKeeps ==
    ASSUME ReportsInv, NEW r \in Req, send_personalized_report(r) \/ send_fails(r)
    PROVE  ReportsInv'
<1> DEFINE j == [op |-> "mail", kind |-> job[r].kind, pc |-> "next", todo |-> job[r].todo]
<1>1. /\ job[r] \in Sending /\ UNCHANGED <<receipts, shows, active, report>>
  BY KindsOfWork DEF send_personalized_report, send_fails, Stays, ReportsInv
<1>2. job' = [job EXCEPT ![r] = j]
  BY DEF send_personalized_report, send_fails, Sent
<1>3. mailed' \subseteq mailed \cup {<<job[r].kind, job[r].to>>}
  BY DEF send_personalized_report, send_fails
<1>4. job[r].kind \in Kind /\ job[r].to \in Staff /\ j \in Listing
  BY <1>1 DEF Sending, Listing
<1>5. mailed' \subseteq Kind \X Staff
  BY <1>3, <1>4 DEF ReportsInv, PeopleOK
<1> HIDE DEF j
<1> QED
  BY <1>1, <1>2, <1>4, <1>5, MailStepKeeps

\* AnyWork that ends with nothing changed.
LEMMA EndKeeps ==
    ASSUME ReportsInv, NEW r \in Req,
           (build_fails(r) /\ Reporting) \/ job_fails(r) \/ job_ends(r)
    PROVE  ReportsInv'
<1>1. Finish(r) /\ UNCHANGED <<data, receipt, shows, active, report, mailed>>
  BY DEF build_fails, job_fails, job_ends, Reporting, Stays, receipts
<1>2. JobsOK'
  BY <1>1, Finished DEF ReportsInv, data
<1> QED
  BY <1>1, <1>2 DEF data, ReportsInv, FactsOK, ReceiptsOK, PagesOK, PeopleOK

LEMMA CrashKeeps == ASSUME ReportsInv, crash PROVE ReportsInv'
<1>1. /\ UNCHANGED <<receipts, report, shows, active, mailed>>
      /\ job' = [r \in Req |-> IF job[r].op = "agent" THEN job[r] ELSE Idle]
  BY DEF crash
<1>2. \A j : WorkOK(j) => WorkOK(j)'
  BY <1>1 DEF receipts, data, WorkOK
<1>3. JobsOK'
  BY <1>1, <1>2, IdleFacts DEF ReportsInv, JobsOK
<1> QED
  BY <1>1, <1>3 DEF receipts, data, ReportsInv, FactsOK, ReceiptsOK, PagesOK, PeopleOK

-----------------------------------------------------------------------------
(* What others do *)

LEMMA DetectKeeps ==
    ASSUME ReportsInv, NEW k \in Kpi, NEW row \in Row, detect(k, row), Aside, Reporting
    PROVE  ReportsInv'
<1> DEFINE new == Insight(Len(insight) + 1, row)
<1>1. /\ insight' = Append(insight, new) /\ Len(insight) < MaxInsights
      /\ UNCHANGED <<facts, receipt, job, report, shows, active, mailed>>
  BY DEF detect, Aside, Reporting
<1>2. insight \in Seq(Noted) /\ Len(insight) \in Nat /\ MaxInsights \in Nat
  BY ReceiptsAssumption DEF ReportsInv, FactsOK
<1>3. new \in Noted
  <2>1. row \in Finding /\ Len(insight) + 1 \in Id
    BY <1>1, <1>2, ReceiptsAssumption DEF Id
  <2> QED
    BY <2>1 DEF Insight, Noted, Finding
<1> HIDE DEF new
<1>4. insight' \in Seq(Noted) /\ Len(insight') = Len(insight) + 1
  BY <1>1, <1>2, <1>3
<1>5. FactsOK'
  BY <1>1, <1>2, <1>4 DEF ReportsInv, FactsOK
<1>6. ReceiptsOK'
  <2>1. \A i \in Id : i <= Len(insight) => i <= Len(insight')
    BY <1>2, <1>4 DEF Id
  <2> QED
    BY <1>1, <2>1 DEF ReportsInv, ReceiptsOK
<1>7. \A j : WorkOK(j) => WorkOK(j)'
  <2>1. \A j \in Building : j.insight <= Len(insight) => j.insight <= Len(insight')
    BY <1>2, <1>4 DEF Building, Id
  <2> QED
    BY <1>1, <2>1 DEF WorkOK
<1>8. JobsOK'
  BY <1>1, <1>7 DEF ReportsInv, JobsOK
<1> QED
  BY <1>1, <1>5, <1>6, <1>8 DEF ReportsInv, PagesOK, PeopleOK

LEMMA HideKeeps ==
    ASSUME ReportsInv, NEW ds \in Dataset, delete_dataset(ds) \/ restore_dataset(ds),
           Aside, Reporting
    PROVE  ReportsInv'
<1>1. UNCHANGED <<facts, insight, job, report, shows, active, mailed>>
  BY DEF delete_dataset, restore_dataset, Aside, Reporting
<1>2. PICK live \in BOOLEAN : receipt' = Hidden(ds, live)
  BY DEF delete_dataset, restore_dataset, Restored
<1>3. ASSUME NEW i \in Id
      PROVE  /\ receipt'[i] \in [score : -1 .. 100, live : BOOLEAN]
             /\ receipt[i] = NoReceipt => receipt'[i] = NoReceipt
  <2>1. receipt[i] \in [score : -1 .. 100, live : BOOLEAN]
    BY DEF ReportsInv, ReceiptsOK
  <2>2. \/ receipt'[i] = receipt[i]
        \/ receipt[i] # NoReceipt /\ receipt'[i] = [receipt[i] EXCEPT !.live = live]
    BY <1>2 DEF Hidden
  <2> QED
    BY <2>1, <2>2
<1>4. receipt' \in [Id -> [score : -1 .. 100, live : BOOLEAN]]
  BY <1>2, <1>3 DEF Hidden
<1>5. ReceiptsOK'
  BY <1>1, <1>3, <1>4 DEF ReportsInv, ReceiptsOK
<1> QED
  BY <1>1, <1>5 DEF ReportsInv, FactsOK, PagesOK, PeopleOK, JobsOK, WorkOK

LEMMA MeanwhileKeeps == ASSUME ReportsInv, Meanwhile, Reporting PROVE ReportsInv'
<1>1. ASSUME NEW k \in Kpi, review(k) PROVE ReportsInv'
  BY <1>1 DEF review, Meanwhile, Aside, Reporting, ReportsInv, FactsOK, ReceiptsOK, PagesOK,
     PeopleOK, JobsOK, WorkOK
<1>2. ASSUME NEW ds \in Dataset, sync(ds) PROVE ReportsInv'
  <2>1. UNCHANGED <<insight, receipt, job, report, shows, active, mailed>>
    BY <1>2 DEF sync, Meanwhile, Aside, Reporting
  <2>2. PICK f \in Freshness : facts' = [facts EXCEPT ![ds] = f]
    BY <1>2 DEF sync
  <2>3. f \in [quality : 0 .. 100, age : Nat]
    BY ReceiptsAssumption
  <2>4. FactsOK'
    BY <2>1, <2>2, <2>3 DEF ReportsInv, FactsOK
  <2> QED
    BY <2>1, <2>4 DEF ReportsInv, ReceiptsOK, PagesOK, PeopleOK, JobsOK, WorkOK
<1> QED
  BY <1>1, <1>2, DetectKeeps, HideKeeps DEF Meanwhile

LEMMA RearrangeKeeps == ASSUME ReportsInv, Rearrange PROVE ReportsInv'
<1>1. /\ UNCHANGED <<receipts, job, report, mailed>>
      /\ active' \subseteq active
      /\ \/ UNCHANGED shows
         \/ \E d \in Dashboard : shows' = [shows EXCEPT ![d] = {}]
  BY DEF Rearrange, Aside, remove_widgets, deactivate
<1>2. PeopleOK'
  BY <1>1 DEF ReportsInv, PeopleOK
<1> QED
  BY <1>1, <1>2 DEF receipts, data, ReportsInv, FactsOK, ReceiptsOK, PagesOK, JobsOK, WorkOK

LEMMA ReportsStepKeeps == ReportsInv /\ [ReportsNext]_reportVars => ReportsInv'
<1> SUFFICES ASSUME ReportsInv, [ReportsNext]_reportVars PROVE ReportsInv'
  OBVIOUS
<1>1. CASE UNCHANGED reportVars
  BY <1>1 DEF reportVars, receipts, data, ReportsInv, FactsOK, ReceiptsOK, PagesOK, PeopleOK,
     JobsOK, WorkOK
<1>2. ASSUME NEW r \in Req, Request(r) PROVE ReportsInv'
  BY <1>2, HandleKeeps, AskKeeps, RunKeeps DEF Request
<1>3. ASSUME NEW r \in Req, Step(r) PROVE ReportsInv'
  <2>1. CASE ReceiptStep(r) /\ Reporting
    BY <2>1, BuildKeeps, UpsertKeeps DEF ReceiptStep
  <2>2. CASE report_not_found(r) \/ persist_report(r)
    BY <2>2, ReportEndKeeps
  <2>3. CASE fetch_kpis(r) \/ fetch_events(r)
    BY <2>3, FetchKeeps
  <2>4. CASE list_users(r) \/ \E u \in Staff : skip_user(r, u)
    BY <2>4, ListKeeps
  <2>5. CASE send_personalized_report(r)
    BY <2>5, SendKeeps
  <2>6. CASE job_ends(r)
    BY <2>6, EndKeeps
  <2>7. CASE \E u \in Staff : build_mail(r, u)
    BY <2>7, BuildMailKeeps
  <2> QED
    BY <1>3, <2>1, <2>2, <2>3, <2>4, <2>5, <2>6, <2>7 DEF Step
<1>4. ASSUME NEW r \in Req, Breakdown(r) PROVE ReportsInv'
  BY <1>4, EndKeeps, ReportEndKeeps, SendKeeps DEF Breakdown
<1> QED
  BY <1>1, <1>2, <1>3, <1>4, CrashKeeps, MeanwhileKeeps, RearrangeKeeps DEF ReportsNext

LEMMA ReportsInvIsEnough == ReportsInv => ReportsAreSound
<1> SUFFICES ASSUME ReportsInv PROVE ReportsAreSound
  OBVIOUS
<1>1. ReportsTypeOK
  BY EmptyIsNoContents DEF ReportsInv, PagesOK, ReceiptsOK, PeopleOK, ReportsTypeOK, NoReceipt
<1>2. ReportsAddUp
  <2>1. \A p \in Report : report[p].status = "ready" => AddsUp(report[p].body)
    BY ContentsAddUp DEF ReportsInv, PagesOK
  <2> QED
    BY <2>1 DEF ReportsAddUp, AddsUp
<1> QED
  BY <1>1, <1>2 DEF ReportsAreSound

\* Whatever KPIs, insights, datasets and dashboards there are, and whatever
\* changes, fails, is deleted or crashes between the statements that read them,
\* a report is ready when and only when it has contents, its sections, trends,
\* actions and counts are about the same KPIs and insights, and a receipt's score
\* is a percentage (_generate_report_data, compute_confidence).
THEOREM ReportsAlwaysSound == ReportsSpec => []ReportsAreSound
<1> QED
  BY ReportsInitEstablishes, ReportsStepKeeps, ReportsInvIsEnough, PTL DEF ReportsSpec

-----------------------------------------------------------------------------
(* A mail and a report about the same *)

SnapshotRow == [at : Nat, computed : Nat, value : Int, deleted : BOOLEAN]

LEMMA FewerThan ==
    ASSUME NEW S, IsFiniteSet(S), NEW T \in SUBSET S
    PROVE  IsFiniteSet(T) /\ Cardinality(T) \in Nat /\ Cardinality(T) <= Cardinality(S)
BY FS_Subset, FS_CardinalityType

\* Few live snapshots are all read.
LEMMA AllAreRead ==
    ASSUME NEW rows \in Series, \A r \in rows : ~r.deleted, Cardinality(rows) <= SnapshotLimit
    PROVE  list_snapshots(rows) = rows
<1>1. IsFiniteSet(rows) /\ rows \subseteq SnapshotRow /\ SnapshotLimit \in Nat
  BY ContentAssumption DEF ContentAssumption, SnapshotRow
<1>2. {r \in rows : ~r.deleted} = rows
  OBVIOUS
<1>3. ASSUME NEW r \in rows PROVE Cardinality({s \in rows : Earlier(s, r)}) < SnapshotLimit
  <2> DEFINE before == {s \in rows : Earlier(s, r)}
  <2>1. r \notin before
    BY <1>1 DEF Earlier, SnapshotRow
  <2>2. before \in SUBSET (rows \ {r})
    BY <2>1
  <2>3. /\ IsFiniteSet(rows \ {r}) /\ Cardinality(rows) \in Nat
        /\ Cardinality(rows \ {r}) = Cardinality(rows) - 1
    BY <1>1, FS_RemoveElement, FS_CardinalityType
  <2> HIDE DEF before
  <2>4. Cardinality(before) \in Nat /\ Cardinality(before) <= Cardinality(rows \ {r})
    BY <2>2, <2>3, FewerThan
  <2>5. Cardinality(before) < SnapshotLimit
    BY <1>1, <2>3, <2>4
  <2> QED
    BY <2>5 DEF before
<1>4. list_snapshots(rows)
          = {r \in rows : Cardinality({s \in rows : Earlier(s, r)}) < SnapshotLimit}
  BY <1>2 DEF list_snapshots
<1> QED
  BY <1>3, <1>4

\* A row that stands at a place by both times may stand there by the first of
\* them, and is the only one if that tells the rows apart.
LEMMA SamePlace ==
    ASSUME NEW rows, IsFiniteSet(rows), rows \subseteq SnapshotRow, NEW n \in Nat,
           NEW x \in rows
    PROVE  LET later == Cardinality({y \in rows : Earlier(x, y)})
               upto == Cardinality({y \in rows : ~Earlier(y, x)})
               after == Cardinality({y \in rows : y.at > x.at})
               from == Cardinality({y \in rows : y.at >= x.at})
           IN  /\ later < n /\ n <= upto => after < n /\ n <= from
               /\ (\A r, s \in rows : r.at = s.at => r = s) =>
                      (later < n /\ n <= upto <=> after < n /\ n <= from)
<1> DEFINE Later == {y \in rows : Earlier(x, y)}
           Upto == {y \in rows : ~Earlier(y, x)}
           After == {y \in rows : y.at > x.at}
           From == {y \in rows : y.at >= x.at}
<1>1. After \subseteq Later /\ Upto \subseteq From
  BY DEF Earlier, SnapshotRow
<1>2. Later \in SUBSET rows /\ Upto \in SUBSET rows /\ After \in SUBSET rows
      /\ From \in SUBSET rows
  OBVIOUS
<1>3. (\A r, s \in rows : r.at = s.at => r = s) => After = Later /\ Upto = From
  BY DEF Earlier, SnapshotRow
<1> HIDE DEF Later, Upto, After, From
<1>4. /\ IsFiniteSet(Later) /\ IsFiniteSet(Upto) /\ IsFiniteSet(After) /\ IsFiniteSet(From)
      /\ Cardinality(Later) \in Nat /\ Cardinality(Upto) \in Nat
      /\ Cardinality(After) \in Nat /\ Cardinality(From) \in Nat
  BY <1>2, FewerThan
<1>5. Cardinality(After) <= Cardinality(Later) /\ Cardinality(Upto) <= Cardinality(From)
  BY <1>1, <1>4, FewerThan
<1>6. Cardinality(Later) < n /\ n <= Cardinality(Upto)
          => Cardinality(After) < n /\ n <= Cardinality(From)
  BY <1>4, <1>5
<1>7. (\A r, s \in rows : r.at = s.at => r = s) =>
          (Cardinality(Later) < n /\ n <= Cardinality(Upto)
              <=> Cardinality(After) < n /\ n <= Cardinality(From))
  BY <1>3
<1> QED
  BY <1>6, <1>7 DEF Later, Upto, After, From

LEMMA FetchedValues ==
    ASSUME NEW rows \in Series, NEW limit \in Nat, NEW n \in Nat, n > 0
    PROVE  /\ n > limit => Nth(_fetch_snapshots(rows, limit), n) = {}
           /\ n <= limit =>
                  /\ Back(rows, n) \subseteq Nth(_fetch_snapshots(rows, limit), n)
                  /\ (\A r, s \in rows : r.at = s.at => r = s) =>
                         Nth(_fetch_snapshots(rows, limit), n) = Back(rows, n)
<1>1. IsFiniteSet(rows) /\ rows \subseteq SnapshotRow
  BY ContentAssumption DEF ContentAssumption, SnapshotRow
<1> DEFINE A(x) == /\ Cardinality({y \in rows : Earlier(x, y)}) < n
                   /\ n <= Cardinality({y \in rows : ~Earlier(y, x)})
           B(x) == /\ Cardinality({y \in rows : y.at > x.at}) < n
                   /\ n <= Cardinality({y \in rows : y.at >= x.at})
<1>2. \A x \in rows : /\ A(x) => B(x)
                      /\ (\A r, s \in rows : r.at = s.at => r = s) => (A(x) <=> B(x))
  BY <1>1, SamePlace
<1>3. Back(rows, n) = {r.value : r \in {x \in rows : A(x)}}
  BY DEF Back
<1>4. n <= limit => Nth(_fetch_snapshots(rows, limit), n) = {r.value : r \in {x \in rows : B(x)}}
  BY DEF Nth, _fetch_snapshots
<1>5. n > limit => Nth(_fetch_snapshots(rows, limit), n) = {}
  BY DEF Nth, _fetch_snapshots
<1> HIDE DEF A, B
<1>6. {x \in rows : A(x)} \subseteq {x \in rows : B(x)}
  BY <1>2
<1>7. (\A r, s \in rows : r.at = s.at => r = s) =>
          {x \in rows : A(x)} = {x \in rows : B(x)}
  BY <1>2
<1>8. Back(rows, n) \subseteq {r.value : r \in {x \in rows : B(x)}}
  BY <1>3, <1>6
<1>9. (\A r, s \in rows : r.at = s.at => r = s) =>
          Back(rows, n) = {r.value : r \in {x \in rows : B(x)}}
  BY <1>3, <1>7
<1> QED
  BY <1>4, <1>5, <1>8, <1>9

LEMMA AnomaliesAgree == ASSUME NEW e \in Anomalies PROVE PrioritiesAgree(e)
<1>1. e.severity \in {"none", "info", "warning", "critical"} /\ e.z \in Nat
  BY ContentAssumption
<1>2. CASE e.severity = "critical" \/ e.z >= 3
  BY <1>1, <1>2 DEF PrioritiesAgree, _mail_priority, _priority
<1>3. CASE e.severity = "warning" /\ e.z < 3
  BY <1>1, <1>3 DEF PrioritiesAgree, _mail_priority, _priority
<1>4. CASE e.severity \in {"none", "info"} /\ e.z < 3
  <2>1. _mail_priority(e) = 3
    BY <1>1, <1>4 DEF _mail_priority
  <2>2. _priority(e) \in {2, 3}
    BY <1>1, <1>4 DEF _priority
  <2> QED
    BY <2>1, <2>2 DEF PrioritiesAgree
<1> QED
  BY <1>1, <1>2, <1>3, <1>4

LEMMA SeriesAgree == ASSUME NEW rows \in Series PROVE ValuesAgree(rows)
<1> DEFINE two == _fetch_snapshots(rows, 2)
           thirteen == _fetch_snapshots(rows, 13)
           unique == \A r, s \in rows : r.at = s.at => r = s
<1> SUFFICES ASSUME \A r \in rows : ~r.deleted, Cardinality(rows) <= SnapshotLimit
             PROVE  LET card == _build_scorecard(rows)
                        weekly == _shape_kpi_changes(two)
                        monthly == _shape_kpi_changes(thirteen)
                    IN  /\ weekly = [monthly EXCEPT !.year = {}]
                        /\ card.current \subseteq monthly.current
                        /\ card.previous \subseteq monthly.previous
                        /\ card.year \subseteq monthly.year
                        /\ unique => monthly = [current |-> card.current,
                                               previous |-> card.previous, year |-> card.year]
  BY DEF ValuesAgree
<1>1. list_snapshots(rows) = rows
  BY AllAreRead
<1> DEFINE card == _build_scorecard(rows)
<1>2. /\ card.current = Back(rows, 1) /\ card.previous = Back(rows, 2)
      /\ card.year = Back(rows, 13)
  BY <1>1 DEF _build_scorecard
<1>3. /\ Back(rows, 1) \subseteq Nth(thirteen, 1) /\ Back(rows, 2) \subseteq Nth(thirteen, 2)
      /\ Back(rows, 13) \subseteq Nth(thirteen, 13)
      /\ Nth(two, 13) = {}
  BY FetchedValues
<1>4. unique => /\ Nth(thirteen, 1) = Back(rows, 1) /\ Nth(thirteen, 2) = Back(rows, 2)
                /\ Nth(thirteen, 13) = Back(rows, 13)
  BY FetchedValues
<1>5. Nth(two, 1) = Nth(thirteen, 1) /\ Nth(two, 2) = Nth(thirteen, 2)
  BY DEF Nth, _fetch_snapshots
<1> HIDE DEF two, thirteen, unique, card
<1>6. /\ _shape_kpi_changes(two) = [current |-> Nth(two, 1), previous |-> Nth(two, 2),
                                    year |-> Nth(two, 13)]
      /\ _shape_kpi_changes(thirteen) = [current |-> Nth(thirteen, 1),
                                         previous |-> Nth(thirteen, 2),
                                         year |-> Nth(thirteen, 13)]
  BY DEF _shape_kpi_changes
<1>7. _shape_kpi_changes(two) = [_shape_kpi_changes(thirteen) EXCEPT !.year = {}]
  BY <1>3, <1>5, <1>6
<1>8. /\ card.current \subseteq _shape_kpi_changes(thirteen).current
      /\ card.previous \subseteq _shape_kpi_changes(thirteen).previous
      /\ card.year \subseteq _shape_kpi_changes(thirteen).year
  BY <1>2, <1>3, <1>6
<1>9. unique => _shape_kpi_changes(thirteen)
                    = [current |-> card.current, previous |-> card.previous, year |-> card.year]
  BY <1>2, <1>4, <1>6
<1> QED
  BY <1>7, <1>8, <1>9 DEF card

\* Of a KPI with any snapshots that begin at different times, live and no more
\* than a report reads, and an anomaly of any size and severity, a mail says what
\* a report says: the same value and the same comparisons, and the highest
\* priority in both or in neither (_shape_kpi_changes, _build_scorecard,
\* _shape_actions, _build_decision_actions).
THEOREM MailAlwaysAgrees == ReportsSpec => []MailAgreesWithReport
<1>1. MailAgreesWithReport
  BY SeriesAgree, AnomaliesAgree DEF MailAgreesWithReport
<1> QED
  BY <1>1, PTL
=============================================================================
