--------------------------- MODULE CopilotProofs ---------------------------
(***************************************************************************)
(* Proof that conversations are sound for any number of sessions, requests *)
(* and failures.  What carries it is what a turn has copied when it loaded *)
(* the session: a title it has found is never taken away, and as long as a *)
(* turn that has found none is under way, no title of the user is kept.    *)
(***************************************************************************)
EXTENDS Copilot, TLAPS

Job == [op : {"turn", "rename", "delete"},
        pc : {"load", "flush", "classify", "handle", "commit", "update"},
        on : Session, n : Stamp, context : Context \cup {NoContext},
        copy : Row, told : SUBSET Message]

\* Turns that have loaded their session.
Turning(r) == job[r].op = "turn" /\ job[r].pc # "load"

Typed ==
    /\ session \in [Session -> Row]
    /\ message \in [Session -> SUBSET Message]
    /\ kept \in [Session -> Title]
    /\ lock \in [Session -> Req \cup {NoReq}]
    /\ loop \in Req \cup {NoReq}
    /\ job \in [Req -> Job \cup {Idle}]
    /\ starts \in 0 .. MaxStarts
    /\ faults \in 0 .. MaxFaults

\* The row of a session is locked by a turn that has written to it.
LocksOK ==
    \A s \in Session : lock[s] # NoReq =>
        /\ job[lock[s]].op = "turn" /\ job[lock[s]].on = s
        /\ job[lock[s]].pc \in {"classify", "handle", "commit"}

\* A title that a turn has found does not go away,
TitlesLast ==
    \A r \in Req : Turning(r) /\ ~Titles(r) => session[job[r].on].title # NoTitle

\* and what a turn that has found none could undo is not counted as kept.
UndoableIsNotKept ==
    \A r \in Req : Turning(r) /\ Titles(r) => kept[job[r].on] = NoTitle

IInv ==
    /\ Typed
    /\ LocksOK
    /\ TitlesHaveSource
    /\ RenamesStay
    /\ TitlesLast
    /\ UndoableIsNotKept

-----------------------------------------------------------------------------
(* Lemmas *)

LEMMA TitleFacts ==
    /\ NoTitle \in Title /\ NoTitle.by = "nobody"
    /\ NoSession \in Row /\ NoSession.title = NoTitle /\ NoSession.state = "none"
    /\ \A n \in Stamp : /\ [by |-> "user", n |-> n] \in Title \ {NoTitle}
                         /\ [by |-> "message", n |-> n] \in Title \ {NoTitle}
BY DEF NoTitle, Title, NoSession, Row

LEMMA JobKinds ==
    ASSUME Typed, NEW r \in Req, job[r].op # "none"
    PROVE  job[r] \in Job
BY DEF Typed, Idle

LEMMA IdleIsNoJob == Idle \notin Job /\ Idle.op = "none" /\ Idle.pc = "idle"
BY DEF Idle, Job

\* What a turn is given of the history is part of it.
LEMMA HistoryIsGiven ==
    ASSUME NEW S, NEW told \in _history_snippet(S)
    PROVE  told \subseteq S
<1>1. \A n, T : \A F \in Firsts(n, T) : F \subseteq T
  BY DEF Firsts
<1>2. \A n, T : \A F \in Lasts(n, T) : F \subseteq T
  BY DEF Lasts
<1>3. PICK W \in Firsts(Window, S) :
          told \in IF Cardinality(W) <= Snippet THEN {W} ELSE Lasts(Snippet, W)
  BY DEF _history_snippet
<1> QED
  BY <1>1, <1>2, <1>3

\* A step of one request that writes nothing to the session, after which the
\* request has the copy it had, or one it has just made.
QuietStep(r) ==
    /\ UNCHANGED <<session, message, kept>>
    /\ \A q \in Req \ {r} : job'[q] = job[q]
    /\ Turning(r)' =>
           \/ job'[r].copy = session[job'[r].on]
           \/ /\ Turning(r)
              /\ job'[r].on = job[r].on /\ job'[r].copy = job[r].copy

LEMMA QuietKeeps ==
    ASSUME IInv, NEW r \in Req, QuietStep(r), Typed', LocksOK'
    PROVE  IInv'
<1> USE DEF IInv, QuietStep
<1>1. TitlesHaveSource' /\ RenamesStay'
  BY DEF TitlesHaveSource, RenamesStay
<1>2. ASSUME NEW q \in Req, Turning(q)'
      PROVE  /\ ~Titles(q)' => session'[job'[q].on].title # NoTitle
             /\ Titles(q)' => kept'[job'[q].on] = NoTitle
  <2>1. CASE q # r
    BY <1>2, <2>1 DEF TitlesLast, UndoableIsNotKept, Turning, Titles
  <2>2. CASE q = r /\ job'[r].copy = session[job'[r].on]
    <3>1. job'[r] \in Job
      BY <1>2, <2>2, IdleIsNoJob DEF Typed, Turning
    <3>2. job'[r].on \in Session
      BY <3>1 DEF Job
    <3> QED
      BY <2>2, <3>2 DEF Titles, RenamesStay
  <2>3. CASE q = r /\ Turning(r) /\ job'[r].on = job[r].on /\ job'[r].copy = job[r].copy
    BY <2>3 DEF TitlesLast, UndoableIsNotKept, Titles
  <2> QED
    BY <1>2, <2>1, <2>2, <2>3
<1> QED
  BY <1>1, <1>2 DEF TitlesLast, UndoableIsNotKept

\* Locks are as good as before if none is taken and their holders go on.
LEMMA LocksStay ==
    ASSUME LocksOK, Typed, NEW r \in Req,
           \A s \in Session : lock'[s] \in {lock[s], NoReq},
           \A q \in Req \ {r} : job'[q] = job[q],
           \/ \A s \in Session : lock'[s] # r
           \/ /\ job'[r].op = job[r].op /\ job'[r].on = job[r].on
              /\ job'[r].pc \in {"classify", "handle", "commit"}
    PROVE  LocksOK'
<1> SUFFICES ASSUME NEW s \in Session, lock'[s] # NoReq
             PROVE  /\ job'[lock[s]].op = "turn" /\ job'[lock[s]].on = s
                    /\ job'[lock[s]].pc \in {"classify", "handle", "commit"}
                    /\ lock'[s] = lock[s]
  BY DEF LocksOK
<1>1. lock'[s] = lock[s] /\ lock[s] \in Req
  BY DEF Typed
<1> QED
  BY <1>1 DEF LocksOK

\* Who is not past its flush holds no lock.
LEMMA NoLock ==
    ASSUME LocksOK, NEW r \in Req, CopilotAssumption,
           ~(job[r].op = "turn" /\ job[r].pc \in {"classify", "handle", "commit"})
    PROVE  \A s \in Session : lock[s] # r
BY DEF LocksOK, CopilotAssumption

-----------------------------------------------------------------------------
(* Steps *)

LEMMA CreateKeeps ==
    ASSUME IInv, NEW s \in Session, create_session(s)
    PROVE  IInv'
<1> USE DEF IInv
<1>1. PICK c \in Context \cup {NoContext} :
          session' = [session EXCEPT ![s] = [state |-> "active", title |-> NoTitle, context |-> c]]
  BY DEF create_session
<1>2. /\ session[s].title = NoTitle /\ session'[s].title = NoTitle
      /\ \A t \in Session \ {s} : session'[t] = session[t]
      /\ UNCHANGED <<message, lock, loop, job, starts, faults, kept>>
  BY <1>1, TitleFacts DEF create_session, Typed
<1>3. Typed'
  <2>1. [state |-> "active", title |-> NoTitle, context |-> c] \in Row
    BY TitleFacts DEF Row
  <2> QED
    BY <1>1, <1>2, <2>1 DEF Typed
<1>4. \A t \in Session : session'[t].title = session[t].title
  BY <1>2
<1>5. TitlesHaveSource' /\ RenamesStay'
  BY <1>2, <1>4 DEF TitlesHaveSource, RenamesStay
<1>6. TitlesLast'
  <2>1. ASSUME NEW r \in Req, Turning(r) PROVE job[r].on \in Session
    BY <2>1, JobKinds DEF Turning, Job
  <2> QED
    BY <1>2, <1>4, <2>1 DEF TitlesLast, Turning, Titles
<1>7. LocksOK' /\ UndoableIsNotKept'
  BY <1>2 DEF LocksOK, UndoableIsNotKept, Turning, Titles
<1> QED
  BY <1>3, <1>5, <1>6, <1>7

LEMMA BeginKeeps ==
    ASSUME IInv, NEW r \in Req, NEW s \in Session, NEW c \in Context \cup {NoContext},
           NEW op \in {"turn", "rename", "delete"}, Begin(r, op, s, c)
    PROVE  IInv'
<1> USE DEF IInv
<1> DEFINE new == [op |-> op, pc |-> "load", on |-> s, n |-> starts + 1, context |-> c,
                   copy |-> NoSession, told |-> {}]
<1>1. /\ job[r] = Idle /\ starts < MaxStarts /\ starts' = starts + 1
      /\ job' = [job EXCEPT ![r] = new]
      /\ UNCHANGED <<session, message, lock, loop, faults, kept>>
  BY DEF Begin
<1>2. starts + 1 \in Stamp /\ starts' \in 0 .. MaxStarts
  BY <1>1, CopilotAssumption DEF Typed, Stamp, CopilotAssumption
<1>3. new \in Job
  BY <1>2, TitleFacts DEF Job
<1> HIDE DEF new
<1>4. Typed' /\ job'[r] = new /\ \A q \in Req \ {r} : job'[q] = job[q]
  BY <1>1, <1>2, <1>3 DEF Typed
<1>5. QuietStep(r)
  BY <1>1, <1>4 DEF QuietStep, Turning, new
<1>6. LocksOK'
  <2>1. \A t \in Session : lock[t] # r
    BY <1>1, IdleIsNoJob, NoLock, CopilotAssumption
  <2> QED
    BY <1>1, <1>4, <2>1, LocksStay
<1> QED
  BY <1>4, <1>5, <1>6, QuietKeeps

\* A request that ends without writing, having released what it held.
LEMMA EndKeeps ==
    ASSUME IInv, NEW r \in Req, Finish(r), UNCHANGED <<session, message, kept, starts>>,
           lock' \in {lock, Released(r)}, loop' \in Req \cup {NoReq},
           faults' \in 0 .. MaxFaults,
           \A s \in Session : lock'[s] # r
    PROVE  IInv'
<1> USE DEF IInv
<1>1. /\ job'[r] = Idle /\ \A q \in Req \ {r} : job'[q] = job[q]
      /\ job' \in [Req -> Job \cup {Idle}]
  BY DEF Finish, Typed
<1>2. lock' \in [Session -> Req \cup {NoReq}] /\ \A s \in Session : lock'[s] \in {lock[s], NoReq}
  BY DEF Released, Typed
<1>3. Typed'
  BY <1>1, <1>2 DEF Typed
<1>4. QuietStep(r)
  BY <1>1, IdleIsNoJob DEF QuietStep, Turning
<1>5. LocksOK'
  BY <1>1, <1>2, LocksStay
<1> QED
  BY <1>3, <1>4, <1>5, QuietKeeps

LEMMA LoadInThreadKeeps ==
    ASSUME IInv, NEW r \in Req, load_in_thread(r)
    PROVE  IInv'
<1> USE DEF IInv
<1>1. /\ job[r].op \in {"rename", "delete"} /\ job[r].pc = "load"
      /\ UNCHANGED <<session, message, lock, loop, starts, faults, kept>>
  BY DEF load_in_thread
<1>2. \A s \in Session : lock[s] # r
  BY <1>1, NoLock, CopilotAssumption
<1>3. CASE Finish(r)
  BY <1>1, <1>2, <1>3, EndKeeps DEF Typed
<1>4. CASE Goto(r, "update")
  <2>1. job[r] \in Job
    BY <1>1, JobKinds
  <2>2. /\ job'[r] = [job[r] EXCEPT !.pc = "update"]
        /\ \A q \in Req \ {r} : job'[q] = job[q]
        /\ DOMAIN job' = Req
    BY <1>4 DEF Goto, Typed
  <2>3. job'[r] \in Job /\ job'[r].op # "turn"
    BY <1>1, <2>1, <2>2 DEF Job
  <2>4. job' \in [Req -> Job \cup {Idle}]
    BY <1>4, <2>1, <2>2, <2>3 DEF Goto, Typed
  <2>5. Typed'
    BY <1>1, <2>4 DEF Typed
  <2>6. QuietStep(r)
    BY <1>1, <2>2, <2>3 DEF QuietStep, Turning
  <2>7. LocksOK'
    BY <1>1, <1>2, <2>2, LocksStay
  <2> QED
    BY <2>5, <2>6, <2>7, QuietKeeps
<1> QED
  BY <1>3, <1>4 DEF load_in_thread

LEMMA LoadKeeps ==
    ASSUME IInv, NEW r \in Req, load_session(r)
    PROVE  IInv'
<1> USE DEF IInv
<1>1. /\ job[r].op = "turn" /\ job[r].pc = "load"
      /\ UNCHANGED <<session, message, lock, starts, faults, kept>>
  BY DEF load_session, At
<1>2. \A s \in Session : lock[s] # r
  BY <1>1, NoLock, CopilotAssumption
<1>3. CASE Finish(r) /\ UNCHANGED loop
  BY <1>1, <1>2, <1>3, EndKeeps DEF Typed
<1>4. CASE loop' = r /\ job' = [job EXCEPT ![r].pc = "flush", ![r].copy = session[job[r].on]]
  <2>1. job[r] \in Job
    BY <1>1, JobKinds
  <2>2. session[job[r].on] \in Row
    BY <2>1 DEF Typed, Job
  <2>3. /\ job'[r] = [job[r] EXCEPT !.pc = "flush", !.copy = session[job[r].on]]
        /\ \A q \in Req \ {r} : job'[q] = job[q]
    BY <1>4 DEF Typed
  <2>4. /\ job'[r] \in Job /\ job'[r].on = job[r].on
        /\ job'[r].copy = session[job[r].on]
    BY <2>1, <2>2, <2>3 DEF Job
  <2>5. job' \in [Req -> Job \cup {Idle}]
    BY <1>4, <2>1, <2>3, <2>4 DEF Typed
  <2>6. Typed'
    BY <1>1, <1>4, <2>5 DEF Typed
  <2>7. QuietStep(r)
    BY <1>1, <2>3, <2>4 DEF QuietStep
  <2>8. LocksOK'
    BY <1>1, <1>2, <2>3, LocksStay
  <2> QED
    BY <2>6, <2>7, <2>8, QuietKeeps
<1> QED
  BY <1>3, <1>4 DEF load_session

\* A turn that goes on within its transaction.
LEMMA GoOnKeeps ==
    ASSUME IInv, NEW r \in Req, NEW pc \in {"handle", "commit"}, Goto(r, pc),
           job[r].op = "turn", job[r].pc \in {"classify", "handle"},
           UNCHANGED <<session, message, lock, starts, faults, kept>>, loop' \in {loop, r}
    PROVE  IInv'
<1> USE DEF IInv
<1>1. job[r] \in Job
  BY JobKinds
<1>2. job'[r] = [job[r] EXCEPT !.pc = pc] /\ \A q \in Req \ {r} : job'[q] = job[q]
  BY DEF Goto, Typed
<1>3. /\ job'[r] \in Job /\ job'[r].op = job[r].op /\ job'[r].on = job[r].on
      /\ job'[r].copy = job[r].copy /\ job'[r].pc = pc
  BY <1>1, <1>2 DEF Job
<1>4. job' \in [Req -> Job \cup {Idle}]
  BY <1>1, <1>2, <1>3 DEF Goto, Typed
<1>5. Typed'
  BY <1>4 DEF Typed
<1>6. QuietStep(r)
  BY <1>2, <1>3 DEF QuietStep, Turning
<1>7. LocksOK'
  BY <1>2, <1>3, LocksStay
<1> QED
  BY <1>5, <1>6, <1>7, QuietKeeps

LEMMA FlushKeeps ==
    ASSUME IInv, NEW r \in Req, flush(r)
    PROVE  IInv'
<1> USE DEF IInv
<1>1. /\ job[r].op = "turn" /\ job[r].pc = "flush"
      /\ NewContext(r) => Unlocked(r)
      /\ lock' = Locked(r) /\ loop' = NoReq
      /\ UNCHANGED <<session, message, starts, faults, kept>>
  BY DEF flush, At
<1>2. job[r] \in Job
  BY <1>1, JobKinds
<1> DEFINE s == job[r].on
<1>3. s \in Session /\ Own(r) \in Message
  BY <1>2 DEF Job, Own, Message
<1>4. PICK told \in _history_snippet(message[s] \cup {Own(r)}) :
          job' = [job EXCEPT ![r].pc = "classify", ![r].told = told]
  BY DEF flush
<1>5. told \in SUBSET Message
  <2>1. told \subseteq message[s] \cup {Own(r)}
    BY HistoryIsGiven
  <2> QED
    BY <1>3, <2>1 DEF Typed
<1>6. /\ job'[r] = [job[r] EXCEPT !.pc = "classify", !.told = told]
      /\ \A q \in Req \ {r} : job'[q] = job[q]
  BY <1>4 DEF Typed
<1>7. /\ job'[r] \in Job /\ job'[r].op = "turn" /\ job'[r].pc = "classify"
      /\ job'[r].on = s /\ job'[r].copy = job[r].copy
  BY <1>1, <1>2, <1>5, <1>6 DEF Job
<1>8. job' \in [Req -> Job \cup {Idle}]
  BY <1>4, <1>2, <1>6, <1>7 DEF Typed
<1>9. \A t \in Session : lock'[t] = lock[t] \/ (lock'[t] = r /\ t = s)
  BY <1>1, <1>3 DEF Locked, Typed
<1>10. lock' \in [Session -> Req \cup {NoReq}]
  BY <1>1, <1>3 DEF Locked, Typed
<1>11. Typed'
  BY <1>1, <1>8, <1>10 DEF Typed
<1>12. QuietStep(r)
  BY <1>1, <1>6, <1>7 DEF QuietStep, Turning
<1>13. LocksOK'
  <2> SUFFICES ASSUME NEW t \in Session, lock'[t] # NoReq
               PROVE  /\ job'[lock'[t]].op = "turn" /\ job'[lock'[t]].on = t
                      /\ job'[lock'[t]].pc \in {"classify", "handle", "commit"}
    BY DEF LocksOK
  <2>1. CASE lock'[t] = r
    <3>1. t = s
      BY <1>1, <1>9, <2>1, NoLock, CopilotAssumption
    <3> QED
      BY <1>7, <2>1, <3>1
  <2>2. CASE lock'[t] # r
    BY <1>6, <1>9, <2>2 DEF LocksOK, Typed
  <2> QED
    BY <2>1, <2>2
<1> QED
  BY <1>11, <1>12, <1>13, QuietKeeps

LEMMA RenameKeeps ==
    ASSUME IInv, NEW r \in Req, update_session_title(r)
    PROVE  IInv'
<1> USE DEF IInv
<1> DEFINE s == job[r].on
           title == [by |-> "user", n |-> job[r].n]
<1>1. /\ job[r].op = "rename" /\ job[r].pc = "update"
      /\ session' = [session EXCEPT ![s].title = title]
      /\ kept' = [kept EXCEPT ![s] = IF InFlight(s) = {} THEN title ELSE NoTitle]
      /\ Finish(r)
      /\ UNCHANGED <<message, lock, loop, starts, faults>>
  BY DEF update_session_title, At
<1>2. s \in Session /\ job[r].n \in Stamp
  BY <1>1, JobKinds DEF Job
<1>3. title \in Title \ {NoTitle} /\ title.by = "user"
  BY <1>2, TitleFacts
<1> HIDE DEF title
<1>4. /\ session'[s].title = title
      /\ kept'[s] \in {title, NoTitle}
      /\ \A t \in Session \ {s} : session'[t] = session[t] /\ kept'[t] = kept[t]
  BY <1>1, <1>2 DEF Typed, Row
<1>5. /\ job'[r] = Idle /\ \A q \in Req \ {r} : job'[q] = job[q]
      /\ job' \in [Req -> Job \cup {Idle}]
  BY <1>1 DEF Finish, Typed
<1>6. Typed'
  <2>1. session' \in [Session -> Row]
    BY <1>1, <1>2, <1>3 DEF Typed, Row
  <2>2. kept' \in [Session -> Title]
    BY <1>1, <1>2, <1>3, TitleFacts DEF Typed
  <2> QED
    BY <1>1, <1>5, <2>1, <2>2 DEF Typed
<1>7. LocksOK'
  <2>1. \A t \in Session : lock[t] # r
    BY <1>1, NoLock, CopilotAssumption
  <2> QED
    BY <1>1, <1>5, <2>1, LocksStay
<1>8. TitlesHaveSource'
  BY <1>1, <1>3, <1>4 DEF TitlesHaveSource
<1>9. RenamesStay'
  BY <1>4 DEF RenamesStay
<1>10. ASSUME NEW q \in Req, Turning(q)'
       PROVE  /\ q # r /\ job'[q] = job[q] /\ Turning(q) /\ job[q].on \in Session
              /\ Titles(q)' = Titles(q)
  <2>1. q # r
    BY <1>5, <1>10, IdleIsNoJob DEF Turning
  <2>2. job'[q] = job[q] /\ Turning(q)
    BY <1>5, <1>10, <2>1 DEF Turning
  <2> QED
    BY <2>1, <2>2, JobKinds DEF Turning, Job, Titles
<1>11. TitlesLast'
  BY <1>3, <1>4, <1>10 DEF TitlesLast
<1>12. UndoableIsNotKept'
  <2> SUFFICES ASSUME NEW q \in Req, Turning(q)', Titles(q)'
               PROVE  kept'[job[q].on] = NoTitle
    BY <1>10 DEF UndoableIsNotKept
  <2>1. CASE job[q].on = s
    BY <1>1, <1>2, <1>10, <2>1 DEF InFlight, Turning, Typed
  <2>2. CASE job[q].on # s
    BY <1>4, <1>10, <2>2 DEF UndoableIsNotKept
  <2> QED
    BY <2>1, <2>2
<1> QED
  BY <1>6, <1>7, <1>8, <1>9, <1>11, <1>12

LEMMA DeleteKeeps ==
    ASSUME IInv, NEW r \in Req, delete_session(r)
    PROVE  IInv'
<1> USE DEF IInv
<1> DEFINE s == job[r].on
<1>1. /\ job[r].op = "delete" /\ job[r].pc = "update"
      /\ session' = [session EXCEPT ![s].state = "deleted"]
      /\ Finish(r)
      /\ UNCHANGED <<message, lock, loop, starts, faults, kept>>
  BY DEF delete_session, At
<1>2. s \in Session
  BY <1>1, JobKinds DEF Job
<1>3. \A t \in Session : session'[t].title = session[t].title
  BY <1>1, <1>2 DEF Typed, Row
<1>4. /\ job'[r] = Idle /\ \A q \in Req \ {r} : job'[q] = job[q]
      /\ job' \in [Req -> Job \cup {Idle}]
  BY <1>1 DEF Finish, Typed
<1>5. Typed'
  <2>1. session' \in [Session -> Row]
    BY <1>1, <1>2 DEF Typed, Row
  <2> QED
    BY <1>1, <1>4, <2>1 DEF Typed
<1>6. LocksOK'
  <2>1. \A t \in Session : lock[t] # r
    BY <1>1, NoLock, CopilotAssumption
  <2> QED
    BY <1>1, <1>4, <2>1, LocksStay
<1>7. TitlesHaveSource' /\ RenamesStay'
  BY <1>1, <1>3 DEF TitlesHaveSource, RenamesStay
<1>8. ASSUME NEW q \in Req, Turning(q)'
      PROVE  /\ job'[q] = job[q] /\ Turning(q) /\ job[q].on \in Session
             /\ Titles(q)' = Titles(q)
  <2>1. q # r
    BY <1>4, <1>8, IdleIsNoJob DEF Turning
  <2>2. job'[q] = job[q] /\ Turning(q)
    BY <1>4, <1>8, <2>1 DEF Turning
  <2> QED
    BY <2>2, JobKinds DEF Turning, Job, Titles
<1>9. TitlesLast' /\ UndoableIsNotKept'
  BY <1>1, <1>3, <1>8 DEF TitlesLast, UndoableIsNotKept
<1> QED
  BY <1>5, <1>6, <1>7, <1>9

LEMMA CommitKeeps ==
    ASSUME IInv, NEW r \in Req, commit(r)
    PROVE  IInv'
<1> USE DEF IInv
<1> DEFINE s == job[r].on
           taken == [by |-> "message", n |-> job[r].n]
           title == IF Titles(r) THEN taken ELSE session[s].title
           context == IF NewContext(r) THEN job[r].context ELSE session[s].context
           answer == [role |-> "assistant", at |-> job[r].n]
<1>1. /\ job[r].op = "turn" /\ job[r].pc = "commit"
      /\ message' = [message EXCEPT ![s] = @ \cup {Own(r), answer}]
      /\ session' = [session EXCEPT ![s].title = title, ![s].context = context]
      /\ lock' = Released(r) /\ loop' = NoReq
      /\ Finish(r)
      /\ UNCHANGED <<starts, faults, kept>>
  BY DEF commit, At
<1>2. /\ job[r] \in Job /\ Turning(r)
      /\ s \in Session /\ job[r].n \in Stamp /\ job[r].context \in Context \cup {NoContext}
  BY <1>1, JobKinds DEF Job, Turning
<1>3. session[s] \in Row
  BY <1>2 DEF Typed
<1>4. title \in Title /\ context \in Context \cup {NoContext}
  BY <1>2, <1>3, TitleFacts DEF Row
<1>5. title # NoTitle
  BY <1>2, TitleFacts DEF TitlesLast
<1>6. {Own(r), answer} \subseteq Message
  BY <1>2 DEF Own, Message
<1> HIDE DEF title, context
<1>7. /\ session'[s].title = title
      /\ \A t \in Session \ {s} : session'[t] = session[t] /\ message'[t] = message[t]
      /\ message'[s] = message[s] \cup {Own(r), answer}
  BY <1>1, <1>2, <1>3 DEF Typed, Row
<1>8. /\ job'[r] = Idle /\ \A q \in Req \ {r} : job'[q] = job[q]
      /\ job' \in [Req -> Job \cup {Idle}]
  BY <1>1 DEF Finish, Typed
<1>9. /\ lock' \in [Session -> Req \cup {NoReq}]
      /\ \A t \in Session : lock'[t] \in {lock[t], NoReq} /\ lock'[t] # r
  BY <1>1, CopilotAssumption DEF Released, Typed, CopilotAssumption
<1>10. Typed'
  <2>1. session' \in [Session -> Row]
    BY <1>1, <1>2, <1>4 DEF Typed, Row
  <2>2. message' \in [Session -> SUBSET Message]
    <3> HIDE DEF answer
    <3> QED
      BY <1>1, <1>2, <1>6 DEF Typed
  <2> QED
    BY <1>1, <1>8, <1>9, <2>1, <2>2 DEF Typed
<1>11. LocksOK'
  BY <1>8, <1>9, LocksStay
<1>12. TitlesHaveSource'
  <2>1. message'[s] # {} => session'[s].title # NoTitle
    BY <1>5, <1>7
  <2>2. ASSUME session'[s].title.by = "message"
        PROVE  [role |-> "user", at |-> session'[s].title.n] \in message'[s]
    <3>1. CASE Titles(r)
      <4>1. title.n = job[r].n
        BY <3>1 DEF title
      <4> QED
        BY <1>7, <4>1 DEF Own
    <3>2. CASE ~Titles(r)
      BY <1>2, <1>7, <2>2, <3>2 DEF title, TitlesHaveSource
    <3> QED
      BY <3>1, <3>2
  <2> QED
    BY <1>7, <2>1, <2>2 DEF TitlesHaveSource
<1>13. RenamesStay'
  <2>1. kept[s] # NoTitle => title = kept[s]
    BY <1>2 DEF title, RenamesStay, UndoableIsNotKept
  <2> QED
    BY <1>1, <1>7, <2>1 DEF RenamesStay
<1>14. ASSUME NEW q \in Req, Turning(q)'
       PROVE  /\ job'[q] = job[q] /\ Turning(q) /\ job[q].on \in Session
              /\ Titles(q)' = Titles(q)
  <2>1. q # r
    BY <1>8, <1>14, IdleIsNoJob DEF Turning
  <2>2. job'[q] = job[q] /\ Turning(q)
    BY <1>8, <1>14, <2>1 DEF Turning
  <2> QED
    BY <2>2, JobKinds DEF Turning, Job, Titles
<1>15. TitlesLast' /\ UndoableIsNotKept'
  <2>1. \A t \in Session : session[t].title # NoTitle => session'[t].title # NoTitle
    BY <1>5, <1>7
  <2>2. TitlesLast'
    BY <1>14, <2>1 DEF TitlesLast
  <2> QED
    BY <1>1, <1>14, <2>2 DEF UndoableIsNotKept
<1> QED
  BY <1>10, <1>11, <1>12, <1>13, <1>15

LEMMA FailKeeps ==
    ASSUME IInv, NEW r \in Req, turn_fails(r)
    PROVE  IInv'
<1> USE DEF IInv
<1>1. faults' \in 0 .. MaxFaults
  BY CopilotAssumption DEF turn_fails, Fault, Typed, CopilotAssumption
<1>2. \A s \in Session : Released(r)[s] # r
  BY CopilotAssumption DEF Released, CopilotAssumption
<1> QED
  BY <1>1, <1>2, EndKeeps DEF turn_fails, Typed

LEMMA CrashKeeps ==
    ASSUME IInv, crash
    PROVE  IInv'
<1> USE DEF IInv
<1>1. /\ job' = [r \in Req |-> Idle] /\ lock' = [s \in Session |-> NoReq] /\ loop' = NoReq
      /\ faults' \in 0 .. MaxFaults
      /\ UNCHANGED <<session, message, starts, kept>>
  BY CopilotAssumption DEF crash, Fault, Typed, CopilotAssumption
<1>2. Typed' /\ LocksOK'
  BY <1>1 DEF Typed, LocksOK
<1>3. \A r \in Req : ~Turning(r)'
  BY <1>1, IdleIsNoJob DEF Turning
<1> QED
  BY <1>1, <1>2, <1>3 DEF TitlesHaveSource, RenamesStay, TitlesLast, UndoableIsNotKept

-----------------------------------------------------------------------------
(* The theorem *)

LEMMA InitEstablishes == Init => IInv
<1> SUFFICES ASSUME Init PROVE IInv
  OBVIOUS
<1> USE DEF Init
<1>1. Typed
  BY CopilotAssumption, TitleFacts DEF Typed, CopilotAssumption
<1>2. LocksOK /\ TitlesHaveSource /\ RenamesStay
  BY TitleFacts DEF LocksOK, TitlesHaveSource, RenamesStay
<1>3. \A r \in Req : ~Turning(r)
  BY IdleIsNoJob DEF Turning
<1> QED
  BY <1>1, <1>2, <1>3 DEF IInv, TitlesLast, UndoableIsNotKept

LEMMA StepKeeps == IInv /\ [Next]_vars => IInv'
<1> SUFFICES ASSUME IInv, [Next]_vars PROVE IInv'
  OBVIOUS
<1>1. CASE UNCHANGED vars
  BY <1>1 DEF vars, IInv, Typed, LocksOK, TitlesHaveSource, RenamesStay, TitlesLast,
     UndoableIsNotKept, Turning, Titles
<1>2. ASSUME NEW s \in Session, create_session(s) PROVE IInv'
  BY <1>2, CreateKeeps
<1>3. ASSUME NEW s \in Session, NEW r \in Req,
             send_message(r, s) \/ update_session(r, s) \/ remove_session(r, s)
      PROVE  IInv'
  BY <1>3, BeginKeeps DEF send_message, update_session, remove_session
<1>4. ASSUME NEW r \in Req, Proceed(r) PROVE IInv'
  <2>1. CASE load_in_thread(r)
    BY <2>1, LoadInThreadKeeps
  <2>2. CASE update_session_title(r)
    BY <2>2, RenameKeeps
  <2>3. CASE delete_session(r)
    BY <2>3, DeleteKeeps
  <2>4. CASE load_session(r)
    BY <2>4, LoadKeeps
  <2>5. CASE flush(r)
    BY <2>5, FlushKeeps
  <2>6. CASE classify_intent(r)
    BY <2>6, GoOnKeeps DEF classify_intent, At
  <2>7. CASE handle(r)
    BY <2>7, GoOnKeeps DEF handle, At
  <2>8. CASE commit(r)
    BY <2>8, CommitKeeps
  <2> QED
    BY <1>4, <2>1, <2>2, <2>3, <2>4, <2>5, <2>6, <2>7, <2>8 DEF Proceed
<1>5. ASSUME NEW r \in Req, turn_fails(r) PROVE IInv'
  BY <1>5, FailKeeps
<1>6. CASE crash
  BY <1>6, CrashKeeps
<1> QED
  BY <1>1, <1>2, <1>3, <1>4, <1>5, <1>6 DEF Next

LEMMA IInvIsEnough == IInv => ConversationsAreSound
<1> SUFFICES ASSUME IInv PROVE TypeOK
  BY DEF IInv, ConversationsAreSound
<1> USE DEF IInv
<1>1. \A r \in Req : job[r].op \in {"none", "turn", "rename", "delete"}
  BY JobKinds, IdleIsNoJob DEF Job
<1> QED
  BY <1>1 DEF Typed, LocksOK, TypeOK

\* However messages, renamings and deletions overlap and whatever fails, a
\* session that was talked in has a title, one taken from a message is that of
\* a message on record, and the title a user gives stays unless a message was
\* in flight that had found none (send_message, update_session_title in
\* copilot_service.py).
THEOREM ConversationsAlwaysSound == Spec => []ConversationsAreSound
<1>1. Init => IInv
  BY InitEstablishes
<1>2. IInv /\ [Next]_vars => IInv'
  BY StepKeeps
<1>3. IInv => ConversationsAreSound
  BY IInvIsEnough
<1> QED
  BY <1>1, <1>2, <1>3, PTL DEF Spec
=============================================================================
