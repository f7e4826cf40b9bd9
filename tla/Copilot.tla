------------------------------ MODULE Copilot ------------------------------
(***************************************************************************)
(* Conversations with the copilot (routers/copilot.py,                     *)
(* services/copilot/copilot_service.py).  Sending a message is one         *)
(* transaction from authentication to commit, and awaits a model on the    *)
(* way.  It runs as a coroutine on the one event loop of the server, whose *)
(* database calls block the loop; renaming and deleting run in threads.    *)
(*                                                                         *)
(* An UPDATE locks the row of the session until its transaction is over,   *)
(* and another UPDATE of it waits.  An INSERT of a message does not wait.  *)
(***************************************************************************)
EXTENDS Integers, FiniteSets

CONSTANTS
    Session,
    Context,     \* what a user can be looking at
    NoContext,
    Req,         \* requests that can run at the same time
    NoReq,
    Window,      \* _HISTORY_WINDOW: messages loaded for a turn
    Snippet,     \* of these, the messages the classifier is given
    MaxStarts,   \* bound: requests
    MaxFaults    \* bound: failures

ASSUME CopilotAssumption ==
    /\ NoContext \notin Context /\ NoReq \notin Req
    /\ {Window, Snippet, MaxStarts, MaxFaults} \subseteq Nat

VARIABLES
    session,   \* chat_sessions: there, is_active, title, last_screen_context
    message,   \* the committed chat_messages of each session
    lock,      \* the request whose transaction has updated the session's row
    loop,      \* the coroutine that runs, or waits for the database, on the event loop
    job, starts, faults,
    kept       \* history: the title the user gave last, if no message in flight could undo it

vars == <<session, message, lock, loop, job, starts, faults, kept>>

Stamp == 1 .. MaxStarts
\* A title given by the user or taken from a message, in the request of that number.
NoTitle == [by |-> "nobody", n |-> 0]
Title == [by : {"user", "message"}, n : Stamp] \cup {NoTitle}
NoSession == [state |-> "none", title |-> NoTitle, context |-> NoContext]
Row == [state : {"none", "active", "deleted"}, title : Title, context : Context \cup {NoContext}]
\* created_at is the start of the transaction: both messages of a turn have the same.
Message == [role : {"user", "assistant"}, at : Stamp]
Idle == [op |-> "none", pc |-> "idle"]

TypeOK ==
    /\ session \in [Session -> Row] /\ message \in [Session -> SUBSET Message]
    /\ lock \in [Session -> Req \cup {NoReq}] /\ loop \in Req \cup {NoReq}
    /\ \A r \in Req : job[r].op \in {"none", "turn", "rename", "delete"}
    /\ \A s \in Session : lock[s] # NoReq => job[lock[s]].op = "turn" /\ job[lock[s]].on = s
    /\ starts \in 0 .. MaxStarts /\ faults \in 0 .. MaxFaults

Init ==
    /\ session = [s \in Session |-> NoSession]
    /\ message = [s \in Session |-> {}]
    /\ lock = [s \in Session |-> NoReq] /\ loop = NoReq
    /\ job = [r \in Req |-> Idle] /\ starts = 0 /\ faults = 0
    /\ kept = [s \in Session |-> NoTitle]

-----------------------------------------------------------------------------
(* Helpers *)

At(r, op, pc) == job[r].op = op /\ job[r].pc = pc
Active(s) == session[s].state = "active"
_get_session_or_none(r) == Active(job[r].on)
Goto(r, pc) == job' = [job EXCEPT ![r].pc = pc]
Finish(r) == job' = [job EXCEPT ![r] = Idle]
Unlocked(r) == lock[job[r].on] \in {NoReq, r}
Released(r) == [s \in Session |-> IF lock[s] = r THEN NoReq ELSE lock[s]]
Own(r) == [role |-> "user", at |-> job[r].n]

\* A context equal to the one loaded is no change, and no UPDATE.
NewContext(r) == job[r].context \notin {NoContext, job[r].copy.context}
\* mutant: whatever the title was when the session was loaded
Titles_always(r) == TRUE
Titles(r) == job[r].copy.title = NoTitle

\* The n messages of S that come first; those of one time in any order.
Firsts(n, S) ==
    {F \in SUBSET S :
        /\ Cardinality(F) = (IF Cardinality(S) < n THEN Cardinality(S) ELSE n)
        /\ \A m \in F, k \in S \ F : m.at <= k.at}
Lasts(n, S) == {S \ F : F \in Firsts(Cardinality(S) - n, S)}
\* The history is loaded from the oldest on; the classifier gets its end.
_history_snippet(S) ==
    UNION {IF Cardinality(W) <= Snippet THEN {W} ELSE Lasts(Snippet, W) : W \in Firsts(Window, S)}

-----------------------------------------------------------------------------
(* Sessions *)

create_session(s) ==
    /\ loop = NoReq
    /\ session[s] = NoSession
    /\ \E c \in Context \cup {NoContext} :
           session' = [session EXCEPT ![s] = [state |-> "active", title |-> NoTitle, context |-> c]]
    /\ UNCHANGED <<message, lock, loop, job, starts, faults, kept>>

\* The user is authenticated, in a thread: the transaction begins.
Begin(r, op, s, c) ==
    /\ job[r] = Idle
    /\ starts < MaxStarts /\ starts' = starts + 1
    /\ job' = [job EXCEPT ![r] =
           [op |-> op, pc |-> "load", on |-> s, n |-> starts + 1, context |-> c,
            copy |-> NoSession, told |-> {}]]
    /\ UNCHANGED <<session, message, lock, loop, faults, kept>>

\* update_session_title and delete_session up to their UPDATE.
load_in_thread(r) ==
    /\ job[r].op \in {"rename", "delete"} /\ job[r].pc = "load"
    /\ IF _get_session_or_none(r) THEN Goto(r, "update") ELSE Finish(r)
    /\ UNCHANGED <<session, message, lock, loop, starts, faults, kept>>

\* Messages of this session that were sent, and had loaded it without a title.
InFlight(s) ==
    {r \in Req : job[r].op = "turn" /\ job[r].on = s /\ job[r].pc # "load" /\ Titles(r)}

update_session_title(r) ==
    LET s == job[r].on
        title == [by |-> "user", n |-> job[r].n]
    IN  /\ At(r, "rename", "update")
        /\ Unlocked(r)
        /\ session' = [session EXCEPT ![s].title = title]
        /\ kept' = [kept EXCEPT ![s] = IF InFlight(s) = {} THEN title ELSE NoTitle]
        /\ Finish(r)
        /\ UNCHANGED <<message, lock, loop, starts, faults>>

\* What is in flight goes on.
delete_session(r) ==
    /\ At(r, "delete", "update")
    /\ Unlocked(r)
    /\ session' = [session EXCEPT ![job[r].on].state = "deleted"]
    /\ Finish(r)
    /\ UNCHANGED <<message, lock, loop, starts, faults, kept>>

-----------------------------------------------------------------------------
(* A turn *)

load_session(r) ==
    /\ At(r, "turn", "load")
    /\ loop = NoReq
    /\ IF _get_session_or_none(r)
       THEN /\ loop' = r
            /\ job' = [job EXCEPT ![r].pc = "flush", ![r].copy = session[job[r].on]]
       ELSE Finish(r) /\ UNCHANGED loop
    /\ UNCHANGED <<session, message, lock, starts, faults, kept>>

\* mutant: every turn touches its session
Locked_always(r) == [lock EXCEPT ![job[r].on] = r]
Locked(r) == IF NewContext(r) THEN [lock EXCEPT ![job[r].on] = r] ELSE lock

\* The context and the user's message are written, not committed, the history
\* is read, and the classifier awaited.
flush(r) ==
    /\ At(r, "turn", "flush")
    /\ NewContext(r) => Unlocked(r)
    /\ lock' = Locked(r)
    /\ \E told \in _history_snippet(message[job[r].on] \cup {Own(r)}) :
           job' = [job EXCEPT ![r].pc = "classify", ![r].told = told]
    /\ loop' = NoReq
    /\ UNCHANGED <<session, message, starts, faults, kept>>

\* An intent, or the one for questions about the platform when the model fails;
\* a handler that reads the database, and awaits the model unless its answer is fixed.
classify_intent(r) ==
    /\ At(r, "turn", "classify")
    /\ loop = NoReq
    /\ \E fixed \in BOOLEAN :
           IF fixed THEN Goto(r, "commit") /\ loop' = r ELSE Goto(r, "handle") /\ UNCHANGED loop
    /\ UNCHANGED <<session, message, lock, starts, faults, kept>>

\* The model has answered, or has not: there is a text for either.
handle(r) ==
    /\ At(r, "turn", "handle")
    /\ loop = NoReq
    /\ loop' = r
    /\ Goto(r, "commit")
    /\ UNCHANGED <<session, message, lock, starts, faults, kept>>

\* The title is taken from the message if there was none when the turn began.
commit(r) ==
    LET s == job[r].on
    IN  /\ At(r, "turn", "commit")
        /\ Titles(r) => Unlocked(r)
        /\ message' = [message EXCEPT ![s] =
               @ \cup {Own(r), [role |-> "assistant", at |-> job[r].n]}]
        /\ session' = [session EXCEPT
               ![s].title = IF Titles(r) THEN [by |-> "message", n |-> job[r].n] ELSE @,
               ![s].context = IF NewContext(r) THEN job[r].context ELSE @]
        /\ lock' = Released(r)
        /\ loop' = NoReq
        /\ Finish(r)
        /\ UNCHANGED <<starts, faults, kept>>

Fault == faults < MaxFaults /\ faults' = faults + 1

\* A handler raises, or the client of a stream goes away: all is rolled back.
turn_fails(r) ==
    /\ job[r].op = "turn" /\ job[r].pc \in {"classify", "handle"}
    /\ loop = NoReq
    /\ Fault
    /\ lock' = Released(r)
    /\ Finish(r)
    /\ UNCHANGED <<session, message, loop, starts, kept>>

crash ==
    /\ \E r \in Req : job[r] # Idle
    /\ Fault
    /\ job' = [r \in Req |-> Idle]
    /\ lock' = [s \in Session |-> NoReq] /\ loop' = NoReq
    /\ UNCHANGED <<session, message, starts, kept>>

-----------------------------------------------------------------------------
Proceed(r) ==
    \/ load_in_thread(r) \/ update_session_title(r) \/ delete_session(r)
    \/ load_session(r) \/ flush(r) \/ classify_intent(r) \/ handle(r) \/ commit(r)

send_message(r, s) == \E c \in Context \cup {NoContext} : Begin(r, "turn", s, c)
update_session(r, s) == Begin(r, "rename", s, NoContext)
remove_session(r, s) == Begin(r, "delete", s, NoContext)

Next ==
    \/ \E s \in Session :
        \/ create_session(s)
        \/ \E r \in Req : send_message(r, s) \/ update_session(r, s) \/ remove_session(r, s)
    \/ \E r \in Req : Proceed(r) \/ turn_fails(r)
    \/ crash

\* What is not blocked goes on, and the models answer or fail.
Spec == Init /\ [][Next]_vars /\ \A r \in Req : WF_vars(Proceed(r))

-----------------------------------------------------------------------------
(* Properties *)

\* A session that was talked in has a title, and a title that the user has not
\* given is that of a message on record, whatever failed or overlapped.
TitlesHaveSource ==
    \A s \in Session :
        /\ message[s] # {} => session[s].title # NoTitle
        /\ session[s].title.by = "message" =>
               [role |-> "user", at |-> session[s].title.n] \in message[s]

\* A title the user has given stays until the user gives another, unless a
\* message was in flight that had found no title.
RenamesStay == \A s \in Session : kept[s] # NoTitle => session[s].title = kept[s]

\* What is on record of a session agrees with what was said and done in it.
ConversationsAreSound == TypeOK /\ TitlesHaveSource /\ RenamesStay

\* The event loop waits for the lock of a turn that needs the event loop to go on.
Waits(q) ==
    /\ loop = q
    /\ ~Unlocked(q)
    /\ \/ At(q, "turn", "flush") /\ NewContext(q)
       \/ At(q, "turn", "commit") /\ Titles(q)
Stalled == \E q \in Req : Waits(q) /\ NewContext(lock[job[q].on])

\* Every message is answered or fails, and every request ends, unless the
\* server has stopped for good: which takes a message that brings a new
\* context and, before it is answered, another message to the same session.
RequestsEnd == \A r \in Req : job[r] # Idle ~> (job[r] = Idle \/ Stalled)

\* Without that exception, which is how the docstring of copilot_service.py
\* has it: messages go "through intent classification", then "handler", then
\* "response".  The code does not keep it, and no run checks it.
EveryMessageAnswered == \A r \in Req : job[r] # Idle ~> job[r] = Idle

\* "Format last 6 messages for the classifier prompt": of the messages that
\* there are, none that is left out is later than one the classifier is given.
\* Past the window it is given the oldest, and no run checks this.
ClassifierSeesLatest ==
    \A r \in Req : At(r, "turn", "classify") =>
        \A m \in job[r].told, k \in message[job[r].on] \ job[r].told :
            k.at > m.at => k.at >= job[r].n
=============================================================================
