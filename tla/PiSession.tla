------------------------------ MODULE PiSession ------------------------------
(***************************************************************************)
(* One session's conversation with Pi: the RPC client, its bounded event   *)
(* mailbox, the session's lifecycle and its pending questions              *)
(* (internal/supervisor/pirpc/client.go, internal/eventmailbox/mailbox.go, *)
(* internal/supervisor/local.go, questions.go).                            *)
(*                                                                         *)
(* Pi writes one stream of numbered records.  The read loop hands each     *)
(* response to the call that waits for it and queues every other record    *)
(* for the drain, so a response overtakes the events written before it.    *)
(* The goroutines are the read loop, the drain, one per call, one per      *)
(* answer, the bind of the startup and the stop of the teardown.           *)
(*                                                                         *)
(* A record is read in the step in which Pi writes it: a record that is    *)
(* still on its way is one that Pi has not written yet.  A record is       *)
(* written in one step too, so the gate that keeps two writers apart needs *)
(* no state.  Dispatch by the mailbox and the first half of handleEvent    *)
(* are one step, for only the drain takes events.                          *)
(***************************************************************************)
EXTENDS Naturals, Sequences

CONSTANTS
    Call,       \* RPC calls of the API, of questions of the user and of the runner
    Binder,     \* the call that bind makes
    Question,   \* the dialogs Pi opens; their identifiers are never reused
    Kind,       \* the kinds of session: "root", "read", "write" or fewer
    Capacity,   \* MaxEvents of the mailbox
    MaxRecords  \* bound of the model: records Pi writes

ASSUME SessionAssumption ==
    /\ Binder \notin Call
    /\ Kind \subseteq {"root", "read", "write"}
    /\ Capacity \in Nat \ {0}
    /\ MaxRecords \in Nat

VARIABLES
    pi,        \* Pi: a generation runs; an accepted prompt has yet to start one; dialogs
               \* opened and those of them with a timeout; history: whether it accepted bind's command or a prompt first,
               \* and whether it has accepted an abort
    asked,     \* Pi: dialogs that wait for an answer
    inbox,     \* Pi: commands it has not answered, with the call each is of
    client,    \* closed, reading and the position of the last record
    pending,   \* calls that the client will hand a response to
    call,      \* the goroutine of every call and what its result channel holds
    box,       \* the mailbox
    drain,     \* drainEvents and the event in its hands
    session,   \* kind, lifecycle, binding and positions
    store,     \* every question in the QuestionStore
    terminated,\* QuestionStore.terminated
    answer,    \* the goroutine that answers a question
    stop       \* StopRPC

piVars == <<pi, asked, inbox>>
clientVars == <<client, pending, call>>
storeVars == <<store, terminated>>
vars == <<piVars, clientVars, box, drain, session, storeVars, answer, stop>>

Caller == Call \cup {Binder}

Command == {"get_state", "prompt", "abort"}

\* "response": one that no call waits for any more.
EventType == {"agent_start", "agent_end", "agent_settled", "extension_ui_request", "response"}

Event == [type : EventType, seq : Nat, dialogs : SUBSET Question]

Result == [status : {"none", "failed", "accepted"}, seq : Nat, streaming : BOOLEAN]

NoResult == [status |-> "none", seq |-> 0, streaming |-> FALSE]

Idle == [pc |-> "idle", command |-> "get_state", result |-> NoResult]

NoEvent == [type |-> "agent_start", seq |-> 0, dialogs |-> {}]

Lifecycle == {"starting", "ready", "running", "awaiting_handoff", "completed", "failed",
              "stopping", "stopped"}

CallPC == {"idle", "queued", "waiting", "readying", "failing", "closing",
           "joining", "returned"}

PiType == [streaming : BOOLEAN, owed : BOOLEAN, opened : SUBSET Question,
           timed : SUBSET Question, first : {"none", "bind", "prompt"}, aborted : BOOLEAN]

ClientType == [closed : BOOLEAN, reading : BOOLEAN, seq : Nat]

CallType == [Caller -> [pc : CallPC, command : Command, result : Result]]

BoxType == [state : {"open", "draining", "aborted"}, queue : Seq(Event)]

DrainType == [pc : {"receiving", "reconciling", "failing", "done"}, event : Event]

SessionType == [kind : Kind, state : Lifecycle, bound : BOOLEAN, responseSeq : Nat,
                activitySeq : Nat, activity : {"agent_start", "agent_settled"}]

TypeOK ==
    /\ pi \in PiType
    /\ asked \subseteq Question
    /\ inbox \subseteq [caller : Caller, command : Command]
    /\ client \in ClientType
    /\ pending \subseteq Caller
    /\ call \in CallType
    /\ box \in BoxType
    /\ drain \in DrainType
    /\ drain.pc = "reconciling" => drain.event.type \in {"agent_start", "agent_settled"}
    /\ session \in SessionType
    /\ store \in [Question -> {"absent", "offered", "answering"}]
    /\ terminated \in BOOLEAN
    /\ answer \in [Question -> {"idle", "sending", "sent", "unsent"}]
    /\ stop \in {"idle", "marking", "closing", "joining", "draining", "stopped"}

Init ==
    /\ pi = [streaming |-> FALSE, owed |-> FALSE, opened |-> {}, timed |-> {}, first |-> "none",
             aborted |-> FALSE]
    /\ asked = {}
    /\ inbox = {}
    /\ client = [closed |-> FALSE, reading |-> TRUE, seq |-> 0]
    /\ pending = {}
    /\ call = [c \in Caller |-> Idle]
    /\ box = [state |-> "open", queue |-> <<>>]
    /\ drain = [pc |-> "receiving", event |-> NoEvent]
    /\ \E k \in Kind :
          session = [kind |-> k, state |-> "starting", bound |-> FALSE, responseSeq |-> 0,
                     activitySeq |-> 0, activity |-> "agent_settled"]
    /\ store = [q \in Question |-> "absent"]
    /\ terminated = FALSE
    /\ answer = [q \in Question |-> "idle"]
    /\ stop = "idle"
-----------------------------------------------------------------------------
(* Helpers *)

\* terminate: the first caller closes the transport and fails every pending call.
Fail(calls) == [c \in Caller |-> IF c \in pending
                                 THEN [calls[c] EXCEPT !.result.status = "failed"]
                                 ELSE calls[c]]

Terminate(calls) ==
    /\ client' = [client EXCEPT !.closed = TRUE]
    /\ pending' = {}
    /\ call' = Fail(calls)

At(c, pc) == [call EXCEPT ![c].pc = pc]

Returned(c) == [call EXCEPT ![c] = [Idle EXCEPT !.pc = "returned"]]

\* Mailbox.Close: what is queued is still delivered.
Drained(b) == IF b.state = "open" THEN [b EXCEPT !.state = "draining"] ELSE b

CancelPending == [q \in Question |-> "absent"]

\* QuestionStore.Clear
Clear == /\ store' = CancelPending
         /\ terminated' = TRUE

Live == {"starting", "ready", "running", "awaiting_handoff"}

\* handleRPCTermination and failTerminalInvariant
Failed(s) == IF s.state \in Live THEN [s EXCEPT !.state = "failed"] ELSE s

MarkRunning(s) == IF s.state \in {"ready", "awaiting_handoff"}
                  THEN [s EXCEPT !.state = "running"] ELSE s

Settled(s) ==
    [s EXCEPT !.state = CASE s.kind = "root"  -> "ready"
                          [] s.kind = "read"  -> "completed"
                          [] s.kind = "write" -> "awaiting_handoff"]

\* A child settles from ready too: its prompt's response may not be reconciled yet.
ApplyActivity(s, activity) ==
    IF activity = "agent_start" THEN MarkRunning(s)
    ELSE IF s.state = "running" \/ (s.state = "ready" /\ s.kind # "root") THEN Settled(s)
    ELSE s
-----------------------------------------------------------------------------
(* Pi and the read loop *)

\* A record that the read loop still finds in its buffer after the client has closed
\* is taken to have been read before.
CanRead == client.reading /\ ~client.closed /\ client.seq < MaxRecords

\* Mailbox.Send takes an event.
Fits == box.state = "open" /\ Len(box.queue) < Capacity

\* The read loop numbers a record and queues it; a full mailbox ends the transport
\* and a closed one ends the loop.
Receive(type, dialogs) ==
    LET event == [type |-> type, seq |-> client.seq + 1, dialogs |-> dialogs]
    IN  IF Fits
        THEN /\ box' = [box EXCEPT !.queue = Append(@, event)]
             /\ client' = [client EXCEPT !.seq = @ + 1]
             /\ UNCHANGED <<pending, call>>
        ELSE /\ box' = Drained(box)
             /\ client' = [client EXCEPT !.seq = @ + 1, !.reading = FALSE, !.closed = TRUE]
             /\ pending' = {}
             /\ call' = Fail(call)

PiStarts ==
    /\ CanRead
    /\ pi.owed
    /\ ~pi.streaming
    /\ pi' = [pi EXCEPT !.streaming = TRUE, !.owed = FALSE]
    /\ Receive("agent_start", {})
    /\ UNCHANGED <<asked, inbox, drain, session, storeVars, answer, stop>>

\* A turn or the generation ends and with it every dialog, as the code assumes.  The
\* end of a turn changes nothing before a dialog has been opened, and is left out.
PiEnds ==
    /\ CanRead
    /\ pi.streaming
    /\ asked' = {}
    /\ \/ /\ pi.opened # {}
          /\ Receive("agent_end", {})
          /\ UNCHANGED pi
       \/ /\ Receive("agent_settled", {})
          /\ pi' = [pi EXCEPT !.streaming = FALSE]
    /\ UNCHANGED <<inbox, drain, session, storeVars, answer, stop>>

\* A tool or an extension opens a dialog, before the first command too.
PiAsks(q) ==
    /\ CanRead
    /\ q \notin pi.opened
    /\ \E timed \in SUBSET {q} :
          pi' = [pi EXCEPT !.opened = @ \cup {q}, !.timed = @ \cup timed]
    /\ asked' = asked \cup {q}
    /\ Receive("extension_ui_request", {q})
    /\ UNCHANGED <<inbox, drain, session, storeVars, answer, stop>>

PiExpires(q) ==
    /\ q \in asked \cap pi.timed
    /\ asked' = asked \ {q}
    /\ UNCHANGED <<pi, inbox, clientVars, box, drain, session, storeVars, answer, stop>>

\* What Pi does when it accepts a command: a prompt joins the generation that runs
\* or starts one, an abort closes the dialogs.
Accept(c, command) ==
    /\ pi' = [pi EXCEPT !.owed = @ \/ (command = "prompt" /\ ~pi.streaming),
                        !.first = IF @ # "none" THEN @
                                  ELSE IF command = "prompt" THEN "prompt"
                                  ELSE IF c = Binder THEN "bind" ELSE @,
                        !.aborted = @ \/ command = "abort"]
    /\ asked' = IF command = "abort" THEN {} ELSE asked

\* The response goes to the call that is pending, once; without one it is an event.
PiResponds(c) ==
    /\ CanRead
    /\ \E m \in inbox :
          /\ m.caller = c
          /\ inbox' = inbox \ {m}
          /\ Accept(c, m.command)
    /\ IF c \in pending
       THEN /\ pending' = pending \ {c}
            /\ client' = [client EXCEPT !.seq = @ + 1]
            /\ call' = [call EXCEPT ![c].result = [status |-> "accepted", seq |-> client.seq + 1,
                                                   streaming |-> pi.streaming]]
            /\ UNCHANGED box
       ELSE Receive("response", {})
    /\ UNCHANGED <<drain, session, storeVars, answer, stop>>

\* Mutant: the end of the read loop does not close the mailbox.
ReadFailsSilently ==
    /\ client.reading
    /\ client' = [client EXCEPT !.closed = TRUE, !.reading = FALSE]
    /\ pending' = {}
    /\ call' = Fail(call)
    /\ UNCHANGED <<piVars, box, drain, session, storeVars, answer, stop>>

\* The read fails: Pi exits, the transport breaks, or the client has closed it.
ReadFails ==
    /\ client.reading
    /\ client' = [client EXCEPT !.closed = TRUE, !.reading = FALSE]
    /\ pending' = {}
    /\ call' = Fail(call)
    /\ box' = Drained(box)
    /\ UNCHANGED <<piVars, drain, session, storeVars, answer, stop>>
-----------------------------------------------------------------------------
(* CallWithSequence and what the session does with the response *)

\* The call is registered before its command is written; a closed client refuses it.
Begin(c, command) ==
    /\ call[c].pc = "idle"
    /\ c = Binder => command = "get_state"
    /\ IF client.closed
       THEN /\ call' = Returned(c)
            /\ UNCHANGED pending
       ELSE /\ call' = [call EXCEPT ![c].pc = "queued", ![c].command = command]
            /\ pending' = pending \cup {c}
    /\ UNCHANGED <<piVars, client, box, drain, session, storeVars, answer, stop>>

Write(c) ==
    /\ call[c].pc = "queued"
    /\ ~client.closed
    /\ inbox' = inbox \cup {[caller |-> c, command |-> call[c].command]}
    /\ call' = At(c, "waiting")
    /\ UNCHANGED <<pi, asked, client, pending, box, drain, session, storeVars, answer, stop>>

\* The write fails, or the context ends while it is under way and its outcome is
\* unknown: the call gives up the transport.
WriteBreaks(c) ==
    /\ call[c].pc = "queued"
    /\ Terminate(Returned(c))
    /\ UNCHANGED <<piVars, box, drain, session, storeVars, answer, stop>>

\* The context ends before the write or while the response is awaited.
Cancel(c) ==
    /\ call[c].pc \in {"queued", "waiting"}
    /\ call' = Returned(c)
    /\ pending' = pending \ {c}
    /\ UNCHANGED <<piVars, client, box, drain, session, storeVars, answer, stop>>

Answered(c, status) == call[c].pc = "waiting" /\ call[c].result.status = status

CallFails(c) ==
    /\ Answered(c, "failed")
    /\ call' = Returned(c)
    /\ UNCHANGED <<piVars, client, pending, box, drain, session, storeVars, answer, stop>>

\* Mutant: an accepted prompt always runs.
PromptAlwaysRuns(c) ==
    /\ Answered(c, "accepted")
    /\ call[c].command = "prompt"
    /\ LET seq == call[c].result.seq
       IN  session' = MarkRunning([session EXCEPT !.responseSeq = IF seq > @ THEN seq ELSE @])
    /\ call' = Returned(c)
    /\ UNCHANGED <<piVars, client, pending, box, drain, storeVars, answer, stop>>

\* A prompt runs unless the drain has seen a later settlement or start.
PromptReturns(c) ==
    /\ Answered(c, "accepted")
    /\ call[c].command = "prompt"
    /\ LET seq == call[c].result.seq
           s   == [session EXCEPT !.responseSeq = IF seq > @ THEN seq ELSE @]
       IN  session' = IF session.activitySeq <= seq THEN MarkRunning(s) ELSE s
    /\ call' = Returned(c)
    /\ UNCHANGED <<piVars, client, pending, box, drain, storeVars, answer, stop>>

AbortReturns(c) ==
    /\ Answered(c, "accepted")
    /\ call[c].command = "abort"
    /\ store' = CancelPending
    /\ call' = Returned(c)
    /\ UNCHANGED <<piVars, client, pending, box, drain, session, terminated, answer, stop>>

\* bind records the binding; a get_state of the API is checked against it.
StateReturns(c) ==
    /\ Answered(c, "accepted")
    /\ call[c].command = "get_state"
    /\ IF c = Binder
       THEN /\ session' = [session EXCEPT !.bound = TRUE]
            /\ call' = At(c, "readying")
       ELSE /\ call' = IF session.bound THEN Returned(c) ELSE At(c, "failing")
            /\ UNCHANGED session
    /\ UNCHANGED <<piVars, client, pending, box, drain, storeVars, answer, stop>>

\* The second half of bind: ready, then what the drain saw after the response.
Ready(c) ==
    /\ call[c].pc = "readying"
    /\ LET result == call[c].result
           s == [session EXCEPT !.responseSeq = result.seq]
           r == [s EXCEPT !.state = "ready"]
       IN  session' = IF session.state # "starting" THEN s
                      ELSE IF session.activitySeq > result.seq
                           THEN ApplyActivity(r, session.activity)
                      ELSE IF result.streaming THEN MarkRunning(r) ELSE r
    /\ call' = Returned(c)
    /\ UNCHANGED <<piVars, client, pending, box, drain, storeVars, answer, stop>>

\* failTerminalInvariant: the lifecycle, then the questions and Client.Close, which
\* is terminate, Mailbox.Abort and the end of the read loop.
FailSession(c) ==
    /\ call[c].pc = "failing"
    /\ session' = Failed(session)
    /\ call' = At(c, "closing")
    /\ UNCHANGED <<piVars, client, pending, box, drain, storeVars, answer, stop>>

FailClient(c) ==
    /\ call[c].pc = "closing"
    /\ Clear
    /\ Terminate(At(c, "joining"))
    /\ box' = [state |-> "aborted", queue |-> <<>>]
    /\ UNCHANGED <<piVars, drain, session, answer, stop>>

FailReturns(c) ==
    /\ call[c].pc = "joining"
    /\ ~client.reading
    /\ call' = Returned(c)
    /\ UNCHANGED <<piVars, client, pending, box, drain, session, storeVars, answer, stop>>
-----------------------------------------------------------------------------
(* drainEvents *)

\* Mutant: a settlement leaves the questions alone.
QuestionsUntilEnd(event) ==
    CASE event.type = "extension_ui_request" ->
             [q \in Question |-> IF q \in event.dialogs /\ ~terminated THEN "offered" ELSE store[q]]
      [] event.type = "agent_end" -> CancelPending
      [] OTHER -> store

\* The questions an event opens or ends; a terminated store retains none.
Questions(event) ==
    CASE event.type = "extension_ui_request" ->
             [q \in Question |-> IF q \in event.dialogs /\ ~terminated THEN "offered" ELSE store[q]]
      [] event.type \in {"agent_end", "agent_settled"} -> CancelPending
      [] OTHER -> store

Deliver ==
    /\ drain.pc = "receiving"
    /\ box.queue # <<>>
    /\ LET event == Head(box.queue)
       IN  /\ drain' = IF event.type \in {"agent_start", "agent_settled"}
                       THEN [pc |-> "reconciling", event |-> event] ELSE drain
           /\ store' = Questions(event)
    /\ box' = [box EXCEPT !.queue = Tail(@)]
    /\ UNCHANGED <<piVars, clientVars, session, terminated, answer, stop>>

\* The position of the last activity is kept; activity that a response has
\* overtaken changes nothing.
Reconcile ==
    /\ drain.pc = "reconciling"
    /\ LET event == drain.event
           s == IF event.seq > session.activitySeq
                THEN [session EXCEPT !.activitySeq = event.seq, !.activity = event.type]
                ELSE session
       IN  session' = IF event.seq > session.responseSeq THEN ApplyActivity(s, event.type) ELSE s
    /\ drain' = [pc |-> "receiving", event |-> NoEvent]
    /\ UNCHANGED <<piVars, clientVars, box, storeVars, answer, stop>>

\* The mailbox has closed its channel.
EventsEnd ==
    /\ drain.pc = "receiving"
    /\ box.state # "open"
    /\ box.queue = <<>>
    /\ drain' = [drain EXCEPT !.pc = "failing"]
    /\ Clear
    /\ UNCHANGED <<piVars, clientVars, box, session, answer, stop>>

DrainReturns ==
    /\ drain.pc = "failing"
    /\ session' = Failed(session)
    /\ drain' = [drain EXCEPT !.pc = "done"]
    /\ UNCHANGED <<piVars, clientVars, box, storeVars, answer, stop>>
-----------------------------------------------------------------------------
(* QuestionStore.Answer and its timers *)

BeginAnswer(q) ==
    /\ answer[q] = "idle"
    /\ store[q] = "offered"
    /\ store' = [store EXCEPT ![q] = "answering"]
    /\ answer' = [answer EXCEPT ![q] = "sending"]
    /\ UNCHANGED <<piVars, clientVars, box, drain, session, terminated, stop>>

SendAnswer(q) ==
    /\ answer[q] = "sending"
    /\ ~client.closed
    /\ asked' = asked \ {q}
    /\ answer' = [answer EXCEPT ![q] = "sent"]
    /\ UNCHANGED <<pi, inbox, clientVars, box, drain, session, storeVars, stop>>

\* As for a call: giving up before the write keeps the transport.
SendCancelled(q) ==
    /\ answer[q] = "sending"
    /\ answer' = [answer EXCEPT ![q] = "unsent"]
    /\ UNCHANGED <<piVars, clientVars, box, drain, session, storeVars, stop>>

SendBreaks(q) ==
    /\ answer[q] = "sending"
    /\ answer' = [answer EXCEPT ![q] = "unsent"]
    /\ Terminate(call)
    /\ UNCHANGED <<piVars, box, drain, session, storeVars, stop>>

EndAnswer(q) ==
    /\ answer[q] \in {"sent", "unsent"}
    /\ answer' = [answer EXCEPT ![q] = "idle"]
    /\ store' = [store EXCEPT ![q] = IF @ = "absent" \/ answer[q] = "sent" \/ terminated
                                     THEN "absent" ELSE "offered"]
    /\ UNCHANGED <<piVars, clientVars, box, drain, session, terminated, stop>>

Expire(q) ==
    /\ q \in pi.timed
    /\ store[q] # "absent"
    /\ store' = [store EXCEPT ![q] = "absent"]
    /\ UNCHANGED <<piVars, clientVars, box, drain, session, terminated, answer, stop>>
-----------------------------------------------------------------------------
(* The handoff of a write child and StopRPC *)

CompleteHandoff ==
    /\ session.kind = "write"
    /\ session.state \in {"running", "awaiting_handoff"}
    /\ session' = [session EXCEPT !.state = "completed"]
    /\ UNCHANGED <<piVars, clientVars, box, drain, storeVars, answer, stop>>

StopBegins ==
    /\ stop = "idle"
    /\ Clear
    /\ stop' = "marking"
    /\ UNCHANGED <<piVars, clientVars, box, drain, session, answer>>

StopMarks ==
    /\ stop = "marking"
    /\ session' = [session EXCEPT !.state = "stopping"]
    /\ stop' = "closing"
    /\ UNCHANGED <<piVars, clientVars, box, drain, storeVars, answer>>

\* Mutant: the mailbox is aborted and the transport left open.
StopAborts ==
    /\ stop = "closing"
    /\ box' = [state |-> "aborted", queue |-> <<>>]
    /\ stop' = "joining"
    /\ UNCHANGED <<piVars, clientVars, drain, session, storeVars, answer>>

StopCloses ==
    /\ stop = "closing"
    /\ Terminate(call)
    /\ box' = [state |-> "aborted", queue |-> <<>>]
    /\ stop' = "joining"
    /\ UNCHANGED <<piVars, drain, session, storeVars, answer>>

StopJoins ==
    /\ stop = "joining"
    /\ ~client.reading
    /\ stop' = "draining"
    /\ UNCHANGED <<piVars, clientVars, box, drain, session, storeVars, answer>>

StopReturns ==
    /\ stop = "draining"
    /\ drain.pc = "done"
    /\ session' = [session EXCEPT !.state = "stopped"]
    /\ stop' = "stopped"
    /\ UNCHANGED <<piVars, clientVars, box, drain, storeVars, answer>>
-----------------------------------------------------------------------------
PiStep == \/ PiStarts \/ PiEnds \/ ReadFails
          \/ \E q \in Question : PiAsks(q) \/ PiExpires(q)
          \/ \E c \in Caller : PiResponds(c)

\* What the goroutine of a call does once it has its response.
CallStep(c) == \/ CallFails(c) \/ PromptReturns(c) \/ AbortReturns(c)
               \/ StateReturns(c) \/ Ready(c)
               \/ FailSession(c) \/ FailClient(c) \/ FailReturns(c)

DrainStep == Deliver \/ Reconcile \/ EventsEnd \/ DrainReturns

AnswerStep(q) == BeginAnswer(q) \/ SendAnswer(q) \/ SendCancelled(q) \/ SendBreaks(q) \/ EndAnswer(q)

StopStep == StopMarks \/ StopCloses \/ StopJoins \/ StopReturns

Next ==
    \/ PiStep \/ DrainStep \/ CompleteHandoff \/ StopBegins \/ StopStep
    \/ \E c \in Caller : CallStep(c) \/ Write(c) \/ WriteBreaks(c) \/ Cancel(c)
                         \/ \E command \in Command : Begin(c, command)
    \/ \E q \in Question : AnswerStep(q) \/ Expire(q)

Spec == Init /\ [][Next]_vars

\* The goroutines run, and reading from or writing to a transport that has been
\* closed fails.  Pi, users, timers and contexts promise nothing, and while the
\* transport is open a write may block for ever.
FairSpec ==
    /\ Spec
    /\ WF_vars(DrainStep)
    /\ WF_vars(StopStep)
    /\ WF_vars(client.closed /\ ReadFails)
    /\ \A c \in Caller : WF_vars(CallStep(c)) /\ WF_vars(client.closed /\ WriteBreaks(c))
    /\ \A q \in Question : WF_vars(EndAnswer(q)) /\ WF_vars(client.closed /\ SendBreaks(q))
-----------------------------------------------------------------------------
(* Safety *)

\* A call that waits is woken: while no result is in its channel, the client is
\* open and knows it, so a response or terminate will deliver one.
WaiterHasSource ==
    \A c \in Caller : call[c].pc = "waiting" /\ call[c].result.status = "none"
                      => c \in pending /\ ~client.closed

\* Nothing is left to reconcile: the transport is open, the drain has caught up and
\* every call that has its response has returned.
Reconciled ==
    /\ ~client.closed
    /\ box.queue = <<>>
    /\ drain.pc = "receiving"
    /\ \A c \in Caller : call[c].pc \notin {"readying", "failing", "closing"}
                         /\ (call[c].pc = "waiting" => call[c].result.status = "none")

\* The lifecycle follows the transport even when a prompt is accepted before bind's
\* get_state: the delayed response of a prompt does not overwrite a later settlement
\* (local_test.go, TestLocalSessionDelayedPromptResponseCannotOverwriteLaterSettlement).
FollowsTransport ==
    Reconciled /\ session.bound =>
        /\ pi.streaming => session.state \notin {"starting", "ready", "awaiting_handoff"}
        /\ ~pi.streaming /\ ~pi.owed => session.state # "running"

\* The lifecycle follows the order of the records on the transport, whatever the
\* order in which responses and events were handled (local.go: lifecycleResponseSeq,
\* lastActivitySeq): once reconciled, a session is not idle while Pi runs, nor
\* running when Pi has nothing left to do.  A prompt that Pi accepts before bind is
\* another matter, see FollowsTransport.
LifecycleFollowsTransport == pi.first # "prompt" => FollowsTransport

\* Once reconciled, Pi waits for no dialog that users cannot see, and users are
\* offered none that Pi has closed.  An abort may break that, for its response
\* cancels what Pi has asked since.
QuestionsMatch ==
    Reconciled /\ ~pi.aborted /\ ~terminated =>
        \A q \in Question \ pi.timed :
            /\ q \in asked => store[q] # "absent"
            /\ store[q] = "offered" => q \in asked

\* After termination no question is offered again, by an event that was still
\* queued or by an answer that failed.
TerminatedHasNoQuestions == terminated => \A q \in Question : store[q] = "absent"

\* StopRPC returns when the session is stopped for good: nothing is read or
\* drained any more and no question is offered.
StopSettles ==
    stop = "stopped" => /\ session.state = "stopped"
                        /\ ~client.reading /\ drain.pc = "done"
                        /\ \A q \in Question : store[q] = "absent"

\* The loss of the transport fails every session that was not already completed or
\* being stopped (handleRPCTermination).
LossIsFailure == drain.pc = "done" => session.state \notin Live

\* A pending call has no result yet; a registered call without one is pending; a
\* client that has closed, or whose mailbox has, knows no call any more; and Pi has
\* only commands that were written.
ClientInv ==
    /\ client.closed => pending = {}
    /\ ~client.reading \/ box.state # "open" => client.closed
    /\ \A c \in Caller :
          /\ c \in pending => call[c].pc \in {"queued", "waiting"} /\ call[c].result.status = "none"
          /\ call[c].pc = "idle" => call[c].result.status = "none"
          /\ call[c].pc = "queued" => c \in pending \/ client.closed
          /\ call[c].pc = "waiting" /\ call[c].result.status = "none" => c \in pending
          /\ call[c].pc = "joining" => client.closed /\ terminated
    /\ \A m \in inbox : call[m.caller].pc \notin {"idle", "queued"}

\* The drain ends after the mailbox, with the questions cleared and the session
\* neither live nor ever live again.
DrainInv ==
    /\ drain.pc \in {"failing", "done"} => box.state # "open" /\ box.queue = <<>> /\ terminated
    /\ box.state = "aborted" => box.queue = <<>> /\ terminated
    /\ drain.pc = "done" => session.state \notin Live

\* What every step of StopRPC leaves behind for the next.
StopInv ==
    /\ stop # "idle" => terminated
    /\ stop \in {"closing", "joining", "draining"} => session.state = "stopping"
    /\ stop \in {"joining", "draining", "stopped"} => client.closed /\ box.state = "aborted"
    /\ stop \in {"draining", "stopped"} => ~client.reading
    /\ stop = "stopped" => session.state = "stopped" /\ drain.pc = "done"

\* Client, mailbox, drain, store and stop agree about the end of the session; this
\* is the invariant the safety proofs rest on.
SessionInv == ClientInv /\ DrainInv /\ StopInv /\ TerminatedHasNoQuestions
-----------------------------------------------------------------------------
(* Liveness *)

\* StopRPC never hangs on the read loop, the mailbox or the drain.
StopEnds == stop = "marking" ~> stop = "stopped"

\* When the transport is lost every call and every answer under way returns and
\* the session leaves its live states.
LossSettles ==
    client.closed ~> /\ session.state \notin Live
                     /\ \A c \in Caller : call[c].pc \in {"idle", "returned"}
                     /\ \A q \in Question : answer[q] = "idle"
=============================================================================
