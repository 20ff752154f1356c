--------------------------- MODULE PiSessionProofs ---------------------------
(***************************************************************************)
(* Proofs about PiSession for any sets of calls and questions, any kinds   *)
(* of session, any capacity of the mailbox and any number of records: type *)
(* correctness, the invariant SessionInv and the safety properties it      *)
(* implies.                                                                *)
(***************************************************************************)
EXTENDS PiSession, TLAPS

-----------------------------------------------------------------------------
(* Types of the values that the steps write *)

\* The call of bind and those of the API are the callers.
LEMMA CallerIsTyped == Binder \in Caller /\ Call \subseteq Caller
BY DEF Caller

\* A call starts without a result.
LEMMA ResultsAreTyped ==
    NoResult \in Result /\ Idle \in [pc : CallPC, command : Command, result : Result]
<1>1. NoResult \in Result
  BY Zenon DEF NoResult, Result
<1> QED
  BY <1>1 DEF Idle, CallPC, Command

\* What the read loop queues is an event.
LEMMA EventsAreTyped ==
    /\ NoEvent \in Event
    /\ \A type \in EventType, n \in Nat, dialogs \in SUBSET Question :
          [type |-> type, seq |-> n, dialogs |-> dialogs] \in Event
BY DEF NoEvent, Event, EventType

\* Moving the goroutine of a call, or ending it, keeps the calls typed.
LEMMA CallMoves ==
    ASSUME call \in CallType, NEW c \in Caller
    PROVE  /\ \A pc \in CallPC : At(c, pc) \in CallType
           /\ Returned(c) \in CallType
           /\ \A command \in Command :
                 [call EXCEPT ![c].pc = "queued", ![c].command = command] \in CallType
           /\ \A r \in Result : [call EXCEPT ![c].result = r] \in CallType
<1>1. \A pc \in CallPC : At(c, pc) \in CallType
  BY DEF At, CallType
<1>2. Returned(c) \in CallType
  BY ResultsAreTyped DEF Returned, CallType, Idle, CallPC
<1>3. \A command \in Command :
         [call EXCEPT ![c].pc = "queued", ![c].command = command] \in CallType
  BY DEF CallType, CallPC
<1>4. \A r \in Result : [call EXCEPT ![c].result = r] \in CallType
  BY DEF CallType
<1> QED
  BY <1>1, <1>2, <1>3, <1>4

\* A dialog or an accepted command leaves Pi typed.
LEMMA PiIsTyped ==
    ASSUME pi \in PiType
    PROVE  /\ \A o, t \in SUBSET Question : [pi EXCEPT !.opened = o, !.timed = t] \in PiType
           /\ \A w, a \in BOOLEAN, f \in {"none", "bind", "prompt"} :
                 [pi EXCEPT !.owed = w, !.first = f, !.aborted = a] \in PiType
BY Zenon DEF PiType

\* terminate writes results.
LEMMA FailIsTyped ==
    ASSUME NEW calls \in CallType
    PROVE  Fail(calls) \in CallType
<1>1. \A c \in Caller : [calls[c] EXCEPT !.result.status = "failed"]
                        \in [pc : CallPC, command : Command, result : Result]
  BY DEF CallType, Result
<1> QED
  BY <1>1 DEF Fail, CallType

\* terminate keeps the client and the calls typed.
LEMMA TerminateIsTyped ==
    ASSUME TypeOK, NEW calls \in CallType, Terminate(calls)
    PROVE  client' \in ClientType /\ pending' \subseteq Caller /\ call' \in CallType
<1>1. client' \in ClientType
  BY Zenon DEF Terminate, TypeOK, ClientType
<1> QED
  BY <1>1, FailIsTyped DEF Terminate

\* Closing the mailbox keeps it typed.
LEMMA DrainedIsTyped ==
    ASSUME NEW b \in BoxType
    PROVE  Drained(b) \in BoxType
BY DEF Drained, BoxType

\* Reading a record keeps client, calls and mailbox typed, whether it fits or not.
LEMMA ReceiveIsTyped ==
    ASSUME TypeOK, NEW type \in EventType, NEW dialogs \in SUBSET Question, Receive(type, dialogs)
    PROVE  /\ client' \in ClientType /\ pending' \subseteq Caller /\ call' \in CallType
           /\ box' \in BoxType
<1> DEFINE event == [type |-> type, seq |-> client.seq + 1, dialogs |-> dialogs]
<1>1. client.seq + 1 \in Nat
  BY DEF TypeOK, ClientType
<1>2. event \in Event
  BY <1>1, EventsAreTyped
<1>3. CASE Fits
  <2>1. box' = [box EXCEPT !.queue = Append(@, event)] /\ client' = [client EXCEPT !.seq = @ + 1]
        /\ UNCHANGED <<pending, call>>
    BY <1>3 DEF Receive
  <2>2. box.queue \in Seq(Event)
    BY DEF TypeOK, BoxType
  <2>3. Append(box.queue, event) \in Seq(Event)
    BY <2>2, <1>2
  <2>4. box' \in BoxType
    BY <2>1, <2>3 DEF TypeOK, BoxType
  <2>5. client' \in ClientType
    BY <2>1, <1>1, Zenon DEF TypeOK, ClientType
  <2> QED
    BY <2>1, <2>4, <2>5 DEF TypeOK
<1>4. CASE ~Fits
  <2>1. box' = Drained(box) /\ pending' = {} /\ call' = Fail(call)
        /\ client' = [client EXCEPT !.seq = @ + 1, !.reading = FALSE, !.closed = TRUE]
    BY <1>4 DEF Receive
  <2>2. client' \in ClientType
    BY <2>1, <1>1, Zenon DEF TypeOK, ClientType
  <2> QED
    BY <2>1, <2>2, FailIsTyped, DrainedIsTyped DEF TypeOK
<1> QED
  BY <1>3, <1>4

\* What the lifecycle helpers return: a session that differs in its state only.
LEMMA SessionsAreTyped ==
    ASSUME NEW s \in SessionType
    PROVE  /\ \A l \in Lifecycle : [s EXCEPT !.state = l] \in SessionType
           /\ Failed(s) \in SessionType
           /\ MarkRunning(s) \in SessionType
           /\ Settled(s) \in SessionType
           /\ \A a \in {"agent_start", "agent_settled"} : ApplyActivity(s, a) \in SessionType
<1>1. \A l \in Lifecycle : [s EXCEPT !.state = l] \in SessionType
  BY Zenon DEF SessionType
<1>2. Failed(s) \in SessionType
  BY <1>1 DEF Failed, Lifecycle
<1>3. MarkRunning(s) \in SessionType
  BY <1>1 DEF MarkRunning, Lifecycle
<1>4. Settled(s) \in SessionType
  <2>1. s.kind \in {"root", "read", "write"}
    BY SessionAssumption DEF SessionType
  <2> QED
    BY <1>1, <2>1 DEF Settled, Lifecycle
<1>5. \A a \in {"agent_start", "agent_settled"} : ApplyActivity(s, a) \in SessionType
  BY <1>3, <1>4 DEF ApplyActivity
<1> QED
  BY <1>1, <1>2, <1>3, <1>4, <1>5
-----------------------------------------------------------------------------
(* Type correctness *)

USE DEF piVars, clientVars, storeVars, vars

\* The initial states are typed.
LEMMA TypeInit == Init => TypeOK
<1> SUFFICES ASSUME Init PROVE TypeOK
  OBVIOUS
<1>1. pi \in PiType /\ client \in ClientType
  BY DEF Init, PiType, ClientType
<1>2. call \in CallType
  BY ResultsAreTyped DEF Init, CallType
<1>3. box \in BoxType /\ drain \in DrainType /\ drain.pc = "receiving"
  BY EventsAreTyped DEF Init, BoxType, DrainType
<1>4. session \in SessionType
  BY DEF Init, SessionType, Lifecycle
<1> QED
  BY <1>1, <1>2, <1>3, <1>4 DEF Init, TypeOK

\* Every step of every goroutine keeps the state typed.
LEMMA TypeStep == TypeOK /\ [Next]_vars => TypeOK'
<1> SUFFICES ASSUME TypeOK, [Next]_vars PROVE TypeOK'
  OBVIOUS
<1>0. CASE UNCHANGED vars
  BY <1>0 DEF TypeOK
<1>1. ASSUME PiStarts PROVE TypeOK'
  <2>1. pi' \in PiType
    BY <1>1, Zenon DEF PiStarts, TypeOK, PiType
  <2>2. Receive("agent_start", {})
    BY <1>1 DEF PiStarts
  <2>3. client' \in ClientType /\ pending' \subseteq Caller
        /\ call' \in CallType /\ box' \in BoxType
    BY <2>2, ReceiveIsTyped DEF EventType
  <2> QED
    BY <1>1, <2>1, <2>2, <2>3 DEF PiStarts, TypeOK
<1>2. ASSUME PiEnds PROVE TypeOK'
  <2>1. pi' \in PiType
    BY <1>2, Zenon DEF PiEnds, TypeOK, PiType
  <2>2. client' \in ClientType /\ pending' \subseteq Caller
        /\ call' \in CallType /\ box' \in BoxType
    BY <1>2, ReceiveIsTyped DEF PiEnds, EventType
  <2> QED
    BY <1>2, <2>1, <2>2 DEF PiEnds, TypeOK
<1>3. ASSUME ReadFails PROVE TypeOK'
  <2>1. client' \in ClientType
    BY <1>3, Zenon DEF ReadFails, TypeOK, ClientType
  <2>2. call' \in CallType /\ box' \in BoxType
    BY <1>3, FailIsTyped, DrainedIsTyped DEF ReadFails, TypeOK
  <2> QED
    BY <1>3, <2>1, <2>2 DEF ReadFails, TypeOK
<1>4. ASSUME Deliver PROVE TypeOK'
  <2>1. box.queue \in Seq(Event) /\ Head(box.queue) \in Event /\ Tail(box.queue) \in Seq(Event)
    BY <1>4 DEF Deliver, TypeOK, BoxType
  <2>2. box' \in BoxType
    BY <1>4, <2>1 DEF Deliver, TypeOK, BoxType
  <2>3. drain' \in DrainType
        /\ (drain'.pc = "reconciling" => drain'.event.type \in {"agent_start", "agent_settled"})
    BY <1>4, <2>1 DEF Deliver, TypeOK, DrainType
  <2>4. store' \in [Question -> {"absent", "offered", "answering"}]
    BY <1>4 DEF Deliver, TypeOK, Questions, CancelPending
  <2> QED
    BY <1>4, <2>1, <2>2, <2>3, <2>4 DEF Deliver, TypeOK
<1>5. ASSUME Reconcile PROVE TypeOK'
  <2>1. drain.event \in Event
        /\ drain.event.seq \in Nat /\ drain.event.type \in {"agent_start", "agent_settled"}
    BY <1>5 DEF Reconcile, TypeOK, DrainType, Event
  <2>2. [session EXCEPT !.activitySeq = drain.event.seq, !.activity = drain.event.type]
           \in SessionType
    BY <1>5, <2>1, Zenon DEF TypeOK, SessionType
  <2>3. session' \in SessionType
    BY <1>5, <2>1, <2>2, SessionsAreTyped DEF Reconcile, TypeOK
  <2>4. drain' \in DrainType /\ drain'.pc = "receiving"
    BY <1>5, EventsAreTyped DEF Reconcile, DrainType
  <2> QED
    BY <1>5, <2>1, <2>2, <2>3, <2>4 DEF Reconcile, TypeOK
<1>6. ASSUME EventsEnd PROVE TypeOK'
  <2>1. drain' \in DrainType /\ drain'.pc = "failing"
    BY <1>6 DEF EventsEnd, TypeOK, DrainType
  <2>2. store' \in [Question -> {"absent", "offered", "answering"}] /\ terminated' \in BOOLEAN
    BY <1>6 DEF EventsEnd, Clear, CancelPending
  <2> QED
    BY <1>6, <2>1, <2>2 DEF EventsEnd, TypeOK
<1>7. ASSUME DrainReturns PROVE TypeOK'
  <2>1. drain' \in DrainType /\ drain'.pc = "done"
    BY <1>7 DEF DrainReturns, TypeOK, DrainType
  <2>2. session' \in SessionType
    BY <1>7, SessionsAreTyped DEF DrainReturns, TypeOK
  <2> QED
    BY <1>7, <2>1, <2>2 DEF DrainReturns, TypeOK
<1>8. ASSUME CompleteHandoff PROVE TypeOK'
  <2>1. session' \in SessionType
    BY <1>8, SessionsAreTyped DEF CompleteHandoff, TypeOK, Lifecycle
  <2> QED
    BY <1>8, <2>1 DEF CompleteHandoff, TypeOK
<1>9. ASSUME StopBegins PROVE TypeOK'
  <2>1. store' \in [Question -> {"absent", "offered", "answering"}] /\ terminated' \in BOOLEAN
    BY <1>9 DEF StopBegins, Clear, CancelPending
  <2> QED
    BY <1>9, <2>1 DEF StopBegins, TypeOK
<1>10. ASSUME StopMarks PROVE TypeOK'
  <2>1. session' \in SessionType
    BY <1>10, SessionsAreTyped DEF StopMarks, TypeOK, Lifecycle
  <2> QED
    BY <1>10, <2>1 DEF StopMarks, TypeOK
<1>11. ASSUME StopCloses PROVE TypeOK'
  <2>1. client' \in ClientType /\ pending' \subseteq Caller /\ call' \in CallType
    BY <1>11, TerminateIsTyped DEF StopCloses, TypeOK
  <2>2. box' \in BoxType
    BY <1>11 DEF StopCloses, BoxType
  <2> QED
    BY <1>11, <2>1, <2>2 DEF StopCloses, TypeOK
<1>12. ASSUME StopJoins PROVE TypeOK'
  BY <1>12 DEF StopJoins, TypeOK
<1>13. ASSUME StopReturns PROVE TypeOK'
  <2>1. session' \in SessionType
    BY <1>13, SessionsAreTyped DEF StopReturns, TypeOK, Lifecycle
  <2> QED
    BY <1>13, <2>1 DEF StopReturns, TypeOK
<1>14. ASSUME NEW q \in Question, PiAsks(q) PROVE TypeOK'
  <2>1. pi' \in PiType
    <3>1. PICK timed \in SUBSET {q} :
               pi' = [pi EXCEPT !.opened = @ \cup {q}, !.timed = @ \cup timed]
      BY <1>14 DEF PiAsks
    <3>2. pi.opened \cup {q} \in SUBSET Question /\ pi.timed \cup timed \in SUBSET Question
      BY DEF TypeOK, PiType
    <3> QED
      BY <3>1, <3>2, PiIsTyped DEF TypeOK
  <2>2. "extension_ui_request" \in EventType
        /\ {q} \in SUBSET Question /\ Receive("extension_ui_request", {q})
    BY <1>14 DEF PiAsks, EventType
  <2>3. client' \in ClientType /\ pending' \subseteq Caller
        /\ call' \in CallType /\ box' \in BoxType
    BY <1>14, <2>2, ReceiveIsTyped
  <2> QED
    BY <1>14, <2>1, <2>2, <2>3 DEF PiAsks, TypeOK
<1>15. ASSUME NEW q \in Question, PiExpires(q) PROVE TypeOK'
  BY <1>15 DEF PiExpires, TypeOK
<1>16. ASSUME NEW q \in Question, BeginAnswer(q) PROVE TypeOK'
  BY <1>16 DEF BeginAnswer, TypeOK
<1>17. ASSUME NEW q \in Question, SendAnswer(q) PROVE TypeOK'
  BY <1>17 DEF SendAnswer, TypeOK
<1>18. ASSUME NEW q \in Question, SendCancelled(q) PROVE TypeOK'
  BY <1>18 DEF SendCancelled, TypeOK
<1>19. ASSUME NEW q \in Question, SendBreaks(q) PROVE TypeOK'
  <2>1. client' \in ClientType /\ pending' \subseteq Caller /\ call' \in CallType
    BY <1>19, TerminateIsTyped DEF SendBreaks, TypeOK
  <2> QED
    BY <1>19, <2>1 DEF SendBreaks, TypeOK
<1>20. ASSUME NEW q \in Question, EndAnswer(q) PROVE TypeOK'
  BY <1>20 DEF EndAnswer, TypeOK
<1>21. ASSUME NEW q \in Question, Expire(q) PROVE TypeOK'
  BY <1>21 DEF Expire, TypeOK
<1>22. ASSUME NEW c \in Caller, PiResponds(c) PROVE TypeOK'
  <2>1. pi' \in PiType /\ asked' \subseteq Question
    <3>1. PICK m \in inbox : Accept(c, m.command)
      BY <1>22 DEF PiResponds
    <3> DEFINE owed == pi.owed \/ (m.command = "prompt" /\ ~pi.streaming)
               first == IF pi.first # "none" THEN pi.first
                        ELSE IF m.command = "prompt" THEN "prompt"
                        ELSE IF c = Binder THEN "bind" ELSE pi.first
               aborted == pi.aborted \/ m.command = "abort"
    <3>2. pi' = [pi EXCEPT !.owed = owed, !.first = first, !.aborted = aborted]
      BY <3>1, Zenon DEF Accept
    <3>3. owed \in BOOLEAN /\ aborted \in BOOLEAN
      BY Zenon DEF TypeOK, PiType
    <3>4. first \in {"none", "bind", "prompt"}
      BY DEF TypeOK, PiType
    <3> HIDE DEF owed, first, aborted
    <3>5. pi' \in PiType
      BY <3>2, <3>3, <3>4, PiIsTyped DEF TypeOK
    <3>6. asked' \subseteq Question
      BY <3>1 DEF Accept, TypeOK
    <3> QED
      BY <3>5, <3>6
  <2>2. inbox' \subseteq [caller : Caller, command : Command]
    BY <1>22 DEF PiResponds, TypeOK
  <2>3. client' \in ClientType /\ pending' \subseteq Caller
        /\ call' \in CallType /\ box' \in BoxType
    <3>1. CASE c \in pending
      <4>1. client.seq + 1 \in Nat /\ pi.streaming \in BOOLEAN
        BY DEF TypeOK, ClientType, PiType
      <4> DEFINE r == [status |-> "accepted", seq |-> client.seq + 1, streaming |-> pi.streaming]
      <4>2. r \in Result
        BY <4>1, Zenon DEF Result
      <4>3. call' = [call EXCEPT ![c].result = r]
        BY <1>22, <3>1, Zenon DEF PiResponds
      <4> HIDE DEF r
      <4>4. call' \in CallType
        BY <4>2, <4>3, CallMoves DEF TypeOK
      <4>5. client' \in ClientType
        BY <1>22, <3>1, <4>1, Zenon DEF PiResponds, TypeOK, ClientType
      <4> QED
        BY <1>22, <3>1, <4>4, <4>5 DEF PiResponds, TypeOK
    <3>2. CASE c \notin pending
      BY <1>22, <3>2, ReceiveIsTyped DEF PiResponds, EventType
    <3> QED
      BY <3>1, <3>2
  <2> QED
    BY <1>22, <2>1, <2>2, <2>3 DEF PiResponds, TypeOK
<1>23. ASSUME NEW c \in Caller, Write(c) PROVE TypeOK'
  <2>1. call[c].command \in Command /\ call' \in CallType
    BY <1>23, CallMoves DEF Write, TypeOK, CallType, CallPC
  <2> QED
    BY <1>23, <2>1 DEF Write, TypeOK
<1>24. ASSUME NEW c \in Caller, WriteBreaks(c) PROVE TypeOK'
  <2>1. client' \in ClientType /\ pending' \subseteq Caller /\ call' \in CallType
    BY <1>24, CallMoves, TerminateIsTyped DEF WriteBreaks, TypeOK
  <2> QED
    BY <1>24, <2>1 DEF WriteBreaks, TypeOK
<1>25. ASSUME NEW c \in Caller, Cancel(c) PROVE TypeOK'
  <2>1. call' \in CallType
    BY <1>25, CallMoves DEF Cancel, TypeOK
  <2> QED
    BY <1>25, <2>1 DEF Cancel, TypeOK
<1>26. ASSUME NEW c \in Caller, CallFails(c) PROVE TypeOK'
  <2>1. call' \in CallType
    BY <1>26, CallMoves DEF CallFails, TypeOK
  <2> QED
    BY <1>26, <2>1 DEF CallFails, TypeOK
<1>27. ASSUME NEW c \in Caller, PromptReturns(c) PROVE TypeOK'
  <2>1. call' \in CallType
    BY <1>27, CallMoves DEF PromptReturns, TypeOK
  <2>2. call[c].result.seq \in Nat
        /\ (\A n \in Nat : [session EXCEPT !.responseSeq = n] \in SessionType)
    BY Zenon DEF TypeOK, CallType, Result, SessionType
  <2>3. session' \in SessionType
    <3> DEFINE last == IF call[c].result.seq > session.responseSeq
                       THEN call[c].result.seq ELSE session.responseSeq
               s == [session EXCEPT !.responseSeq = last]
    <3>1. last \in Nat
      BY <2>2 DEF TypeOK, SessionType
    <3>2. s \in SessionType
      BY <3>1, <2>2
    <3>3. session' = s \/ session' = MarkRunning(s)
      BY <1>27 DEF PromptReturns
    <3> QED
      BY <3>2, <3>3, SessionsAreTyped
  <2> QED
    BY <1>27, <2>1, <2>2, <2>3 DEF PromptReturns, TypeOK
<1>28. ASSUME NEW c \in Caller, AbortReturns(c) PROVE TypeOK'
  <2>1. call' \in CallType
    BY <1>28, CallMoves DEF AbortReturns, TypeOK
  <2>2. store' \in [Question -> {"absent", "offered", "answering"}]
    BY <1>28 DEF AbortReturns, CancelPending
  <2> QED
    BY <1>28, <2>1, <2>2 DEF AbortReturns, TypeOK
<1>29. ASSUME NEW c \in Caller, StateReturns(c) PROVE TypeOK'
  <2>1. call' \in CallType
    BY <1>29, CallMoves DEF StateReturns, TypeOK, CallPC
  <2>2. session' \in SessionType
    BY <1>29, Zenon DEF StateReturns, TypeOK, SessionType
  <2> QED
    BY <1>29, <2>1, <2>2 DEF StateReturns, TypeOK
<1>30. ASSUME NEW c \in Caller, Ready(c) PROVE TypeOK'
  <2>1. call' \in CallType
    BY <1>30, CallMoves DEF Ready, TypeOK
  <2>2. call[c].result.seq \in Nat
        /\ (\A n \in Nat : [session EXCEPT !.responseSeq = n] \in SessionType)
    BY Zenon DEF TypeOK, CallType, Result, SessionType
  <2>3. session' \in SessionType
    <3> DEFINE s == [session EXCEPT !.responseSeq = call[c].result.seq]
               r == [s EXCEPT !.state = "ready"]
    <3>1. s \in SessionType
      BY <2>2
    <3>2. r \in SessionType
      BY <3>1, SessionsAreTyped DEF Lifecycle
    <3>3. session.activity \in {"agent_start", "agent_settled"}
      BY DEF TypeOK, SessionType
    <3>4. session' \in {s, r, MarkRunning(r), ApplyActivity(r, session.activity)}
      BY <1>30 DEF Ready
    <3> HIDE DEF s, r
    <3> QED
      BY <3>1, <3>2, <3>3, <3>4, SessionsAreTyped
  <2> QED
    BY <1>30, <2>1, <2>2, <2>3 DEF Ready, TypeOK
<1>31. ASSUME NEW c \in Caller, FailSession(c) PROVE TypeOK'
  <2>1. call' \in CallType
    BY <1>31, CallMoves DEF FailSession, TypeOK, CallPC
  <2>2. session' \in SessionType
    BY <1>31, SessionsAreTyped DEF FailSession, TypeOK
  <2> QED
    BY <1>31, <2>1, <2>2 DEF FailSession, TypeOK
<1>32. ASSUME NEW c \in Caller, FailClient(c) PROVE TypeOK'
  <2>1. At(c, "joining") \in CallType
    BY <1>32, CallMoves DEF TypeOK, CallPC
  <2>2. client' \in ClientType /\ pending' \subseteq Caller /\ call' \in CallType
    BY <1>32, <2>1, TerminateIsTyped DEF FailClient
  <2>3. box' \in BoxType
    BY <1>32 DEF FailClient, BoxType
  <2>4. store' \in [Question -> {"absent", "offered", "answering"}] /\ terminated' \in BOOLEAN
    BY <1>32 DEF FailClient, Clear, CancelPending
  <2> QED
    BY <1>32, <2>1, <2>2, <2>3, <2>4 DEF FailClient, TypeOK
<1>33. ASSUME NEW c \in Caller, FailReturns(c) PROVE TypeOK'
  <2>1. call' \in CallType
    BY <1>33, CallMoves DEF FailReturns, TypeOK
  <2> QED
    BY <1>33, <2>1 DEF FailReturns, TypeOK
<1>34. ASSUME NEW c \in Caller, NEW command \in Command, Begin(c, command) PROVE TypeOK'
  <2>1. call' \in CallType
    BY <1>34, CallMoves DEF Begin, TypeOK
  <2> QED
    BY <1>34, <2>1 DEF Begin, TypeOK
<1> QED
  BY <1>0, <1>1, <1>2, <1>3, <1>4, <1>5, <1>6, <1>7, <1>8, <1>9, <1>10, <1>11, <1>12, <1>13,
     <1>14, <1>15, <1>16, <1>17, <1>18, <1>19, <1>20, <1>21, <1>22, <1>23, <1>24, <1>25, <1>26,
     <1>27, <1>28, <1>29, <1>30, <1>31, <1>32, <1>33, <1>34
     DEF Next, PiStep, DrainStep, StopStep, CallStep, AnswerStep

\* Every variable has its type in every reachable state, for any constants.
THEOREM TypeCorrect == Spec => []TypeOK
BY TypeInit, TypeStep, PTL DEF Spec
-----------------------------------------------------------------------------
(* SessionInv, one part after the other *)

\* The invariant holds before Pi has written anything.
LEMMA SessionInit == Init => SessionInv
<1> SUFFICES ASSUME Init PROVE SessionInv
  OBVIOUS
<1>1. ClientInv
  BY DEF Init, ClientInv, Idle, NoResult
<1>2. DrainInv /\ StopInv /\ TerminatedHasNoQuestions
  BY DEF Init, DrainInv, StopInv, TerminatedHasNoQuestions
<1> QED
  BY <1>1, <1>2 DEF SessionInv

\* A call that ends, or that moves on with its result, is not pending.
LEMMA MovesKeepClientInv ==
    ASSUME TypeOK, ClientInv, NEW c \in Caller, NEW pc \in CallPC \ {"idle", "queued", "waiting"},
           pc = "joining" => client.closed /\ terminated,
           call' = Returned(c) \/ (call' = At(c, pc) /\ c \notin pending),
           pending' = pending \ {c},
           UNCHANGED <<client, inbox, terminated, box>>
    PROVE  ClientInv'
<1>1. \A d \in Caller \ {c} : call'[d] = call[d]
  BY DEF Returned, At, TypeOK, CallType
<1>2. call'[c].pc \notin {"idle", "queued", "waiting"}
      /\ (call'[c].pc = "joining" => client.closed /\ terminated)
  BY DEF Returned, At, TypeOK, CallType, Idle
<1> QED
  BY <1>1, <1>2 DEF ClientInv, TypeOK

\* terminate leaves no call pending and none without a result.
LEMMA TerminateKeepsClientInv ==
    ASSUME TypeOK, ClientInv, NEW calls \in CallType, Terminate(calls),
           \A c \in Caller :
               /\ calls[c].pc # "idle" \/ calls[c] = call[c]
               /\ calls[c].pc # "queued" \/ calls[c] = call[c]
               /\ calls[c].pc # "waiting" \/ calls[c] = call[c]
               /\ calls[c].pc # "joining" \/ calls[c] = call[c] \/ terminated',
           terminated => terminated', UNCHANGED inbox
    PROVE  ClientInv'
<1>1. client'.closed /\ pending' = {}
  BY DEF Terminate, TypeOK, ClientType
<1>2. \A c \in Caller : call'[c].pc = calls[c].pc
  BY DEF Terminate, Fail, CallType, Result
<1>3. \A c \in Caller : calls[c].pc = "waiting" => call'[c].result.status # "none"
  BY DEF Terminate, Fail, TypeOK, CallType, Result, ClientInv
<1>4. \A c \in Caller : calls[c].pc = "idle" => call'[c] = call[c]
  BY DEF Terminate, Fail, TypeOK, CallType, ClientInv
<1> QED
  BY <1>1, <1>2, <1>3, <1>4 DEF ClientInv, TypeOK

\* A record is read while the client is open.
LEMMA ReceiveKeepsClientInv ==
    ASSUME TypeOK, ClientInv, NEW type \in EventType, NEW dialogs \in SUBSET Question,
           CanRead, Receive(type, dialogs), inbox' \subseteq inbox, UNCHANGED terminated
    PROVE  ClientInv'
<1>1. CASE Fits
  <2>1. UNCHANGED <<pending, call>> /\ client'.closed = client.closed
        /\ client'.reading = client.reading /\ box'.state = box.state
    BY <1>1 DEF Receive, TypeOK, ClientType, BoxType
  <2> QED
    BY <2>1 DEF ClientInv
<1>2. CASE ~Fits
  <2>1. client'.closed /\ pending' = {} /\ call' = Fail(call)
    BY <1>2 DEF Receive, TypeOK, ClientType
  <2>2. \A c \in Caller : call'[c].pc = call[c].pc
    BY <2>1 DEF Fail, TypeOK, CallType, Result
  <2>3. \A c \in Caller : call[c].pc = "waiting" => call'[c].result.status # "none"
    BY <2>1 DEF Fail, TypeOK, CallType, Result, ClientInv
  <2>4. \A c \in Caller : call[c].pc = "idle" => call'[c] = call[c]
    BY <2>1 DEF Fail, TypeOK, CallType, ClientInv
  <2> QED
    BY <2>1, <2>2, <2>3, <2>4 DEF ClientInv, TypeOK
<1> QED
  BY <1>1, <1>2

\* Every step keeps what the client, its pending calls and the mailbox agree on.
LEMMA ClientStep == TypeOK /\ SessionInv /\ [Next]_vars => ClientInv'
<1> SUFFICES ASSUME TypeOK, SessionInv, [Next]_vars PROVE ClientInv'
  OBVIOUS
<1> USE DEF SessionInv
<1>1. ASSUME UNCHANGED <<client, pending, call, inbox, box>>, terminated => terminated'
      PROVE  ClientInv'
  BY <1>1 DEF ClientInv
<1>2. ASSUME UNCHANGED <<client, pending, call, inbox>>, box'.state = box.state,
             terminated => terminated'
      PROVE  ClientInv'
  BY <1>2 DEF ClientInv
<1>3. CASE PiStarts \/ PiEnds
  BY <1>3, ReceiveKeepsClientInv DEF PiStarts, PiEnds, EventType
<1>4. ASSUME NEW q \in Question, PiAsks(q) PROVE ClientInv'
  BY <1>4, ReceiveKeepsClientInv DEF PiAsks, EventType
<1>5. ASSUME NEW c \in Caller, PiResponds(c) PROVE ClientInv'
  <2>1. CanRead /\ inbox' \subseteq inbox /\ UNCHANGED terminated
    BY <1>5 DEF PiResponds
  <2>2. CASE c \in pending
    <3>1. pending' = pending \ {c} /\ UNCHANGED box
      BY <1>5, <2>2 DEF PiResponds
    <3>2. client'.closed = client.closed /\ client'.reading = client.reading
      BY <1>5, <2>2 DEF PiResponds, TypeOK, ClientType
    <3>3. \A d \in Caller : call'[d].pc = call[d].pc /\ (d # c => call'[d] = call[d])
      BY <1>5, <2>2 DEF PiResponds, TypeOK, CallType
    <3>4. call[c].pc # "queued" /\ call'[c].result.status = "accepted"
      BY <1>5, <2>2 DEF PiResponds, TypeOK, CallType, ClientInv
    <3>5. call[c].pc # "idle"
      BY <2>2 DEF ClientInv
    <3> QED
      BY <2>1, <3>1, <3>2, <3>3, <3>4, <3>5 DEF ClientInv, TypeOK
  <2>3. CASE c \notin pending
    BY <1>5, <2>1, <2>3, ReceiveKeepsClientInv DEF PiResponds, EventType
  <2> QED
    BY <2>2, <2>3
<1>6. CASE ReadFails
  <2>1. client'.closed /\ pending' = {} /\ call' = Fail(call)
    BY <1>6 DEF ReadFails, TypeOK, ClientType
  <2>2. \A c \in Caller : call'[c].pc = call[c].pc
    BY <2>1 DEF Fail, TypeOK, CallType, Result
  <2>3. \A c \in Caller : call[c].pc = "waiting" => call'[c].result.status # "none"
    BY <2>1 DEF Fail, TypeOK, CallType, Result, ClientInv
  <2>4. \A c \in Caller : call[c].pc = "idle" => call'[c] = call[c]
    BY <2>1 DEF Fail, TypeOK, CallType, ClientInv
  <2> QED
    BY <1>6, <2>1, <2>2, <2>3, <2>4 DEF ReadFails, ClientInv, TypeOK
<1>7. ASSUME NEW c \in Caller, NEW command \in Command, Begin(c, command) PROVE ClientInv'
  <2>1. CASE client.closed
    BY <1>7, <2>1, MovesKeepClientInv DEF Begin, ClientInv, CallPC
  <2>2. CASE ~client.closed
    <3>1. pending' = pending \cup {c}
          /\ call' = [call EXCEPT ![c].pc = "queued", ![c].command = command]
      BY <1>7, <2>2 DEF Begin
    <3>2. \A d \in Caller \ {c} : call'[d] = call[d]
      BY <3>1 DEF TypeOK, CallType
    <3>3. call'[c].pc = "queued" /\ call'[c].result = call[c].result
      BY <3>1 DEF TypeOK, CallType
    <3>4. call[c].pc = "idle" /\ call[c].result.status = "none"
          /\ UNCHANGED <<client, box, inbox, terminated>>
      BY <1>7 DEF Begin, ClientInv
    <3>5. \A m \in inbox : m.caller \in Caller /\ m.caller # c
      BY <3>4 DEF ClientInv, TypeOK
    <3>6. \A m \in inbox : call'[m.caller].pc \notin {"idle", "queued"}
      BY <3>2, <3>5 DEF ClientInv
    <3>7. ASSUME NEW d \in Caller
          PROVE  /\ d \in pending' => call'[d].pc \in {"queued", "waiting"}
                                      /\ call'[d].result.status = "none"
                 /\ call'[d].pc = "idle" => call'[d].result.status = "none"
                 /\ call'[d].pc = "queued" => d \in pending' \/ client'.closed
                 /\ call'[d].pc = "waiting" /\ call'[d].result.status = "none" => d \in pending'
                 /\ call'[d].pc = "joining" => client'.closed /\ terminated'
      <4>1. CASE d = c
        BY <3>1, <3>3, <3>4, <4>1
      <4>2. CASE d # c
        BY <3>1, <3>2, <3>4, <4>2 DEF ClientInv
      <4> QED
        BY <4>1, <4>2
    <3> QED
      BY <2>2, <3>4, <3>6, <3>7 DEF ClientInv
  <2> QED
    BY <2>1, <2>2
<1>8. ASSUME NEW c \in Caller, Write(c) PROVE ClientInv'
  <2>1. \A d \in Caller \ {c} : call'[d] = call[d]
    BY <1>8 DEF Write, At, TypeOK, CallType
  <2>2. call'[c].pc = "waiting" /\ call'[c].result = call[c].result
    BY <1>8 DEF Write, At, TypeOK, CallType
  <2> QED
    BY <1>8, <2>1, <2>2 DEF Write, ClientInv, TypeOK
<1>9. ASSUME NEW c \in Caller, WriteBreaks(c) PROVE ClientInv'
  BY <1>9, CallMoves, TerminateKeepsClientInv DEF WriteBreaks, Returned, Idle, TypeOK, CallType
<1>10. ASSUME NEW q \in Question, SendBreaks(q) PROVE ClientInv'
  BY <1>10, TerminateKeepsClientInv DEF SendBreaks, TypeOK
<1>11. CASE StopCloses
  BY <1>11, TerminateKeepsClientInv DEF StopCloses, TypeOK
<1>12. ASSUME NEW c \in Caller, FailClient(c) PROVE ClientInv'
  <2>1. At(c, "joining") \in CallType
    BY CallMoves DEF TypeOK, CallPC
  <2>2. \A d \in Caller \ {c} : At(c, "joining")[d] = call[d]
    BY DEF At, TypeOK, CallType
  <2>3. At(c, "joining")[c].pc = "joining"
    BY DEF At, TypeOK, CallType
  <2>4. Terminate(At(c, "joining")) /\ terminated' /\ UNCHANGED inbox
    BY <1>12 DEF FailClient, Clear
  <2> HIDE DEF At
  <2> QED
    BY <2>1, <2>2, <2>3, <2>4, TerminateKeepsClientInv
<1>13. ASSUME NEW c \in Caller, Cancel(c) PROVE ClientInv'
  BY <1>13, MovesKeepClientInv DEF Cancel, CallPC
<1>14. ASSUME NEW c \in Caller, CallStep(c) PROVE ClientInv'
  <2>1. CASE FailClient(c)
    BY <1>12, <2>1
  <2>2. CASE ~FailClient(c)
    <3>1. c \notin pending
      BY <1>14, <2>2 DEF CallStep, CallFails, PromptReturns, AbortReturns, StateReturns, Ready,
                         FailSession, FailReturns, Answered, ClientInv
    <3>2. UNCHANGED <<client, pending, inbox, terminated, box>>
      BY <1>14, <2>2 DEF CallStep, CallFails, PromptReturns, AbortReturns, StateReturns, Ready,
                         FailSession, FailReturns
    <3>3. call' \in {Returned(c), At(c, "readying"), At(c, "failing"), At(c, "closing")}
      BY <1>14, <2>2 DEF CallStep, CallFails, PromptReturns, AbortReturns, StateReturns, Ready,
                         FailSession, FailReturns
    <3> QED
      BY <3>1, <3>2, <3>3, MovesKeepClientInv DEF CallPC
  <2> QED
    BY <2>1, <2>2
<1>15. CASE DrainStep \/ CompleteHandoff \/ StopBegins \/ StopMarks \/ StopJoins \/ StopReturns
            \/ UNCHANGED vars
  BY <1>1, <1>2, <1>15 DEF DrainStep, Deliver, Reconcile, EventsEnd, DrainReturns, CompleteHandoff,
       StopBegins, StopMarks, StopJoins, StopReturns, Clear, TypeOK, BoxType
<1>16. ASSUME NEW q \in Question, AnswerStep(q) \/ Expire(q) \/ PiExpires(q) PROVE ClientInv'
  BY <1>1, <1>10, <1>16 DEF AnswerStep, BeginAnswer, SendAnswer, SendCancelled, EndAnswer,
     Expire, PiExpires
<1> QED
  BY <1>3, <1>4, <1>5, <1>6, <1>7, <1>8, <1>9, <1>11, <1>13, <1>14, <1>15, <1>16
     DEF Next, PiStep, StopStep

\* Every step keeps what the mailbox, the drain and the lifecycle agree on.
LEMMA DrainInvStep == TypeOK /\ SessionInv /\ [Next]_vars => DrainInv'
<1> SUFFICES ASSUME TypeOK, SessionInv, [Next]_vars PROVE DrainInv'
  OBVIOUS
<1> USE DEF SessionInv
<1>1. ASSUME UNCHANGED <<drain, session, box>>, terminated => terminated' PROVE DrainInv'
  BY <1>1 DEF DrainInv
<1>2. ASSUME NEW type \in EventType, NEW dialogs \in SUBSET Question, Receive(type, dialogs),
             UNCHANGED <<drain, session, terminated>>
      PROVE  DrainInv'
  <2>1. CASE Fits
    BY <1>2, <2>1 DEF Receive, Fits, DrainInv, TypeOK, BoxType
  <2>2. CASE ~Fits
    BY <1>2, <2>2 DEF Receive, Drained, DrainInv, TypeOK, BoxType
  <2> QED
    BY <2>1, <2>2
<1>3. CASE PiStarts \/ PiEnds
  BY <1>2, <1>3 DEF PiStarts, PiEnds, EventType
<1>4. ASSUME NEW q \in Question, PiAsks(q) PROVE DrainInv'
  BY <1>2, <1>4 DEF PiAsks, EventType
<1>5. ASSUME NEW c \in Caller, PiResponds(c) PROVE DrainInv'
  BY <1>1, <1>2, <1>5 DEF PiResponds, EventType
<1>6. CASE ReadFails
  BY <1>6 DEF ReadFails, Drained, DrainInv, TypeOK, BoxType
\* A session that is not live stays so, whatever still arrives.
<1>7. ASSUME session.state \notin Live, UNCHANGED <<drain, box, terminated>>,
             session'.state \notin Live
      PROVE  DrainInv'
  BY <1>7 DEF DrainInv
<1>8. ASSUME NEW c \in Caller, CallStep(c) PROVE DrainInv'
  <2>1. CASE CallFails(c) \/ AbortReturns(c) \/ FailReturns(c)
    BY <1>1, <2>1 DEF CallFails, AbortReturns, FailReturns
  <2>2. CASE FailClient(c)
    BY <2>2 DEF FailClient, Clear, DrainInv
  <2>3. CASE FailSession(c)
    BY <2>3 DEF FailSession, Failed, Live, DrainInv, TypeOK, SessionType
  <2>4. CASE StateReturns(c)
    BY <2>4 DEF StateReturns, DrainInv, TypeOK, SessionType
  <2>5. CASE PromptReturns(c)
    BY <2>5 DEF PromptReturns, MarkRunning, Live, DrainInv, TypeOK, SessionType
  <2>6. CASE Ready(c)
    BY <2>6 DEF Ready, Live, DrainInv, TypeOK, SessionType
  <2> QED
    BY <1>8, <2>1, <2>2, <2>3, <2>4, <2>5, <2>6 DEF CallStep
<1>9. CASE Deliver
  BY <1>9 DEF Deliver, DrainInv, TypeOK, BoxType, DrainType
<1>10. CASE Reconcile
  BY <1>10 DEF Reconcile, DrainInv, TypeOK, DrainType
<1>11. CASE EventsEnd
  BY <1>11 DEF EventsEnd, Clear, DrainInv, TypeOK, DrainType
<1>12. CASE DrainReturns
  BY <1>12 DEF DrainReturns, Failed, Live, DrainInv, TypeOK, DrainType, SessionType
<1>13. CASE CompleteHandoff
  BY <1>13 DEF CompleteHandoff, Live, DrainInv, TypeOK, SessionType
<1>14. CASE StopBegins
  BY <1>1, <1>14 DEF StopBegins, Clear
<1>15. CASE StopMarks
  BY <1>15 DEF StopMarks, Live, DrainInv, TypeOK, SessionType
<1>16. CASE StopCloses
  BY <1>16 DEF StopCloses, DrainInv, StopInv
<1>17. CASE StopJoins \/ UNCHANGED vars
  BY <1>1, <1>17 DEF StopJoins
<1>18. CASE StopReturns
  BY <1>18 DEF StopReturns, Live, DrainInv, TypeOK, SessionType
<1>19. ASSUME NEW c \in Caller, NEW command \in Command,
              Write(c) \/ WriteBreaks(c) \/ Cancel(c) \/ Begin(c, command)
       PROVE  DrainInv'
  BY <1>1, <1>19 DEF Write, WriteBreaks, Cancel, Begin
<1>20. ASSUME NEW q \in Question, AnswerStep(q) \/ Expire(q) \/ PiExpires(q) PROVE DrainInv'
  BY <1>1, <1>20 DEF AnswerStep, BeginAnswer, SendAnswer, SendCancelled, SendBreaks, EndAnswer,
                     Expire, PiExpires
<1>21. Command # {}
  BY DEF Command
<1> QED
  BY <1>3, <1>4, <1>5, <1>6, <1>8, <1>9, <1>10, <1>11, <1>12, <1>13, <1>14, <1>15, <1>16, <1>17,
     <1>18, <1>19, <1>20, <1>21 DEF Next, PiStep, DrainStep, StopStep

\* Every step keeps what StopRPC has achieved so far.
LEMMA StopInvStep == TypeOK /\ SessionInv /\ [Next]_vars => StopInv'
<1> SUFFICES ASSUME TypeOK, SessionInv, [Next]_vars PROVE StopInv'
  OBVIOUS
<1> USE DEF SessionInv
<1>1. ASSUME UNCHANGED <<stop, session>>, drain'.pc = drain.pc \/ drain.pc # "done",
             terminated => terminated', client.closed => client'.closed,
             client'.reading => client.reading,
             box.state = "aborted" => box'.state = "aborted"
      PROVE  StopInv'
  BY <1>1 DEF StopInv
<1>2. ASSUME NEW type \in EventType, NEW dialogs \in SUBSET Question, Receive(type, dialogs),
             UNCHANGED <<drain, session, terminated, stop>>
      PROVE  StopInv'
  <2>1. CASE Fits
    BY <1>1, <1>2, <2>1 DEF Receive, Fits, TypeOK, BoxType, ClientType
  <2>2. CASE ~Fits
    BY <1>1, <1>2, <2>2 DEF Receive, Drained, TypeOK, BoxType, ClientType
  <2> QED
    BY <2>1, <2>2
<1>3. CASE PiStarts \/ PiEnds
  BY <1>2, <1>3 DEF PiStarts, PiEnds, EventType
<1>4. ASSUME NEW q \in Question, PiAsks(q) PROVE StopInv'
  BY <1>2, <1>4 DEF PiAsks, EventType
<1>5. ASSUME NEW c \in Caller, PiResponds(c) PROVE StopInv'
  <2>1. CASE c \in pending
    <3>1. UNCHANGED <<stop, session, drain, terminated, box>>
      BY <1>5, <2>1 DEF PiResponds
    <3>2. client'.closed = client.closed /\ client'.reading = client.reading
      BY <1>5, <2>1 DEF PiResponds, TypeOK, ClientType
    <3> QED
      BY <1>1, <3>1, <3>2
  <2>2. CASE c \notin pending
    BY <1>2, <1>5, <2>2 DEF PiResponds, EventType
  <2> QED
    BY <2>1, <2>2
<1>6. CASE ReadFails
  BY <1>1, <1>6 DEF ReadFails, Drained, TypeOK, BoxType, ClientType
\* Nothing but StopRPC changes the state of a session that is stopping or stopped.
<1>7. ASSUME session.state \in {"stopping", "stopped"} => session'.state = session.state,
             UNCHANGED <<stop, client, terminated, box>>, drain.pc = "done" => drain'.pc = "done"
      PROVE  StopInv'
  BY <1>7 DEF StopInv
<1>8. ASSUME NEW c \in Caller, CallStep(c) PROVE StopInv'
  <2>1. CASE CallFails(c) \/ AbortReturns(c) \/ FailReturns(c)
    BY <1>1, <2>1 DEF CallFails, AbortReturns, FailReturns
  <2>2. CASE FailClient(c)
    <3>1. Terminate(At(c, "joining")) /\ box'.state = "aborted" /\ terminated'
          /\ UNCHANGED <<drain, session, stop>>
      BY <2>2 DEF FailClient, Clear
    <3>2. client'.closed /\ client'.reading = client.reading
      BY <3>1 DEF Terminate, TypeOK, ClientType
    <3> QED
      BY <1>1, <3>1, <3>2
  <2>3. CASE FailSession(c)
    BY <1>7, <2>3 DEF FailSession, Failed, Live, TypeOK, SessionType
  <2>4. CASE StateReturns(c)
    BY <1>7, <2>4 DEF StateReturns, TypeOK, SessionType
  <2>5. CASE PromptReturns(c)
    BY <1>7, <2>5 DEF PromptReturns, MarkRunning, TypeOK, SessionType
  <2>6. CASE Ready(c)
    BY <1>7, <2>6 DEF Ready, TypeOK, SessionType
  <2> QED
    BY <1>8, <2>1, <2>2, <2>3, <2>4, <2>5, <2>6 DEF CallStep
<1>9. CASE Deliver
  BY <1>1, <1>9 DEF Deliver, TypeOK, BoxType, DrainType
<1>10. CASE Reconcile
  <2>1. session.state \in {"stopping", "stopped"} => session'.state = session.state
    <3>1. CASE drain.event.seq > session.responseSeq
      BY <1>10, <3>1 DEF Reconcile, ApplyActivity, MarkRunning, TypeOK, SessionType
    <3>2. CASE ~(drain.event.seq > session.responseSeq)
      BY <1>10, <3>2 DEF Reconcile, TypeOK, SessionType
    <3> QED
      BY <3>1, <3>2
  <2> QED
    BY <1>7, <1>10, <2>1 DEF Reconcile
<1>11. CASE EventsEnd
  BY <1>1, <1>11 DEF EventsEnd, Clear
<1>12. CASE DrainReturns
  BY <1>7, <1>12 DEF DrainReturns, Failed, Live, TypeOK, SessionType
<1>13. CASE CompleteHandoff
  BY <1>7, <1>13 DEF CompleteHandoff
<1>14. CASE StopBegins
  BY <1>14 DEF StopBegins, Clear, StopInv
<1>15. CASE StopMarks
  BY <1>15 DEF StopMarks, StopInv, TypeOK, SessionType
<1>16. CASE StopCloses
  <2>1. client'.closed
    BY <1>16 DEF StopCloses, Terminate, TypeOK, ClientType
  <2> QED
    BY <1>16, <2>1 DEF StopCloses, StopInv
<1>17. CASE StopJoins
  BY <1>17 DEF StopJoins, StopInv
<1>18. CASE StopReturns
  BY <1>18 DEF StopReturns, StopInv, TypeOK, SessionType
<1>19. ASSUME NEW c \in Caller, NEW command \in Command,
              Write(c) \/ Cancel(c) \/ Begin(c, command)
       PROVE  StopInv'
  BY <1>1, <1>19 DEF Write, Cancel, Begin
<1>20. ASSUME NEW c \in Caller, WriteBreaks(c) PROVE StopInv'
  BY <1>1, <1>20 DEF WriteBreaks, Terminate, TypeOK, ClientType
<1>21. ASSUME NEW q \in Question, AnswerStep(q) \/ Expire(q) \/ PiExpires(q) PROVE StopInv'
  BY <1>1, <1>21 DEF AnswerStep, BeginAnswer, SendAnswer, SendCancelled, SendBreaks, EndAnswer,
                     Expire, PiExpires, Terminate, TypeOK, ClientType
<1>22. CASE UNCHANGED vars
  BY <1>1, <1>22
<1>23. Command # {}
  BY DEF Command
<1> QED
  BY <1>3, <1>4, <1>5, <1>6, <1>8, <1>9, <1>10, <1>11, <1>12, <1>13, <1>14, <1>15, <1>16, <1>17,
     <1>18, <1>19, <1>20, <1>21, <1>22, <1>23 DEF Next, PiStep, DrainStep, StopStep

\* No step puts a question back into a terminated store.
LEMMA NoQuestionStep == TypeOK /\ SessionInv /\ [Next]_vars => TerminatedHasNoQuestions'
<1> SUFFICES ASSUME TypeOK, SessionInv, [Next]_vars PROVE TerminatedHasNoQuestions'
  OBVIOUS
<1> USE DEF SessionInv, TerminatedHasNoQuestions
<1>1. ASSUME UNCHANGED <<store, terminated>> PROVE TerminatedHasNoQuestions'
  BY <1>1
<1>2. ASSUME store' = CancelPending PROVE TerminatedHasNoQuestions'
  BY <1>2 DEF CancelPending
<1>3. ASSUME NEW c \in Caller, CallStep(c) PROVE TerminatedHasNoQuestions'
  BY <1>1, <1>2, <1>3 DEF CallStep, CallFails, PromptReturns, AbortReturns, StateReturns, Ready,
       FailSession, FailClient, FailReturns, Clear
<1>4. CASE DrainStep
  <2>1. CASE Deliver
    BY <2>1 DEF Deliver, Questions, CancelPending
  <2> QED
    BY <1>1, <1>2, <1>4, <2>1 DEF DrainStep, Reconcile, EventsEnd, DrainReturns, Clear
<1>5. ASSUME NEW q \in Question, AnswerStep(q) \/ Expire(q) \/ PiExpires(q) \/ PiAsks(q)
      PROVE  TerminatedHasNoQuestions'
  BY <1>1, <1>5 DEF AnswerStep, BeginAnswer, SendAnswer, SendCancelled, SendBreaks, EndAnswer,
                    Expire, PiExpires, PiAsks, TypeOK
<1>6. CASE CompleteHandoff \/ StopBegins \/ StopStep \/ PiStarts \/ PiEnds \/ ReadFails
           \/ UNCHANGED vars
  BY <1>1, <1>2, <1>6 DEF CompleteHandoff, StopBegins, StopStep, StopMarks, StopCloses, StopJoins,
       StopReturns, PiStarts, PiEnds, ReadFails, Clear
<1>7. ASSUME NEW c \in Caller, NEW command \in Command,
             PiResponds(c) \/ Write(c) \/ WriteBreaks(c) \/ Cancel(c) \/ Begin(c, command)
      PROVE  TerminatedHasNoQuestions'
  BY <1>1, <1>7 DEF PiResponds, Write, WriteBreaks, Cancel, Begin
<1>8. Command # {}
  BY DEF Command
<1> QED
  BY <1>3, <1>4, <1>5, <1>6, <1>7, <1>8 DEF Next, PiStep

\* Client, mailbox, drain, store and stop agree about the end of the session in every
\* reachable state (client.go terminate and readLoop, mailbox.go, local.go StopRPC).
THEOREM SessionInvariant == Spec => []SessionInv
<1>1. TypeOK /\ SessionInv /\ [Next]_vars => SessionInv'
  BY ClientStep, DrainInvStep, StopInvStep, NoQuestionStep DEF SessionInv
<1> QED
  BY <1>1, SessionInit, TypeCorrect, PTL DEF Spec

\* A call that waits for its response is known to an open client: no response and no
\* loss of the transport can pass it by (client.go CallWithSequence, terminate).
THEOREM WaiterAlwaysHasSource == Spec => []WaiterHasSource
<1>1. SessionInv => WaiterHasSource
  BY DEF SessionInv, ClientInv, WaiterHasSource
<1> QED
  BY <1>1, SessionInvariant, PTL

\* A terminated store never offers a question again (questions.go Clear, Retain, Answer).
THEOREM NoQuestionAfterTermination == Spec => []TerminatedHasNoQuestions
<1>1. SessionInv => TerminatedHasNoQuestions
  BY DEF SessionInv
<1> QED
  BY <1>1, SessionInvariant, PTL

\* When StopRPC has returned, the session is stopped and nothing is left running or
\* offered (local.go StopRPC).
THEOREM StopIsFinal == Spec => []StopSettles
<1>1. SessionInv => StopSettles
  BY DEF SessionInv, StopInv, TerminatedHasNoQuestions, StopSettles
<1> QED
  BY <1>1, SessionInvariant, PTL

\* When the drain has ended, the session is in none of its live states, nor is it
\* revived by a response still under way (local.go handleRPCTermination).
THEOREM LossFailsSession == Spec => []LossIsFailure
<1>1. SessionInv => LossIsFailure
  BY DEF SessionInv, DrainInv, LossIsFailure
<1> QED
  BY <1>1, SessionInvariant, PTL
-----------------------------------------------------------------------------
(* A session whose transport is open: what the order of the transport says *)

\* The events that wait in the mailbox, those of them that end a dialog, and the activity
\* that is still to be reconciled.
Queued == {box.queue[i] : i \in DOMAIN box.queue}

Ending == {e \in Queued : e.type \in {"agent_end", "agent_settled"}}

Due == {e \in Queued : e.type \in {"agent_start", "agent_settled"}}
           \cup (IF drain.pc = "reconciling" THEN {drain.event} ELSE {})

\* Events are queued and reconciled in the order of the transport, which is where
\* every position comes from.
OrderInv ==
    /\ \A i, j \in DOMAIN box.queue : i < j => box.queue[i].seq < box.queue[j].seq
    /\ \A e \in Queued \cup Due : session.activitySeq < e.seq /\ e.seq <= client.seq
    /\ drain.pc = "reconciling" => \A e \in Queued : drain.event.seq < e.seq
    /\ session.activitySeq <= client.seq /\ session.responseSeq <= client.seq
    /\ \A c \in Caller : call[c].result.seq <= client.seq

\* The call has its response and has not acted on it.
Accepted(c) == call[c].pc = "waiting" /\ call[c].result.status = "accepted"

\* A response is that of the call's own command, which Pi has noted; bind asks once.
CommandInv ==
    /\ \A m \in inbox : /\ call[m.caller].pc = "waiting" => call[m.caller].command = m.command
                        /\ m.caller = Binder => m.command = "get_state" /\ pi.first # "bind"
    /\ \A c \in Caller :
          /\ Accepted(c) /\ call[c].command = "abort" => pi.aborted
          /\ Accepted(c) /\ call[c].command = "prompt" => pi.first # "none"
          /\ call[c].pc = "readying" => c = Binder
    /\ call[Binder].command = "get_state"
    /\ call[Binder].pc \in {"idle", "queued"} => pi.first # "bind"
    /\ session.bound => call[Binder].pc \in {"readying", "returned"}
    /\ session.bound /\ call[Binder].pc = "returned" => session.state # "starting"
    /\ session.state \in {"ready", "running", "awaiting_handoff"} => call[Binder].pc = "returned"

\* One dialog, while nothing but events and answers touches the store: its event is
\* queued once and before anything else is known of it; a dialog that waits is on its
\* way or in the store, with no end behind it; and one in the store waits, has been
\* answered, or ends when the drain comes to it.
DialogInv(q) ==
    /\ q \in asked \/ store[q] # "absent" \/ answer[q] # "idle" => q \in pi.opened
    /\ \A e \in Queued : q \in e.dialogs =>
          /\ q \in pi.opened /\ e.type = "extension_ui_request"
          /\ store[q] = "absent" /\ answer[q] = "idle"
          /\ \A f \in Queued : q \in f.dialogs => f = e
          /\ q \in asked \cup pi.timed \/ \E f \in Ending : e.seq < f.seq
    /\ answer[q] # "idle" => store[q] # "offered"
    /\ answer[q] = "sent" => q \notin asked
    /\ q \in asked \ pi.timed =>
          \/ store[q] # "absent" /\ Ending = {}
          \/ \E e \in Queued : q \in e.dialogs /\ \A f \in Ending : f.seq < e.seq
    /\ q \notin pi.timed /\ store[q] # "absent" =>
          q \in asked \/ Ending # {} \/ answer[q] = "sent"

QuestionsInv ==
    ~client.closed /\ ~pi.aborted /\ ~terminated => \A q \in Question : DialogInv(q)

\* What the last record of activity said.
LastType == IF pi.streaming THEN "agent_start" ELSE "agent_settled"

\* The last record of activity was the n-th of the transport.
LastActivity(n) ==
    /\ \A e \in Due : e.seq <= n
    /\ \/ Due = {} /\ session.activitySeq = n /\ session.activity = LastType
       \/ \E e \in Due : e.seq = n /\ e.type = LastType

\* The record is still to be reconciled and no response has overtaken it.
Decides(n) == session.activitySeq < n /\ session.responseSeq < n

\* A lifecycle that does not show what Pi does will when the last activity is reconciled; what
\* a response has yet to do to it agrees with the activity since.
Follows(n) ==
    /\ pi.streaming /\ session.state \in {"ready", "awaiting_handoff"} => Decides(n)
    /\ ~pi.streaming /\ ~pi.owed /\ session.state = "running" => Decides(n)
    /\ \A c \in Caller : Accepted(c) /\ call[c].command = "prompt" =>
          /\ ~pi.streaming /\ ~pi.owed => call[c].result.seq < n /\ session.responseSeq < n
          /\ Accepted(Binder) \/ call[Binder].pc = "readying" =>
                call[Binder].result.seq < call[c].result.seq
    /\ Accepted(Binder) \/ call[Binder].pc = "readying" =>
          \/ call[Binder].result.seq < n
          \/ call[Binder].result.streaming = pi.streaming

LifecycleInv ==
    ~client.closed /\ pi.first # "prompt" =>
        \E n \in 0..client.seq : LastActivity(n) /\ Follows(n)

\* Events, responses and answers agree about the order of the transport; this is the
\* invariant behind the properties of a session whose transport is open.
TransportInv == OrderInv /\ CommandInv /\ QuestionsInv /\ LifecycleInv

-----------------------------------------------------------------------------
(* The queue as a set: positions say everything about its order *)

\* What is queued and what is due are events.
LEMMA QueuedIsTyped ==
    ASSUME TypeOK
    PROVE  /\ Queued \subseteq Event /\ Due \subseteq Event /\ Ending \subseteq Queued
           /\ \A e \in Event : e.seq \in Nat /\ e.type \in EventType /\ e.dialogs \subseteq Question
           /\ client.seq \in Nat /\ session.activitySeq \in Nat /\ session.responseSeq \in Nat
           /\ \A c \in Caller : call[c].result.seq \in Nat
           /\ drain.event \in Event /\ box.queue \in Seq(Event)
<1>1. box.queue \in Seq(Event) /\ drain.event \in Event
  BY DEF TypeOK, BoxType, DrainType
<1>2. Queued \subseteq Event
  BY <1>1 DEF Queued
<1>3. client.seq \in Nat /\ session.activitySeq \in Nat /\ session.responseSeq \in Nat
  BY DEF TypeOK, ClientType, SessionType
<1>4. \A c \in Caller : call[c].result.seq \in Nat
  BY DEF TypeOK, CallType, Result
<1>5. \A e \in Event : e.seq \in Nat /\ e.type \in EventType /\ e.dialogs \subseteq Question
  BY DEF Event
<1> QED
  BY <1>1, <1>2, <1>3, <1>4, <1>5 DEF Due, Ending

\* A record that fits is queued behind the others.
LEMMA QueueGrows ==
    ASSUME TypeOK, OrderInv, NEW e \in Event, e.seq = client.seq + 1,
           box'.queue = Append(box.queue, e)
    PROVE  /\ Queued' = Queued \cup {e}
           /\ \A i, j \in DOMAIN box'.queue : i < j => box'.queue[i].seq < box'.queue[j].seq
<1> DEFINE q == box.queue
<1>1. q \in Seq(Event) /\ client.seq \in Nat
  BY QueuedIsTyped
<1>2. /\ Len(q) \in Nat /\ DOMAIN q = 1..Len(q)
      /\ DOMAIN box'.queue = 1..(Len(q) + 1)
      /\ \A i \in 1..Len(q) : box'.queue[i] = q[i]
      /\ box'.queue[Len(q) + 1] = e
  BY <1>1
<1>3. \A i \in 1..Len(q) : q[i].seq <= client.seq /\ q[i].seq \in Nat
  BY <1>2, QueuedIsTyped DEF OrderInv, Queued
<1>4. \A i, j \in 1..Len(q) : i < j => q[i].seq < q[j].seq
  BY <1>2 DEF OrderInv
<1> HIDE DEF q
<1>5. ASSUME NEW i \in DOMAIN box'.queue, NEW j \in DOMAIN box'.queue, i < j
      PROVE  box'.queue[i].seq < box'.queue[j].seq
  <2>1. i \in 1..Len(q)
    BY <1>2, <1>5
  <2>2. CASE j \in 1..Len(q)
    BY <1>2, <1>4, <1>5, <2>1, <2>2
  <2>3. CASE j = Len(q) + 1
    BY <1>1, <1>2, <1>3, <2>1, <2>3
  <2> QED
    BY <1>2, <2>2, <2>3
<1>6. Queued = {q[i] : i \in 1..Len(q)}
  BY <1>2 DEF Queued, q
<1>7. Queued' = {box'.queue[i] : i \in 1..(Len(q) + 1)}
  BY <1>2 DEF Queued
<1>8. 1..(Len(q) + 1) = 1..Len(q) \cup {Len(q) + 1}
  BY <1>2
<1>9. Queued' = Queued \cup {e}
  BY <1>2, <1>6, <1>7, <1>8
<1> QED
  BY <1>5, <1>9

\* The head of the queue comes before all the rest of it.
LEMMA QueueShrinks ==
    ASSUME TypeOK, OrderInv, box.queue # <<>>, box'.queue = Tail(box.queue)
    PROVE  /\ Head(box.queue) \in Queued /\ Queued' = Queued \ {Head(box.queue)}
           /\ \A e \in Queued' : Head(box.queue).seq < e.seq
           /\ \A i, j \in DOMAIN box'.queue : i < j => box'.queue[i].seq < box'.queue[j].seq
<1> DEFINE q == box.queue
<1>1. q \in Seq(Event) /\ q # <<>>
  BY QueuedIsTyped
<1>2. /\ Len(q) \in Nat /\ Len(q) > 0 /\ DOMAIN q = 1..Len(q) /\ Head(q) = q[1]
      /\ DOMAIN box'.queue = 1..(Len(q) - 1)
      /\ \A i \in 1..(Len(q) - 1) : box'.queue[i] = q[i + 1]
  BY <1>1
<1>3. \A i \in 1..Len(q) : q[i].seq \in Nat
  BY <1>2, QueuedIsTyped DEF Queued
<1>4. \A i, j \in 1..Len(q) : i < j => q[i].seq < q[j].seq
  BY <1>2 DEF OrderInv
<1>5. Queued = {q[i] : i \in 1..Len(q)}
  BY <1>2 DEF Queued
<1> HIDE DEF q
<1>6. \A i \in 1..(Len(q) - 1) : i + 1 \in 1..Len(q) /\ i + 1 > 1
  BY <1>2
<1>7. \A i \in 2..Len(q) : i - 1 \in 1..(Len(q) - 1) /\ (i - 1) + 1 = i
  BY <1>2
<1>8. Queued' = {box'.queue[i] : i \in 1..(Len(q) - 1)}
  BY <1>2 DEF Queued
<1>9. Queued' = {q[i] : i \in 2..Len(q)}
  <2>1. ASSUME NEW x \in Queued' PROVE x \in {q[i] : i \in 2..Len(q)}
    <3>1. PICK i \in 1..(Len(q) - 1) : x = q[i + 1]
      BY <1>2, <1>8, <2>1
    <3>2. i + 1 \in 2..Len(q)
      BY <1>2
    <3> QED
      BY <3>1, <3>2
  <2>2. ASSUME NEW i \in 2..Len(q) PROVE q[i] \in Queued'
    <3>1. i - 1 \in 1..(Len(q) - 1) /\ (i - 1) + 1 = i
      BY <1>7
    <3>2. box'.queue[i - 1] = q[i]
      BY <1>2, <3>1
    <3> QED
      BY <1>8, <3>1, <3>2
  <2> QED
    BY <2>1, <2>2
<1>10. 1 \in 1..Len(q) /\ \A i \in 2..Len(q) : i \in 1..Len(q) /\ 1 < i /\ q[1].seq < q[i].seq
  BY <1>2, <1>4
<1>11. \A e \in Queued' : q[1].seq < e.seq /\ e # q[1]
  <2>1. \A i \in 2..Len(q) : q[1].seq < q[i].seq /\ q[i] # q[1]
    BY <1>3, <1>10
  <2> QED
    BY <1>9, <2>1
<1>12. 1..Len(q) = {1} \cup 2..Len(q)
  BY <1>2
<1>13. Queued = {q[1]} \cup Queued'
  BY <1>5, <1>9, <1>12
<1>14. ASSUME NEW i \in DOMAIN box'.queue, NEW j \in DOMAIN box'.queue, i < j
       PROVE  box'.queue[i].seq < box'.queue[j].seq
  <2>1. i + 1 \in 1..Len(q) /\ j + 1 \in 1..Len(q) /\ i + 1 < j + 1
    BY <1>2, <1>14
  <2> QED
    BY <1>2, <1>4, <1>14, <2>1
<1> QED
  BY <1>2, <1>11, <1>13, <1>14 DEF q

\* What a read does to the queue and to the position, whether the record fits or not.
LEMMA ReceiveOutcome ==
    ASSUME TypeOK, NEW type \in EventType, NEW dialogs \in SUBSET Question, Receive(type, dialogs)
    PROVE  LET event == [type |-> type, seq |-> client.seq + 1, dialogs |-> dialogs] IN
           /\ event \in Event
           /\ client'.seq = client.seq + 1
           /\ \/ /\ Fits /\ box'.queue = Append(box.queue, event)
                 /\ UNCHANGED <<pending, call, client.closed>>
              \/ /\ box'.queue = box.queue /\ client'.closed
                 /\ \A c \in Caller : /\ call'[c].pc = call[c].pc
                                      /\ call'[c].command = call[c].command
                                      /\ call'[c].result.seq = call[c].result.seq
                                      /\ call'[c].result.status \in {call[c].result.status, "failed"}
<1> DEFINE event == [type |-> type, seq |-> client.seq + 1, dialogs |-> dialogs]
<1>0. client.seq + 1 \in Nat
  BY QueuedIsTyped
<1>1. event \in Event
  BY <1>0, EventsAreTyped, Zenon
<1>2. CASE Fits
  BY <1>1, <1>2 DEF Receive, TypeOK, ClientType, BoxType
<1>3. CASE ~Fits
  <2>1. box' = Drained(box) /\ call' = Fail(call)
        /\ client' = [client EXCEPT !.seq = @ + 1, !.reading = FALSE, !.closed = TRUE]
    BY <1>3 DEF Receive
  <2>2. box'.queue = box.queue
    BY <2>1 DEF Drained, TypeOK, BoxType
  <2>3. client'.closed /\ client'.seq = client.seq + 1
    BY <2>1 DEF TypeOK, ClientType
  <2>4. \A c \in Caller : /\ call'[c].pc = call[c].pc
                          /\ call'[c].command = call[c].command
                          /\ call'[c].result.seq = call[c].result.seq
                          /\ call'[c].result.status \in {call[c].result.status, "failed"}
    BY <2>1 DEF Fail, TypeOK, CallType, Result
  <2> QED
    BY <1>1, <2>2, <2>3, <2>4
<1> QED
  BY <1>2, <1>3

\* What terminate does to the calls it is given.
LEMMA TerminateOutcome ==
    ASSUME TypeOK, NEW calls \in CallType, Terminate(calls)
    PROVE  /\ client'.closed /\ client'.seq = client.seq
           /\ \A c \in Caller : /\ call'[c].pc = calls[c].pc
                                /\ call'[c].command = calls[c].command
                                /\ call'[c].result.seq = calls[c].result.seq
                                /\ call'[c].result.status \in {calls[c].result.status, "failed"}
<1>1. client'.closed /\ client'.seq = client.seq
  BY DEF Terminate, TypeOK, ClientType
<1> QED
  BY <1>1 DEF Terminate, Fail, CallType, Result

\* What a call that moves or ends keeps.
LEMMA MoveOutcome ==
    ASSUME TypeOK, NEW c \in Caller
    PROVE  /\ \A d \in Caller \ {c} : Returned(c)[d] = call[d]
           /\ Returned(c)[c].pc = "returned" /\ Returned(c)[c].command = "get_state"
           /\ Returned(c)[c].result.seq = 0
           /\ \A pc \in CallPC :
                 /\ \A d \in Caller \ {c} : At(c, pc)[d] = call[d]
                 /\ At(c, pc)[c].pc = pc /\ At(c, pc)[c].command = call[c].command
                 /\ At(c, pc)[c].result = call[c].result
BY DEF Returned, At, Idle, NoResult, TypeOK, CallType

\* What the moves of the lifecycle change, and what they leave alone.
LEMMA SessionMoves ==
    ASSUME NEW s \in SessionType
    PROVE  /\ \A t \in {MarkRunning(s), Failed(s), ApplyActivity(s, "agent_start"),
                         ApplyActivity(s, "agent_settled")} :
                 /\ t.kind = s.kind /\ t.bound = s.bound /\ t.responseSeq = s.responseSeq
                 /\ t.activitySeq = s.activitySeq /\ t.activity = s.activity
           /\ Failed(s).state = IF s.state \in Live THEN "failed" ELSE s.state
           /\ MarkRunning(s).state = IF s.state \in {"ready", "awaiting_handoff"} THEN "running" ELSE s.state
           /\ ApplyActivity(s, "agent_start") = MarkRunning(s)
           /\ ApplyActivity(s, "agent_settled").state =
                 IF s.state = "running" \/ (s.state = "ready" /\ s.kind # "root")
                 THEN IF s.kind = "root" THEN "ready"
                      ELSE IF s.kind = "read" THEN "completed" ELSE "awaiting_handoff"
                 ELSE s.state
<1>1. s.kind \in {"root", "read", "write"}
  BY SessionAssumption DEF SessionType
<1>2. /\ ApplyActivity(s, "agent_start") = MarkRunning(s)
      /\ ApplyActivity(s, "agent_settled") =
            IF s.state = "running" \/ (s.state = "ready" /\ s.kind # "root") THEN Settled(s) ELSE s
  BY DEF ApplyActivity
<1>3. \A t \in {MarkRunning(s), Failed(s), Settled(s)} :
         /\ t.kind = s.kind /\ t.bound = s.bound /\ t.responseSeq = s.responseSeq
         /\ t.activitySeq = s.activitySeq /\ t.activity = s.activity
  BY DEF MarkRunning, Failed, Settled, SessionType
<1>4. /\ Failed(s).state = IF s.state \in Live THEN "failed" ELSE s.state
      /\ MarkRunning(s).state = IF s.state \in {"ready", "awaiting_handoff"} THEN "running" ELSE s.state
  BY DEF MarkRunning, Failed, SessionType
<1>5. Settled(s).state = IF s.kind = "root" THEN "ready"
                         ELSE IF s.kind = "read" THEN "completed" ELSE "awaiting_handoff"
  BY <1>1 DEF Settled, SessionType
<1> QED
  BY <1>2, <1>3, <1>4, <1>5

-----------------------------------------------------------------------------
(* The order of the transport *)

\* Everything is in order at the start.
LEMMA OrderInit == Init => OrderInv
<1> SUFFICES ASSUME Init PROVE OrderInv
  OBVIOUS
<1>1. box.queue = <<>> /\ DOMAIN box.queue = {} /\ drain.pc = "receiving"
  BY DEF Init
<1>2. Queued = {} /\ Due = {}
  BY <1>1 DEF Queued, Due
<1>3. \A c \in Caller : call[c].result.seq = 0
  BY DEF Init, Idle, NoResult
<1>4. client.seq = 0 /\ session.activitySeq = 0 /\ session.responseSeq = 0
  BY DEF Init
<1> QED
  BY <1>1, <1>2, <1>3, <1>4 DEF OrderInv

\* A step that leaves queue and drain alone.
LEMMA OrderKept ==
    ASSUME TypeOK, TypeOK', OrderInv, box'.queue = box.queue, UNCHANGED <<drain, session.activitySeq>>,
           client.seq <= client'.seq, session'.responseSeq <= client'.seq,
           \A c \in Caller : call'[c].result.seq \in {0, call[c].result.seq, client'.seq}
    PROVE  OrderInv'
<1>1. Queued' = Queued /\ Due' = Due /\ DOMAIN box'.queue = DOMAIN box.queue
  BY DEF Queued, Due
<1>2. /\ client.seq \in Nat /\ client'.seq \in Nat /\ session.activitySeq \in Nat
      /\ \A e \in Queued \cup Due : e.seq \in Nat
      /\ \A c \in Caller : call[c].result.seq \in Nat /\ call'[c].result.seq \in Nat
  BY QueuedIsTyped DEF TypeOK, ClientType, CallType, Result
<1>3. \A e \in Queued' \cup Due' : session'.activitySeq < e.seq /\ e.seq <= client'.seq
  BY <1>1, <1>2 DEF OrderInv
<1>4. \A c \in Caller : call'[c].result.seq <= client'.seq
  BY <1>2 DEF OrderInv
<1>5. session'.activitySeq <= client'.seq /\ session'.responseSeq <= client'.seq
  BY <1>2 DEF OrderInv
<1>6. drain'.pc = "reconciling" => \A e \in Queued' : drain'.event.seq < e.seq
  BY <1>1 DEF OrderInv
<1>7. \A i, j \in DOMAIN box'.queue : i < j => box'.queue[i].seq < box'.queue[j].seq
  BY DEF OrderInv
<1> QED
  BY <1>3, <1>4, <1>5, <1>6, <1>7 DEF OrderInv

\* Reading a record.
LEMMA OrderReceived ==
    ASSUME TypeOK, TypeOK', OrderInv, NEW type \in EventType, NEW dialogs \in SUBSET Question,
           Receive(type, dialogs), UNCHANGED <<drain, session>>
    PROVE  OrderInv'
<1> DEFINE event == [type |-> type, seq |-> client.seq + 1, dialogs |-> dialogs]
<1>1. /\ client.seq \in Nat /\ session.activitySeq \in Nat /\ session.responseSeq \in Nat
      /\ \A e \in Queued \cup Due : e.seq \in Nat
      /\ \A c \in Caller : call[c].result.seq \in Nat
  BY QueuedIsTyped
<1>2. event \in Event /\ event.seq = client.seq + 1 /\ client'.seq = client.seq + 1
  BY ReceiveOutcome
<1>3. CASE box'.queue = Append(box.queue, event) /\ UNCHANGED call
  <2>1. /\ Queued' = Queued \cup {event}
        /\ \A i, j \in DOMAIN box'.queue : i < j => box'.queue[i].seq < box'.queue[j].seq
    BY <1>2, <1>3, QueueGrows
  <2>2. Due' \subseteq Due \cup {event}
    BY <2>1 DEF Due
  <2>3. \A e \in Queued \cup Due : session.activitySeq < e.seq /\ e.seq <= client.seq
    BY DEF OrderInv
  <2>4. session.activitySeq <= client.seq /\ session.responseSeq <= client.seq
        /\ \A c \in Caller : call[c].result.seq <= client.seq
    BY DEF OrderInv
  <2> HIDE DEF event
  <2>5. \A e \in Queued' \cup Due' : session.activitySeq < e.seq /\ e.seq <= client'.seq
    BY <1>1, <1>2, <2>1, <2>2, <2>3, <2>4
  <2>6. drain.pc = "reconciling" => drain.event \in Due /\ \A e \in Queued : drain.event.seq < e.seq
    BY DEF OrderInv, Due
  <2>7. drain.pc = "reconciling" => \A e \in Queued' : drain.event.seq < e.seq
    BY <1>1, <1>2, <2>1, <2>3, <2>6
  <2>8. session.activitySeq <= client'.seq /\ session.responseSeq <= client'.seq
        /\ \A c \in Caller : call[c].result.seq <= client'.seq
    BY <1>1, <1>2, <2>4
  <2> QED
    BY <1>3, <2>1, <2>5, <2>7, <2>8 DEF OrderInv
<1>4. CASE box'.queue = box.queue /\ \A c \in Caller : call'[c].result.seq = call[c].result.seq
  <2>1. client.seq <= client'.seq /\ session'.responseSeq <= client'.seq
    BY <1>1, <1>2 DEF OrderInv
  <2> QED
    BY <1>4, <2>1, OrderKept
<1> QED
  BY <1>3, <1>4, ReceiveOutcome

\* Every step keeps the order.
LEMMA OrderStep == TypeOK /\ TypeOK' /\ OrderInv /\ [Next]_vars => OrderInv'
<1> SUFFICES ASSUME TypeOK, TypeOK', OrderInv, [Next]_vars PROVE OrderInv'
  OBVIOUS
<1>0. /\ client.seq \in Nat /\ session.activitySeq \in Nat /\ session.responseSeq \in Nat
      /\ session.responseSeq <= client.seq /\ session.activitySeq <= client.seq
      /\ \A c \in Caller : call[c].result.seq \in Nat /\ call[c].result.seq <= client.seq
      /\ \A e \in Queued \cup Due : e.seq \in Nat
  BY QueuedIsTyped DEF OrderInv
<1>1. ASSUME UNCHANGED <<box.queue, drain, session.activitySeq, session.responseSeq, client.seq>>,
             \A c \in Caller : call'[c].result.seq \in {0, call[c].result.seq}
      PROVE  OrderInv'
  BY <1>0, <1>1, OrderKept
<1>2. CASE PiStarts \/ PiEnds
  BY <1>2, OrderReceived DEF PiStarts, PiEnds, EventType
<1>3. ASSUME NEW q \in Question, PiAsks(q) PROVE OrderInv'
  BY <1>3, OrderReceived DEF PiAsks, EventType
<1>4. ASSUME NEW c \in Caller, PiResponds(c) PROVE OrderInv'
  <2>1. CASE c \in pending
    <3>1. UNCHANGED <<box, drain, session>> /\ client'.seq = client.seq + 1
      BY <1>4, <2>1 DEF PiResponds, TypeOK, ClientType
    <3>2. \A d \in Caller : call'[d].result.seq \in {call[d].result.seq, client.seq + 1}
      BY <1>4, <2>1 DEF PiResponds, TypeOK, CallType
    <3>3. client.seq <= client'.seq /\ session'.responseSeq <= client'.seq
      BY <1>0, <3>1
    <3> QED
      BY <3>1, <3>2, <3>3, OrderKept
  <2>2. CASE c \notin pending
    BY <1>4, <2>2, OrderReceived DEF PiResponds, EventType
  <2> QED
    BY <2>1, <2>2
<1>5. CASE ReadFails
  <2>1. UNCHANGED <<box.queue, drain, session, client.seq>>
    BY <1>5 DEF ReadFails, Drained, TypeOK, BoxType, ClientType
  <2>2. \A c \in Caller : call'[c].result.seq = call[c].result.seq
    BY <1>5 DEF ReadFails, Fail, TypeOK, CallType, Result
  <2> QED
    BY <1>1, <2>1, <2>2
<1>6. ASSUME NEW c \in Caller, NEW command \in Command, Begin(c, command) PROVE OrderInv'
  <2>1. UNCHANGED <<box, drain, session, client>>
    BY <1>6 DEF Begin
  <2>2. \A d \in Caller : call'[d].result.seq \in {0, call[d].result.seq}
    BY <1>6, MoveOutcome DEF Begin, TypeOK, CallType
  <2> QED
    BY <1>1, <2>1, <2>2
<1>7. ASSUME NEW c \in Caller, Write(c) \/ Cancel(c) PROVE OrderInv'
  <2>1. UNCHANGED <<box, drain, session, client>>
    BY <1>7 DEF Write, Cancel
  <2>2. \A d \in Caller : call'[d].result.seq \in {0, call[d].result.seq}
    BY <1>7, MoveOutcome DEF Write, Cancel, CallPC
  <2> QED
    BY <1>1, <2>1, <2>2
<1>8. ASSUME NEW c \in Caller, WriteBreaks(c) PROVE OrderInv'
  <2>1. UNCHANGED <<box, drain, session>> /\ Terminate(Returned(c))
    BY <1>8 DEF WriteBreaks
  <2>2. Returned(c) \in CallType
    BY CallMoves DEF TypeOK
  <2>3. \A d \in Caller : Returned(c)[d].result.seq \in {0, call[d].result.seq}
    BY MoveOutcome
  <2>4. client'.seq = client.seq /\ \A d \in Caller : call'[d].result.seq = Returned(c)[d].result.seq
    BY <2>1, <2>2, TerminateOutcome
  <2> QED
    BY <1>1, <2>1, <2>3, <2>4
<1>9. ASSUME NEW q \in Question, SendBreaks(q) PROVE OrderInv'
  BY <1>1, <1>9, TerminateOutcome DEF SendBreaks, TypeOK
<1>10. ASSUME NEW c \in Caller,
              \/ CallFails(c) \/ AbortReturns(c) \/ StateReturns(c) \/ FailSession(c) \/ FailReturns(c)
       PROVE  OrderInv'
  <2>1. UNCHANGED <<box, drain, client, session.activitySeq, session.responseSeq>>
    BY <1>10 DEF CallFails, AbortReturns, StateReturns, FailSession, FailReturns, Failed, TypeOK,
                 SessionType
  <2>2. call' \in {Returned(c), At(c, "readying"), At(c, "failing"), At(c, "closing")}
    BY <1>10 DEF CallFails, AbortReturns, StateReturns, FailSession, FailReturns
  <2>3. \A d \in Caller : call'[d].result.seq \in {0, call[d].result.seq}
    BY <2>2, MoveOutcome DEF CallPC
  <2> QED
    BY <1>1, <2>1, <2>3
<1>11. ASSUME NEW c \in Caller, PromptReturns(c) PROVE OrderInv'
  <2>1. UNCHANGED <<box, drain, client>> /\ call' = Returned(c)
    BY <1>11 DEF PromptReturns
  <2>2. /\ session'.activitySeq = session.activitySeq
        /\ session'.responseSeq \in {session.responseSeq, call[c].result.seq}
    BY <1>11 DEF PromptReturns, MarkRunning, TypeOK, SessionType
  <2>3. session'.responseSeq <= client'.seq /\ client.seq <= client'.seq
    BY <1>0, <2>1, <2>2
  <2>4. \A d \in Caller : call'[d].result.seq \in {0, call[d].result.seq}
    BY <2>1, MoveOutcome
  <2> QED
    BY <2>1, <2>2, <2>3, <2>4, OrderKept
<1>12. ASSUME NEW c \in Caller, Ready(c) PROVE OrderInv'
  <2>1. UNCHANGED <<box, drain, client>> /\ call' = Returned(c)
    BY <1>12 DEF Ready
  <2>2. /\ session'.activitySeq = session.activitySeq
        /\ session'.responseSeq = call[c].result.seq
    BY <1>12 DEF Ready, ApplyActivity, MarkRunning, Settled, TypeOK, SessionType
  <2>3. session'.responseSeq <= client'.seq /\ client.seq <= client'.seq
    BY <1>0, <2>1, <2>2
  <2>4. \A d \in Caller : call'[d].result.seq \in {0, call[d].result.seq}
    BY <2>1, MoveOutcome
  <2> QED
    BY <2>1, <2>2, <2>3, <2>4, OrderKept
<1>13. CASE Deliver
  <2>1. /\ UNCHANGED <<client, call, session>> /\ box.queue # <<>> /\ box'.queue = Tail(box.queue)
        /\ drain.pc = "receiving"
        /\ drain' = [pc |-> "reconciling", event |-> Head(box.queue)] \/ drain' = drain
    BY <1>13 DEF Deliver, TypeOK, BoxType
  <2>2. /\ Head(box.queue) \in Queued /\ Queued' = Queued \ {Head(box.queue)}
        /\ \A e \in Queued' : Head(box.queue).seq < e.seq
        /\ \A i, j \in DOMAIN box'.queue : i < j => box'.queue[i].seq < box'.queue[j].seq
    BY <2>1, QueueShrinks
  <2>3. Queued' \cup Due' \subseteq Queued
    BY <2>1, <2>2 DEF Due
  <2>4. \A e \in Queued' \cup Due' : session'.activitySeq < e.seq /\ e.seq <= client'.seq
    BY <2>1, <2>3 DEF OrderInv
  <2> QED
    BY <1>0, <2>1, <2>2, <2>4 DEF OrderInv
<1>14. CASE Reconcile
  <2>1. /\ UNCHANGED <<client, call, box>> /\ drain'.pc = "receiving" /\ drain.pc = "reconciling"
        /\ drain.event \in Due
    BY <1>14 DEF Reconcile, Due
  <2>2. session.activitySeq < drain.event.seq /\ drain.event.seq <= client.seq
        /\ \A e \in Queued : drain.event.seq < e.seq
    BY <2>1 DEF OrderInv
  <2>3. session'.activitySeq = drain.event.seq /\ session'.responseSeq = session.responseSeq
    BY <1>14, <2>2 DEF Reconcile, ApplyActivity, MarkRunning, Settled, TypeOK, SessionType
  <2>4. Queued' = Queued /\ Due' \subseteq Queued
    BY <2>1 DEF Queued, Due
  <2>5. \A e \in Queued' \cup Due' : session'.activitySeq < e.seq /\ e.seq <= client'.seq
    BY <2>1, <2>2, <2>3, <2>4 DEF OrderInv
  <2> QED
    BY <1>0, <2>1, <2>2, <2>3, <2>5 DEF OrderInv
<1>15. CASE EventsEnd
  <2>1. /\ UNCHANGED <<client, call, box, session>> /\ drain'.pc = "failing"
    BY <1>15 DEF EventsEnd, TypeOK, DrainType
  <2>2. Queued' = Queued /\ Due' \subseteq Queued
    BY <2>1 DEF Queued, Due
  <2> QED
    BY <1>0, <2>1, <2>2 DEF OrderInv
<1>16. CASE DrainReturns
  <2>1. /\ UNCHANGED <<client, call, box, session.activitySeq, session.responseSeq>>
        /\ drain'.pc = "done"
    BY <1>16 DEF DrainReturns, Failed, TypeOK, DrainType, SessionType
  <2>2. Queued' = Queued /\ Due' \subseteq Queued
    BY <2>1 DEF Queued, Due
  <2> QED
    BY <1>0, <2>1, <2>2 DEF OrderInv
\* An aborted mailbox has nothing queued.
<1>17. ASSUME box'.queue = <<>>, UNCHANGED <<drain, session, client.seq>>,
              \A c \in Caller : call'[c].result.seq = call[c].result.seq
       PROVE  OrderInv'
  <2>1. DOMAIN box'.queue = {} /\ Queued' = {} /\ Due' \subseteq Due
    BY <1>17 DEF Queued, Due
  <2> QED
    BY <1>0, <1>17, <2>1 DEF OrderInv
<1>18. ASSUME NEW c \in Caller, FailClient(c) PROVE OrderInv'
  <2>1. box'.queue = <<>> /\ UNCHANGED <<drain, session>> /\ Terminate(At(c, "joining"))
    BY <1>18 DEF FailClient
  <2>2. At(c, "joining") \in CallType
    BY CallMoves DEF TypeOK, CallPC
  <2>3. \A d \in Caller : At(c, "joining")[d].result = call[d].result
    BY DEF At, TypeOK, CallType
  <2>4. client'.seq = client.seq
        /\ \A d \in Caller : call'[d].result.seq = At(c, "joining")[d].result.seq
    BY <2>1, <2>2, TerminateOutcome
  <2> QED
    BY <1>17, <2>1, <2>3, <2>4
<1>19. CASE StopCloses
  <2>1. box'.queue = <<>> /\ UNCHANGED <<drain, session>> /\ Terminate(call) /\ call \in CallType
    BY <1>19 DEF StopCloses, TypeOK
  <2> QED
    BY <1>17, <2>1, TerminateOutcome
<1>20. CASE CompleteHandoff \/ StopBegins \/ StopMarks \/ StopJoins \/ StopReturns
  <2>1. UNCHANGED <<client, call, box, drain, session.activitySeq, session.responseSeq>>
    BY <1>20 DEF CompleteHandoff, StopBegins, StopMarks, StopJoins, StopReturns, TypeOK, SessionType
  <2> QED
    BY <1>1, <2>1
<1>21. ASSUME NEW q \in Question,
              \/ BeginAnswer(q) \/ SendAnswer(q) \/ SendCancelled(q) \/ EndAnswer(q) \/ Expire(q)
              \/ PiExpires(q)
       PROVE  OrderInv'
  BY <1>1, <1>21 DEF BeginAnswer, SendAnswer, SendCancelled, EndAnswer, Expire, PiExpires
<1>22. CASE UNCHANGED vars
  BY <1>1, <1>22 DEF vars, clientVars
<1> QED
  BY <1>2, <1>3, <1>4, <1>5, <1>6, <1>7, <1>8, <1>9, <1>10, <1>11, <1>12, <1>13, <1>14, <1>15, <1>16,
     <1>18, <1>19, <1>20, <1>21, <1>22
     DEF Next, PiStep, CallStep, DrainStep, StopStep, AnswerStep
-----------------------------------------------------------------------------
(* Commands, responses and the binding *)

\* Nothing has been commanded at the start.
LEMMA CommandInit == Init => CommandInv
BY CallerIsTyped DEF Init, CommandInv, Accepted, Idle, NoResult

\* A step that writes no command, accepts none and does not complete the binding.
LEMMA CommandKept ==
    ASSUME TypeOK, TypeOK', CommandInv, inbox' \subseteq inbox, UNCHANGED pi,
           session'.bound = session.bound,
           \/ session'.state = session.state
           \/ session'.state \notin {"starting", "ready", "running", "awaiting_handoff"}
           \/ session.state \in {"ready", "running", "awaiting_handoff"} /\ session'.state # "starting",
           \A c \in Caller :
              \/ /\ call'[c].pc = call[c].pc /\ call'[c].command = call[c].command
                 /\ call'[c].result.status \in {call[c].result.status, "failed"}
              \/ /\ call[c].pc \notin {"readying", "returned"}
                 /\ call'[c].pc \in {"returned", "failing", "closing", "joining"}
                 /\ call'[c].command \in {call[c].command, "get_state"}
    PROVE  CommandInv'
<1>1. Binder \in Caller
  BY CallerIsTyped
<1>2. ASSUME NEW m \in inbox'
      PROVE  /\ call'[m.caller].pc = "waiting" => call'[m.caller].command = m.command
             /\ m.caller = Binder => m.command = "get_state" /\ pi'.first # "bind"
  <2>1. m \in inbox /\ m.caller \in Caller
    BY <1>2 DEF TypeOK
  <2> QED
    BY <2>1 DEF CommandInv
<1>3. \A c \in Caller : Accepted(c)' => Accepted(c) /\ call'[c].command = call[c].command
  BY DEF Accepted
<1>4. \A c \in Caller : call'[c].pc = "readying" => call[c].pc = "readying"
  OBVIOUS
<1>5. call'[Binder].command = "get_state"
  BY <1>1 DEF CommandInv
<1>6. call'[Binder].pc \in {"idle", "queued"} => call[Binder].pc \in {"idle", "queued"}
  BY <1>1
<1>7. session'.bound => call'[Binder].pc = call[Binder].pc
  BY <1>1 DEF CommandInv
<1>8. session.state \in {"ready", "running", "awaiting_handoff"} => call'[Binder].pc = "returned"
  BY <1>1 DEF CommandInv
<1> QED
  BY <1>2, <1>3, <1>4, <1>5, <1>6, <1>7, <1>8 DEF CommandInv

\* Every step keeps commands and responses together.
LEMMA CommandStep == TypeOK /\ TypeOK' /\ SessionInv /\ CommandInv /\ [Next]_vars => CommandInv'
<1> SUFFICES ASSUME TypeOK, TypeOK', SessionInv, CommandInv, [Next]_vars PROVE CommandInv'
  OBVIOUS
<1>0. Binder \in Caller
  BY CallerIsTyped
<1>1. ASSUME UNCHANGED <<pi, inbox, session>>,
             \A c \in Caller : /\ call'[c].pc = call[c].pc /\ call'[c].command = call[c].command
                               /\ call'[c].result.status \in {call[c].result.status, "failed"}
      PROVE  CommandInv'
  BY <1>1, CommandKept
\* A read that is no response changes what Pi does, but neither what it has accepted
\* first nor whether it has aborted.
<1>2. ASSUME pi'.first = pi.first, pi'.aborted = pi.aborted, UNCHANGED <<inbox, session>>,
             NEW type \in EventType, NEW dialogs \in SUBSET Question, Receive(type, dialogs)
      PROVE  CommandInv'
  <2>1. \A c \in Caller : /\ call'[c].pc = call[c].pc /\ call'[c].command = call[c].command
                          /\ call'[c].result.status \in {call[c].result.status, "failed"}
    BY <1>2, ReceiveOutcome
  <2>2. \A c \in Caller : Accepted(c)' => Accepted(c)
    BY <2>1 DEF Accepted
  <2>3. \A m \in inbox : m.caller \in Caller
    BY DEF TypeOK
  <2> QED
    BY <1>0, <1>2, <2>1, <2>2, <2>3 DEF CommandInv
<1>3. CASE PiStarts
  <2>1. pi'.first = pi.first /\ pi'.aborted = pi.aborted
    BY <1>3 DEF PiStarts, TypeOK, PiType
  <2> QED
    BY <1>2, <1>3, <2>1 DEF PiStarts, EventType
<1>4. CASE PiEnds
  <2>1. pi'.first = pi.first /\ pi'.aborted = pi.aborted
    BY <1>4 DEF PiEnds, TypeOK, PiType
  <2> QED
    BY <1>2, <1>4, <2>1 DEF PiEnds, EventType
<1>5. ASSUME NEW q \in Question, PiAsks(q) PROVE CommandInv'
  <2>1. pi'.first = pi.first /\ pi'.aborted = pi.aborted
    BY <1>5 DEF PiAsks, TypeOK, PiType
  <2> QED
    BY <1>2, <1>5, <2>1 DEF PiAsks, EventType
<1>6. ASSUME NEW c \in Caller, PiResponds(c) PROVE CommandInv'
  <2>1. PICK m \in inbox : m.caller = c /\ inbox' = inbox \ {m} /\ Accept(c, m.command)
    BY <1>6 DEF PiResponds
  <2>2. /\ m \in [caller : Caller, command : Command]
        /\ \A n \in inbox : n \in [caller : Caller, command : Command]
    BY DEF TypeOK
  <2>3. /\ pi'.first = IF pi.first # "none" THEN pi.first
                       ELSE IF m.command = "prompt" THEN "prompt"
                       ELSE IF c = Binder THEN "bind" ELSE pi.first
        /\ pi'.aborted = (pi.aborted \/ m.command = "abort")
    BY <2>1 DEF Accept, TypeOK, PiType
  <2>4. \A d \in Caller : /\ call'[d].pc = call[d].pc /\ call'[d].command = call[d].command
                          /\ d # c => call'[d].result.status \in {call[d].result.status, "failed"}
                          /\ c \notin pending => call'[d].result.status \in {call[d].result.status, "failed"}
    <3>1. CASE c \in pending
      BY <1>6, <3>1 DEF PiResponds, TypeOK, CallType
    <3>2. CASE c \notin pending
      BY <1>6, <3>2, ReceiveOutcome DEF PiResponds, EventType
    <3> QED
      BY <3>1, <3>2
  <2>5. call[c].pc \notin {"idle", "queued"}
    BY <2>1 DEF SessionInv, ClientInv
  <2>6. UNCHANGED session
    BY <1>6 DEF PiResponds
  <2>7. call[c].pc = "waiting" => call[c].command = m.command
    BY <2>1 DEF CommandInv
  <2>8. ASSUME NEW n \in inbox', n.caller = Binder
        PROVE  n.command = "get_state" /\ pi'.first # "bind"
    <3>1. n \in inbox /\ n # m
      BY <2>1, <2>8
    <3>2. n.command = "get_state" /\ pi.first # "bind"
      BY <2>8, <3>1 DEF CommandInv
    <3>3. c = Binder => m.command = "get_state"
      BY <2>1 DEF CommandInv
    <3>4. c # Binder
      BY <2>1, <2>2, <2>8, <3>1, <3>2, <3>3
    <3> QED
      BY <2>3, <3>2, <3>4
  <2>9. ASSUME NEW d \in Caller, Accepted(d)'
        PROVE  /\ call'[d].command = "abort" => pi'.aborted
               /\ call'[d].command = "prompt" => pi'.first # "none"
    <3>1. CASE Accepted(d)
      BY <2>3, <2>4, <3>1 DEF CommandInv
    <3>2. CASE ~Accepted(d)
      <4>1. d = c /\ call[c].pc = "waiting"
        BY <2>4, <2>9, <3>2 DEF Accepted
      <4>2. call'[d].command = m.command
        BY <2>4, <2>7, <4>1
      <4> QED
        BY <2>3, <4>2
    <3> QED
      BY <3>1, <3>2
  <2>10. \A n \in inbox' : call'[n.caller].pc = "waiting" => call'[n.caller].command = n.command
    BY <2>1, <2>2, <2>4 DEF CommandInv
  <2>11. call'[Binder].pc \in {"idle", "queued"} => pi'.first # "bind"
    BY <1>0, <2>3, <2>4, <2>5 DEF CommandInv
  <2> QED
    BY <1>0, <2>4, <2>6, <2>8, <2>9, <2>10, <2>11 DEF CommandInv
<1>7. CASE ReadFails
  BY <1>1, <1>7 DEF ReadFails, Fail, TypeOK, CallType, Result, piVars
<1>8. ASSUME NEW c \in Caller, NEW command \in Command, Begin(c, command) PROVE CommandInv'
  <2>1. call[c].pc = "idle" /\ (c = Binder => command = "get_state") /\ UNCHANGED <<pi, inbox, session>>
    BY <1>8 DEF Begin, piVars
  <2>2. CASE client.closed
    <3>1. call' = Returned(c)
      BY <1>8, <2>2 DEF Begin
    <3> QED
      BY <2>1, <3>1, MoveOutcome, CommandKept
  <2>3. CASE ~client.closed
    <3>1. /\ call'[c].pc = "queued" /\ call'[c].command = command
          /\ \A d \in Caller \ {c} : call'[d] = call[d]
      BY <1>8, <2>3 DEF Begin, TypeOK, CallType
    <3>2. \A d \in Caller : Accepted(d)' => d # c /\ Accepted(d)
      BY <3>1 DEF Accepted
    <3>3. \A m \in inbox : m.caller # c /\ m.caller \in Caller
      BY <2>1 DEF SessionInv, ClientInv, TypeOK
    <3>4. c = Binder => pi.first # "bind" /\ ~session.bound
                        /\ session.state \notin {"ready", "running", "awaiting_handoff"}
      BY <2>1 DEF CommandInv
    <3>5. \A m \in inbox' : /\ call'[m.caller].pc = "waiting" => call'[m.caller].command = m.command
                            /\ m.caller = Binder => m.command = "get_state" /\ pi'.first # "bind"
      BY <2>1, <3>1, <3>3 DEF CommandInv
    <3>6. \A d \in Caller :
            /\ Accepted(d)' /\ call'[d].command = "abort" => pi'.aborted
            /\ Accepted(d)' /\ call'[d].command = "prompt" => pi'.first # "none"
            /\ call'[d].pc = "readying" => d = Binder
      BY <2>1, <3>1, <3>2 DEF CommandInv
    <3> QED
      BY <1>0, <2>1, <3>1, <3>4, <3>5, <3>6 DEF CommandInv
  <2> QED
    BY <2>2, <2>3
<1>9. ASSUME NEW c \in Caller, Write(c) PROVE CommandInv'
  <2> DEFINE m == [caller |-> c, command |-> call[c].command]
  <2>1. /\ call[c].pc = "queued" /\ ~client.closed /\ UNCHANGED <<pi, session>>
        /\ inbox' = inbox \cup {m} /\ call' = At(c, "waiting")
    BY <1>9 DEF Write
  <2>2. call[c].result.status = "none"
    BY <2>1 DEF SessionInv, ClientInv
  <2>3. /\ \A d \in Caller \ {c} : call'[d] = call[d]
        /\ call'[c].pc = "waiting" /\ call'[c].command = call[c].command
        /\ call'[c].result = call[c].result
    BY <2>1, MoveOutcome DEF CallPC
  <2>4. \A d \in Caller : Accepted(d)' => d # c /\ Accepted(d)
    BY <2>2, <2>3 DEF Accepted
  <2>5. \A n \in inbox : n.caller \in Caller \ {c}
    BY <2>1 DEF SessionInv, ClientInv, TypeOK
  <2>6. c = Binder => /\ pi.first # "bind" /\ ~session.bound /\ call[c].command = "get_state"
                      /\ session.state \notin {"ready", "running", "awaiting_handoff"}
    BY <2>1 DEF CommandInv
  <2>7. \A n \in inbox : /\ call'[n.caller].pc = "waiting" => call'[n.caller].command = n.command
                         /\ n.caller = Binder => n.command = "get_state" /\ pi'.first # "bind"
    BY <2>1, <2>3, <2>5 DEF CommandInv
  <2>8. m.caller = c /\ m.command = call[c].command
    OBVIOUS
  <2>9. /\ call'[m.caller].pc = "waiting" => call'[m.caller].command = m.command
        /\ m.caller = Binder => m.command = "get_state" /\ pi'.first # "bind"
    BY <2>1, <2>3, <2>6, <2>8
  <2>10. \A d \in Caller :
            /\ Accepted(d)' /\ call'[d].command = "abort" => pi'.aborted
            /\ Accepted(d)' /\ call'[d].command = "prompt" => pi'.first # "none"
            /\ call'[d].pc = "readying" => d = Binder
    BY <2>1, <2>3, <2>4 DEF CommandInv
  <2> HIDE DEF m
  <2>11. \A n \in inbox' : /\ call'[n.caller].pc = "waiting" => call'[n.caller].command = n.command
                           /\ n.caller = Binder => n.command = "get_state" /\ pi'.first # "bind"
    BY <2>1, <2>7, <2>9
  <2> QED
    BY <1>0, <2>1, <2>3, <2>6, <2>10, <2>11 DEF CommandInv
<1>10. ASSUME NEW c \in Caller, WriteBreaks(c) PROVE CommandInv'
  <2>1. UNCHANGED <<pi, inbox, session>> /\ Terminate(Returned(c)) /\ call[c].pc = "queued"
    BY <1>10 DEF WriteBreaks, piVars
  <2>2. Returned(c) \in CallType
    BY CallMoves DEF TypeOK
  <2>3. \A d \in Caller : /\ call'[d].pc = Returned(c)[d].pc
                          /\ call'[d].command = Returned(c)[d].command
                          /\ call'[d].result.status \in {Returned(c)[d].result.status, "failed"}
    BY <2>1, <2>2, TerminateOutcome
  <2> QED
    BY <2>1, <2>3, MoveOutcome, CommandKept
<1>11. ASSUME NEW c \in Caller,
              \/ Cancel(c) \/ CallFails(c) \/ PromptReturns(c) \/ AbortReturns(c)
              \/ (c # Binder /\ StateReturns(c)) \/ FailSession(c) \/ FailReturns(c)
       PROVE  CommandInv'
  <2>1. UNCHANGED <<pi, inbox>> /\ call' \in {Returned(c), At(c, "failing"), At(c, "closing")}
        /\ call[c].pc \notin {"readying", "returned"}
    BY <1>11 DEF Cancel, CallFails, PromptReturns, AbortReturns, StateReturns, FailSession, FailReturns,
                 Answered, piVars
  <2>2. /\ session'.bound = session.bound
        /\ \/ session'.state = session.state
           \/ session'.state \notin {"starting", "ready", "running", "awaiting_handoff"}
           \/ session.state \in {"ready", "running", "awaiting_handoff"} /\ session'.state # "starting"
    <3>1. CASE FailSession(c)
      BY <3>1, SessionMoves DEF FailSession, Live, TypeOK
    <3>2. CASE PromptReturns(c)
      BY <3>2 DEF PromptReturns, MarkRunning, TypeOK, SessionType
    <3> QED
      BY <1>11, <3>1, <3>2 DEF Cancel, CallFails, AbortReturns, StateReturns, FailReturns
  <2>3. \A d \in Caller :
           \/ call'[d] = call[d]
           \/ /\ d = c /\ call'[c].pc \in {"returned", "failing", "closing"}
              /\ call'[c].command \in {call[c].command, "get_state"}
    BY <2>1, MoveOutcome DEF CallPC
  <2> QED
    BY <2>1, <2>2, <2>3, CommandKept
<1>12. CASE StateReturns(Binder)
  <2>1. /\ call' = At(Binder, "readying") /\ session' = [session EXCEPT !.bound = TRUE]
        /\ UNCHANGED <<pi, inbox>> /\ call[Binder].pc = "waiting"
    BY <1>12 DEF StateReturns, Answered, piVars
  <2>2. /\ \A d \in Caller \ {Binder} : call'[d] = call[d]
        /\ call'[Binder].pc = "readying" /\ call'[Binder].command = call[Binder].command
    BY <1>0, <2>1, MoveOutcome DEF CallPC
  <2>3. session'.state = session.state
    BY <2>1 DEF TypeOK, SessionType
  <2>4. session.state \notin {"ready", "running", "awaiting_handoff"}
    BY <2>1 DEF CommandInv
  <2>5. \A n \in inbox' : /\ call'[n.caller].pc = "waiting" => call'[n.caller].command = n.command
                          /\ n.caller = Binder => n.command = "get_state" /\ pi'.first # "bind"
    BY <2>1, <2>2 DEF CommandInv, TypeOK
  <2>6. \A d \in Caller :
            /\ Accepted(d)' /\ call'[d].command = "abort" => pi'.aborted
            /\ Accepted(d)' /\ call'[d].command = "prompt" => pi'.first # "none"
            /\ call'[d].pc = "readying" => d = Binder
    BY <2>1, <2>2 DEF CommandInv, Accepted
  <2> QED
    BY <1>0, <2>1, <2>2, <2>3, <2>4, <2>5, <2>6 DEF CommandInv
<1>13. ASSUME NEW c \in Caller, Ready(c) PROVE CommandInv'
  <2>1. call' = Returned(c) /\ UNCHANGED <<pi, inbox>> /\ call[c].pc = "readying"
    BY <1>13 DEF Ready, piVars
  <2>2. c = Binder
    BY <2>1 DEF CommandInv
  <2>3. /\ \A d \in Caller \ {Binder} : call'[d] = call[d]
        /\ call'[Binder].pc = "returned" /\ call'[Binder].command = "get_state"
    BY <1>0, <2>1, <2>2, MoveOutcome
  <2>4. session'.state # "starting"
    BY <1>13, SessionAssumption DEF Ready, ApplyActivity, MarkRunning, Settled, TypeOK, SessionType
  <2>5. \A n \in inbox' : /\ call'[n.caller].pc = "waiting" => call'[n.caller].command = n.command
                          /\ n.caller = Binder => n.command = "get_state" /\ pi'.first # "bind"
    BY <2>1, <2>3 DEF CommandInv, TypeOK
  <2>6. \A d \in Caller :
            /\ Accepted(d)' /\ call'[d].command = "abort" => pi'.aborted
            /\ Accepted(d)' /\ call'[d].command = "prompt" => pi'.first # "none"
            /\ call'[d].pc = "readying" => d = Binder
    BY <2>1, <2>3 DEF CommandInv, Accepted
  <2> QED
    BY <2>3, <2>4, <2>5, <2>6 DEF CommandInv
<1>14. ASSUME NEW c \in Caller, FailClient(c) PROVE CommandInv'
  <2>1. UNCHANGED <<pi, inbox, session>> /\ Terminate(At(c, "joining")) /\ call[c].pc = "closing"
    BY <1>14 DEF FailClient, piVars
  <2>2. At(c, "joining") \in CallType
    BY CallMoves DEF TypeOK, CallPC
  <2>3. \A d \in Caller : /\ call'[d].pc = At(c, "joining")[d].pc
                          /\ call'[d].command = At(c, "joining")[d].command
                          /\ call'[d].result.status \in {At(c, "joining")[d].result.status, "failed"}
    BY <2>1, <2>2, TerminateOutcome
  <2>4. \A d \in Caller \ {c} : At(c, "joining")[d] = call[d]
    BY MoveOutcome DEF CallPC
  <2>5. At(c, "joining")[c].pc = "joining" /\ At(c, "joining")[c].command = call[c].command
    BY MoveOutcome DEF CallPC
  <2> QED
    BY <2>1, <2>3, <2>4, <2>5, CommandKept
<1>15. ASSUME NEW q \in Question, SendBreaks(q) PROVE CommandInv'
  BY <1>1, <1>15, TerminateOutcome DEF SendBreaks, TypeOK, piVars
<1>16. CASE StopCloses
  BY <1>1, <1>16, TerminateOutcome DEF StopCloses, TypeOK, piVars
<1>17. CASE Reconcile \/ DrainReturns \/ CompleteHandoff \/ StopMarks \/ StopReturns
  <2>1. UNCHANGED <<pi, inbox, call>>
    BY <1>17 DEF Reconcile, DrainReturns, CompleteHandoff, StopMarks, StopReturns, piVars, clientVars
  <2>2. /\ session'.bound = session.bound
        /\ \/ session'.state = session.state
           \/ session'.state \notin {"starting", "ready", "running", "awaiting_handoff"}
           \/ session.state \in {"ready", "running", "awaiting_handoff"} /\ session'.state # "starting"
    <3>1. CASE Reconcile
      BY <3>1, SessionAssumption DEF Reconcile, ApplyActivity, MarkRunning, Settled, TypeOK, SessionType
    <3>2. CASE DrainReturns
      BY <3>2, SessionMoves DEF DrainReturns, Live, TypeOK
    <3>3. CASE CompleteHandoff \/ StopMarks \/ StopReturns
      BY <3>3 DEF CompleteHandoff, StopMarks, StopReturns, TypeOK, SessionType
    <3> QED
      BY <1>17, <3>1, <3>2, <3>3
  <2> QED
    BY <2>1, <2>2, CommandKept
<1>18. ASSUME NEW q \in Question,
              \/ BeginAnswer(q) \/ SendAnswer(q) \/ SendCancelled(q) \/ EndAnswer(q) \/ Expire(q)
              \/ PiExpires(q)
       PROVE  CommandInv'
  BY <1>1, <1>18 DEF BeginAnswer, SendAnswer, SendCancelled, EndAnswer, Expire, PiExpires, piVars,
                     clientVars
<1>19. CASE Deliver \/ EventsEnd \/ StopBegins \/ StopJoins
  BY <1>1, <1>19 DEF Deliver, EventsEnd, StopBegins, StopJoins, piVars, clientVars
<1>20. CASE UNCHANGED vars
  BY <1>1, <1>20 DEF vars, piVars, clientVars
<1> QED
  BY <1>3, <1>4, <1>5, <1>6, <1>7, <1>8, <1>9, <1>10, <1>11, <1>12, <1>13, <1>14, <1>15, <1>16, <1>17,
     <1>18, <1>19, <1>20
     DEF Next, PiStep, CallStep, DrainStep, StopStep, AnswerStep
-----------------------------------------------------------------------------
(* Questions *)

\* A transport that has ended, an abort and a termination are never undone.
LEMMA OpenBefore ==
    TypeOK /\ [Next]_vars =>
        /\ client.closed => client'.closed
        /\ pi.aborted => pi'.aborted
        /\ terminated => terminated'
        /\ pi.first # "none" => pi'.first = pi.first
<1> SUFFICES ASSUME TypeOK, [Next]_vars
             PROVE  /\ client.closed => client'.closed
                    /\ pi.aborted => pi'.aborted
                    /\ terminated => terminated'
                    /\ pi.first # "none" => pi'.first = pi.first
  OBVIOUS
<1>0. client \in ClientType /\ pi \in PiType
  BY DEF TypeOK
<1>1. CASE PiStarts
  BY <1>0, <1>1 DEF PiStarts, CanRead, PiType
<1>2. CASE PiEnds
  BY <1>0, <1>2 DEF PiEnds, CanRead, PiType
<1>3. ASSUME NEW q \in Question, PiAsks(q) \/ PiExpires(q)
      PROVE  /\ client.closed => client'.closed
             /\ pi.aborted => pi'.aborted
             /\ terminated => terminated'
             /\ pi.first # "none" => pi'.first = pi.first
  <2>1. CASE PiAsks(q)
    <3>1. ~client.closed /\ UNCHANGED terminated
      BY <2>1 DEF PiAsks, CanRead
    <3>2. PICK timed \in SUBSET {q} : pi' = [pi EXCEPT !.opened = @ \cup {q}, !.timed = @ \cup timed]
      BY <2>1 DEF PiAsks
    <3>3. pi'.aborted = pi.aborted /\ pi'.first = pi.first
      BY <1>0, <3>2 DEF PiType
    <3> QED
      BY <3>1, <3>3
  <2> QED
    BY <1>3, <2>1 DEF PiExpires
<1>4. ASSUME NEW c \in Caller, PiResponds(c)
      PROVE  /\ client.closed => client'.closed
             /\ pi.aborted => pi'.aborted
             /\ terminated => terminated'
             /\ pi.first # "none" => pi'.first = pi.first
  BY <1>0, <1>4 DEF PiResponds, Accept, CanRead, PiType
<1>5. CASE ReadFails
  BY <1>0, <1>5 DEF ReadFails, ClientType
<1>6. ASSUME NEW c \in Caller,
             \/ CallStep(c) \/ Write(c) \/ WriteBreaks(c) \/ Cancel(c)
             \/ \E command \in Command : Begin(c, command)
      PROVE  UNCHANGED pi /\ (client.closed => client'.closed) /\ (terminated => terminated')
  BY <1>0, <1>6
     DEF CallStep, Write, WriteBreaks, Cancel, Begin, CallFails, PromptReturns, AbortReturns,
         StateReturns, Ready, FailSession, FailClient, FailReturns, Terminate, Clear, ClientType
<1>7. CASE DrainStep \/ CompleteHandoff \/ StopBegins \/ StopStep
  BY <1>0, <1>7
     DEF DrainStep, Deliver, Reconcile, EventsEnd, DrainReturns, CompleteHandoff, StopBegins, StopStep,
         StopMarks, StopCloses, StopJoins, StopReturns, Terminate, Clear, ClientType
<1>8. ASSUME NEW q \in Question, AnswerStep(q) \/ Expire(q)
      PROVE  UNCHANGED pi /\ (client.closed => client'.closed) /\ (terminated => terminated')
  BY <1>0, <1>8
     DEF AnswerStep, BeginAnswer, SendAnswer, SendCancelled, SendBreaks, EndAnswer, Expire, Terminate,
         ClientType
<1>9. CASE UNCHANGED vars
  BY <1>9
<1> QED
  BY <1>1, <1>2, <1>3, <1>4, <1>5, <1>6, <1>7, <1>8, <1>9 DEF Next, PiStep

\* There are no questions at the start.
LEMMA QuestionsInit == Init => QuestionsInv
<1> SUFFICES ASSUME Init, NEW q \in Question PROVE DialogInv(q)
  BY DEF QuestionsInv
<1>1. Queued = {}
  BY DEF Init, Queued
<1> QED
  BY <1>1 DEF Init, DialogInv

\* A step that leaves a dialog and the queue alone.
LEMMA DialogKept ==
    ASSUME NEW q \in Question, DialogInv(q), Queued' = Queued, q \in asked' <=> q \in asked,
           store'[q] = store[q], answer'[q] = answer[q],
           q \in pi.opened => q \in pi'.opened, q \in pi'.timed <=> q \in pi.timed
    PROVE  DialogInv(q)'
BY DEF DialogInv, Ending

\* A record that is queued and neither opens nor ends a dialog.
LEMMA DialogPassed ==
    ASSUME NEW q \in Question, DialogInv(q), NEW e, Queued' = Queued \cup {e}, q \notin e.dialogs,
           e.type \notin {"agent_end", "agent_settled"},
           q \in asked' <=> q \in asked, store'[q] = store[q], answer'[q] = answer[q],
           q \in pi.opened => q \in pi'.opened, q \in pi'.timed <=> q \in pi.timed
    PROVE  DialogInv(q)'
<1>1. Ending' = Ending
  BY DEF Ending
<1> QED
  BY <1>1 DEF DialogInv

\* Every step keeps what is said of the questions.
LEMMA QuestionsStep ==
    TypeOK /\ TypeOK' /\ SessionInv /\ OrderInv /\ CommandInv /\ QuestionsInv /\ [Next]_vars
        => QuestionsInv'
<1> SUFFICES ASSUME TypeOK, TypeOK', SessionInv, OrderInv, CommandInv, QuestionsInv, [Next]_vars,
                    ~client'.closed, ~pi'.aborted, ~terminated', NEW q \in Question
             PROVE  DialogInv(q)'
  BY DEF QuestionsInv
<1>0. ~client.closed /\ ~pi.aborted /\ ~terminated
  BY OpenBefore
<1>1. DialogInv(q)
  BY <1>0 DEF QuestionsInv
<1>2. /\ \A e \in Queued : e \in Event /\ e.seq \in Nat /\ e.seq <= client.seq
      /\ client.seq \in Nat /\ Ending \subseteq Queued
  BY QueuedIsTyped DEF OrderInv
<1>3. ASSUME box'.queue = box.queue, UNCHANGED <<pi, asked, store, answer>>
      PROVE  DialogInv(q)'
  <2>1. Queued' = Queued
    BY <1>3 DEF Queued
  <2> QED
    BY <1>1, <1>3, <2>1, DialogKept
\* A record that is read fits, for the transport is still open, and comes last.
<1>4. ASSUME NEW type \in EventType, NEW dialogs \in SUBSET Question, Receive(type, dialogs)
      PROVE  \E e : /\ Queued' = Queued \cup {e} /\ e.type = type /\ e.dialogs = dialogs
                    /\ e.seq \in Nat /\ \A f \in Queued : f.seq < e.seq
  <2> DEFINE e == [type |-> type, seq |-> client.seq + 1, dialogs |-> dialogs]
  <2>1. e \in Event /\ box'.queue = Append(box.queue, e)
    BY <1>4, ReceiveOutcome
  <2>2. e.seq = client.seq + 1 /\ e.type = type /\ e.dialogs = dialogs
    OBVIOUS
  <2> HIDE DEF e
  <2>3. Queued' = Queued \cup {e}
    BY <2>1, <2>2, QueueGrows
  <2>4. e.seq \in Nat /\ \A f \in Queued : f.seq < e.seq
    BY <1>2, <2>2
  <2> QED
    BY <2>2, <2>3, <2>4
<1>5. CASE PiStarts
  <2>1. Receive("agent_start", {}) /\ UNCHANGED <<asked, store, answer>>
        /\ pi'.opened = pi.opened /\ pi'.timed = pi.timed
    BY <1>5 DEF PiStarts, TypeOK, PiType
  <2>2. PICK e : Queued' = Queued \cup {e} /\ e.type = "agent_start" /\ e.dialogs = {}
    BY <1>4, <2>1 DEF EventType
  <2> QED
    BY <1>1, <2>1, <2>2, DialogPassed
<1>6. CASE PiEnds
  <2>1. PICK type \in {"agent_end", "agent_settled"} : Receive(type, {})
    BY <1>6 DEF PiEnds
  <2>2. /\ asked' = {} /\ UNCHANGED <<store, answer>> /\ pi'.opened = pi.opened /\ pi'.timed = pi.timed
    BY <1>6 DEF PiEnds, TypeOK, PiType
  <2>3. PICK e : /\ Queued' = Queued \cup {e} /\ e.type = type /\ e.dialogs = {}
                 /\ e.seq \in Nat /\ \A f \in Queued : f.seq < e.seq
    BY <1>4, <2>1 DEF EventType
  <2>4. Ending' = Ending \cup {e}
    BY <2>3 DEF Ending
  <2> QED
    BY <1>1, <2>2, <2>3, <2>4 DEF DialogInv
<1>7. ASSUME NEW r \in Question, PiAsks(r) PROVE DialogInv(q)'
  <2>1. /\ r \notin pi.opened /\ Receive("extension_ui_request", {r}) /\ UNCHANGED <<store, answer>>
        /\ asked' = asked \cup {r} /\ pi'.opened = pi.opened \cup {r}
        /\ pi.timed \subseteq pi'.timed /\ pi'.timed \subseteq pi.timed \cup {r}
    BY <1>7 DEF PiAsks, TypeOK, PiType
  <2>2. PICK e : /\ Queued' = Queued \cup {e} /\ e.type = "extension_ui_request" /\ e.dialogs = {r}
                 /\ e.seq \in Nat /\ \A f \in Queued : f.seq < e.seq
    BY <1>4, <2>1 DEF EventType
  <2>3. CASE q # r
    BY <1>1, <2>1, <2>2, <2>3, DialogPassed
  <2>4. CASE q = r
    <3>1. q \notin asked /\ store[q] = "absent" /\ answer[q] = "idle"
          /\ \A f \in Queued : q \notin f.dialogs
      BY <1>1, <2>1, <2>4 DEF DialogInv
    <3>2. Ending' = Ending
      BY <2>2 DEF Ending
    <3>3. \A f \in Queued' : q \in f.dialogs <=> f = e
      BY <2>2, <2>4, <3>1
    <3>4. \A f \in Ending' : f.seq < e.seq
      BY <1>2, <2>2, <3>2
    <3> QED
      BY <2>1, <2>2, <2>4, <3>1, <3>3, <3>4 DEF DialogInv
  <2> QED
    BY <2>3, <2>4
<1>8. ASSUME NEW r \in Question, PiExpires(r) PROVE DialogInv(q)'
  <2>1. r \in pi.timed /\ asked' = asked \ {r} /\ UNCHANGED <<pi, box, store, answer>>
    BY <1>8 DEF PiExpires
  <2>2. Queued' = Queued
    BY <2>1 DEF Queued
  <2> QED
    BY <1>1, <2>1, <2>2 DEF DialogInv, Ending
<1>9. ASSUME NEW c \in Caller, PiResponds(c) PROVE DialogInv(q)'
  <2>1. PICK m \in inbox : Accept(c, m.command)
    BY <1>9 DEF PiResponds
  <2>2. /\ asked' = asked /\ pi'.opened = pi.opened /\ pi'.timed = pi.timed
        /\ UNCHANGED <<store, answer>>
    BY <1>9, <2>1 DEF PiResponds, Accept, TypeOK, PiType
  <2>3. CASE c \in pending
    <3>1. Queued' = Queued
      BY <1>9, <2>3 DEF PiResponds, Queued
    <3> QED
      BY <1>1, <2>2, <3>1, DialogKept
  <2>4. CASE c \notin pending
    <3>1. Receive("response", {})
      BY <1>9, <2>4 DEF PiResponds
    <3>2. PICK e : Queued' = Queued \cup {e} /\ e.type = "response" /\ e.dialogs = {}
      BY <1>4, <3>1 DEF EventType
    <3> QED
      BY <1>1, <2>2, <3>2, DialogPassed
  <2> QED
    BY <2>3, <2>4
<1>10. CASE ReadFails \/ StopCloses \/ StopBegins \/ EventsEnd
  BY <1>10 DEF ReadFails, StopCloses, StopBegins, EventsEnd, Terminate, Clear, TypeOK, ClientType
<1>11. ASSUME NEW c \in Caller,
              \/ CallStep(c) \/ Write(c) \/ WriteBreaks(c) \/ Cancel(c)
              \/ \E command \in Command : Begin(c, command)
       PROVE  DialogInv(q)'
  <2>1. CASE WriteBreaks(c) \/ FailClient(c)
    BY <2>1 DEF WriteBreaks, FailClient, Terminate, TypeOK, ClientType
  <2>2. CASE AbortReturns(c)
    BY <1>0, <2>2 DEF AbortReturns, Answered, CommandInv, Accepted
  <2>3. CASE ~WriteBreaks(c) /\ ~FailClient(c) /\ ~AbortReturns(c)
    <3>1. UNCHANGED <<box, pi, asked, store, answer>>
      BY <1>11, <2>3
         DEF CallStep, Write, Cancel, Begin, CallFails, PromptReturns, StateReturns, Ready, FailSession,
             FailReturns
    <3> QED
      BY <1>3, <3>1
  <2> QED
    BY <2>1, <2>2, <2>3
<1>12. CASE Deliver
  <2> DEFINE h == Head(box.queue)
  <2>1. /\ box.queue # <<>> /\ box'.queue = Tail(box.queue) /\ store' = Questions(h)
        /\ UNCHANGED <<pi, asked, answer>>
    BY <1>12 DEF Deliver, TypeOK, BoxType
  <2>2. h \in Queued /\ Queued' = Queued \ {h} /\ \A e \in Queued' : h.seq < e.seq
    BY <2>1, QueueShrinks
  <2>3. CASE h.type = "extension_ui_request" /\ q \in h.dialogs
    <3>1. store'[q] = "offered"
      BY <1>0, <2>1, <2>3 DEF Questions
    <3>2. Ending' = Ending
      BY <2>2, <2>3 DEF Ending
    <3>3. /\ q \in pi.opened /\ store[q] = "absent" /\ answer[q] = "idle"
          /\ \A f \in Queued' : q \notin f.dialogs
          /\ q \in asked \cup pi.timed \/ \E f \in Ending : h.seq < f.seq
      BY <1>1, <2>2, <2>3 DEF DialogInv
    <3>4. q \in asked \ pi.timed => \A f \in Ending : f.seq < h.seq
      BY <1>1, <2>2, <2>3, <3>3 DEF DialogInv
    <3>5. \A f \in Ending : f \in Queued' /\ h.seq < f.seq
      BY <1>2, <2>2, <3>2 DEF Ending
    <3>6. q \in asked \ pi.timed => Ending' = {}
      BY <1>2, <2>2, <3>2, <3>4, <3>5
    <3> HIDE DEF h
    <3> QED
      BY <2>1, <3>1, <3>2, <3>3, <3>6 DEF DialogInv
  <2>4. CASE h.type \in {"agent_end", "agent_settled"}
    <3>1. store'[q] = "absent"
      BY <2>1, <2>4 DEF Questions, CancelPending
    <3>2. h \in Ending /\ Ending' = Ending \ {h}
      BY <2>2, <2>4 DEF Ending
    <3>3. q \in asked \ pi.timed => \E e \in Queued : q \in e.dialogs /\ \A f \in Ending : f.seq < e.seq
      BY <1>1, <3>2 DEF DialogInv
    <3>4. \A e \in Queued : q \in e.dialogs => e # h
      BY <1>1, <2>4 DEF DialogInv
    <3>5. \A e \in Queued' : \A f \in Ending : e.seq < f.seq => f # h
      BY <1>2, <2>2
    <3> HIDE DEF h
    <3> QED
      BY <1>1, <2>1, <2>2, <3>1, <3>2, <3>3, <3>4, <3>5 DEF DialogInv
  <2>5. CASE q \notin h.dialogs /\ h.type \notin {"agent_end", "agent_settled"}
    <3>1. store'[q] = store[q]
      BY <2>1, <2>5 DEF Questions
    <3>2. Ending' = Ending
      BY <2>2, <2>5 DEF Ending
    <3> HIDE DEF h
    <3> QED
      BY <1>1, <2>1, <2>2, <2>5, <3>1, <3>2 DEF DialogInv
  <2>6. q \in h.dialogs => h.type = "extension_ui_request"
    BY <1>1, <2>2 DEF DialogInv
  <2> QED
    BY <2>3, <2>4, <2>5, <2>6
<1>13. CASE Reconcile \/ DrainReturns \/ CompleteHandoff \/ StopMarks \/ StopJoins \/ StopReturns
  BY <1>3, <1>13 DEF Reconcile, DrainReturns, CompleteHandoff, StopMarks, StopJoins, StopReturns
<1>14. ASSUME NEW r \in Question, AnswerStep(r) \/ Expire(r) PROVE DialogInv(q)'
  <2>1. CASE SendBreaks(r)
    BY <2>1 DEF SendBreaks, Terminate, TypeOK, ClientType
  <2>2. UNCHANGED <<pi, box, terminated>> \/ SendBreaks(r)
    BY <1>14 DEF AnswerStep, BeginAnswer, SendAnswer, SendCancelled, EndAnswer, Expire
  <2>3. UNCHANGED box => Queued' = Queued /\ Ending' = Ending
    BY DEF Queued, Ending
  <2>4. CASE q # r /\ ~SendBreaks(r)
    <3>1. (q \in asked' <=> q \in asked) /\ store'[q] = store[q] /\ answer'[q] = answer[q]
      BY <1>14, <2>4
         DEF AnswerStep, BeginAnswer, SendAnswer, SendCancelled, EndAnswer, Expire, TypeOK
    <3> QED
      BY <1>1, <2>2, <2>3, <2>4, <3>1, DialogKept
  <2>5. CASE q = r /\ BeginAnswer(r)
    <3>1. /\ store[q] = "offered" /\ store'[q] = "answering" /\ answer[q] = "idle"
          /\ answer'[q] = "sending" /\ UNCHANGED <<pi, box, asked>>
      BY <2>5 DEF BeginAnswer, TypeOK
    <3> QED
      BY <1>1, <2>3, <3>1 DEF DialogInv
  <2>6. CASE q = r /\ SendAnswer(r)
    <3>1. /\ store'[q] = store[q] /\ answer[q] = "sending" /\ answer'[q] = "sent"
          /\ asked' = asked \ {q} /\ UNCHANGED <<pi, box>>
      BY <2>6 DEF SendAnswer, TypeOK
    <3> QED
      BY <1>1, <2>3, <3>1 DEF DialogInv
  <2>7. CASE q = r /\ SendCancelled(r)
    <3>1. /\ store'[q] = store[q] /\ answer[q] = "sending" /\ answer'[q] = "unsent"
          /\ UNCHANGED <<pi, box, asked>>
      BY <2>7 DEF SendCancelled, TypeOK
    <3> QED
      BY <1>1, <2>3, <3>1 DEF DialogInv
  <2>8. CASE q = r /\ EndAnswer(r)
    <3>1. /\ answer[q] \in {"sent", "unsent"} /\ answer'[q] = "idle"
          /\ store'[q] = IF store[q] = "absent" \/ answer[q] = "sent" THEN "absent" ELSE "offered"
          /\ UNCHANGED <<pi, box, asked>>
      BY <1>0, <2>8 DEF EndAnswer, TypeOK
    <3> QED
      BY <1>1, <2>3, <3>1 DEF DialogInv
  <2>9. CASE q = r /\ Expire(r)
    <3>1. q \in pi.timed /\ store'[q] = "absent" /\ UNCHANGED <<pi, box, asked, answer>>
      BY <2>9 DEF Expire, TypeOK
    <3> QED
      BY <1>1, <2>3, <3>1 DEF DialogInv
  <2> QED
    BY <1>14, <2>1, <2>4, <2>5, <2>6, <2>7, <2>8, <2>9 DEF AnswerStep
<1>15. CASE UNCHANGED vars
  BY <1>3, <1>15
<1> QED
  BY <1>5, <1>6, <1>7, <1>8, <1>9, <1>10, <1>11, <1>12, <1>13, <1>14, <1>15
     DEF Next, PiStep, DrainStep, StopStep
-----------------------------------------------------------------------------
(* The lifecycle *)

\* At the start there has been no activity.
LEMMA LifecycleInit == Init => LifecycleInv
<1> SUFFICES ASSUME Init PROVE LastActivity(0) /\ Follows(0) /\ 0 \in 0..client.seq
  BY DEF LifecycleInv
<1>1. Queued = {} /\ Due = {}
  BY DEF Init, Queued, Due
<1>2. /\ ~pi.streaming /\ session.activitySeq = 0 /\ session.activity = "agent_settled"
      /\ session.state = "starting" /\ client.seq = 0
      /\ \A c \in Caller : call[c].pc = "idle"
  BY DEF Init, Idle
<1> QED
  BY <1>1, <1>2, CallerIsTyped DEF LastActivity, LastType, Follows, Accepted

\* A step that neither adds activity, reconciles any nor handles a response.
LEMMA FollowsKept ==
    ASSUME NEW n, LastActivity(n), Follows(n), Due' = Due,
           UNCHANGED <<session.activitySeq, session.activity, session.responseSeq, pi.streaming>>,
           pi.owed => pi'.owed,
           \/ session'.state = session.state
           \/ session'.state \notin {"ready", "running", "awaiting_handoff"},
           \A c \in Caller : Accepted(c)' /\ call'[c].command = "prompt" =>
                /\ Accepted(c) /\ call[c].command = "prompt"
                /\ call'[c].result.seq = call[c].result.seq,
           Accepted(Binder)' \/ call'[Binder].pc = "readying" =>
                /\ Accepted(Binder) \/ call[Binder].pc = "readying"
                /\ call'[Binder].result = call[Binder].result
    PROVE  LastActivity(n)' /\ Follows(n)'
<1>1. LastActivity(n)'
  BY DEF LastActivity, LastType
<1>2. pi'.streaming /\ session'.state \in {"ready", "awaiting_handoff"} => Decides(n)'
  BY DEF Follows, Decides
<1>3. ~pi'.streaming /\ ~pi'.owed /\ session'.state = "running" => Decides(n)'
  BY DEF Follows, Decides
<1>4. ASSUME NEW c \in Caller, Accepted(c)', call'[c].command = "prompt"
      PROVE  /\ ~pi'.streaming /\ ~pi'.owed => call'[c].result.seq < n /\ session'.responseSeq < n
             /\ Accepted(Binder)' \/ call'[Binder].pc = "readying" =>
                   call'[Binder].result.seq < call'[c].result.seq
  BY <1>4 DEF Follows
<1>5. Accepted(Binder)' \/ call'[Binder].pc = "readying" =>
          \/ call'[Binder].result.seq < n
          \/ call'[Binder].result.streaming = pi'.streaming
  BY DEF Follows
<1> QED
  BY <1>1, <1>2, <1>3, <1>4, <1>5 DEF Follows

\* New activity decides, whatever has been handled before it.
LEMMA ActivityFollows ==
    ASSUME TypeOK, OrderInv, NEW m, Follows(m), NEW e, NEW n, n = client.seq + 1,
           Due' = Due \cup {e}, e.seq = n, e.type = LastType', UNCHANGED <<session, call>>
    PROVE  LastActivity(n)' /\ Follows(n)'
<1>1. /\ client.seq \in Nat /\ n \in Nat /\ session.activitySeq < n /\ session.responseSeq < n
      /\ \A c \in Caller : call[c].result.seq \in Nat /\ call[c].result.seq < n
      /\ \A d \in Due : d.seq <= n
  BY QueuedIsTyped DEF OrderInv
<1>2. LastActivity(n)'
  BY <1>1 DEF LastActivity
<1>3. Decides(n)'
  BY <1>1 DEF Decides
<1>4. call'[Binder].result.seq < n
  BY <1>1, CallerIsTyped
<1>5. ASSUME NEW c \in Caller, Accepted(c)', call'[c].command = "prompt"
      PROVE  /\ call'[c].result.seq < n /\ session'.responseSeq < n
             /\ Accepted(Binder)' \/ call'[Binder].pc = "readying" =>
                   call'[Binder].result.seq < call'[c].result.seq
  BY <1>1, <1>5 DEF Follows, Accepted
<1> QED
  BY <1>2, <1>3, <1>4, <1>5 DEF Follows

\* Every step keeps the lifecycle behind what Pi does, or about to catch up with it.
LEMMA LifecycleStep ==
    TypeOK /\ TypeOK' /\ SessionInv /\ OrderInv /\ CommandInv /\ LifecycleInv /\ [Next]_vars
        => LifecycleInv'
<1> SUFFICES ASSUME TypeOK, TypeOK', SessionInv, OrderInv, CommandInv, LifecycleInv, [Next]_vars,
                    ~client'.closed, pi'.first # "prompt"
             PROVE  \E n \in 0..client'.seq : LastActivity(n)' /\ Follows(n)'
  BY DEF LifecycleInv
<1>0. ~client.closed /\ pi.first # "prompt"
  BY OpenBefore
<1>1. PICK n \in 0..client.seq : LastActivity(n) /\ Follows(n)
  BY <1>0 DEF LifecycleInv
<1>2. /\ client.seq \in Nat /\ client'.seq \in Nat /\ n \in Nat /\ n <= client.seq
      /\ session.activitySeq \in Nat /\ session.responseSeq \in Nat
      /\ \A c \in Caller : call[c].result.seq \in Nat
      /\ \A e \in Queued \cup Due : e.seq \in Nat
      /\ Binder \in Caller
  BY QueuedIsTyped, CallerIsTyped DEF TypeOK, ClientType
<1>3. ASSUME client.seq <= client'.seq, LastActivity(n)', Follows(n)'
      PROVE  \E k \in 0..client'.seq : LastActivity(k)' /\ Follows(k)'
  <2>1. n \in 0..client'.seq
    BY <1>2, <1>3
  <2> QED
    BY <1>3, <2>1
\* The last activity is behind the last that has been reconciled, or is still due.
<1>4. /\ session.activitySeq <= n
      /\ session.activitySeq = n => Due = {} /\ session.activity = LastType
  BY <1>1, <1>2 DEF LastActivity, OrderInv
\* Calls, answers and the stop.
<1>5. ASSUME UNCHANGED <<box.queue, drain, client.seq, pi, session.activitySeq, session.activity,
                         session.responseSeq>>,
             \/ session'.state = session.state
             \/ session'.state \notin {"ready", "running", "awaiting_handoff"},
             \A c \in Caller :
                \/ call'[c] = call[c]
                \/ call'[c].pc = "readying" /\ Accepted(c) /\ call'[c].result = call[c].result
                \/ call'[c].pc \notin {"waiting", "readying"}
                \/ call'[c].pc = "waiting" /\ call'[c].result.status = "none"
      PROVE  \E k \in 0..client'.seq : LastActivity(k)' /\ Follows(k)'
  <2>1. Due' = Due
    BY <1>5 DEF Due, Queued
  <2>2. \A c \in Caller : Accepted(c)' => call'[c] = call[c] /\ Accepted(c)
    BY <1>5 DEF Accepted
  <2>3. Accepted(Binder)' \/ call'[Binder].pc = "readying" =>
            /\ Accepted(Binder) \/ call[Binder].pc = "readying"
            /\ call'[Binder].result = call[Binder].result
    BY <1>2, <1>5, <2>2
  <2>4. LastActivity(n)' /\ Follows(n)'
    BY <1>1, <1>5, <2>1, <2>2, <2>3, FollowsKept
  <2> QED
    BY <1>2, <1>3, <1>5, <2>4
\* A record that is read fits, for the transport is still open.
<1>6. ASSUME NEW type \in EventType, NEW dialogs \in SUBSET Question, Receive(type, dialogs)
      PROVE  /\ client'.seq = client.seq + 1 /\ UNCHANGED call
             /\ \E e : Queued' = Queued \cup {e} /\ e.type = type /\ e.seq = client.seq + 1
  <2> DEFINE e == [type |-> type, seq |-> client.seq + 1, dialogs |-> dialogs]
  <2>1. /\ e \in Event /\ box'.queue = Append(box.queue, e) /\ UNCHANGED call
        /\ client'.seq = client.seq + 1
    BY <1>6, ReceiveOutcome
  <2>2. e.seq = client.seq + 1 /\ e.type = type
    OBVIOUS
  <2> HIDE DEF e
  <2>3. Queued' = Queued \cup {e}
    BY <2>1, <2>2, QueueGrows
  <2> QED
    BY <2>1, <2>2, <2>3
\* A record that is no activity.
<1>7. ASSUME NEW type \in EventType \ {"agent_start", "agent_settled"}, NEW dialogs \in SUBSET Question,
             Receive(type, dialogs), UNCHANGED <<drain, session, pi.streaming>>, pi.owed => pi'.owed
      PROVE  \E k \in 0..client'.seq : LastActivity(k)' /\ Follows(k)'
  <2>1. UNCHANGED call /\ client'.seq = client.seq + 1
    BY <1>6, <1>7
  <2>2. PICK e : Queued' = Queued \cup {e} /\ e.type = type
    BY <1>6, <1>7
  <2>3. Due' = Due
    BY <1>7, <2>2 DEF Due
  <2>4. LastActivity(n)' /\ Follows(n)'
    BY <1>1, <1>7, <2>1, <2>3, FollowsKept DEF Accepted
  <2> QED
    BY <1>2, <1>3, <2>1, <2>4
\* A record of activity.
<1>8. ASSUME NEW type \in {"agent_start", "agent_settled"}, Receive(type, {}),
             UNCHANGED <<drain, session>>, type = LastType'
      PROVE  \E k \in 0..client'.seq : LastActivity(k)' /\ Follows(k)'
  <2>1. UNCHANGED call /\ client'.seq = client.seq + 1
    BY <1>6, <1>8 DEF EventType
  <2>2. PICK e : Queued' = Queued \cup {e} /\ e.type = type /\ e.seq = client.seq + 1
    BY <1>6, <1>8 DEF EventType
  <2>3. Due' = Due \cup {e}
    BY <1>8, <2>2 DEF Due
  <2>4. PICK k : k = client.seq + 1
    OBVIOUS
  <2>5. LastActivity(k)' /\ Follows(k)'
    BY <1>1, <1>8, <2>1, <2>2, <2>3, <2>4, ActivityFollows
  <2>6. k \in 0..client'.seq
    BY <1>2, <2>1, <2>4
  <2> QED
    BY <2>5, <2>6
<1>9. CASE PiStarts
  <2>1. pi'.streaming
    BY <1>9 DEF PiStarts, TypeOK, PiType
  <2> QED
    BY <1>8, <1>9, <2>1 DEF PiStarts, LastType
<1>10. CASE PiEnds
  <2>1. CASE Receive("agent_settled", {}) /\ pi' = [pi EXCEPT !.streaming = FALSE]
    <3>1. ~pi'.streaming
      BY <2>1 DEF TypeOK, PiType
    <3> QED
      BY <1>8, <1>10, <2>1, <3>1 DEF PiEnds, LastType
  <2>2. CASE Receive("agent_end", {}) /\ UNCHANGED pi
    BY <1>7, <1>10, <2>2 DEF PiEnds, EventType
  <2> QED
    BY <1>10, <2>1, <2>2 DEF PiEnds
<1>11. ASSUME NEW q \in Question, PiAsks(q)
       PROVE  \E k \in 0..client'.seq : LastActivity(k)' /\ Follows(k)'
  <2>1. pi'.streaming = pi.streaming /\ pi'.owed = pi.owed
    BY <1>11 DEF PiAsks, TypeOK, PiType
  <2> QED
    BY <1>7, <1>11, <2>1 DEF PiAsks, EventType
\* A response tells its call what Pi does, and no prompt had one before bind's.
<1>12. ASSUME NEW c \in Caller, PiResponds(c)
       PROVE  \E k \in 0..client'.seq : LastActivity(k)' /\ Follows(k)'
  <2>1. PICK m \in inbox : m.caller = c /\ Accept(c, m.command)
    BY <1>12 DEF PiResponds
  <2>2. /\ pi'.streaming = pi.streaming
        /\ pi'.owed = (pi.owed \/ (m.command = "prompt" /\ ~pi.streaming))
    BY <2>1 DEF Accept, TypeOK, PiType
  <2>3. CASE c \notin pending
    <3>1. Receive("response", {}) /\ UNCHANGED <<drain, session>>
      BY <1>12, <2>3 DEF PiResponds
    <3> QED
      BY <1>7, <2>2, <3>1 DEF EventType
  <2>4. CASE c \in pending
    <3>1. /\ client'.seq = client.seq + 1 /\ UNCHANGED <<box, drain, session>>
          /\ \A d \in Caller : call'[d].pc = call[d].pc /\ call'[d].command = call[d].command
          /\ \A d \in Caller \ {c} : call'[d] = call[d]
          /\ call'[c].result = [status |-> "accepted", seq |-> client.seq + 1,
                                streaming |-> pi.streaming]
      BY <1>12, <2>4 DEF PiResponds, TypeOK, CallType, ClientType
    <3>2. call[c].pc = "waiting" /\ call[c].command = m.command
      BY <2>1, <2>4 DEF SessionInv, ClientInv, CommandInv
    <3>3. \A d \in Caller \ {c} : Accepted(d)' => Accepted(d)
      BY <3>1 DEF Accepted
    <3>4. \A d \in Caller : call[d].result.seq <= client.seq
      BY DEF OrderInv
    <3>5. LastActivity(n)'
      BY <1>1, <2>2, <3>1 DEF LastActivity, LastType, Due, Queued
    <3>6. /\ pi'.streaming /\ session'.state \in {"ready", "awaiting_handoff"} => Decides(n)'
          /\ ~pi'.streaming /\ ~pi'.owed /\ session'.state = "running" => Decides(n)'
      BY <1>1, <2>2, <3>1 DEF Follows, Decides
    <3>7. Accepted(Binder)' \/ call'[Binder].pc = "readying" =>
             \/ call'[Binder].result.seq < n
             \/ call'[Binder].result.streaming = pi'.streaming
      BY <1>1, <1>2, <2>2, <3>1, <3>3 DEF Follows
    <3>8. ASSUME NEW d \in Caller, Accepted(d)', call'[d].command = "prompt"
          PROVE  /\ ~pi'.streaming /\ ~pi'.owed => call'[d].result.seq < n /\ session'.responseSeq < n
                 /\ Accepted(Binder)' \/ call'[Binder].pc = "readying" =>
                       call'[Binder].result.seq < call'[d].result.seq
      <4>1. CASE d = c
        <5>1. m.command = "prompt" /\ c # Binder
          BY <3>1, <3>2, <3>8, <4>1 DEF CommandInv
        <5>2. call'[Binder].result.seq <= client.seq /\ call'[Binder].result.seq \in Nat
          BY <1>2, <3>1, <3>4, <5>1
        <5>3. call'[d].result.seq = client.seq + 1
          BY <3>1, <4>1
        <5>4. call'[Binder].result.seq < call'[d].result.seq
          BY <1>2, <5>2, <5>3
        <5>5. pi'.streaming \/ pi'.owed
          BY <2>2, <5>1, Zenon
        <5> QED
          BY <5>4, <5>5
      <4>2. CASE d # c
        <5>1. Accepted(d) /\ call[d].command = "prompt" /\ call'[d] = call[d]
          BY <3>1, <3>3, <3>8, <4>2
        <5>2. pi.first \in {"none", "bind", "prompt"}
          BY DEF TypeOK, PiType
        <5>3. c # Binder
          BY <1>0, <2>1, <5>1, <5>2 DEF CommandInv
        <5>4. Accepted(Binder)' \/ call'[Binder].pc = "readying" =>
                 /\ Accepted(Binder) \/ call[Binder].pc = "readying"
                 /\ call'[Binder] = call[Binder]
          BY <1>2, <3>1, <3>3, <5>3
        <5> QED
          BY <1>1, <2>2, <3>1, <5>1, <5>4 DEF Follows
      <4> QED
        BY <4>1, <4>2
    <3>9. Follows(n)'
      BY <3>6, <3>7, <3>8 DEF Follows
    <3> QED
      BY <1>2, <1>3, <3>1, <3>5, <3>9
  <2> QED
    BY <2>3, <2>4
<1>13. CASE ReadFails \/ StopCloses \/ EventsEnd \/ DrainReturns
  <2>1. CASE ReadFails \/ StopCloses
    BY <2>1 DEF ReadFails, StopCloses, Terminate, TypeOK, ClientType
  <2>2. CASE EventsEnd \/ DrainReturns
    BY <1>0, <2>2 DEF EventsEnd, DrainReturns, SessionInv, ClientInv, DrainInv
  <2> QED
    BY <1>13, <2>1, <2>2
<1>14. ASSUME NEW c \in Caller, NEW command \in Command, Begin(c, command)
       PROVE  \E k \in 0..client'.seq : LastActivity(k)' /\ Follows(k)'
  <2>1. /\ UNCHANGED <<box, drain, client, pi, session>>
        /\ call' = [call EXCEPT ![c].pc = "queued", ![c].command = command]
    BY <1>0, <1>14 DEF Begin
  <2>2. \A d \in Caller : call'[d] = call[d] \/ call'[d].pc = "queued"
    BY <2>1 DEF TypeOK, CallType
  <2> QED
    BY <1>5, <2>1, <2>2
<1>15. ASSUME NEW c \in Caller, Write(c)
       PROVE  \E k \in 0..client'.seq : LastActivity(k)' /\ Follows(k)'
  <2>1. /\ UNCHANGED <<box, drain, client, pi, session>> /\ call' = At(c, "waiting")
        /\ call[c].result.status = "none"
    BY <1>15 DEF Write, SessionInv, ClientInv
  <2>2. \A d \in Caller : call'[d] = call[d] \/ (call'[d].pc = "waiting" /\ call'[d].result.status = "none")
    <3>1. "waiting" \in CallPC
      BY DEF CallPC
    <3>2. At(c, "waiting")[c].pc = "waiting" /\ At(c, "waiting")[c].result = call[c].result
          /\ \A d \in Caller \ {c} : At(c, "waiting")[d] = call[d]
      BY <3>1, MoveOutcome
    <3> QED
      BY <2>1, <3>2
  <2> QED
    BY <1>5, <2>1, <2>2
<1>16. ASSUME NEW c \in Caller,
              \/ Cancel(c) \/ CallFails(c) \/ AbortReturns(c) \/ StateReturns(c) \/ FailSession(c)
              \/ FailReturns(c)
       PROVE  \E k \in 0..client'.seq : LastActivity(k)' /\ Follows(k)'
  <2>1. UNCHANGED <<box, drain, client, pi>>
    BY <1>16 DEF Cancel, CallFails, AbortReturns, StateReturns, FailSession, FailReturns
  <2>2. /\ UNCHANGED <<session.activitySeq, session.activity, session.responseSeq>>
        /\ \/ session'.state = session.state
           \/ session'.state \notin {"ready", "running", "awaiting_handoff"}
    <3>1. CASE FailSession(c)
      BY <3>1, SessionMoves DEF FailSession, TypeOK
    <3>2. CASE StateReturns(c)
      BY <3>2 DEF StateReturns, TypeOK, SessionType
    <3> QED
      BY <1>16, <3>1, <3>2 DEF Cancel, CallFails, AbortReturns, FailReturns
  <2>3. \/ call' \in {Returned(c), At(c, "failing"), At(c, "closing")}
        \/ Accepted(c) /\ call' = At(c, "readying")
    BY <1>16
       DEF Cancel, CallFails, AbortReturns, StateReturns, FailSession, FailReturns, Answered, Accepted
  <2>4. \A d \in Caller :
           \/ call'[d] = call[d]
           \/ call'[d].pc = "readying" /\ Accepted(d) /\ call'[d].result = call[d].result
           \/ call'[d].pc \notin {"waiting", "readying"}
    BY <2>3, MoveOutcome DEF CallPC
  <2> QED
    BY <1>5, <2>1, <2>2, <2>4
<1>17. ASSUME NEW c \in Caller, WriteBreaks(c) \/ FailClient(c)
       PROVE  FALSE
  BY <1>17 DEF WriteBreaks, FailClient, Terminate, TypeOK, ClientType
<1>18. ASSUME NEW q \in Question, SendBreaks(q)
       PROVE  FALSE
  BY <1>18 DEF SendBreaks, Terminate, TypeOK, ClientType
<1>19. ASSUME NEW q \in Question,
              \/ BeginAnswer(q) \/ SendAnswer(q) \/ SendCancelled(q) \/ EndAnswer(q) \/ Expire(q)
              \/ PiExpires(q)
       PROVE  \E k \in 0..client'.seq : LastActivity(k)' /\ Follows(k)'
  BY <1>5, <1>19 DEF BeginAnswer, SendAnswer, SendCancelled, EndAnswer, Expire, PiExpires
<1>20. CASE CompleteHandoff \/ StopBegins \/ StopMarks \/ StopJoins \/ StopReturns
  <2>1. /\ UNCHANGED <<box, drain, client, pi, call, session.activitySeq, session.activity,
                       session.responseSeq>>
        /\ \/ session'.state = session.state
           \/ session'.state \notin {"ready", "running", "awaiting_handoff"}
    BY <1>20
       DEF CompleteHandoff, StopBegins, StopMarks, StopJoins, StopReturns, TypeOK, SessionType
  <2> QED
    BY <1>5, <2>1
<1>21. CASE UNCHANGED vars
  BY <1>5, <1>21
\* A prompt that has run since its response was read is overtaken; one that has not runs.
<1>22. ASSUME NEW c \in Caller, PromptReturns(c)
       PROVE  \E k \in 0..client'.seq : LastActivity(k)' /\ Follows(k)'
  <2> DEFINE p == call[c].result.seq
  <2>1. /\ UNCHANGED <<box, drain, client, pi>> /\ call' = Returned(c)
        /\ Accepted(c) /\ call[c].command = "prompt"
    BY <1>22 DEF PromptReturns, Answered, Accepted
  <2>2. /\ UNCHANGED <<session.activitySeq, session.activity>>
        /\ session'.responseSeq = IF p > session.responseSeq THEN p ELSE session.responseSeq
        /\ session'.state = IF session.activitySeq <= p /\ session.state \in {"ready", "awaiting_handoff"}
                            THEN "running" ELSE session.state
    BY <1>22 DEF PromptReturns, MarkRunning, TypeOK, SessionType
  <2>3. p \in Nat
    BY <1>2
  <2> HIDE DEF p
  <2>4. LastActivity(n)'
    BY <1>1, <2>1, <2>2 DEF LastActivity, LastType, Due, Queued
  <2>5. ~pi.streaming /\ ~pi.owed => p < n /\ session.responseSeq < n /\ session'.responseSeq < n
    BY <1>1, <1>2, <2>1, <2>2, <2>3 DEF Follows, p
  <2>6. pi'.streaming /\ session'.state \in {"ready", "awaiting_handoff"} => Decides(n)'
    <3>1. SUFFICES ASSUME pi.streaming, session'.state \in {"ready", "awaiting_handoff"}
                   PROVE  Decides(n)'
      BY <2>1
    <3>2. session'.state = session.state /\ session.activitySeq > p
      BY <1>2, <2>2, <2>3, <3>1
    <3>3. session.activitySeq < n /\ session.responseSeq < n
      BY <1>1, <3>1, <3>2 DEF Follows, Decides
    <3> QED
      BY <1>2, <2>2, <2>3, <3>2, <3>3 DEF Decides
  <2>7. ~pi'.streaming /\ ~pi'.owed /\ session'.state = "running" => Decides(n)'
    <3>1. SUFFICES ASSUME ~pi.streaming, ~pi.owed, session'.state = "running"
                   PROVE  session.activitySeq < n
      BY <2>1, <2>2, <2>5 DEF Decides
    <3>2. CASE session.activitySeq = n
      <4>1. session.state = "running"
        BY <1>2, <2>2, <2>3, <2>5, <3>1, <3>2
      <4> QED
        BY <1>1, <3>1, <4>1 DEF Follows, Decides
    <3> QED
      BY <1>2, <1>4, <3>2
  <2>8. /\ \A d \in Caller \ {c} : call'[d] = call[d]
        /\ call'[c].pc = "returned" /\ c # Binder
    BY <2>1, MoveOutcome DEF CommandInv
  <2>9. \A d \in Caller : Accepted(d)' => Accepted(d) /\ call'[d] = call[d]
    BY <2>8 DEF Accepted
  <2>10. /\ call'[Binder] = call[Binder]
         /\ Accepted(Binder)' => Accepted(Binder)
    BY <1>2, <2>8, <2>9
  <2>11. ASSUME NEW d \in Caller, Accepted(d)', call'[d].command = "prompt"
         PROVE  /\ ~pi'.streaming /\ ~pi'.owed => call'[d].result.seq < n /\ session'.responseSeq < n
                /\ Accepted(Binder)' \/ call'[Binder].pc = "readying" =>
                      call'[Binder].result.seq < call'[d].result.seq
    BY <1>1, <2>1, <2>5, <2>9, <2>10, <2>11 DEF Follows
  <2>12. Accepted(Binder)' \/ call'[Binder].pc = "readying" =>
             \/ call'[Binder].result.seq < n
             \/ call'[Binder].result.streaming = pi'.streaming
    BY <1>1, <2>1, <2>10 DEF Follows
  <2>13. Follows(n)'
    BY <2>6, <2>7, <2>11, <2>12 DEF Follows
  <2> QED
    BY <1>2, <1>3, <2>1, <2>4, <2>13
\* Bind applies what its response said or, if that has been overtaken, the activity since.
<1>23. ASSUME NEW c \in Caller, Ready(c)
       PROVE  \E k \in 0..client'.seq : LastActivity(k)' /\ Follows(k)'
  <2> DEFINE b == call[Binder].result.seq
  <2>1. /\ UNCHANGED <<box, drain, client, pi>> /\ c = Binder /\ call' = Returned(Binder)
        /\ call[Binder].pc = "readying"
    BY <1>23 DEF Ready, CommandInv
  <2>2. /\ \A d \in Caller \ {Binder} : call'[d] = call[d]
        /\ call'[Binder].pc = "returned"
    BY <1>2, <2>1, MoveOutcome
  <2>3. \A d \in Caller : Accepted(d)' => Accepted(d) /\ call'[d] = call[d] /\ d # Binder
    BY <2>2 DEF Accepted
  <2>4. b \in Nat /\ (b < n \/ call[Binder].result.streaming = pi.streaming)
    BY <1>1, <1>2, <2>1 DEF Follows
  <2> DEFINE s == [session EXCEPT !.responseSeq = b]
             r == [s EXCEPT !.state = "ready"]
  <2>5. session' = IF session.state # "starting" THEN s
                   ELSE IF session.activitySeq > b THEN ApplyActivity(r, session.activity)
                   ELSE IF call[Binder].result.streaming THEN MarkRunning(r) ELSE r
    BY <1>23, <2>1 DEF Ready
  <2>6. /\ s \in SessionType /\ r \in SessionType /\ session.activity \in {"agent_start", "agent_settled"}
        /\ s.activitySeq = session.activitySeq /\ s.activity = session.activity
        /\ s.responseSeq = b /\ s.state = session.state
        /\ r.activitySeq = session.activitySeq /\ r.activity = session.activity
        /\ r.responseSeq = b /\ r.state = "ready"
    BY <2>4 DEF TypeOK, SessionType, Lifecycle
  <2> HIDE DEF b, s, r
  <2>7. /\ UNCHANGED <<session.activitySeq, session.activity>> /\ session'.responseSeq = b
    BY <2>5, <2>6, SessionMoves
  <2>8. LastActivity(n)'
    BY <1>1, <2>1, <2>7 DEF LastActivity, LastType, Due, Queued
  <2>9. session.state \notin {"ready", "running", "awaiting_handoff"}
    BY <2>1 DEF CommandInv
  <2>10. \/ session'.state \notin {"ready", "running", "awaiting_handoff"}
         \/ session.activitySeq > b /\ session' = ApplyActivity(r, session.activity)
         \/ session.activitySeq <= b /\ call[Binder].result.streaming /\ session'.state = "running"
         \/ session.activitySeq <= b /\ ~call[Binder].result.streaming /\ session'.state = "ready"
    BY <1>2, <2>4, <2>5, <2>6, <2>9, SessionMoves
  \* What has been reconciled last is what Pi does, unless more is due.
  <2>11. ASSUME session.activitySeq > b, session' = ApplyActivity(r, session.activity)
         PROVE  \/ session.activitySeq < n
                \/ pi.streaming /\ session'.state = "running"
                \/ ~pi.streaming /\ session'.state # "running"
    BY <1>2, <1>4, <2>6, <2>11, SessionMoves DEF LastType
  <2>12. /\ pi'.streaming /\ session'.state \in {"ready", "awaiting_handoff"} => Decides(n)'
         /\ ~pi'.streaming /\ session'.state = "running" => Decides(n)'
    <3>1. CASE session.activitySeq > b /\ session' = ApplyActivity(r, session.activity)
      <4>1. session.activitySeq < n => Decides(n)'
        BY <1>2, <2>4, <2>7, <3>1 DEF Decides
      <4> QED
        BY <2>1, <2>11, <3>1, <4>1
    <3>2. CASE session.activitySeq <= b /\ b < n
      BY <1>2, <2>4, <2>7, <3>2 DEF Decides
    <3>3. CASE session.activitySeq <= b /\ call[Binder].result.streaming = pi.streaming
      BY <1>2, <2>1, <2>4, <2>10, <3>3
    <3> QED
      BY <1>2, <2>4, <2>10, <3>1, <3>2, <3>3
  <2>13. ASSUME NEW d \in Caller, Accepted(d)', call'[d].command = "prompt"
         PROVE  ~pi'.streaming /\ ~pi'.owed => call'[d].result.seq < n /\ session'.responseSeq < n
    <3>1. Accepted(d) /\ call'[d] = call[d] /\ call[d].result.seq \in Nat
      BY <1>2, <2>3, <2>13
    <3>2. /\ ~pi.streaming /\ ~pi.owed => call[d].result.seq < n
          /\ b < call[d].result.seq
      BY <1>1, <2>1, <2>13, <3>1 DEF Follows, b
    <3> QED
      BY <1>2, <2>1, <2>4, <2>7, <3>1, <3>2
  <2>14. ~Accepted(Binder)' /\ call'[Binder].pc # "readying"
    BY <2>2 DEF Accepted
  <2>15. Follows(n)'
    BY <2>12, <2>13, <2>14 DEF Follows
  <2> QED
    BY <1>2, <1>3, <2>1, <2>8, <2>15
\* An event that is dispatched is due until it is reconciled.
<1>24. CASE Deliver
  <2> DEFINE h == Head(box.queue)
  <2>1. /\ UNCHANGED <<client, call, session, pi>> /\ box.queue # <<>> /\ box'.queue = Tail(box.queue)
        /\ drain.pc = "receiving"
        /\ drain' = IF h.type \in {"agent_start", "agent_settled"}
                    THEN [pc |-> "reconciling", event |-> h] ELSE drain
    BY <1>24 DEF Deliver, TypeOK, BoxType
  <2>2. h \in Queued /\ Queued' = Queued \ {h}
    BY <2>1, QueueShrinks
  <2> HIDE DEF h
  <2>3. Due' = Due
    BY <2>1, <2>2 DEF Due
  <2>4. LastActivity(n)' /\ Follows(n)'
    BY <1>1, <2>1, <2>3, FollowsKept DEF Accepted
  <2> QED
    BY <1>2, <1>3, <2>1, <2>4
\* Activity that is reconciled is applied unless a response has overtaken it.
<1>25. CASE Reconcile
  <2> DEFINE e == drain.event
             s == [session EXCEPT !.activitySeq = e.seq, !.activity = e.type]
  <2>1. /\ UNCHANGED <<client, call, box, pi>> /\ drain'.pc = "receiving" /\ drain.pc = "reconciling"
        /\ e \in Due /\ e.type \in {"agent_start", "agent_settled"} /\ e.seq \in Nat
    BY <1>25, QueuedIsTyped DEF Reconcile, Due, TypeOK
  <2>2. session.activitySeq < e.seq /\ e.seq <= client.seq /\ \A d \in Queued : e.seq < d.seq
    BY <2>1 DEF OrderInv
  <2>3. s \in SessionType /\ s.activitySeq = e.seq /\ s.activity = e.type /\ s.state = session.state
        /\ s.responseSeq = session.responseSeq /\ s.kind = session.kind
    BY <2>1 DEF TypeOK, SessionType
  <2>4. session' = IF e.seq > session.responseSeq THEN ApplyActivity(s, e.type) ELSE s
    BY <1>2, <1>25, <2>1, <2>2 DEF Reconcile
  <2>5. Queued' = Queued /\ Due' = {d \in Queued : d.type \in {"agent_start", "agent_settled"}}
        /\ Due = Due' \cup {e}
    BY <2>1 DEF Due, Queued
  <2> HIDE DEF e, s
  <2>6. /\ session'.activitySeq = e.seq /\ session'.activity = e.type
        /\ session'.responseSeq = session.responseSeq
    BY <2>1, <2>3, <2>4, SessionMoves
  <2>7. PICK d \in Due : d.seq = n /\ d.type = LastType
    BY <1>1, <2>1 DEF LastActivity
  <2>8. \A f \in Due' : e.seq < f.seq /\ f.seq <= n /\ f.seq \in Nat
    BY <1>1, <1>2, <2>2, <2>5 DEF LastActivity
  <2>9. LastType' = LastType
    BY <2>1 DEF LastType
  <2>10. CASE d = e
    <3>1. Due' = {}
      BY <1>2, <2>7, <2>8, <2>10
    <3>2. LastActivity(n)'
      BY <2>6, <2>7, <2>9, <2>10, <3>1 DEF LastActivity
    <3>3. e.type = "agent_start" <=> pi.streaming
      BY <2>1, <2>7, <2>10 DEF LastType
    <3>4. ~Decides(n) \/ e.seq > session.responseSeq
      BY <1>2, <2>7, <2>10 DEF Decides
    <3>5. CASE e.seq > session.responseSeq
      <4>1. session' = ApplyActivity(s, e.type)
        BY <2>4, <3>5
      <4>2. pi.streaming => session'.state \notin {"ready", "awaiting_handoff"}
        BY <2>3, <3>3, <4>1, SessionMoves
      <4>3. ~pi.streaming => session'.state # "running"
        BY <2>1, <2>3, <3>3, <4>1, SessionMoves
      <4> QED
        BY <1>1, <1>2, <1>3, <2>1, <2>6, <3>2, <4>2, <4>3 DEF Follows, Accepted
    <3>6. CASE ~(e.seq > session.responseSeq)
      <4>1. session'.state = session.state /\ ~Decides(n)
        BY <2>3, <2>4, <3>4, <3>6
      <4> QED
        BY <1>1, <1>2, <1>3, <2>1, <2>6, <3>2, <4>1 DEF Follows, Accepted
    <3> QED
      BY <3>5, <3>6
  <2>11. CASE d # e
    <3>1. d \in Due' /\ e.seq < n
      BY <2>5, <2>7, <2>8, <2>11
    <3>2. LastActivity(n)'
      BY <2>7, <2>8, <2>9, <3>1 DEF LastActivity
    <3>3. CASE e.seq > session.responseSeq
      <4>1. Decides(n)'
        BY <1>2, <2>1, <2>6, <3>1, <3>3 DEF Decides
      <4> QED
        BY <1>1, <1>2, <1>3, <2>1, <2>6, <3>2, <4>1 DEF Follows, Accepted
    <3>4. CASE ~(e.seq > session.responseSeq)
      <4>1. session'.state = session.state
        BY <2>3, <2>4, <3>4
      <4>2. Decides(n) => Decides(n)'
        BY <2>6, <3>1 DEF Decides
      <4> QED
        BY <1>1, <1>2, <1>3, <2>1, <2>6, <3>2, <4>1, <4>2 DEF Follows, Accepted
    <3> QED
      BY <3>3, <3>4
  <2> QED
    BY <2>10, <2>11
<1> QED
  BY <1>9, <1>10, <1>11, <1>12, <1>13, <1>14, <1>15, <1>16, <1>17, <1>18, <1>19, <1>20, <1>21, <1>22,
     <1>23, <1>24, <1>25
     DEF Next, PiStep, CallStep, DrainStep, StopStep, AnswerStep

\* What holds of a session as long as its transport is open: events are reconciled in
\* the order Pi wrote them, a response is that of its own command, and dialogs, the
\* store and the lifecycle say what the records that are not yet handled leave to say
\* (client.go readLoop, mailbox.go dispatch, local.go handleEvent and recordResponse).
THEOREM TransportInvariant == Spec => []TransportInv
<1>1. Init => TransportInv
  BY OrderInit, CommandInit, QuestionsInit, LifecycleInit DEF TransportInv
<1>2. TypeOK /\ TypeOK' /\ SessionInv /\ TransportInv /\ [Next]_vars => TransportInv'
  BY OrderStep, CommandStep, QuestionsStep, LifecycleStep DEF TransportInv
<1> QED
  BY <1>1, <1>2, TypeCorrect, SessionInvariant, PTL DEF Spec

\* Once every record has been handled, the questions offered to users are the dialogs
\* Pi waits for (local.go handleEvent, questions.go).
THEOREM QuestionsFollowPi == Spec => []QuestionsMatch
<1>1. TransportInv => QuestionsMatch
  <2> SUFFICES ASSUME TransportInv, Reconciled, ~pi.aborted, ~terminated, NEW q \in Question \ pi.timed
               PROVE  /\ q \in asked => store[q] # "absent"
                      /\ store[q] = "offered" => q \in asked
    BY DEF QuestionsMatch
  <2>1. Queued = {} /\ Ending = {}
    BY DEF Reconciled, Queued, Ending
  <2>2. DialogInv(q)
    BY DEF TransportInv, QuestionsInv, Reconciled
  <2> QED
    BY <2>1, <2>2 DEF DialogInv
<1> QED
  BY <1>1, TransportInvariant, PTL

\* Once every record and response has been handled, the lifecycle is the one that the
\* order of the records on the transport calls for, unless Pi accepted a prompt before
\* it was bound (local.go: lifecycleResponseSeq, lastActivitySeq).
THEOREM LifecycleFollows == Spec => []LifecycleFollowsTransport
<1>1. TypeOK /\ TransportInv => LifecycleFollowsTransport
  <2> SUFFICES ASSUME TypeOK, TransportInv, pi.first # "prompt", Reconciled, session.bound
               PROVE  /\ pi.streaming => session.state \notin {"starting", "ready", "awaiting_handoff"}
                      /\ ~pi.streaming /\ ~pi.owed => session.state # "running"
    BY DEF LifecycleFollowsTransport, FollowsTransport
  <2>1. Due = {}
    BY DEF Reconciled, Due, Queued
  <2>2. PICK n \in 0..client.seq : LastActivity(n) /\ Follows(n)
    BY DEF TransportInv, LifecycleInv, Reconciled
  <2>3. session.activitySeq = n
    BY <2>1, <2>2 DEF LastActivity
  <2>4. ~Decides(n)
    BY <2>3, QueuedIsTyped DEF Decides
  <2>5. session.state # "starting"
    BY CallerIsTyped DEF TransportInv, CommandInv, Reconciled
  <2> QED
    BY <2>2, <2>4, <2>5 DEF Follows
<1> QED
  BY <1>1, TypeCorrect, TransportInvariant, PTL
=============================================================================
