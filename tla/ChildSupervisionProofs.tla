------------------------ MODULE ChildSupervisionProofs ------------------------
(***************************************************************************)
(* Proofs about ChildSupervision, for any set of children.                 *)
(***************************************************************************)
EXTENDS ChildSupervision, SequenceTheorems, TLAPS

-----------------------------------------------------------------------------
(* What the record fields may hold.  Later steps cite these facts instead of  *)
(* expanding the enumerations.                                                *)

LEMMA CallValues ==
    /\ \A pc \in {"idle", "spawning", "bootstrapping", "awaitOwnership", "awaitReady",
                  "probing", "connecting", "awaitReport", "claiming", "marking", "acking",
                  "completing", "failing", "awaitCancel", "returned"} : pc \in CallPC
    /\ \A o \in {"none", "result", "reported", "failed", "aborted", "rejected"} : o \in Outcome
    /\ \A c \in Child : AfterReportError(c) \in CallPC
BY DEF CallPC, Waiting, Outcome, AfterReportError

LEMMA EntryValues ==
    /\ \A d \in {"undecided", "accepted", "cancelled"} : d \in Disposition
    /\ \A t \in {"none", "child", "entry"} : t \in Ticket
    /\ \A k \in {"nil", "open", "closed"} : k \in Client
    /\ \A f \in {"none", "running", "done", "unsubscribed"} : f \in Forwarder
    /\ \A d \in Disposition : Cancelled(d) \in Disposition
BY DEF Disposition, Cancelled, Ticket, Client, Forwarder

LEMMA CleanValues ==
    /\ \A pc \in {"idle", "spawnWait", "signal", "exitWait", "grace", "termGrace", "drain",
                  "recover", "release", "done"} : pc \in CleanPC
    /\ \A m \in {"none", "complete", "forced", "cancelled"} : m \in Mode
BY DEF CleanPC, Mode

LEMMA PipeValues ==
    /\ \A a \in {"open", "acked", "closed"} : a \in Ack
    /\ \A a \in Ack : AckClosed(a) \in Ack
    /\ \A m \in {"ownership", "ready", "result", "failure"} : m \in Message
    /\ <<>> \in Reports
    /\ \A q \in Reports, m \in Message : Append(q, m) \in Reports
    /\ \A q \in Reports : q # <<>> => Tail(q) \in Reports
BY HeadTailProperties DEF Ack, AckClosed, Message, Reports

LEMMA ProcValues ==
    \A pc \in {"none", "exited", "provisioning", "owned", "ready", "reporting", "closing",
               "teardown", "lastReport"} : pc \in ProcPC
BY DEF ProcPC, Running

\* The functions of a typed state and the records they hold.
LEMMA Fields ==
    ASSUME TypeOK, NEW c \in Child
    PROVE  /\ call[c] \in Call /\ entry[c] \in Entry /\ clean[c] \in Clean
           /\ pipe[c] \in Pipe /\ proc[c] \in Proc
           /\ call[c].pc \in CallPC /\ call[c].outcome \in Outcome
           /\ entry[c].disposition \in Disposition /\ entry[c].ticket \in Ticket
           /\ entry[c].client \in Client /\ entry[c].forwarder \in Forwarder
           /\ entry[c].deleted \in BOOLEAN /\ entry[c].stopped \in BOOLEAN
           /\ entry[c].handle \in BOOLEAN
           /\ clean[c].pc \in CleanPC /\ clean[c].saw \in BOOLEAN /\ clean[c].err \in BOOLEAN
           /\ clean[c].bounded \in BOOLEAN
           /\ pipe[c].ack \in Ack /\ pipe[c].reports \in Reports
           /\ proc[c].pc \in ProcPC /\ proc[c].resources \in BOOLEAN
<1>1. /\ call[c] \in Call /\ entry[c] \in Entry /\ clean[c] \in Clean
      /\ pipe[c] \in Pipe /\ proc[c] \in Proc
  BY DEF TypeOK
<1>. QED BY <1>1 DEF Call, Entry, Clean, Pipe, Proc
-----------------------------------------------------------------------------
(* Type correctness *)

LEMMA InitTypeOK == Init => TypeOK
<1>. SUFFICES ASSUME Init PROVE TypeOK
  OBVIOUS
<1>1. finish \in {"open", "closing", "stopping", "done"} /\ stopSet \subseteq Child
      /\ registered \subseteq Child
  BY DEF Init
<1>2. call \in [Child -> Call]
  BY CallValues DEF Init, Call
<1>3. entry \in [Child -> Entry]
  BY EntryValues DEF Init, Entry
<1>4. clean \in [Child -> Clean]
  BY CleanValues DEF Init, Clean
<1>5. pipe \in [Child -> Pipe]
  BY PipeValues DEF Init, Pipe
<1>6. proc \in [Child -> Proc]
  BY ProcValues DEF Init, Proc
<1>. QED BY <1>1, <1>2, <1>3, <1>4, <1>5, <1>6 DEF TypeOK

\* A report that is sent joins the queue, or is dropped.
LEMMA SendType ==
    ASSUME TypeOK, NEW c \in Child, NEW m \in Message, Send(c, m)
    PROVE  pipe' \in [Child -> Pipe]
<1>1. pipe \in [Child -> Pipe] /\ pipe[c].reports \in Reports
  BY Fields DEF TypeOK
<1>2. Append(pipe[c].reports, m) \in Reports
  BY <1>1, PipeValues
<1>. QED BY <1>1, <1>2 DEF Send, Pipe

\* What CloseReports leaves of the queue is a queue of reports.
LEMMA SurvivorsType ==
    ASSUME NEW q \in Reports, NEW n \in 0..2, n <= Len(q)
    PROVE  SubSeq(q, 1, n) \in Reports
BY SubSeqProperties DEF Reports

\* The first step of the cleanup, for each of its three callers.
LEMMA StartCleanupType ==
    ASSUME TypeOK, NEW c \in Child, NEW m \in Mode, NEW t \in BOOLEAN, StartCleanup(c, m, t)
    PROVE  entry' \in [Child -> Entry] /\ clean' \in [Child -> Clean]
<1>1. entry \in [Child -> Entry] /\ clean \in [Child -> Clean]
  BY DEF TypeOK
<1>2. entry' \in [Child -> Entry]
  BY <1>1 DEF StartCleanup, Entry
<1>3. clean' \in [Child -> Clean]
  <2>1. PICK b \in BOOLEAN, p \in CleanPC :
           clean' = [clean EXCEPT ![c].mode = m, ![c].bounded = t, ![c].saw = b, ![c].pc = p]
    BY CleanValues DEF StartCleanup, Capture
  <2>2. [clean[c] EXCEPT !.mode = m, !.bounded = t, !.saw = b, !.pc = p] \in Clean
    BY <1>1, Zenon DEF Clean
  <2>. QED BY <1>1, <2>1, <2>2, Zenon
<1>. QED BY <1>2, <1>3

LEMMA CallStepTypeOK ==
    ASSUME TypeOK, NEW c \in Child,
           CallStep(c)
    PROVE  TypeOK'
<1>1. CASE StartProcess(c)
  <2>1. call' \in [Child -> Call]
    <3>1. "bootstrapping" \in CallPC
      BY CallValues
    <3>. QED BY <1>1, <3>1 DEF StartProcess, Call, TypeOK
  <2>2. proc' \in [Child -> Proc]
    <3>1. "provisioning" \in ProcPC
      BY ProcValues
    <3>. QED BY <1>1, <3>1 DEF StartProcess, Proc, TypeOK
  <2>. QED BY <1>1, <2>1, <2>2 DEF StartProcess, TypeOK, node
<1>2. CASE StartFails(c)
  <2>1. call' \in [Child -> Call]
    <3>1. "failing" \in CallPC
      BY CallValues
    <3>. QED BY <1>2, <3>1 DEF StartFails, Call, TypeOK
  <2>. QED BY <1>2, <2>1 DEF StartFails, TypeOK, node
<1>3. CASE SpawnReturns(c)
  <2>1. call' \in [Child -> Call]
    <3>1. "awaitOwnership" \in CallPC
      BY CallValues
    <3>. QED BY <1>3, <3>1 DEF SpawnReturns, Call, TypeOK
  <2>2. entry' \in [Child -> Entry]
    BY <1>3 DEF SpawnReturns, Entry, TypeOK
  <2>. QED BY <1>3, <2>1, <2>2 DEF SpawnReturns, TypeOK, node
<1>4. CASE SpawnAborts(c)
  <2>1. call' \in [Child -> Call]
    <3>1. "failing" \in CallPC
      BY CallValues
    <3>. QED BY <1>4, <3>1 DEF SpawnAborts, Call, TypeOK
  <2>2. pipe' \in [Child -> Pipe]
    <3>1. pipe \in [Child -> Pipe] /\ pipe[c] \in Pipe
      BY DEF TypeOK
    <3>2. PICK q \in Reports : q = <<>>
      BY PipeValues
    <3>3. [pipe[c] EXCEPT !.ack = "closed", !.liveness = FALSE, !.reading = FALSE,
                     !.reports = q] \in Pipe
      BY <3>1, PipeValues DEF Pipe
    <3>4. pipe' = [pipe EXCEPT ![c] = [pipe[c] EXCEPT !.ack = "closed", !.liveness = FALSE,
                     !.reading = FALSE, !.reports = q]]
      BY <1>4, <3>2 DEF SpawnAborts
    <3>. QED BY <3>1, <3>3, <3>4
  <2>3. proc' \in [Child -> Proc]
    <3>1. "exited" \in ProcPC
      BY ProcValues
    <3>. QED BY <1>4, <3>1 DEF SpawnAborts, Proc, TypeOK
  <2>. QED BY <1>4, <2>1, <2>2, <2>3 DEF SpawnAborts, TypeOK, node
<1>5. CASE ReceiveOwnership(c)
  <2>1. pipe' \in [Child -> Pipe]
    <3>1. Tail(pipe[c].reports) \in Reports
      BY <1>5, Fields, PipeValues DEF ReceiveOwnership
    <3>. QED BY <1>5, <3>1 DEF ReceiveOwnership, Pipe, TypeOK
  <2>2. entry' \in [Child -> Entry]
    <3>1. "child" \in Ticket
      BY EntryValues
    <3>. QED BY <1>5, <3>1 DEF ReceiveOwnership, Entry, TypeOK
  <2>3. call' \in [Child -> Call]
    <3>1. "awaitReady" \in CallPC
      BY CallValues
    <3>. QED BY <1>5, <3>1 DEF ReceiveOwnership, Call, TypeOK
  <2>. QED BY <1>5, <2>1, <2>2, <2>3 DEF ReceiveOwnership, TypeOK, node
<1>6. CASE ReceiveReady(c)
  <2>1. pipe' \in [Child -> Pipe]
    <3>1. Tail(pipe[c].reports) \in Reports
      BY <1>6, Fields, PipeValues DEF ReceiveReady
    <3>. QED BY <1>6, <3>1 DEF ReceiveReady, Pipe, TypeOK
  <2>2. call' \in [Child -> Call]
    <3>1. "probing" \in CallPC
      BY CallValues
    <3>. QED BY <1>6, <3>1 DEF ReceiveReady, Call, TypeOK
  <2>. QED BY <1>6, <2>1, <2>2 DEF ReceiveReady, TypeOK, node
<1>7. CASE ProbeSucceeds(c)
  <2>1. entry' \in [Child -> Entry]
    <3>1. TicketAfterWait(c) \in Ticket
      BY Fields, EntryValues DEF TicketAfterWait
    <3>. QED BY <1>7, <3>1 DEF ProbeSucceeds, Entry, TypeOK
  <2>2. call' \in [Child -> Call]
    <3>1. "connecting" \in CallPC
      BY CallValues
    <3>. QED BY <1>7, <3>1 DEF ProbeSucceeds, Call, TypeOK
  <2>. QED BY <1>7, <2>1, <2>2 DEF ProbeSucceeds, TypeOK, node
<1>8. CASE StartupFails(c)
  <2>1. entry' \in [Child -> Entry]
    <3>1. TicketAfterWait(c) \in Ticket
      BY Fields, EntryValues DEF TicketAfterWait
    <3>. QED BY <1>8, <3>1 DEF StartupFails, Entry, TypeOK
  <2>2. call' \in [Child -> Call]
    <3>1. "failing" \in CallPC
      BY CallValues
    <3>. QED BY <1>8, <3>1 DEF StartupFails, Call, TypeOK
  <2>. QED BY <1>8, <2>1, <2>2 DEF StartupFails, TypeOK, node
<1>9. CASE Connect(c)
  <2>1. entry' \in [Child -> Entry]
    <3>1. entry \in [Child -> Entry]
      BY DEF TypeOK
    <3>2. PICK f \in Forwarder :
           entry' = [entry EXCEPT ![c].client = "open", ![c].forwarder = f]
      BY <1>9, EntryValues DEF Connect
    <3>3. "open" \in Client
      BY EntryValues
    <3>. QED BY <3>1, <3>2, <3>3 DEF Entry
  <2>2. call' \in [Child -> Call]
    <3>1. "awaitReport" \in CallPC
      BY CallValues
    <3>. QED BY <1>9, <3>1 DEF Connect, Call, TypeOK
  <2>. QED BY <1>9, <2>1, <2>2 DEF Connect, TypeOK, node
<1>10. CASE ConnectFails(c)
  <2>1. call' \in [Child -> Call]
    <3>1. "failing" \in CallPC
      BY CallValues
    <3>. QED BY <1>10, <3>1 DEF ConnectFails, Call, TypeOK
  <2>. QED BY <1>10, <2>1 DEF ConnectFails, TypeOK, node
<1>11. CASE ReceiveReport(c)
  <2>1. call' \in [Child -> Call]
    <3>1. "claiming" \in CallPC
      BY CallValues
    <3>. QED BY <1>11, <3>1 DEF ReceiveReport, Call, TypeOK
  <2>2. pipe' \in [Child -> Pipe]
    <3>1. Tail(pipe[c].reports) \in Reports
      BY <1>11, Fields, PipeValues DEF ReceiveReport
    <3>. QED BY <1>11, <3>1 DEF ReceiveReport, Pipe, TypeOK
  <2>. QED BY <1>11, <2>1, <2>2 DEF ReceiveReport, TypeOK, node
<1>12. CASE ReportStreamEnds(c)
  <2>1. call' \in [Child -> Call]
    <3>1. AfterReportError(c) \in CallPC
      BY Fields, CallValues
    <3>. QED BY <1>12, <3>1 DEF ReportStreamEnds, Call, TypeOK
  <2>. QED BY <1>12, <2>1 DEF ReportStreamEnds, TypeOK, node
<1>13. CASE ClaimAccepted(c)
  <2>1. entry' \in [Child -> Entry]
    <3>1. entry \in [Child -> Entry] /\ "accepted" \in Disposition
      BY EntryValues DEF TypeOK
    <3>2. [entry[c] EXCEPT !.disposition = "accepted"] \in Entry
      BY <3>1, Zenon DEF Entry
    <3>3. entry' = entry \/ entry' = [entry EXCEPT ![c].disposition = "accepted"]
      BY <1>13 DEF ClaimAccepted
    <3>. QED BY <3>1, <3>2, <3>3, Zenon
  <2>2. call' \in [Child -> Call]
    <3>1. /\ "marking" \in CallPC
          /\ "awaitCancel" \in CallPC
      BY CallValues
    <3>. QED BY <1>13, <3>1 DEF ClaimAccepted, Call, TypeOK
  <2>. QED BY <1>13, <2>1, <2>2 DEF ClaimAccepted, TypeOK, node
<1>14. CASE MarkCloseExpected(c)
  <2>1. entry' \in [Child -> Entry]
    BY <1>14 DEF MarkCloseExpected, Entry, TypeOK
  <2>2. call' \in [Child -> Call]
    <3>1. "acking" \in CallPC
      BY CallValues
    <3>. QED BY <1>14, <3>1 DEF MarkCloseExpected, Call, TypeOK
  <2>. QED BY <1>14, <2>1, <2>2 DEF MarkCloseExpected, TypeOK, node
<1>15. CASE Acknowledge(c)
  <2>1. pipe' \in [Child -> Pipe]
    <3>1. "acked" \in Ack
      BY PipeValues
    <3>. QED BY <1>15, <3>1 DEF Acknowledge, Pipe, TypeOK
  <2>2. call' \in [Child -> Call]
    <3>1. "completing" \in CallPC
      BY CallValues
    <3>. QED BY <1>15, <3>1 DEF Acknowledge, Call, TypeOK
  <2>. QED BY <1>15, <2>1, <2>2 DEF Acknowledge, TypeOK, node
<1>16. CASE AcknowledgeFails(c)
  <2>1. pipe' \in [Child -> Pipe]
    <3>1. AckClosed(pipe[c].ack) \in Ack
      BY Fields, PipeValues
    <3>. QED BY <1>16, <3>1 DEF AcknowledgeFails, Pipe, TypeOK
  <2>2. call' \in [Child -> Call]
    <3>1. AfterReportError(c) \in CallPC
      BY Fields, CallValues
    <3>. QED BY <1>16, <3>1 DEF AcknowledgeFails, Call, TypeOK
  <2>. QED BY <1>16, <2>1, <2>2 DEF AcknowledgeFails, TypeOK, node
<1>17. CASE CleanupForCall(c)
  <2>1. clean' \in [Child -> Clean]
    <3>1. PICK m \in Mode, t \in BOOLEAN : StartCleanup(c, m, t)
      BY <1>17, CleanValues DEF CleanupForCall
    <3>. QED BY <3>1, StartCleanupType
  <2>2. entry' \in [Child -> Entry]
    <3>1. PICK m \in Mode, t \in BOOLEAN : StartCleanup(c, m, t)
      BY <1>17, CleanValues DEF CleanupForCall
    <3>. QED BY <3>1, StartCleanupType
  <2>. QED BY <1>17, <2>1, <2>2 DEF CleanupForCall, StartCleanup, Capture, TypeOK, node
<1>18. CASE Return(c)
  <2>1. call' \in [Child -> Call]
    <3>1. call \in [Child -> Call]
      BY DEF TypeOK
    <3>2. PICK o \in Outcome :
           call' = [call EXCEPT ![c].pc = "returned", ![c].outcome = o]
      BY <1>18, CallValues DEF Return
    <3>3. "returned" \in CallPC
      BY CallValues
    <3>. QED BY <3>1, <3>2, <3>3 DEF Call
  <2>. QED BY <1>18, <2>1 DEF Return, TypeOK, node
<1>19. CASE ReturnAborted(c)
  <2>1. call' \in [Child -> Call]
    <3>1. /\ "returned" \in CallPC
          /\ "aborted" \in Outcome
      BY CallValues
    <3>. QED BY <1>19, <3>1 DEF ReturnAborted, Call, TypeOK
  <2>. QED BY <1>19, <2>1 DEF ReturnAborted, TypeOK, node
<1>. QED BY <1>1, <1>2, <1>3, <1>4, <1>5, <1>6, <1>7, <1>8, <1>9, <1>10, <1>11, <1>12, <1>13, <1>14, <1>15, <1>16, <1>17, <1>18, <1>19 DEF CallStep

LEMMA CleanupStepTypeOK ==
    ASSUME TypeOK, NEW c \in Child,
           CleanupStep(c)
    PROVE  TypeOK'
<1>1. CASE CleanupForCanceller(c)
  <2>1. clean' \in [Child -> Clean]
    <3>1. PICK m \in Mode, t \in BOOLEAN : StartCleanup(c, m, t)
      BY <1>1, CleanValues DEF CleanupForCanceller
    <3>. QED BY <3>1, StartCleanupType
  <2>2. entry' \in [Child -> Entry]
    <3>1. PICK m \in Mode, t \in BOOLEAN : StartCleanup(c, m, t)
      BY <1>1, CleanValues DEF CleanupForCanceller
    <3>. QED BY <3>1, StartCleanupType
  <2>. QED BY <1>1, <2>1, <2>2 DEF CleanupForCanceller, StartCleanup, Capture, TypeOK, node
<1>2. CASE SpawnSettled(c)
  <2>1. clean' \in [Child -> Clean]
    <3>1. /\ "signal" \in CleanPC
          /\ "release" \in CleanPC
      BY CleanValues
    <3>. QED BY <1>2, <3>1 DEF SpawnSettled, Capture, Clean, TypeOK
  <2>. QED BY <1>2, <2>1 DEF SpawnSettled, Capture, TypeOK, node
<1>3. CASE SignalStop(c)
  <2>1. entry' \in [Child -> Entry]
    <3>1. entry \in [Child -> Entry] /\ entry[c] \in Entry
      BY DEF TypeOK
    <3>2. PICK b \in BOOLEAN : b = (entry[c].eventsCancelled \/ entry[c].forwarder # "none")
      OBVIOUS
    <3>3. StreamCancelled(entry[c]) \in Entry
      BY <3>1, <3>2 DEF StreamCancelled, Entry
    <3>4. entry' = [entry EXCEPT ![c] = IF clean[c].mode = "complete" THEN @
                                        ELSE StreamCancelled(@)]
      BY <1>3 DEF SignalStop
    <3>. QED BY <3>1, <3>3, <3>4
  <2>2. pipe' \in [Child -> Pipe]
    <3>1. pipe \in [Child -> Pipe] /\ pipe[c] \in Pipe
      BY DEF TypeOK
    <3>2. PICK a \in Ack, b \in BOOLEAN : pipe' = [pipe EXCEPT ![c].ack = a, ![c].liveness = b]
      BY <1>3, <3>1, PipeValues DEF SignalStop, Pipe
    <3>. QED BY <3>1, <3>2 DEF Pipe
  <2>3. proc' \in [Child -> Proc]
    <3>1. proc \in [Child -> Proc]
      BY DEF TypeOK
    <3>2. PICK b \in BOOLEAN : proc' = [proc EXCEPT ![c].asked = b]
      BY <1>3 DEF SignalStop
    <3>. QED BY <3>1, <3>2 DEF Proc
  <2>4. clean' \in [Child -> Clean]
    <3>1. clean \in [Child -> Clean]
      BY DEF TypeOK
    <3>2. PICK b \in BOOLEAN : clean' = [clean EXCEPT ![c].pc = "exitWait", ![c].err = b]
      BY <1>3 DEF SignalStop
    <3>3. "exitWait" \in CleanPC
      BY CleanValues
    <3>. QED BY <3>1, <3>2, <3>3 DEF Clean
  <2>. QED BY <1>3, <2>1, <2>2, <2>3, <2>4 DEF SignalStop, TypeOK, node
<1>4. CASE StopDeadline(c)
  <2>1. clean' \in [Child -> Clean]
    <3>1. "grace" \in CleanPC
      BY CleanValues
    <3>. QED BY <1>4, <3>1 DEF StopDeadline, Clean, TypeOK
  <2>2. pipe' \in [Child -> Pipe]
    <3>1. AckClosed(pipe[c].ack) \in Ack
      BY Fields, PipeValues
    <3>. QED BY <1>4, <3>1 DEF StopDeadline, Pipe, TypeOK
  <2>. QED BY <1>4, <2>1, <2>2 DEF StopDeadline, TypeOK, node
<1>5. CASE Terminate(c)
  <2>1. clean' \in [Child -> Clean]
    <3>1. "termGrace" \in CleanPC
      BY CleanValues
    <3>. QED BY <1>5, <3>1 DEF Terminate, Clean, TypeOK
  <2>2. proc' \in [Child -> Proc]
    BY <1>5 DEF Terminate, Proc, TypeOK
  <2>3. pipe' \in [Child -> Pipe]
    <3>1. AckClosed(pipe[c].ack) \in Ack
      BY Fields, PipeValues
    <3>. QED BY <1>5, <3>1 DEF Terminate, Pipe, TypeOK
  <2>. QED BY <1>5, <2>1, <2>2, <2>3 DEF Terminate, TypeOK, node
<1>6. CASE Kill(c)
  <2>1. proc' \in [Child -> Proc]
    <3>1. "exited" \in ProcPC
      BY ProcValues
    <3>. QED BY <1>6, <3>1 DEF Kill, Proc, TypeOK
  <2>2. pipe' \in [Child -> Pipe]
    <3>1. AckClosed(pipe[c].ack) \in Ack
      BY Fields, PipeValues
    <3>. QED BY <1>6, <3>1 DEF Kill, Pipe, TypeOK
  <2>. QED BY <1>6, <2>1, <2>2 DEF Kill, TypeOK, node
<1>7. CASE ExitObserved(c)
  <2>1. clean' \in [Child -> Clean]
    <3>1. clean \in [Child -> Clean]
      BY DEF TypeOK
    <3>2. PICK b \in BOOLEAN : clean' = [clean EXCEPT ![c].pc = "drain", ![c].err = b]
      BY <1>7 DEF ExitObserved
    <3>3. "drain" \in CleanPC
      BY CleanValues
    <3>. QED BY <3>1, <3>2, <3>3 DEF Clean
  <2>2. pipe' \in [Child -> Pipe]
    <3>1. pipe \in [Child -> Pipe] /\ pipe[c] \in Pipe /\ pipe[c].reports \in Reports
           /\ pipe[c].ack \in Ack
      BY Fields DEF TypeOK
    <3>2. PICK n \in 0..2 : /\ n <= Len(pipe[c].reports)
                             /\ pipe' = [pipe EXCEPT ![c].ack = AckClosed(@), ![c].liveness = FALSE,
                                      ![c].reading = FALSE, ![c].reports = SubSeq(@, 1, n)]
      BY <1>7 DEF ExitObserved
    <3>3. PICK a \in Ack : a = AckClosed(pipe[c].ack)
      BY <3>1, PipeValues
    <3>4. PICK q \in Reports : q = SubSeq(pipe[c].reports, 1, n)
      BY <3>1, <3>2, SurvivorsType
    <3>5. [pipe[c] EXCEPT !.ack = a, !.liveness = FALSE, !.reading = FALSE,
                     !.reports = q] \in Pipe
      BY <3>1 DEF Pipe
    <3>6. pipe' = [pipe EXCEPT ![c] = [pipe[c] EXCEPT !.ack = a, !.liveness = FALSE,
                     !.reading = FALSE, !.reports = q]]
      BY <3>2, <3>3, <3>4
    <3>. QED BY <3>1, <3>5, <3>6
  <2>. QED BY <1>7, <2>1, <2>2 DEF ExitObserved, TypeOK, node
<1>8. CASE DrainForwarder(c)
  <2>1. clean' \in [Child -> Clean]
    <3>1. "recover" \in CleanPC
      BY CleanValues
    <3>. QED BY <1>8, <3>1 DEF DrainForwarder, Clean, TypeOK
  <2>. QED BY <1>8, <2>1 DEF DrainForwarder, TypeOK, node
<1>9. CASE DrainTimesOut(c)
  <2>1. clean' \in [Child -> Clean]
    <3>1. "recover" \in CleanPC
      BY CleanValues
    <3>. QED BY <1>9, <3>1 DEF DrainTimesOut, Clean, TypeOK
  <2>2. entry' \in [Child -> Entry]
    <3>1. entry \in [Child -> Entry]
      BY DEF TypeOK
    <3>2. [entry[c] EXCEPT !.eventsCancelled = TRUE] \in Entry
      BY <3>1, Zenon DEF Entry
    <3>3. entry' = [entry EXCEPT ![c].eventsCancelled = TRUE]
      BY <1>9 DEF DrainTimesOut
    <3>. QED BY <3>1, <3>2, <3>3, Zenon
  <2>. QED BY <1>9, <2>1, <2>2 DEF DrainTimesOut, TypeOK, node
<1>10. CASE Recover(c)
  <2>1. proc' \in [Child -> Proc]
    <3>1. proc \in [Child -> Proc]
      BY DEF TypeOK
    <3>2. proc' = proc \/ proc' = [proc EXCEPT ![c].resources = FALSE]
      BY <1>10 DEF Recover
    <3>. QED BY <3>1, <3>2 DEF Proc
  <2>2. clean' \in [Child -> Clean]
    <3>1. "release" \in CleanPC
      BY CleanValues
    <3>. QED BY <1>10, <3>1 DEF Recover, Clean, TypeOK
  <2>. QED BY <1>10, <2>1, <2>2 DEF Recover, TypeOK, node
<1>11. CASE Release(c)
  <2>1. entry' \in [Child -> Entry]
    <3>1. entry \in [Child -> Entry] /\ entry[c] \in Entry /\ entry[c].client \in Client
      BY Fields DEF TypeOK
    <3>2. PICK b \in BOOLEAN : b = (entry[c].eventsCancelled \/ clean[c].saw)
      OBVIOUS
    <3>3. PICK k \in Client : k = (IF clean[c].saw THEN "closed" ELSE entry[c].client)
      BY <3>1, EntryValues
    <3>4. [entry[c] EXCEPT !.spawnCancelled = TRUE, !.eventsCancelled = b,
                     !.client = k] \in Entry
      BY <3>1 DEF Entry
    <3>5. entry' = [entry EXCEPT ![c] = [entry[c] EXCEPT !.spawnCancelled = TRUE,
                     !.eventsCancelled = b, !.client = k]]
      BY <1>11, <3>2, <3>3 DEF Release
    <3>. QED BY <3>1, <3>4, <3>5
  <2>2. clean' \in [Child -> Clean]
    <3>1. clean \in [Child -> Clean] /\ clean[c].err \in BOOLEAN /\ entry[c] \in Entry
      BY Fields DEF TypeOK
    <3>2. PICK b \in BOOLEAN : b = (clean[c].err \/ entry[c].streamErr)
      OBVIOUS
    <3>3. "done" \in CleanPC
      BY CleanValues
    <3>4. [clean[c] EXCEPT !.pc = "done", !.err = b] \in Clean
      BY <3>1, <3>3, Zenon DEF Clean
    <3>5. clean' = [clean EXCEPT ![c].pc = "done", ![c].err = b]
      BY <1>11, <3>2 DEF Release
    <3>. QED BY <3>1, <3>4, <3>5, Zenon
  <2>3. registered' \subseteq Child
    BY <1>11 DEF Release, TypeOK
  <2>. QED BY <1>11, <2>1, <2>2, <2>3 DEF Release, TypeOK, node
<1>. QED BY <1>1, <1>2, <1>3, <1>4, <1>5, <1>6, <1>7, <1>8, <1>9, <1>10, <1>11 DEF CleanupStep

LEMMA OtherStepTypeOK ==
    ASSUME TypeOK, NEW c \in Child,
           Admit(c) \/ Reject(c) \/ RequestCancelled(c) \/ CancelForUser(c)
              \/ CancelForFinish(c) \/ ForwarderStep(c) \/ ProcessStep(c)
    PROVE  TypeOK'
<1>1. CASE Admit(c)
  <2>1. registered' \subseteq Child
    BY <1>1 DEF Admit, TypeOK
  <2>2. call' \in [Child -> Call]
    <3>1. "spawning" \in CallPC
      BY CallValues
    <3>. QED BY <1>1, <3>1 DEF Admit, Call, TypeOK
  <2>. QED BY <1>1, <2>1, <2>2 DEF Admit, TypeOK, node
<1>2. CASE Reject(c)
  <2>1. call' \in [Child -> Call]
    <3>1. /\ "returned" \in CallPC
          /\ "rejected" \in Outcome
      BY CallValues
    <3>. QED BY <1>2, <3>1 DEF Reject, Call, TypeOK
  <2>. QED BY <1>2, <2>1 DEF Reject, TypeOK, node
<1>3. CASE RequestCancelled(c)
  <2>1. call' \in [Child -> Call]
    <3>1. /\ AfterReportError(c) \in CallPC
          /\ "failing" \in CallPC
      BY Fields, CallValues
    <3>. QED BY <1>3, <3>1 DEF RequestCancelled, Call, TypeOK
  <2>2. entry' \in [Child -> Entry]
    <3>1. TicketAfterWait(c) \in Ticket
      BY Fields, EntryValues DEF TicketAfterWait
    <3>. QED BY <1>3, <3>1 DEF RequestCancelled, Entry, TypeOK
  <2>. QED BY <1>3, <2>1, <2>2 DEF RequestCancelled, TypeOK, node
<1>4. CASE CancelForUser(c)
  <2>1. entry' \in [Child -> Entry]
    <3>1. entry \in [Child -> Entry] /\ entry[c].disposition \in Disposition
      BY Fields DEF TypeOK
    <3>2. PICK d \in Disposition : d = Cancelled(entry[c].disposition)
      BY <3>1, EntryValues
    <3>3. entry' = [entry EXCEPT ![c].deleted = TRUE, ![c].disposition = d]
      BY <1>4, <3>2 DEF CancelForUser
    <3>4. [entry[c] EXCEPT !.deleted = TRUE, !.disposition = d] \in Entry
      BY <3>1, Zenon DEF Entry
    <3>. QED BY <3>1, <3>3, <3>4, Zenon
  <2>. QED BY <1>4, <2>1 DEF CancelForUser, TypeOK, node
<1>16. CASE CancelForFinish(c)
  <2>1. entry' \in [Child -> Entry]
    <3>1. entry \in [Child -> Entry] /\ entry[c].disposition \in Disposition
      BY Fields DEF TypeOK
    <3>2. PICK d \in Disposition : d = Cancelled(entry[c].disposition)
      BY <3>1, EntryValues
    <3>3. entry' = [entry EXCEPT ![c].stopped = TRUE, ![c].disposition = d]
      BY <1>16, <3>2 DEF CancelForFinish
    <3>4. [entry[c] EXCEPT !.stopped = TRUE, !.disposition = d] \in Entry
      BY <3>1, Zenon DEF Entry
    <3>. QED BY <3>1, <3>3, <3>4, Zenon
  <2>. QED BY <1>16, <2>1 DEF CancelForFinish, TypeOK, node
<1>5. CASE ForwarderEnds(c)
  <2>1. entry' \in [Child -> Entry]
    <3>1. "done" \in Forwarder
      BY EntryValues
    <3>. QED BY <1>5, <3>1 DEF ForwarderEnds, Entry, TypeOK
  <2>. QED BY <1>5, <2>1 DEF ForwarderEnds, TypeOK, node
<1>6. CASE StreamFails(c)
  <2>1. entry' \in [Child -> Entry]
    <3>1. entry \in [Child -> Entry]
      BY DEF TypeOK
    <3>2. entry' = [entry EXCEPT ![c].forwarder = "done", ![c].streamErr = TRUE]
      BY <1>6 DEF StreamFails
    <3>3. "done" \in Forwarder
      BY EntryValues
    <3>4. [entry[c] EXCEPT !.forwarder = "done", !.streamErr = TRUE] \in Entry
      BY <3>1, <3>3, Zenon DEF Entry
    <3>. QED BY <3>1, <3>2, <3>4, Zenon
  <2>2. pipe' \in [Child -> Pipe]
    BY <1>6 DEF StreamFails, Pipe, TypeOK
  <2>. QED BY <1>6, <2>1, <2>2 DEF StreamFails, TypeOK, node
<1>7. CASE ChildProvisions(c)
  <2>1. proc' \in [Child -> Proc]
    BY <1>7 DEF ChildProvisions, Proc, TypeOK
  <2>. QED BY <1>7, <2>1 DEF ChildProvisions, TypeOK, node
<1>8. CASE ChildPublishesOwnership(c)
  <2>1. proc' \in [Child -> Proc]
    <3>1. "owned" \in ProcPC
      BY ProcValues
    <3>. QED BY <1>8, <3>1 DEF ChildPublishesOwnership, Proc, TypeOK
  <2>2. pipe' \in [Child -> Pipe]
    <3>1. "ownership" \in Message
      BY PipeValues
    <3>. QED BY <1>8, <3>1, SendType DEF ChildPublishesOwnership
  <2>. QED BY <1>8, <2>1, <2>2 DEF ChildPublishesOwnership, Send, TypeOK, node
<1>9. CASE ChildPublishesReady(c)
  <2>1. proc' \in [Child -> Proc]
    <3>1. "ready" \in ProcPC
      BY ProcValues
    <3>. QED BY <1>9, <3>1 DEF ChildPublishesReady, Proc, TypeOK
  <2>2. pipe' \in [Child -> Pipe]
    <3>1. "ready" \in Message
      BY PipeValues
    <3>. QED BY <1>9, <3>1, SendType DEF ChildPublishesReady
  <2>. QED BY <1>9, <2>1, <2>2 DEF ChildPublishesReady, Send, TypeOK, node
<1>10. CASE ChildReports(c)
  <2>1. proc' \in [Child -> Proc]
    <3>1. "reporting" \in ProcPC
      BY ProcValues
    <3>. QED BY <1>10, <3>1 DEF ChildReports, Proc, TypeOK
  <2>2. pipe' \in [Child -> Pipe]
    <3>1. \A m \in {"result", "failure"} : m \in Message
      BY PipeValues
    <3>. QED BY <1>10, <3>1, SendType DEF ChildReports
  <2>. QED BY <1>10, <2>1, <2>2 DEF ChildReports, Send, TypeOK, node
<1>11. CASE ChildTearsDown(c)
  <2>1. proc' \in [Child -> Proc]
    <3>1. "teardown" \in ProcPC
      BY ProcValues
    <3>. QED BY <1>11, <3>1 DEF ChildTearsDown, Proc, TypeOK
  <2>. QED BY <1>11, <2>1 DEF ChildTearsDown, TypeOK, node
<1>12. CASE ChildReportsFailure(c)
  <2>1. proc' \in [Child -> Proc]
    <3>1. proc \in [Child -> Proc] /\ proc[c].resources \in BOOLEAN
      BY Fields DEF TypeOK
    <3>2. PICK b \in BOOLEAN :
           proc' = [proc EXCEPT ![c].pc = "lastReport", ![c].resources = b]
      BY <1>12, <3>1 DEF ChildReportsFailure
    <3>3. "lastReport" \in ProcPC
      BY ProcValues
    <3>. QED BY <3>1, <3>2, <3>3 DEF Proc
  <2>2. pipe' \in [Child -> Pipe]
    <3>1. "failure" \in Message
      BY PipeValues
    <3>. QED BY <1>12, <3>1, SendType DEF ChildReportsFailure
  <2>. QED BY <1>12, <2>1, <2>2 DEF ChildReportsFailure, Send, TypeOK, node
<1>13. CASE ChildCloses(c)
  <2>1. proc' \in [Child -> Proc]
    <3>1. "closing" \in ProcPC
      BY ProcValues
    <3>. QED BY <1>13, <3>1 DEF ChildCloses, Proc, TypeOK
  <2>. QED BY <1>13, <2>1 DEF ChildCloses, TypeOK, node
<1>14. CASE ChildExits(c)
  <2>1. proc' \in [Child -> Proc]
    <3>1. proc \in [Child -> Proc] /\ proc[c].resources \in BOOLEAN
      BY Fields DEF TypeOK
    <3>2. PICK b \in BOOLEAN, e \in BOOLEAN : proc' = [proc EXCEPT ![c].pc = "exited",
                                        ![c].exitErr = e, ![c].resources = b]
      BY <1>14, <3>1 DEF ChildExits
    <3>3. "exited" \in ProcPC
      BY ProcValues
    <3>. QED BY <3>1, <3>2, <3>3 DEF Proc
  <2>. QED BY <1>14, <2>1 DEF ChildExits, TypeOK, node
<1>15. CASE ChildCrashes(c)
  <2>1. proc' \in [Child -> Proc]
    <3>1. "exited" \in ProcPC
      BY ProcValues
    <3>. QED BY <1>15, <3>1 DEF ChildCrashes, Proc, TypeOK
  <2>. QED BY <1>15, <2>1 DEF ChildCrashes, TypeOK, node
<1>. QED BY <1>1, <1>2, <1>3, <1>4, <1>5, <1>6, <1>7, <1>8, <1>9, <1>10, <1>11, <1>12, <1>13, <1>14, <1>15, <1>16 DEF ForwarderStep, ProcessStep

LEMMA NodeStepTypeOK ==
    ASSUME TypeOK, NodeStep
    PROVE  TypeOK'
BY DEF TypeOK, NodeStep, CloseAdmission, StopChildren, FinishNode

LEMMA NextTypeOK ==
    ASSUME TypeOK, [Next]_vars
    PROVE  TypeOK'
<1>1. CASE NodeStep
  BY <1>1, NodeStepTypeOK
<1>2. ASSUME NEW c \in Child, CallStep(c) PROVE TypeOK'
  BY <1>2, CallStepTypeOK
<1>3. ASSUME NEW c \in Child, CleanupStep(c) PROVE TypeOK'
  BY <1>3, CleanupStepTypeOK
<1>4. ASSUME NEW c \in Child,
             Admit(c) \/ Reject(c) \/ RequestCancelled(c) \/ CancelForUser(c)
               \/ CancelForFinish(c) \/ ForwarderStep(c) \/ ProcessStep(c)
      PROVE  TypeOK'
  BY <1>4, OtherStepTypeOK
<1>5. CASE UNCHANGED vars
  BY <1>5 DEF vars, TypeOK
<1>. QED BY <1>1, <1>2, <1>3, <1>4, <1>5 DEF Next

\* Every reachable state has the types that TypeOK gives: the queues hold
\* reports, the records the values the code can write.
THEOREM TypeCorrect == Spec => []TypeOK
<1>1. TypeOK /\ [Next]_vars => TypeOK'
  BY NextTypeOK
<1>. QED BY <1>1, InitTypeOK, PTL DEF Spec
=============================================================================
