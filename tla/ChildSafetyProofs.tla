-------------------------- MODULE ChildSafetyProofs --------------------------
(***************************************************************************)
(* SupervisionInv is inductive, and what follows from it: the safety       *)
(* properties of ChildSupervision for any set of children, and that it     *)
(* implements Delegation.                                                  *)
(***************************************************************************)
EXTENDS ChildSupervisionProofs

LEMMA InitInv == Init => SupervisionInv
<1>. SUFFICES ASSUME Init, NEW c \in Child PROVE ChildInv(c)
  BY InitTypeOK DEF SupervisionInv
<1>. QED BY DEF Init, ChildInv, SpawnInv, SpawnDone, CleanInv, RegistryInv, OutcomeInv,
                AckInv, RecoveryInv, EventsInv, ForwarderGone, Waiting, Connected
-----------------------------------------------------------------------------
(* A step of one child leaves the others alone. *)

Untouched(d) ==
    /\ UNCHANGED <<finish, stopSet, call[d], entry[d], clean[d], pipe[d], proc[d]>>
    /\ d \in registered' <=> d \in registered

LEMMA UntouchedInv ==
    ASSUME NEW d \in Child, ChildInv(d), Untouched(d)
    PROVE  ChildInv(d)'
BY DEF Untouched, ChildInv, SpawnInv, SpawnDone, CleanInv, RegistryInv, OutcomeInv,
       AckInv, RecoveryInv, EventsInv, ForwarderGone

LEMMA CallStepFrame ==
    ASSUME TypeOK, NEW c \in Child, NEW d \in Child, d # c,
           CallStep(c)
    PROVE  Untouched(d)
<1>1. CASE StartProcess(c)
  BY <1>1 DEF StartProcess, TypeOK, Untouched, node
<1>2. CASE StartFails(c)
  BY <1>2 DEF StartFails, TypeOK, Untouched, node
<1>3. CASE SpawnReturns(c)
  BY <1>3 DEF SpawnReturns, TypeOK, Untouched, node
<1>4. CASE SpawnAborts(c)
  BY <1>4 DEF SpawnAborts, TypeOK, Untouched, node
<1>5. CASE ReceiveOwnership(c)
  BY <1>5 DEF ReceiveOwnership, TypeOK, Untouched, node
<1>6. CASE ReceiveReady(c)
  BY <1>6 DEF ReceiveReady, TypeOK, Untouched, node
<1>7. CASE ProbeSucceeds(c)
  BY <1>7 DEF ProbeSucceeds, TypeOK, Untouched, node
<1>8. CASE StartupFails(c)
  BY <1>8 DEF StartupFails, TypeOK, Untouched, node
<1>9. CASE Connect(c)
  BY <1>9 DEF Connect, TypeOK, Untouched, node
<1>10. CASE ConnectFails(c)
  BY <1>10 DEF ConnectFails, TypeOK, Untouched, node
<1>11. CASE ReceiveReport(c)
  BY <1>11 DEF ReceiveReport, TypeOK, Untouched, node
<1>12. CASE ReportStreamEnds(c)
  BY <1>12 DEF ReportStreamEnds, TypeOK, Untouched, node
<1>13. CASE ClaimAccepted(c)
  BY <1>13 DEF ClaimAccepted, TypeOK, Untouched, node
<1>14. CASE MarkCloseExpected(c)
  BY <1>14 DEF MarkCloseExpected, TypeOK, Untouched, node
<1>15. CASE Acknowledge(c)
  BY <1>15 DEF Acknowledge, TypeOK, Untouched, node
<1>16. CASE AcknowledgeFails(c)
  BY <1>16 DEF AcknowledgeFails, TypeOK, Untouched, node
<1>17. CASE CleanupForCall(c)
  BY <1>17 DEF CleanupForCall, StartCleanup, TypeOK, Untouched, node
<1>18. CASE Return(c)
  BY <1>18 DEF Return, TypeOK, Untouched, node
<1>19. CASE ReturnAborted(c)
  BY <1>19 DEF ReturnAborted, TypeOK, Untouched, node
<1>. QED BY <1>1, <1>2, <1>3, <1>4, <1>5, <1>6, <1>7, <1>8, <1>9, <1>10, <1>11, <1>12, <1>13, <1>14, <1>15, <1>16, <1>17, <1>18, <1>19 DEF CallStep

LEMMA CleanupStepFrame ==
    ASSUME TypeOK, NEW c \in Child, NEW d \in Child, d # c,
           CleanupStep(c)
    PROVE  Untouched(d)
<1>1. CASE CleanupForCanceller(c)
  BY <1>1 DEF CleanupForCanceller, StartCleanup, TypeOK, Untouched, node
<1>2. CASE SpawnSettled(c)
  BY <1>2 DEF SpawnSettled, TypeOK, Untouched, node
<1>3. CASE SignalStop(c)
  BY <1>3 DEF SignalStop, TypeOK, Untouched, node
<1>4. CASE StopDeadline(c)
  BY <1>4 DEF StopDeadline, TypeOK, Untouched, node
<1>5. CASE Terminate(c)
  BY <1>5 DEF Terminate, TypeOK, Untouched, node
<1>6. CASE Kill(c)
  BY <1>6 DEF Kill, TypeOK, Untouched, node
<1>7. CASE ExitObserved(c)
  BY <1>7 DEF ExitObserved, TypeOK, Untouched, node
<1>8. CASE DrainForwarder(c)
  BY <1>8 DEF DrainForwarder, TypeOK, Untouched, node
<1>9. CASE DrainTimesOut(c)
  BY <1>9 DEF DrainTimesOut, TypeOK, Untouched, node
<1>10. CASE Recover(c)
  BY <1>10 DEF Recover, TypeOK, Untouched, node
<1>11. CASE Release(c)
  BY <1>11 DEF Release, TypeOK, Untouched, node
<1>. QED BY <1>1, <1>2, <1>3, <1>4, <1>5, <1>6, <1>7, <1>8, <1>9, <1>10, <1>11 DEF CleanupStep

LEMMA OtherStepFrame ==
    ASSUME TypeOK, NEW c \in Child, NEW d \in Child, d # c,
           Admit(c) \/ Reject(c) \/ RequestCancelled(c) \/ CancelForUser(c)
              \/ CancelForFinish(c) \/ ForwarderStep(c) \/ ProcessStep(c)
    PROVE  Untouched(d)
<1>1. CASE Admit(c)
  BY <1>1 DEF Admit, TypeOK, Untouched, node
<1>2. CASE Reject(c)
  BY <1>2 DEF Reject, TypeOK, Untouched, node
<1>3. CASE RequestCancelled(c)
  BY <1>3 DEF RequestCancelled, TypeOK, Untouched, node
<1>4. CASE CancelForUser(c)
  BY <1>4 DEF CancelForUser, TypeOK, Untouched, node
<1>16. CASE CancelForFinish(c)
  BY <1>16 DEF CancelForFinish, TypeOK, Untouched, node
<1>5. CASE ForwarderEnds(c)
  BY <1>5 DEF ForwarderEnds, TypeOK, Untouched, node
<1>6. CASE StreamFails(c)
  BY <1>6 DEF StreamFails, TypeOK, Untouched, node
<1>7. CASE ChildProvisions(c)
  BY <1>7 DEF ChildProvisions, TypeOK, Untouched, node
<1>8. CASE ChildPublishesOwnership(c)
  BY <1>8 DEF ChildPublishesOwnership, Send, TypeOK, Untouched, node
<1>9. CASE ChildPublishesReady(c)
  BY <1>9 DEF ChildPublishesReady, Send, TypeOK, Untouched, node
<1>10. CASE ChildReports(c)
  BY <1>10 DEF ChildReports, Send, TypeOK, Untouched, node
<1>11. CASE ChildTearsDown(c)
  BY <1>11 DEF ChildTearsDown, TypeOK, Untouched, node
<1>12. CASE ChildReportsFailure(c)
  BY <1>12 DEF ChildReportsFailure, Send, TypeOK, Untouched, node
<1>13. CASE ChildCloses(c)
  BY <1>13 DEF ChildCloses, TypeOK, Untouched, node
<1>14. CASE ChildExits(c)
  BY <1>14 DEF ChildExits, TypeOK, Untouched, node
<1>15. CASE ChildCrashes(c)
  BY <1>15 DEF ChildCrashes, TypeOK, Untouched, node
<1>. QED BY <1>1, <1>2, <1>3, <1>4, <1>5, <1>6, <1>7, <1>8, <1>9, <1>10, <1>11, <1>12, <1>13, <1>14, <1>15, <1>16 DEF ForwarderStep, ProcessStep

LEMMA CallStepChildInv ==
    ASSUME TypeOK, NEW c \in Child, ChildInv(c),
           CallStep(c)
    PROVE  ChildInv(c)'
<1>. USE DEF ChildInv
<1>1. CASE StartProcess(c)
  BY <1>1 DEF StartProcess, TypeOK, Call, Proc, node,
         SpawnInv, SpawnDone, CleanInv, RegistryInv, OutcomeInv, AckInv, RecoveryInv, EventsInv, ForwarderGone, Waiting, Connected, Running
<1>2. CASE StartFails(c)
  BY <1>2 DEF StartFails, TypeOK, Call, node,
         SpawnInv, SpawnDone, CleanInv, RegistryInv, OutcomeInv, AckInv, RecoveryInv, EventsInv, ForwarderGone, Waiting, Connected, Running
<1>3. CASE SpawnReturns(c)
  BY <1>3 DEF SpawnReturns, TypeOK, Call, Entry, node,
         SpawnInv, SpawnDone, CleanInv, RegistryInv, OutcomeInv, AckInv, RecoveryInv, EventsInv, ForwarderGone, Waiting, Connected, Running
<1>4. CASE SpawnAborts(c)
  BY <1>4 DEF SpawnAborts, TypeOK, Call, Pipe, Proc, node,
         SpawnInv, SpawnDone, CleanInv, RegistryInv, OutcomeInv, AckInv, RecoveryInv, EventsInv, ForwarderGone, Waiting, Connected, Running
<1>5. CASE ReceiveOwnership(c)
  BY <1>5 DEF ReceiveOwnership, TypeOK, Pipe, Entry, Call, node,
         SpawnInv, SpawnDone, CleanInv, RegistryInv, OutcomeInv, AckInv, RecoveryInv, EventsInv, ForwarderGone, Waiting, Connected, Running
<1>6. CASE ReceiveReady(c)
  BY <1>6 DEF ReceiveReady, TypeOK, Pipe, Call, node,
         SpawnInv, SpawnDone, CleanInv, RegistryInv, OutcomeInv, AckInv, RecoveryInv, EventsInv, ForwarderGone, Waiting, Connected, Running
<1>7. CASE ProbeSucceeds(c)
  <2>1. /\ call'[c].pc = "connecting" /\ call'[c].outcome = call[c].outcome
        /\ entry'[c].ticket = TicketAfterWait(c) /\ entry'[c].handle = entry[c].handle
        /\ entry'[c].deleted = entry[c].deleted /\ entry'[c].stopped = entry[c].stopped
        /\ entry'[c].disposition = entry[c].disposition
        /\ UNCHANGED <<finish, stopSet, registered, clean, pipe, proc>>
    BY <1>7 DEF ProbeSucceeds, TypeOK, Entry, Call, node
  \* The probe was answered, so the cleanup has not seen the process exit.
  <2>2. entry[c].handle /\ clean[c].pc \notin {"release", "done"}
    BY <1>7 DEF ProbeSucceeds, Answers, CleanInv, RecoveryInv, Waiting
  <2>3. entry[c].ticket = "child" \/ entry[c].ticket = "entry"
    BY <1>7 DEF ProbeSucceeds, RecoveryInv
  <2>. QED BY <1>7, <2>1, <2>2, <2>3
           DEF ProbeSucceeds, TicketAfterWait, SpawnInv, SpawnDone, CleanInv, RegistryInv,
               OutcomeInv, AckInv, RecoveryInv, EventsInv, ForwarderGone, Waiting, Connected
<1>8. CASE StartupFails(c)
  BY <1>8 DEF StartupFails, TicketAfterWait, TypeOK, Entry, Call, node,
         SpawnInv, SpawnDone, CleanInv, RegistryInv, OutcomeInv, AckInv, RecoveryInv, EventsInv, ForwarderGone, Waiting, Connected, Running
<1>9. CASE Connect(c)
  BY <1>9 DEF Connect, Answers, TypeOK, Entry, Call, node,
         SpawnInv, SpawnDone, CleanInv, RegistryInv, OutcomeInv, AckInv, RecoveryInv, EventsInv, ForwarderGone, Waiting, Connected, Running
<1>10. CASE ConnectFails(c)
  BY <1>10 DEF ConnectFails, TypeOK, Call, node,
         SpawnInv, SpawnDone, CleanInv, RegistryInv, OutcomeInv, AckInv, RecoveryInv, EventsInv, ForwarderGone, Waiting, Connected, Running
<1>11. CASE ReceiveReport(c)
  BY <1>11 DEF ReceiveReport, TypeOK, Call, Pipe, node,
         SpawnInv, SpawnDone, CleanInv, RegistryInv, OutcomeInv, AckInv, RecoveryInv, EventsInv, ForwarderGone, Waiting, Connected, Running
<1>12. CASE ReportStreamEnds(c)
  BY <1>12 DEF ReportStreamEnds, AfterReportError, TypeOK, Call, node,
         SpawnInv, SpawnDone, CleanInv, RegistryInv, OutcomeInv, AckInv, RecoveryInv, EventsInv, ForwarderGone, Waiting, Connected, Running
<1>13. CASE ClaimAccepted(c)
  <2>1. CASE entry[c].disposition = "undecided"
    BY <1>13, <2>1 DEF ClaimAccepted, TypeOK, Entry, Call, node,
         SpawnInv, SpawnDone, CleanInv, RegistryInv, OutcomeInv, AckInv, RecoveryInv, EventsInv, ForwarderGone, Waiting, Connected
  <2>2. CASE entry[c].disposition # "undecided"
    BY <1>13, <2>2 DEF ClaimAccepted, TypeOK, Entry, Call, node,
         SpawnInv, SpawnDone, CleanInv, RegistryInv, OutcomeInv, AckInv, RecoveryInv, EventsInv, ForwarderGone, Waiting, Connected
  <2>. QED BY <2>1, <2>2
<1>14. CASE MarkCloseExpected(c)
  BY <1>14 DEF MarkCloseExpected, TypeOK, Entry, Call, node,
         SpawnInv, SpawnDone, CleanInv, RegistryInv, OutcomeInv, AckInv, RecoveryInv, EventsInv, ForwarderGone, Waiting, Connected, Running
<1>15. CASE Acknowledge(c)
  BY <1>15 DEF Acknowledge, TypeOK, Pipe, Call, node,
         SpawnInv, SpawnDone, CleanInv, RegistryInv, OutcomeInv, AckInv, RecoveryInv, EventsInv, ForwarderGone, Waiting, Connected, Running
<1>16. CASE AcknowledgeFails(c)
  BY <1>16 DEF AcknowledgeFails, AckClosed, AfterReportError, TypeOK, Pipe, Call, node,
         SpawnInv, SpawnDone, CleanInv, RegistryInv, OutcomeInv, AckInv, RecoveryInv, EventsInv, ForwarderGone, Waiting, Connected, Running
<1>17. CASE CleanupForCall(c)
  BY <1>17 DEF CleanupForCall, StartCleanup, TypeOK, Clean, Entry, node,
         SpawnInv, SpawnDone, CleanInv, RegistryInv, OutcomeInv, AckInv, RecoveryInv, EventsInv, ForwarderGone, Waiting, Connected, Running
<1>18. CASE Return(c)
  BY <1>18 DEF Return, TypeOK, Call, node,
         SpawnInv, SpawnDone, CleanInv, RegistryInv, OutcomeInv, AckInv, RecoveryInv, EventsInv, ForwarderGone, Waiting, Connected, Running
<1>19. CASE ReturnAborted(c)
  BY <1>19 DEF ReturnAborted, TypeOK, Call, node,
         SpawnInv, SpawnDone, CleanInv, RegistryInv, OutcomeInv, AckInv, RecoveryInv, EventsInv, ForwarderGone, Waiting, Connected, Running
<1>. QED BY <1>1, <1>2, <1>3, <1>4, <1>5, <1>6, <1>7, <1>8, <1>9, <1>10, <1>11, <1>12, <1>13, <1>14, <1>15, <1>16, <1>17, <1>18, <1>19 DEF CallStep

LEMMA CleanupStepChildInv ==
    ASSUME TypeOK, NEW c \in Child, ChildInv(c),
           CleanupStep(c)
    PROVE  ChildInv(c)'
<1>. USE DEF ChildInv
<1>1. CASE CleanupForCanceller(c)
  BY <1>1 DEF CleanupForCanceller, StartCleanup, TypeOK, Clean, Entry, node,
         SpawnInv, SpawnDone, CleanInv, RegistryInv, OutcomeInv, AckInv, RecoveryInv, EventsInv, ForwarderGone, Waiting, Connected, Running
<1>2. CASE SpawnSettled(c)
  BY <1>2 DEF SpawnSettled, TypeOK, Clean, node,
         SpawnInv, SpawnDone, CleanInv, RegistryInv, OutcomeInv, AckInv, RecoveryInv, EventsInv, ForwarderGone, Waiting, Connected, Running
<1>3. CASE SignalStop(c)
  BY <1>3 DEF SignalStop, StreamCancelled, AckClosed, TypeOK, Entry, Pipe, Proc, Clean, node,
         SpawnInv, SpawnDone, CleanInv, RegistryInv, OutcomeInv, AckInv, RecoveryInv, EventsInv, ForwarderGone, Waiting, Connected, Running
<1>4. CASE StopDeadline(c)
  BY <1>4 DEF StopDeadline, AckClosed, TypeOK, Clean, Pipe, node,
         SpawnInv, SpawnDone, CleanInv, RegistryInv, OutcomeInv, AckInv, RecoveryInv, EventsInv, ForwarderGone, Waiting, Connected, Running
<1>5. CASE Terminate(c)
  BY <1>5 DEF Terminate, AckClosed, TypeOK, Clean, Proc, Pipe, node,
         SpawnInv, SpawnDone, CleanInv, RegistryInv, OutcomeInv, AckInv, RecoveryInv, EventsInv, ForwarderGone, Waiting, Connected, Running
<1>6. CASE Kill(c)
  BY <1>6 DEF Kill, AckClosed, TypeOK, Proc, Pipe, node,
         SpawnInv, SpawnDone, CleanInv, RegistryInv, OutcomeInv, AckInv, RecoveryInv, EventsInv, ForwarderGone, Waiting, Connected, Running
<1>7. CASE ExitObserved(c)
  BY <1>7 DEF ExitObserved, AckClosed, TypeOK, Clean, Pipe, node,
         SpawnInv, SpawnDone, CleanInv, RegistryInv, OutcomeInv, AckInv, RecoveryInv, EventsInv, ForwarderGone, Waiting, Connected, Running
<1>8. CASE DrainForwarder(c)
  BY <1>8 DEF DrainForwarder, MustDrain, TypeOK, Clean, node,
         SpawnInv, SpawnDone, CleanInv, RegistryInv, OutcomeInv, AckInv, RecoveryInv, EventsInv, ForwarderGone, Waiting, Connected, Running
<1>9. CASE DrainTimesOut(c)
  BY <1>9 DEF DrainTimesOut, TypeOK, Clean, Entry, node,
         SpawnInv, SpawnDone, CleanInv, RegistryInv, OutcomeInv, AckInv, RecoveryInv, EventsInv, ForwarderGone, Waiting, Connected, Running
<1>10. CASE Recover(c)
  BY <1>10 DEF Recover, TypeOK, Proc, Clean, node,
         SpawnInv, SpawnDone, CleanInv, RegistryInv, OutcomeInv, AckInv, RecoveryInv, EventsInv, ForwarderGone, Waiting, Connected, Running
<1>11. CASE Release(c)
  BY <1>11 DEF Release, TypeOK, Entry, Clean, node,
         SpawnInv, SpawnDone, CleanInv, RegistryInv, OutcomeInv, AckInv, RecoveryInv, EventsInv, ForwarderGone, Waiting, Connected, Running
<1>. QED BY <1>1, <1>2, <1>3, <1>4, <1>5, <1>6, <1>7, <1>8, <1>9, <1>10, <1>11 DEF CleanupStep

LEMMA OtherStepChildInv ==
    ASSUME TypeOK, NEW c \in Child, ChildInv(c),
           Admit(c) \/ Reject(c) \/ RequestCancelled(c) \/ CancelForUser(c)
              \/ CancelForFinish(c) \/ ForwarderStep(c) \/ ProcessStep(c)
    PROVE  ChildInv(c)'
<1>. USE DEF ChildInv
<1>1. CASE Admit(c)
  BY <1>1 DEF Admit, TypeOK, Call, node,
         SpawnInv, SpawnDone, CleanInv, RegistryInv, OutcomeInv, AckInv, RecoveryInv, EventsInv, ForwarderGone, Waiting, Connected, Running
<1>2. CASE Reject(c)
  BY <1>2 DEF Reject, TypeOK, Call, node,
         SpawnInv, SpawnDone, CleanInv, RegistryInv, OutcomeInv, AckInv, RecoveryInv, EventsInv, ForwarderGone, Waiting, Connected, Running
<1>3. CASE RequestCancelled(c)
  BY <1>3 DEF RequestCancelled, TicketAfterWait, AfterReportError, TypeOK, Call, Entry, node,
         SpawnInv, SpawnDone, CleanInv, RegistryInv, OutcomeInv, AckInv, RecoveryInv, EventsInv, ForwarderGone, Waiting, Connected, Running
<1>4. CASE CancelForUser(c)
  BY <1>4 DEF CancelForUser, Cancelled, TypeOK, Entry, node,
         SpawnInv, SpawnDone, CleanInv, RegistryInv, OutcomeInv, AckInv, RecoveryInv, EventsInv, ForwarderGone, Waiting, Connected, Running
<1>16. CASE CancelForFinish(c)
  BY <1>16 DEF CancelForFinish, Cancelled, TypeOK, Entry, node,
         SpawnInv, SpawnDone, CleanInv, RegistryInv, OutcomeInv, AckInv, RecoveryInv, EventsInv, ForwarderGone, Waiting, Connected, Running
<1>5. CASE ForwarderEnds(c)
  BY <1>5 DEF ForwarderEnds, TypeOK, Entry, node,
         SpawnInv, SpawnDone, CleanInv, RegistryInv, OutcomeInv, AckInv, RecoveryInv, EventsInv, ForwarderGone, Waiting, Connected, Running
<1>6. CASE StreamFails(c)
  BY <1>6 DEF StreamFails, TypeOK, Entry, Pipe, node,
         SpawnInv, SpawnDone, CleanInv, RegistryInv, OutcomeInv, AckInv, RecoveryInv, EventsInv, ForwarderGone, Waiting, Connected, Running
<1>7. CASE ChildProvisions(c)
  BY <1>7 DEF ChildProvisions, TypeOK, Proc, node,
         SpawnInv, SpawnDone, CleanInv, RegistryInv, OutcomeInv, AckInv, RecoveryInv, EventsInv, ForwarderGone, Waiting, Connected, Running
<1>8. CASE ChildPublishesOwnership(c)
  BY <1>8 DEF ChildPublishesOwnership, Send, TypeOK, Proc, Pipe, node,
         SpawnInv, SpawnDone, CleanInv, RegistryInv, OutcomeInv, AckInv, RecoveryInv, EventsInv, ForwarderGone, Waiting, Connected, Running
<1>9. CASE ChildPublishesReady(c)
  BY <1>9 DEF ChildPublishesReady, Send, TypeOK, Proc, Pipe, node,
         SpawnInv, SpawnDone, CleanInv, RegistryInv, OutcomeInv, AckInv, RecoveryInv, EventsInv, ForwarderGone, Waiting, Connected, Running
<1>10. CASE ChildReports(c)
  BY <1>10 DEF ChildReports, Send, TypeOK, Proc, Pipe, node,
         SpawnInv, SpawnDone, CleanInv, RegistryInv, OutcomeInv, AckInv, RecoveryInv, EventsInv, ForwarderGone, Waiting, Connected, Running
<1>11. CASE ChildTearsDown(c)
  BY <1>11 DEF ChildTearsDown, TypeOK, Proc, node,
         SpawnInv, SpawnDone, CleanInv, RegistryInv, OutcomeInv, AckInv, RecoveryInv, EventsInv, ForwarderGone, Waiting, Connected, Running
<1>12. CASE ChildReportsFailure(c)
  BY <1>12 DEF ChildReportsFailure, Send, TypeOK, Proc, Pipe, node,
         SpawnInv, SpawnDone, CleanInv, RegistryInv, OutcomeInv, AckInv, RecoveryInv, EventsInv, ForwarderGone, Waiting, Connected, Running
<1>13. CASE ChildCloses(c)
  BY <1>13 DEF ChildCloses, TypeOK, Proc, node,
         SpawnInv, SpawnDone, CleanInv, RegistryInv, OutcomeInv, AckInv, RecoveryInv, EventsInv, ForwarderGone, Waiting, Connected, Running
<1>14. CASE ChildExits(c)
  BY <1>14 DEF ChildExits, TypeOK, Proc, node,
         SpawnInv, SpawnDone, CleanInv, RegistryInv, OutcomeInv, AckInv, RecoveryInv, EventsInv, ForwarderGone, Waiting, Connected, Running
<1>15. CASE ChildCrashes(c)
  BY <1>15 DEF ChildCrashes, TypeOK, Proc, node,
         SpawnInv, SpawnDone, CleanInv, RegistryInv, OutcomeInv, AckInv, RecoveryInv, EventsInv, ForwarderGone, Waiting, Connected, Running
<1>. QED BY <1>1, <1>2, <1>3, <1>4, <1>5, <1>6, <1>7, <1>8, <1>9, <1>10, <1>11, <1>12, <1>13, <1>14, <1>15, <1>16 DEF ForwarderStep, ProcessStep

LEMMA NodeStepChildInv ==
    ASSUME TypeOK, NodeStep, NEW c \in Child, ChildInv(c)
    PROVE  ChildInv(c)'
<1>1. CASE CloseAdmission
  BY <1>1 DEF CloseAdmission, ChildInv, SpawnInv, SpawnDone, CleanInv, RegistryInv,
              OutcomeInv, AckInv, RecoveryInv, EventsInv, ForwarderGone
<1>2. CASE StopChildren
  BY <1>2 DEF StopChildren, TypeOK, ChildInv, SpawnInv, SpawnDone, CleanInv, RegistryInv,
              OutcomeInv, AckInv, RecoveryInv, EventsInv, ForwarderGone
<1>3. CASE FinishNode
  BY <1>3 DEF FinishNode, TypeOK, ChildInv, SpawnInv, SpawnDone, CleanInv, RegistryInv,
              OutcomeInv, AckInv, RecoveryInv, EventsInv, ForwarderGone
<1>. QED BY <1>1, <1>2, <1>3 DEF NodeStep
-----------------------------------------------------------------------------
LEMMA StepInv ==
    ASSUME SupervisionInv, [Next]_vars
    PROVE  SupervisionInv'
<1>. USE DEF SupervisionInv
<1>1. TypeOK'
  BY NextTypeOK
<1>2. ASSUME NEW d \in Child PROVE ChildInv(d)'
  <2>1. CASE NodeStep
    BY <2>1, NodeStepChildInv
  <2>2. ASSUME NEW c \in Child, CallStep(c) PROVE ChildInv(d)'
    BY <2>2, CallStepFrame, CallStepChildInv, UntouchedInv
  <2>3. ASSUME NEW c \in Child, CleanupStep(c) PROVE ChildInv(d)'
    BY <2>3, CleanupStepFrame, CleanupStepChildInv, UntouchedInv
  <2>4. ASSUME NEW c \in Child,
               Admit(c) \/ Reject(c) \/ RequestCancelled(c) \/ CancelForUser(c)
                 \/ CancelForFinish(c) \/ ForwarderStep(c) \/ ProcessStep(c)
        PROVE  ChildInv(d)'
    BY <2>4, OtherStepFrame, OtherStepChildInv, UntouchedInv
  <2>5. CASE UNCHANGED vars
    BY <2>5, UntouchedInv DEF vars, Untouched
  <2>. QED BY <2>1, <2>2, <2>3, <2>4, <2>5 DEF Next
<1>. QED BY <1>1, <1>2

\* However the goroutines of a node, its children and its users interleave, what
\* spawning, cleanup, registration, answers, acknowledgement and recovery know
\* of each child stays consistent.
THEOREM Supervised == Spec => []SupervisionInv
BY InitInv, StepInv, PTL DEF Spec
-----------------------------------------------------------------------------
(* What SupervisionInv implies. *)

\* No cancellation that came first is answered with the acknowledgement byte.
THEOREM AckedOnlyAccepted == Spec => []AckedOnlyWhenAccepted
<1>1. SupervisionInv => AckedOnlyWhenAccepted
  BY DEF SupervisionInv, ChildInv, AckInv, AckedOnlyWhenAccepted
<1>. QED BY <1>1, Supervised, PTL

\* A call that answers with a result or a failure answers for a child whose
\* process is gone and whose entry has left the registry.
THEOREM SettledFirst == Spec => []SettledBeforeReturn
<1>1. ASSUME SupervisionInv, NEW c \in Child,
             call[c].outcome \in {"result", "reported", "failed"}
      PROVE  proc[c].pc \in {"none", "exited"} /\ c \notin registered
  <2>1. clean[c].pc = "done"
    BY <1>1 DEF SupervisionInv, ChildInv, OutcomeInv
  <2>2. proc[c].pc \in {"none", "exited"}
    BY <1>1, <2>1 DEF SupervisionInv, ChildInv, CleanInv, SpawnInv
  <2>3. c \notin registered
    BY <1>1, <2>1 DEF SupervisionInv, ChildInv, RegistryInv
  <2>. QED BY <2>2, <2>3
<1>2. SupervisionInv => SettledBeforeReturn
  BY <1>1 DEF SettledBeforeReturn
<1>. QED BY <1>2, Supervised, PTL

\* A successful delegation has acknowledged the child and left no resource.
THEOREM ResultsAreSettled == Spec => []ResultMeansSettled
<1>1. SupervisionInv => ResultMeansSettled
  BY DEF SupervisionInv, ChildInv, RecoveryInv, ResultMeansSettled
<1>. QED BY <1>1, Supervised, PTL

\* A child's resources are recovered only after its process has exited.
THEOREM RecoversAfterExit == Spec => []RecoveryAfterExit
<1>1. SupervisionInv => RecoveryAfterExit
  BY DEF SupervisionInv, ChildInv, CleanInv, RecoveryAfterExit
<1>. QED BY <1>1, Supervised, PTL

\* A delegation that ends naturally with success answers behind the forwarder of
\* the child's events, whose stream did not end before that was expected; only a
\* forwarder that never subscribed goes unnoticed.
THEOREM ResultsFollowEvents == Spec => []ResultFollowsEvents
<1>1. ASSUME SupervisionInv, NEW c \in Child,
             call[c].outcome = "result", clean[c].mode = "complete"
      PROVE  \/ entry[c].forwarder = "unsubscribed"
             \/ entry[c].forwarder = "done" /\ ~entry[c].streamErr
  BY <1>1 DEF SupervisionInv, ChildInv, OutcomeInv, EventsInv, ForwarderGone
<1>2. SupervisionInv => ResultFollowsEvents
  BY <1>1 DEF ResultFollowsEvents
<1>. QED BY <1>2, Supervised, PTL

\* A node that has finished leaves no child in its registry and no child process.
THEOREM NoOrphans == Spec => []NoOrphanAfterFinish
<1>1. ASSUME SupervisionInv, finish = "done", NEW c \in Child
      PROVE  c \notin registered /\ proc[c].pc \in {"none", "exited"}
  <2>1. SpawnInv(c) /\ CleanInv(c) /\ RegistryInv(c)
    BY <1>1 DEF SupervisionInv, ChildInv
  <2>2. c \notin registered
    BY <1>1, <2>1 DEF RegistryInv
  <2>3. CASE call[c].pc = "idle" \/ call[c].outcome = "rejected"
    BY <2>1, <2>3 DEF SpawnInv, RegistryInv
  <2>4. CASE call[c].pc # "idle" /\ call[c].outcome # "rejected"
    <3>1. clean[c].pc = "done"
      BY <2>1, <2>2, <2>4 DEF RegistryInv
    <3>2. SpawnDone(c) /\ (entry[c].handle => proc[c].pc = "exited")
      BY <2>1, <3>1 DEF CleanInv
    <3>. QED BY <2>1, <2>2, <3>2 DEF SpawnInv
  <2>. QED BY <2>2, <2>3, <2>4
<1>2. SupervisionInv => NoOrphanAfterFinish
  <2>. SUFFICES ASSUME SupervisionInv, finish = "done"
                PROVE  registered = {} /\ \A c \in Child : proc[c].pc \in {"none", "exited"}
    BY DEF NoOrphanAfterFinish
  <2>1. registered \subseteq Child
    BY DEF SupervisionInv, TypeOK
  <2>. QED BY <1>1, <2>1
<1>. QED BY <1>2, Supervised, PTL
-----------------------------------------------------------------------------
(* ChildSupervision implements Delegation: every step of the node, of a        *)
(* goroutine or of a child process is a step of the promise or a stutter.      *)

\* What Delegation sees of one child.
Seen(d) == /\ (call[d].pc = "idle") <=> (call'[d].pc = "idle")
           /\ call'[d].outcome = call[d].outcome
           /\ Held(d)' <=> Held(d)

Waited == {d \in Child : Held(d)}

LEMMA Stutters ==
    ASSUME (finish' = "open") <=> (finish = "open"),
           (finish' = "done") <=> (finish = "done"),
           registered' = registered, \A d \in Child : Seen(d)
    PROVE  UNCHANGED Promise!vars
<1>1. {d \in Child : call'[d].pc # "idle" /\ call'[d].outcome # "rejected"}
        = {d \in Child : call[d].pc # "idle" /\ call[d].outcome # "rejected"}
  BY DEF Seen
<1>2. [d \in Child |-> call'[d].outcome] = [d \in Child |-> call[d].outcome]
  BY DEF Seen
<1>3. (finish' = "open") = (finish = "open") /\ (finish' = "done") = (finish = "done")
  OBVIOUS
<1>4. Waited' = Waited
  BY DEF Seen, Waited
<1>. QED BY <1>1, <1>2, <1>3, <1>4 DEF Promise!vars, Waited

\* A child that a step leaves alone looks the same to Delegation.
LEMMA UntouchedSeen ==
    ASSUME NEW d \in Child, Untouched(d)
    PROVE  Seen(d)
BY DEF Untouched, Seen, Held

LEMMA InitImplements == Init => Promise!Init
<1>. SUFFICES ASSUME Init PROVE Promise!Init
  OBVIOUS
<1>1. {d \in Child : call[d].pc # "idle" /\ call[d].outcome # "rejected"} = {}
  BY DEF Init
<1>2. [d \in Child |-> call[d].outcome] = [d \in Child |-> "none"]
  BY DEF Init
<1>3. (finish = "open") = TRUE /\ (finish = "done") = FALSE /\ registered = {}
  BY DEF Init
<1>4. {d \in Child : Held(d)} = {}
  BY DEF Init, Held
<1>. QED BY <1>1, <1>2, <1>3, <1>4 DEF Promise!Init

\* The steps of a CreateChild call that neither admit, reject nor answer it.
QuietCallStep(c) == CallStep(c) /\ ~Return(c) /\ ~ReturnAborted(c)

LEMMA CallStepStutters ==
    ASSUME SupervisionInv, NEW c \in Child, QuietCallStep(c)
    PROVE  UNCHANGED Promise!vars
<1>. USE DEF SupervisionInv, TypeOK, Call, Held
<1>0. \A d \in Child : d # c => Seen(d)
  BY CallStepFrame, UntouchedSeen DEF QuietCallStep
\* While the process is being spawned no cleanup waits for its exit.
<1>u. call[c].pc \in {"spawning", "bootstrapping"} => clean[c].pc # "exitWait"
  BY DEF ChildInv, CleanInv, SpawnInv, SpawnDone
<1>s. SUFFICES finish' = finish /\ registered' = registered /\ Seen(c)
  BY <1>0, Stutters
<1>1. CASE StartProcess(c)
  BY <1>1, <1>u DEF StartProcess, Seen, node
<1>2. CASE StartFails(c)
  BY <1>2 DEF StartFails, Seen, node
<1>3. CASE SpawnReturns(c)
  BY <1>3 DEF SpawnReturns, Seen, node
<1>4. CASE SpawnAborts(c)
  BY <1>4, <1>u DEF SpawnAborts, Seen, node
<1>5. CASE ReceiveOwnership(c)
  BY <1>5 DEF ReceiveOwnership, Seen, node
<1>6. CASE ReceiveReady(c)
  BY <1>6 DEF ReceiveReady, Seen, node
<1>7. CASE ProbeSucceeds(c)
  BY <1>7 DEF ProbeSucceeds, Seen, node
<1>8. CASE StartupFails(c)
  BY <1>8 DEF StartupFails, Seen, node
<1>9. CASE Connect(c)
  BY <1>9 DEF Connect, Seen, node
<1>10. CASE ConnectFails(c)
  BY <1>10 DEF ConnectFails, Seen, node
<1>11. CASE ReceiveReport(c)
  BY <1>11 DEF ReceiveReport, Seen, node
<1>12. CASE ReportStreamEnds(c)
  BY <1>12 DEF ReportStreamEnds, AfterReportError, Seen, node
<1>13. CASE ClaimAccepted(c)
  BY <1>13 DEF ClaimAccepted, Seen, node
<1>14. CASE MarkCloseExpected(c)
  BY <1>14 DEF MarkCloseExpected, Seen, node
<1>15. CASE Acknowledge(c)
  BY <1>15 DEF Acknowledge, Seen, node
<1>16. CASE AcknowledgeFails(c)
  BY <1>16 DEF AcknowledgeFails, AfterReportError, Seen, node
<1>17. CASE CleanupForCall(c)
  BY <1>17 DEF CleanupForCall, StartCleanup, Clean, Seen, node
<1>. QED BY <1>1, <1>2, <1>3, <1>4, <1>5, <1>6, <1>7, <1>8, <1>9, <1>10, <1>11, <1>12, <1>13, <1>14, <1>15, <1>16, <1>17 DEF QuietCallStep, CallStep

LEMMA CleanupStepStutters ==
    ASSUME TypeOK, NEW c \in Child, CleanupStep(c), ~Release(c), ~SignalStop(c)
    PROVE  UNCHANGED Promise!vars
<1>. USE DEF TypeOK, Clean, Proc, Held
<1>d. \A d \in Child : d # c => Seen(d)
  BY CleanupStepFrame, UntouchedSeen
<1>s. SUFFICES UNCHANGED <<finish, registered, call>> /\ (Held(c)' <=> Held(c))
  BY <1>d, Stutters DEF Seen
<1>1. CASE CleanupForCanceller(c)
  BY <1>1 DEF CleanupForCanceller, StartCleanup, node
<1>2. CASE SpawnSettled(c)
  BY <1>2 DEF SpawnSettled, node
<1>4. CASE StopDeadline(c)
  BY <1>4 DEF StopDeadline, node
<1>5. CASE Terminate(c)
  BY <1>5 DEF Terminate, node
<1>6. CASE Kill(c)
  BY <1>6 DEF Kill, node
<1>7. CASE ExitObserved(c)
  BY <1>7 DEF ExitObserved, Running, node
<1>8. CASE DrainForwarder(c)
  BY <1>8 DEF DrainForwarder, node
<1>9. CASE DrainTimesOut(c)
  BY <1>9 DEF DrainTimesOut, node
<1>10. CASE Recover(c)
  BY <1>10 DEF Recover, node
<1>. QED BY <1>1, <1>2, <1>4, <1>5, <1>6, <1>7, <1>8, <1>9, <1>10 DEF CleanupStep

\* The steps of the process that do not end it.
QuietProcessStep(c) == ProcessStep(c) /\ ~ChildExits(c) /\ ~ChildCrashes(c)

LEMMA OtherStepStutters ==
    ASSUME TypeOK, NEW c \in Child,
           CancelForUser(c) \/ CancelForFinish(c) \/ ForwarderStep(c) \/ QuietProcessStep(c)
    PROVE  UNCHANGED Promise!vars
<1>. USE DEF TypeOK, Clean, Proc, Held, Running
<1>d. \A d \in Child : d # c => Seen(d)
  BY OtherStepFrame, UntouchedSeen DEF QuietProcessStep
<1>s. SUFFICES UNCHANGED <<finish, registered, call>> /\ (Held(c)' <=> Held(c))
  BY <1>d, Stutters DEF Seen
<1>1. CASE CancelForUser(c)
  BY <1>1 DEF CancelForUser, node
<1>2. CASE CancelForFinish(c)
  BY <1>2 DEF CancelForFinish, node
<1>3. CASE ForwarderStep(c)
  BY <1>3 DEF ForwarderStep, ForwarderEnds, StreamFails, node
<1>4. CASE QuietProcessStep(c)
  <2>1. UNCHANGED <<finish, registered, call, clean>>
    BY <1>4 DEF QuietProcessStep, ProcessStep, ChildProvisions, ChildPublishesOwnership,
                ChildPublishesReady, ChildReports, ChildTearsDown, ChildReportsFailure,
                ChildCloses, node
  <2>2. CASE ChildProvisions(c)
    BY <2>1, <2>2 DEF ChildProvisions
  <2>3. CASE ChildPublishesOwnership(c)
    BY <2>1, <2>3 DEF ChildPublishesOwnership
  <2>4. CASE ChildPublishesReady(c)
    BY <2>1, <2>4 DEF ChildPublishesReady
  <2>5. CASE ChildReports(c)
    BY <2>1, <2>5 DEF ChildReports
  <2>6. CASE ChildTearsDown(c)
    BY <2>1, <2>6 DEF ChildTearsDown
  <2>7. CASE ChildReportsFailure(c)
    BY <2>1, <2>7 DEF ChildReportsFailure
  <2>8. CASE ChildCloses(c)
    BY <2>1, <2>8 DEF ChildCloses
  <2>. QED BY <1>4, <2>2, <2>3, <2>4, <2>5, <2>6, <2>7, <2>8 DEF QuietProcessStep, ProcessStep
<1>. QED BY <1>1, <1>2, <1>3, <1>4

LEMMA RequestCancelledStutters ==
    ASSUME TypeOK, NEW c \in Child, RequestCancelled(c)
    PROVE  UNCHANGED Promise!vars
<1>. USE DEF TypeOK, Call, Held
<1>1. \A d \in Child : d # c => Seen(d)
  BY OtherStepFrame, UntouchedSeen
<1>2. finish' = finish /\ registered' = registered /\ Seen(c)
  BY DEF RequestCancelled, AfterReportError, Waiting, Seen, node
<1>. QED BY <1>1, <1>2, Stutters
-----------------------------------------------------------------------------
(* The steps that Delegation sees. *)

Admitted == {d \in Child : call[d].pc # "idle" /\ call[d].outcome # "rejected"}
Outcomes == [d \in Child |-> call[d].outcome]

LEMMA AdmitImplements ==
    ASSUME SupervisionInv, NEW c \in Child, Admit(c)
    PROVE  Promise!Admit(c)
<1>. USE DEF Admit, SupervisionInv, TypeOK, Call, Admitted, Outcomes
<1>1. call[c].outcome = "none"
  BY DEF ChildInv, OutcomeInv
<1>2. Outcomes[c] = "none" /\ c \notin Admitted
  BY <1>1
<1>3. Admitted' = Admitted \cup {c}
  BY <1>1
<1>4. Outcomes' = Outcomes
  OBVIOUS
<1>5. (finish = "open") /\ (finish' = "open") = (finish = "open")
        /\ (finish' = "done") = (finish = "done") /\ registered' = registered \cup {c}
  OBVIOUS
<1>w. Waited' = Waited
  BY DEF Waited, Held
<1>. QED BY <1>2, <1>3, <1>4, <1>5, <1>w DEF Promise!Admit, Waited

LEMMA RejectImplements ==
    ASSUME SupervisionInv, NEW c \in Child, Reject(c)
    PROVE  Promise!Reject(c)
<1>. USE DEF Reject, SupervisionInv, TypeOK, Call, Admitted, Outcomes, node
<1>1. call[c].outcome = "none"
  BY DEF ChildInv, OutcomeInv
<1>2. Outcomes[c] = "none" /\ c \notin Admitted
  BY <1>1
<1>3. Admitted' = Admitted
  BY <1>1
<1>4. Outcomes' = [Outcomes EXCEPT ![c] = "rejected"]
  OBVIOUS
<1>5. (finish # "open") /\ (finish' = "open") = (finish = "open")
        /\ (finish' = "done") = (finish = "done") /\ registered' = registered
  OBVIOUS
<1>w. Waited' = Waited
  BY DEF Waited, Held
<1>. QED BY <1>2, <1>3, <1>4, <1>5, <1>w DEF Promise!Reject, Waited

LEMMA SettleImplements ==
    ASSUME SupervisionInv, NEW c \in Child, Release(c)
    PROVE  Promise!Settle(c)
<1>. USE DEF Release, Admitted, Outcomes
<1>1. c \in registered
  <2>1. CleanInv(c) /\ RegistryInv(c)
    BY DEF SupervisionInv, ChildInv
  <2>. QED BY <2>1 DEF CleanInv, RegistryInv, SpawnDone
<1>2. Admitted' = Admitted /\ Outcomes' = Outcomes
  OBVIOUS
<1>3. (finish' = "open") = (finish = "open") /\ (finish' = "done") = (finish = "done")
        /\ registered' = registered \ {c}
  OBVIOUS
<1>4. c \notin Waited /\ Waited' = Waited
  BY DEF SupervisionInv, TypeOK, Clean, Waited, Held
<1>. QED BY <1>1, <1>2, <1>3, <1>4 DEF Promise!Settle, Waited

\* The cleanup that a DELETE began signals the child and waits: from now on the
\* child is held, unless its process has already exited.
LEMMA SignalImplements ==
    ASSUME SupervisionInv, NEW c \in Child, SignalStop(c)
    PROVE  [Promise!Next]_(Promise!vars)
<1>. USE DEF SupervisionInv, TypeOK, Clean, Proc, Admitted, Outcomes
<1>1. c \in registered
  <2>1. CleanInv(c) /\ RegistryInv(c)
    BY DEF ChildInv
  <2>. QED BY <2>1 DEF SignalStop, CleanInv, RegistryInv, SpawnDone
<1>2. UNCHANGED <<finish, registered, call>> /\ clean[c].pc = "signal"
  BY DEF SignalStop, node
<1>3. ~Held(c)
  BY <1>2 DEF Held
<1>4. \A d \in Child : d # c => Seen(d)
  BY CleanupStepFrame, UntouchedSeen DEF CleanupStep
<1>5. CASE Held(c)'
  <2>1. c \notin Waited /\ Waited' = Waited \cup {c}
    BY <1>3, <1>4, <1>5 DEF Waited, Seen
  <2>2. Admitted' = Admitted /\ Outcomes' = Outcomes
    BY <1>2
  <2>3. (finish' = "open") = (finish = "open") /\ (finish' = "done") = (finish = "done")
    BY <1>2
  <2>4. Promise!Hold(c)
    BY <1>1, <1>2, <2>1, <2>2, <2>3 DEF Promise!Hold, Waited
  <2>. QED BY <2>4 DEF Promise!Next
<1>6. CASE ~Held(c)'
  <2>1. Seen(c)
    BY <1>2, <1>3, <1>6 DEF Seen
  <2>. QED BY <1>2, <1>4, <2>1, Stutters
<1>. QED BY <1>5, <1>6

\* The end of a process lets a held child settle.
LEMMA ExitImplements ==
    ASSUME TypeOK, NEW c \in Child, ChildExits(c) \/ ChildCrashes(c)
    PROVE  [Promise!Next]_(Promise!vars)
<1>. USE DEF TypeOK, Clean, Proc, Admitted, Outcomes
<1>1. UNCHANGED <<finish, registered, call, clean>> /\ proc'[c].pc = "exited"
  <2>1. CASE ChildExits(c)
    <3>1. PICK left \in {FALSE, proc[c].resources}, e \in BOOLEAN :
             proc' = [proc EXCEPT ![c].pc = "exited", ![c].exitErr = e, ![c].resources = left]
      BY <2>1, Zenon DEF ChildExits
    <3>2. proc'[c].pc = "exited"
      BY <3>1
    <3>. QED BY <2>1, <3>2, Zenon DEF ChildExits, node
  <2>2. CASE ChildCrashes(c)
    BY <2>2 DEF ChildCrashes, node
  <2>. QED BY <2>1, <2>2
<1>2. ~Held(c)'
  BY <1>1 DEF Held, Running
<1>3. \A d \in Child : d # c => Seen(d)
  BY OtherStepFrame, UntouchedSeen DEF ProcessStep
<1>4. CASE Held(c)
  <2>1. c \in Waited /\ Waited' = Waited \ {c}
    BY <1>2, <1>3, <1>4 DEF Waited, Seen
  <2>2. Admitted' = Admitted /\ Outcomes' = Outcomes
    BY <1>1
  <2>3. (finish' = "open") = (finish = "open") /\ (finish' = "done") = (finish = "done")
    BY <1>1
  <2>4. Promise!Yield(c)
    BY <1>1, <2>1, <2>2, <2>3 DEF Promise!Yield, Waited
  <2>. QED BY <2>4 DEF Promise!Next
<1>5. CASE ~Held(c)
  <2>1. Seen(c)
    BY <1>1, <1>2, <1>5 DEF Seen
  <2>. QED BY <1>1, <1>3, <2>1, Stutters
<1>. QED BY <1>4, <1>5

LEMMA ReturnImplements ==
    ASSUME SupervisionInv, NEW c \in Child, Return(c)
    PROVE  Promise!Return(c)
<1>. USE DEF Return, SupervisionInv, TypeOK, Call, Admitted, Outcomes, node
<1>1. call[c].outcome = "none" /\ c \notin registered /\ c \in Admitted
  BY DEF ChildInv, OutcomeInv, RegistryInv
<1>2. PICK o \in {"result", "reported", "failed"} :
          call' = [call EXCEPT ![c].pc = "returned", ![c].outcome = o]
  OBVIOUS
<1>3. Outcomes[c] = "none" /\ Outcomes' = [Outcomes EXCEPT ![c] = o]
  BY <1>1, <1>2
<1>4. Admitted' = Admitted
  BY <1>1, <1>2
<1>5. (finish' = "open") = (finish = "open") /\ (finish' = "done") = (finish = "done")
        /\ registered' = registered
  OBVIOUS
<1>w. Waited' = Waited
  BY DEF Waited, Held
<1>. QED BY <1>1, <1>3, <1>4, <1>5, <1>w DEF Promise!Return, Waited

LEMMA AbortImplements ==
    ASSUME SupervisionInv, NEW c \in Child, ReturnAborted(c)
    PROVE  Promise!Abort(c)
<1>. USE DEF ReturnAborted, SupervisionInv, TypeOK, Call, Admitted, Outcomes, node
<1>1. call[c].outcome = "none" /\ c \in Admitted
  BY DEF ChildInv, OutcomeInv
<1>2. Outcomes[c] = "none" /\ Outcomes' = [Outcomes EXCEPT ![c] = "aborted"]
  BY <1>1
<1>3. Admitted' = Admitted
  BY <1>1
<1>4. (finish' = "open") = (finish = "open") /\ (finish' = "done") = (finish = "done")
        /\ registered' = registered
  OBVIOUS
<1>w. Waited' = Waited
  BY DEF Waited, Held
<1>. QED BY <1>1, <1>2, <1>3, <1>4, <1>w DEF Promise!Abort, Waited

LEMMA NodeStepImplements ==
    ASSUME SupervisionInv, NodeStep
    PROVE  [Promise!Next]_(Promise!vars)
<1>1. CASE CloseAdmission
  <2>1. (finish = "open") = TRUE /\ (finish' = "open") = FALSE
          /\ (finish' = "done") = (finish = "done")
    BY <1>1 DEF CloseAdmission
  <2>2. UNCHANGED <<registered, call>> /\ Waited' = Waited
    BY <1>1 DEF CloseAdmission, Waited, Held
  <2>. QED BY <2>1, <2>2 DEF Promise!Next, Promise!Close, Waited
<1>2. CASE StopChildren
  BY <1>2, Stutters DEF StopChildren, Seen, Held
<1>3. CASE FinishNode
  <2>1. registered = {}
    <3>1. registered \subseteq Child
      BY DEF SupervisionInv, TypeOK
    <3>2. ASSUME NEW c \in registered PROVE FALSE
      <4>1. RegistryInv(c)
        BY <3>1 DEF SupervisionInv, ChildInv
      <4>2. c \in stopSet /\ clean[c].pc # "done"
        BY <1>3, <4>1 DEF FinishNode, RegistryInv
      <4>. QED BY <1>3, <4>2 DEF FinishNode
    <3>. QED BY <3>2
  <2>2. (finish = "open") = FALSE /\ (finish = "done") = FALSE
          /\ (finish' = "open") = FALSE /\ (finish' = "done") = TRUE
    BY <1>3 DEF FinishNode
  <2>3. UNCHANGED <<registered, call>> /\ Waited' = Waited
    BY <1>3 DEF FinishNode, Waited, Held
  <2>. QED BY <2>1, <2>2, <2>3 DEF Promise!Next, Promise!Finish, Waited
<1>. QED BY <1>1, <1>2, <1>3 DEF NodeStep
-----------------------------------------------------------------------------
LEMMA StepImplements ==
    ASSUME SupervisionInv, [Next]_vars
    PROVE  [Promise!Next]_(Promise!vars)
<1>0. TypeOK
  BY DEF SupervisionInv
<1>1. CASE NodeStep
  BY <1>1, NodeStepImplements
<1>2. ASSUME NEW c \in Child, CallStep(c) PROVE [Promise!Next]_(Promise!vars)
  <2>1. CASE Return(c)
    BY <2>1, ReturnImplements DEF Promise!Next
  <2>2. CASE ReturnAborted(c)
    BY <2>2, AbortImplements DEF Promise!Next
  <2>3. CASE ~Return(c) /\ ~ReturnAborted(c)
    BY <1>2, <2>3, CallStepStutters DEF QuietCallStep
  <2>. QED BY <2>1, <2>2, <2>3
<1>3. ASSUME NEW c \in Child, CleanupStep(c) PROVE [Promise!Next]_(Promise!vars)
  <2>1. CASE Release(c)
    BY <2>1, SettleImplements DEF Promise!Next
  <2>2. CASE SignalStop(c)
    BY <2>2, SignalImplements
  <2>3. CASE ~Release(c) /\ ~SignalStop(c)
    BY <1>0, <1>3, <2>3, CleanupStepStutters
  <2>. QED BY <2>1, <2>2, <2>3
<1>4. ASSUME NEW c \in Child, Admit(c) \/ Reject(c) PROVE [Promise!Next]_(Promise!vars)
  BY <1>4, AdmitImplements, RejectImplements DEF Promise!Next
<1>5. ASSUME NEW c \in Child,
             RequestCancelled(c) \/ CancelForUser(c) \/ CancelForFinish(c)
               \/ ForwarderStep(c) \/ ProcessStep(c)
      PROVE  [Promise!Next]_(Promise!vars)
  <2>1. CASE ChildExits(c) \/ ChildCrashes(c)
    BY <1>0, <2>1, ExitImplements
  <2>2. CASE RequestCancelled(c)
    BY <1>0, <2>2, RequestCancelledStutters
  <2>3. CASE CancelForUser(c) \/ CancelForFinish(c) \/ ForwarderStep(c) \/ QuietProcessStep(c)
    BY <1>0, <2>3, OtherStepStutters
  <2>. QED BY <1>5, <2>1, <2>2, <2>3 DEF QuietProcessStep
<1>6. CASE UNCHANGED vars
  BY <1>6, Stutters DEF vars, Seen, Held
<1>. QED BY <1>1, <1>2, <1>3, <1>4, <1>5, <1>6 DEF Next

\* The node keeps the promises of Delegation that are about safety: one admission
\* and one answer for each child, an answer other than "aborted" only for a child
\* that is settled, and an end of the node only when no child is live.
THEOREM Implements == Spec => Promise!Spec
<1>1. SupervisionInv /\ [Next]_vars => [Promise!Next]_(Promise!vars)
  BY StepImplements
<1>. QED BY <1>1, InitImplements, Supervised, PTL DEF Spec, Promise!Spec
=============================================================================
