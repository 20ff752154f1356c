--------------------------- MODULE ChildSupervision ---------------------------
(***************************************************************************)
(* One supervisor node and the direct children it delegates to             *)
(* (internal/supervisor/children.go, node.go and process/spawn.go).        *)
(*                                                                         *)
(* For every child four activities run concurrently and share one          *)
(* childEntry: the HTTP goroutine inside Node.CreateChild, the cleanup     *)
(* that cleanupOnce runs exactly once (on behalf of whoever asks first),   *)
(* the event forwarder, and the child supervisor process at the other end  *)
(* of the report, acknowledgement and liveness pipes.  Two more parties    *)
(* interfere: Router.Stop, which cancels one direct child on behalf of a   *)
(* DELETE and has no deadline, and Node.finish, which closes admission and *)
(* cancels all of them with one.                                           *)
(*                                                                         *)
(* The child process is not trusted to make progress: it may crash, or     *)
(* hang at any point, and only the parent's escalation ends it.  A context *)
(* that may be cancelled or time out is an alternative that is always      *)
(* available, so no variable counts time.                                  *)
(***************************************************************************)
EXTENDS Naturals, Sequences

CONSTANT Child      \* session IDs the parent may allocate, each used once

VARIABLES
    finish,     \* progress of Node.finish; admission is open only in "open"
    stopSet,    \* the entries stopChildren took from the registry
    registered, \* childRegistry.entries
    call,       \* the CreateChild goroutine of each child
    entry,      \* the childEntry of each child
    clean,      \* the body of cleanupChildMode, run once per entry
    pipe,       \* the inherited pipes between parent and child
    proc        \* the child supervisor process and its Incus resources

vars == <<finish, stopSet, registered, call, entry, clean, pipe, proc>>

Message == {"ownership", "ready", "result", "failure"}

\* CreateChild waits for the child in these steps; the request context can end
\* every one of them.
Waiting == {"awaitOwnership", "awaitReady", "probing", "connecting", "awaitReport"}

CallPC == Waiting \cup {"idle", "spawning", "bootstrapping", "claiming", "marking",
                        "acking", "completing", "failing", "awaitCancel", "returned"}

CleanPC == {"idle", "spawnWait", "signal", "exitWait", "grace", "termGrace",
            "drain", "recover", "release", "done"}

Running == {"provisioning", "owned", "ready", "reporting", "closing", "teardown",
            "lastReport"}

Outcome     == {"none", "result", "reported", "failed", "aborted", "rejected"}
Disposition == {"undecided", "accepted", "cancelled"}
Ticket      == {"none", "child", "entry"}  \* not received, in the handle, in the entry
Client      == {"nil", "open", "closed"}
Forwarder   == {"none", "running", "done", "unsubscribed"}
Mode        == {"none", "complete", "forced", "cancelled"}
Ack         == {"open", "acked", "closed"}
Reports     == Seq(Message)
ProcPC      == Running \cup {"none", "exited"}

Call  == [pc : CallPC, report : {"none", "result", "failure"}, outcome : Outcome]
\* deleted, stopped: a DELETE, or finish, has called cancelChildExternal.
Entry == [disposition : Disposition, deleted : BOOLEAN, stopped : BOOLEAN,
          handle : BOOLEAN, spawnCancelled : BOOLEAN, ticket : Ticket, client : Client,
          forwarder : Forwarder, eventsCancelled : BOOLEAN,
          closeExpected : BOOLEAN, streamErr : BOOLEAN]
\* bounded: the context of the caller that began the cleanup has a deadline.
Clean == [pc : CleanPC, mode : Mode, bounded : BOOLEAN, saw : BOOLEAN, err : BOOLEAN]
Pipe  == [ack : Ack, liveness : BOOLEAN, reports : Reports, reading : BOOLEAN]
Proc  == [pc : ProcPC, asked : BOOLEAN, exitErr : BOOLEAN, resources : BOOLEAN]

TypeOK ==
    /\ finish \in {"open", "closing", "stopping", "done"}
    /\ stopSet \subseteq Child
    /\ registered \subseteq Child
    /\ call \in [Child -> Call]
    /\ entry \in [Child -> Entry]
    /\ clean \in [Child -> Clean]
    /\ pipe \in [Child -> Pipe]
    /\ proc \in [Child -> Proc]

Init ==
    /\ finish = "open"
    /\ stopSet = {}
    /\ registered = {}
    /\ call = [c \in Child |-> [pc |-> "idle", report |-> "none", outcome |-> "none"]]
    /\ entry = [c \in Child |->
                  [disposition |-> "undecided", deleted |-> FALSE, stopped |-> FALSE,
                   handle |-> FALSE, spawnCancelled |-> FALSE, ticket |-> "none", client |-> "nil",
                   forwarder |-> "none", eventsCancelled |-> FALSE,
                   closeExpected |-> FALSE, streamErr |-> FALSE]]
    /\ clean = [c \in Child |-> [pc |-> "idle", mode |-> "none",
                                 bounded |-> TRUE, saw |-> FALSE, err |-> FALSE]]
    /\ pipe = [c \in Child |-> [ack |-> "open", liveness |-> TRUE,
                                reports |-> <<>>, reading |-> TRUE]]
    /\ proc = [c \in Child |-> [pc |-> "none", asked |-> FALSE,
                                exitErr |-> FALSE, resources |-> FALSE]]

node == <<finish, stopSet, registered>>

\* CloseTerminalAck: closing is a no-op once acknowledged or closed.
AckClosed(ack) == IF ack = "acked" THEN "acked" ELSE "closed"

\* The child's HTTP server may answer from readiness until the listener is closed
\* at the end of its teardown; a refused or late answer is always possible.
Answers(c) == proc[c].pc \in {"ready", "reporting", "closing", "teardown"}

\* Mutant: CloseReports stops the reader but leaves its channel open.
ReportsEndedWhileReading(c) ==
    pipe[c].reports = <<>> /\ proc[c].pc \in {"none", "exited"} /\ pipe[c].reading

\* NextMessage returns io.EOF: nothing is left to read and nothing will come.
ReportsEnded(c) == /\ pipe[c].reports = <<>>
                   /\ proc[c].pc \in {"none", "exited"} \/ ~pipe[c].reading

\* The child closes its end of the acknowledgement pipe when its context is
\* cancelled, when it has read an answer and when it exits.
AckReaderGone(c) == proc[c].pc \notin {"reporting", "lastReport"}

SpawnDone(c) == call[c].pc \notin {"idle", "spawning", "bootstrapping"}
-----------------------------------------------------------------------------
(* Node.CreateChild, one action per point at which it can be interleaved. *)

\* Mutant: a child is registered without a look at stopRequested.
AdmitUnchecked(c) ==
    /\ call[c].pc = "idle"
    /\ registered' = registered \cup {c}
    /\ call' = [call EXCEPT ![c].pc = "spawning"]
    /\ UNCHANGED <<finish, stopSet, entry, clean, pipe, proc>>

\* The admission check and the registration share one critical section.
Admit(c) ==
    /\ call[c].pc = "idle"
    /\ finish = "open"
    /\ registered' = registered \cup {c}
    /\ call' = [call EXCEPT ![c].pc = "spawning"]
    /\ UNCHANGED <<finish, stopSet, entry, clean, pipe, proc>>

Reject(c) ==
    /\ call[c].pc = "idle"
    /\ finish # "open"
    /\ call' = [call EXCEPT ![c].pc = "returned", ![c].outcome = "rejected"]
    /\ UNCHANGED <<node, entry, clean, pipe, proc>>

\* Spawner.Spawn up to command.Start, which refuses a cancelled context.
StartProcess(c) ==
    /\ call[c].pc = "spawning"
    /\ ~entry[c].spawnCancelled
    /\ call' = [call EXCEPT ![c].pc = "bootstrapping"]
    /\ proc' = [proc EXCEPT ![c].pc = "provisioning"]
    /\ UNCHANGED <<node, entry, clean, pipe>>

StartFails(c) ==
    /\ call[c].pc = "spawning"
    /\ call' = [call EXCEPT ![c].pc = "failing"]
    /\ UNCHANGED <<node, entry, clean, pipe, proc>>

\* The bootstrap was sent: Spawn returns and setProcess publishes the handle.
SpawnReturns(c) ==
    /\ call[c].pc = "bootstrapping"
    /\ call' = [call EXCEPT ![c].pc = "awaitOwnership"]
    /\ entry' = [entry EXCEPT ![c].handle = TRUE]
    /\ UNCHANGED <<node, clean, pipe, proc>>

\* The bootstrap write failed or the spawn context ended: Spawn kills and reaps
\* the process and closes every pipe itself.
SpawnAborts(c) ==
    /\ call[c].pc = "bootstrapping"
    /\ entry[c].spawnCancelled \/ proc[c].pc = "exited"
    /\ call' = [call EXCEPT ![c].pc = "failing"]
    /\ proc' = [proc EXCEPT ![c].pc = "exited", ![c].exitErr = TRUE]
    /\ pipe' = [pipe EXCEPT ![c].ack = "closed", ![c].liveness = FALSE,
                            ![c].reading = FALSE, ![c].reports = <<>>]
    /\ UNCHANGED <<node, entry, clean>>

\* WaitReady, first report: the recovery ticket is kept by the process handle.
ReceiveOwnership(c) ==
    /\ call[c].pc = "awaitOwnership"
    /\ pipe[c].reports # <<>>
    /\ Head(pipe[c].reports) = "ownership"
    /\ pipe' = [pipe EXCEPT ![c].reports = Tail(@)]
    /\ entry' = [entry EXCEPT ![c].ticket = "child"]
    /\ call' = [call EXCEPT ![c].pc = "awaitReady"]
    /\ UNCHANGED <<node, clean, proc>>

ReceiveReady(c) ==
    /\ call[c].pc = "awaitReady"
    /\ pipe[c].reports # <<>>
    /\ Head(pipe[c].reports) = "ready"
    /\ pipe' = [pipe EXCEPT ![c].reports = Tail(@)]
    /\ call' = [call EXCEPT ![c].pc = "probing"]
    /\ UNCHANGED <<node, entry, clean, proc>>

\* Only when WaitReady has returned does CreateChild copy the ticket it may
\* hold from the process handle to the entry.
TicketAfterWait(c) == IF entry[c].ticket = "child" THEN "entry" ELSE entry[c].ticket

\* probeTree polls GET /v1/tree until it sees the admitted identity.
ProbeSucceeds(c) ==
    /\ call[c].pc = "probing"
    /\ Answers(c)
    /\ entry' = [entry EXCEPT ![c].ticket = TicketAfterWait(c)]
    /\ call' = [call EXCEPT ![c].pc = "connecting"]
    /\ UNCHANGED <<node, clean, pipe, proc>>

\* WaitReady fails on the end of the report stream or on any other report.
StartupFails(c) ==
    /\ \/ call[c].pc \in {"awaitOwnership", "awaitReady"} /\ ReportsEnded(c)
       \/ /\ call[c].pc \in {"awaitOwnership", "awaitReady"}
          /\ pipe[c].reports # <<>>
          /\ Head(pipe[c].reports) = "failure"
    /\ entry' = [entry EXCEPT ![c].ticket = TicketAfterWait(c)]
    /\ call' = [call EXCEPT ![c].pc = "failing"]
    /\ UNCHANGED <<node, clean, pipe, proc>>

\* DescendantClient, Snapshot, setClient and startChildEventForwarder; the
\* forwarder ends at once, without an error, when it cannot subscribe: it then
\* forwards nothing and nobody is told.
Connect(c) ==
    /\ call[c].pc = "connecting"
    /\ Answers(c)
    /\ \E f \in {"running", "unsubscribed"} :
          entry' = [entry EXCEPT ![c].client = "open", ![c].forwarder = f]
    /\ call' = [call EXCEPT ![c].pc = "awaitReport"]
    /\ UNCHANGED <<node, clean, pipe, proc>>

ConnectFails(c) ==
    /\ call[c].pc = "connecting"
    /\ call' = [call EXCEPT ![c].pc = "failing"]
    /\ UNCHANGED <<node, entry, clean, pipe, proc>>

ReceiveReport(c) ==
    /\ call[c].pc = "awaitReport"
    /\ pipe[c].reports # <<>>
    /\ Head(pipe[c].reports) \in {"result", "failure"}
    /\ call' = [call EXCEPT ![c].pc = "claiming", ![c].report = Head(pipe[c].reports)]
    /\ pipe' = [pipe EXCEPT ![c].reports = Tail(@)]
    /\ UNCHANGED <<node, entry, clean, proc>>

\* After an error of NextMessage the linearized disposition is consulted.
AfterReportError(c) ==
    IF entry[c].disposition = "cancelled" THEN "awaitCancel" ELSE "failing"

ReportStreamEnds(c) ==
    /\ call[c].pc = "awaitReport"
    /\ ReportsEnded(c)
    /\ call' = [call EXCEPT ![c].pc = AfterReportError(c)]
    /\ UNCHANGED <<node, entry, clean, pipe, proc>>

\* The request context ends while CreateChild waits.
RequestCancelled(c) ==
    /\ call[c].pc \in Waiting
    /\ call' = [call EXCEPT ![c].pc = IF @ = "awaitReport" THEN AfterReportError(c)
                                                           ELSE "failing"]
    /\ entry' = [entry EXCEPT ![c].ticket =
                    IF call[c].pc \in {"awaitReady", "probing"} THEN TicketAfterWait(c) ELSE @]
    /\ UNCHANGED <<node, clean, pipe, proc>>

\* claimAccepted: the first claim on the disposition wins.
ClaimAccepted(c) ==
    /\ call[c].pc = "claiming"
    /\ IF entry[c].disposition = "undecided"
         THEN /\ entry' = [entry EXCEPT ![c].disposition = "accepted"]
              /\ call' = [call EXCEPT ![c].pc = "marking"]
         ELSE /\ call' = [call EXCEPT ![c].pc = "awaitCancel"]
              /\ UNCHANGED entry
    /\ UNCHANGED <<node, clean, pipe, proc>>

MarkCloseExpected(c) ==
    /\ call[c].pc = "marking"
    /\ entry' = [entry EXCEPT ![c].closeExpected = TRUE]
    /\ call' = [call EXCEPT ![c].pc = "acking"]
    /\ UNCHANGED <<node, clean, pipe, proc>>

\* AcknowledgeTerminal writes the byte, or fails because the endpoint was closed
\* or the child no longer reads it.
Acknowledge(c) ==
    /\ call[c].pc = "acking"
    /\ pipe[c].ack = "open"
    /\ ~AckReaderGone(c)
    /\ pipe' = [pipe EXCEPT ![c].ack = "acked"]
    /\ call' = [call EXCEPT ![c].pc = "completing"]
    /\ UNCHANGED <<node, entry, clean, proc>>

AcknowledgeFails(c) ==
    /\ call[c].pc = "acking"
    /\ pipe[c].ack # "open" \/ AckReaderGone(c)
    /\ pipe' = [pipe EXCEPT ![c].ack = AckClosed(@)]
    /\ call' = [call EXCEPT ![c].pc = AfterReportError(c)]
    /\ UNCHANGED <<node, entry, clean, proc>>

\* Mutant: a failed creation answers without waiting for the cleanup.
ReturnEarly(c) ==
    /\ call[c].pc \in {"completing", "failing"}
    /\ clean[c].pc = "done" \/ call[c].pc = "failing"
    /\ \E o \in {"failed", "reported"} :
          call' = [call EXCEPT ![c].pc = "returned", ![c].outcome = o]
    /\ UNCHANGED <<node, entry, clean, pipe, proc>>

\* CreateChild returns once the one cleanup of its entry is over.  A cleanup
\* error, or a cleanup context that has ended, turns a result into child_failed;
\* a reported failure keeps its own code.
Return(c) ==
    /\ call[c].pc \in {"completing", "failing"}
    /\ clean[c].pc = "done"
    /\ \E o \in IF call[c].pc = "failing" THEN {"failed"}
                ELSE IF call[c].report = "failure" THEN {"reported"}
                ELSE IF clean[c].err THEN {"failed"} ELSE {"result", "failed"} :
          call' = [call EXCEPT ![c].pc = "returned", ![c].outcome = o]
    /\ UNCHANGED <<node, entry, clean, pipe, proc>>

\* awaitChildCancellation waits for the cleanup or for its own timeout.
ReturnAborted(c) ==
    /\ call[c].pc = "awaitCancel"
    /\ call' = [call EXCEPT ![c].pc = "returned", ![c].outcome = "aborted"]
    /\ UNCHANGED <<node, entry, clean, pipe, proc>>
-----------------------------------------------------------------------------
(* cleanupChildMode: cleanupOnce lets one caller's mode and context decide; *)
(* every later caller waits inside cleanupOnce until that body is over.     *)

\* The client and the forwarder are read once, when the process handle is known.
Capture(c) == entry[c].client = "open"

StartCleanup(c, mode, bounded) ==
    /\ clean[c].pc = "idle"
    /\ clean' = [clean EXCEPT ![c].mode = mode, ![c].bounded = bounded,
                              ![c].saw = entry[c].handle /\ Capture(c),
                              ![c].pc = IF entry[c].handle THEN "signal" ELSE "spawnWait"]
    /\ entry' = [entry EXCEPT ![c].spawnCancelled = @ \/ ~entry[c].handle]
    /\ UNCHANGED <<node, call, pipe, proc>>

CleanupForCall(c) ==
    \/ call[c].pc = "completing" /\ StartCleanup(c, "complete", TRUE)
    \/ call[c].pc = "failing" /\ StartCleanup(c, "forced", TRUE)

\* The context of finish ends with childStopTimeout.  That of a DELETE comes from
\* context.WithoutCancel and never ends.
CleanupForCanceller(c) ==
    \/ entry[c].deleted /\ StartCleanup(c, "cancelled", FALSE)
    \/ entry[c].stopped /\ StartCleanup(c, "cancelled", TRUE)

SpawnSettled(c) ==
    /\ clean[c].pc = "spawnWait"
    /\ SpawnDone(c)
    /\ clean' = [clean EXCEPT ![c].saw = entry[c].handle /\ Capture(c),
                              ![c].pc = IF entry[c].handle THEN "signal" ELSE "release"]
    /\ UNCHANGED <<node, call, entry, pipe, proc>>

\* cancelExpectedEventStream
StreamCancelled(e) == [e EXCEPT !.closeExpected = TRUE,
                                !.eventsCancelled = @ \/ e.forwarder # "none"]

SignalStop(c) ==
    /\ clean[c].pc = "signal"
    /\ LET natural == clean[c].mode = "complete"
           routed  == clean[c].mode = "forced" /\ clean[c].saw
       IN  /\ entry' = [entry EXCEPT ![c] = IF natural THEN @ ELSE StreamCancelled(@)]
           /\ pipe' = [pipe EXCEPT ![c].ack = IF natural THEN @ ELSE AckClosed(@),
                                   ![c].liveness = IF natural \/ routed THEN @ ELSE FALSE]
           \* A forced stop of a connected child is a routed DELETE, which may be
           \* refused, or heard but answered too late.
           /\ \E heard \in {FALSE, routed /\ Answers(c)}, err \in {FALSE, routed} :
                /\ routed => heard \/ err
                /\ proc' = [proc EXCEPT ![c].asked = @ \/ heard]
                /\ clean' = [clean EXCEPT ![c].pc = "exitWait", ![c].err = @ \/ err]
    /\ UNCHANGED <<node, call>>

\* Mutant: an acknowledged child is awaited without a deadline.
StopDeadlineUnlessComplete(c) ==
    /\ clean[c].pc = "exitWait"
    /\ clean[c].bounded /\ clean[c].mode # "complete"
    /\ clean' = [clean EXCEPT ![c].pc = "grace", ![c].err = TRUE]
    /\ pipe' = [pipe EXCEPT ![c].ack = AckClosed(@), ![c].liveness = FALSE]
    /\ UNCHANGED <<node, call, entry, proc>>

\* The cleanup context ends before the process does, if it is one that ends.
StopDeadline(c) ==
    /\ clean[c].pc = "exitWait"
    /\ clean[c].bounded
    /\ clean' = [clean EXCEPT ![c].pc = "grace", ![c].err = TRUE]
    /\ pipe' = [pipe EXCEPT ![c].ack = AckClosed(@), ![c].liveness = FALSE]
    /\ UNCHANGED <<node, call, entry, proc>>

\* Terminate: SIGTERM to the child's process group.
Terminate(c) ==
    /\ clean[c].pc = "grace"
    /\ clean' = [clean EXCEPT ![c].pc = "termGrace"]
    /\ proc' = [proc EXCEPT ![c].asked = TRUE]
    /\ pipe' = [pipe EXCEPT ![c].ack = AckClosed(@), ![c].liveness = FALSE]
    /\ UNCHANGED <<node, call, entry>>

\* Kill: SIGKILL to the child's process group.
Kill(c) ==
    /\ clean[c].pc = "termGrace"
    /\ proc[c].pc \in Running
    /\ proc' = [proc EXCEPT ![c].pc = "exited", ![c].exitErr = TRUE]
    /\ pipe' = [pipe EXCEPT ![c].ack = AckClosed(@), ![c].liveness = FALSE]
    /\ UNCHANGED <<node, call, entry, clean>>

\* Mutant: after the last grace the parent does not wait for the process.
ExitAssumed(c) ==
    /\ clean[c].pc \in {"exitWait", "grace", "termGrace"}
    /\ proc[c].pc = "exited" \/ clean[c].pc = "termGrace"
    /\ clean' = [clean EXCEPT ![c].pc = "drain", ![c].err = @ \/ proc[c].exitErr]
    /\ pipe' = [pipe EXCEPT ![c].ack = AckClosed(@), ![c].liveness = FALSE,
                            ![c].reading = FALSE]
    /\ UNCHANGED <<node, call, entry, proc>>

\* Done, Wait, and the closing of the three endpoints.  CloseReports stops the
\* report reader: at most the report it buffers and the one in its hand survive.
ExitObserved(c) ==
    /\ clean[c].pc \in {"exitWait", "grace", "termGrace"}
    /\ proc[c].pc = "exited"
    /\ clean' = [clean EXCEPT ![c].pc = "drain", ![c].err = @ \/ proc[c].exitErr]
    /\ \E n \in 0..2 :
          /\ n <= Len(pipe[c].reports)
          /\ pipe' = [pipe EXCEPT ![c].ack = AckClosed(@), ![c].liveness = FALSE,
                                  ![c].reading = FALSE, ![c].reports = SubSeq(@, 1, n)]
    /\ UNCHANGED <<node, call, entry, proc>>

\* Mutant: the forwarder is never drained.
NeverDrain(c) == FALSE

\* After a natural end the parent forwards the child's last events first.
MustDrain(c) == clean[c].mode = "complete" /\ clean[c].saw

ForwarderGone(c) == entry[c].forwarder \in {"done", "unsubscribed"}

DrainForwarder(c) ==
    /\ clean[c].pc = "drain"
    /\ MustDrain(c) => ForwarderGone(c)
    /\ clean' = [clean EXCEPT ![c].pc = "recover"]
    /\ UNCHANGED <<node, call, entry, pipe, proc>>

DrainTimesOut(c) ==
    /\ clean[c].pc = "drain"
    /\ MustDrain(c) /\ ~ForwarderGone(c)
    /\ clean' = [clean EXCEPT ![c].pc = "recover", ![c].err = TRUE]
    /\ entry' = [entry EXCEPT ![c].eventsCancelled = TRUE]
    /\ UNCHANGED <<node, call, pipe, proc>>

\* Mutant: the error of the recovery is dropped.
RecoverSilently(c) ==
    /\ clean[c].pc = "recover"
    /\ \E left \in {FALSE, proc[c].resources} :
          proc' = [proc EXCEPT ![c].resources = left]
    /\ clean' = [clean EXCEPT ![c].pc = "release"]
    /\ UNCHANGED <<node, call, entry, pipe>>

\* RecoverDirectChild deletes what the exact ticket in the entry names; it may
\* fail.  Without a ticket in the entry nothing is recovered.
Recover(c) ==
    /\ clean[c].pc = "recover"
    /\ \/ /\ entry[c].ticket = "entry"
          /\ proc' = [proc EXCEPT ![c].resources = FALSE]
          /\ clean' = [clean EXCEPT ![c].pc = "release"]
       \/ /\ entry[c].ticket = "entry"
          /\ clean' = [clean EXCEPT ![c].pc = "release", ![c].err = TRUE]
          /\ UNCHANGED proc
       \/ /\ entry[c].ticket # "entry"
          /\ clean' = [clean EXCEPT ![c].pc = "release"]
          /\ UNCHANGED proc
    /\ UNCHANGED <<node, call, entry, pipe>>

Release(c) ==
    /\ clean[c].pc = "release"
    /\ entry' = [entry EXCEPT ![c].spawnCancelled = TRUE,
                              ![c].eventsCancelled = @ \/ clean[c].saw,
                              ![c].client = IF clean[c].saw THEN "closed" ELSE @]
    /\ clean' = [clean EXCEPT ![c].pc = "done", ![c].err = @ \/ entry[c].streamErr]
    /\ registered' = registered \ {c}
    /\ UNCHANGED <<finish, stopSet, call, pipe, proc>>
-----------------------------------------------------------------------------
(* The event forwarder of a connected child. *)

\* A stream that ends is no news once its context is cancelled or its end is
\* expected.
ForwarderEnds(c) ==
    /\ entry[c].forwarder = "running"
    /\ entry[c].eventsCancelled \/ entry[c].closeExpected
    /\ entry' = [entry EXCEPT ![c].forwarder = "done"]
    /\ UNCHANGED <<node, call, clean, pipe, proc>>

\* Any other end of the stream, a clean one included, is an error: it is recorded
\* and ends the child's liveness.
StreamFails(c) ==
    /\ entry[c].forwarder = "running"
    /\ ~entry[c].eventsCancelled /\ ~entry[c].closeExpected
    /\ entry' = [entry EXCEPT ![c].forwarder = "done", ![c].streamErr = TRUE]
    /\ pipe' = [pipe EXCEPT ![c].liveness = FALSE]
    /\ UNCHANGED <<node, call, clean, proc>>
-----------------------------------------------------------------------------
(* Cancellation: Router.Stop for one child, Node.finish for all of them. *)

\* claimCancelled; the canceller then heads for the cleanup.
Cancelled(disposition) == IF disposition = "undecided" THEN "cancelled" ELSE disposition

\* Router.Stop, on behalf of a DELETE.
CancelForUser(c) ==
    /\ c \in registered
    /\ ~entry[c].deleted
    /\ entry' = [entry EXCEPT ![c].deleted = TRUE, ![c].disposition = Cancelled(@)]
    /\ UNCHANGED <<node, call, clean, pipe, proc>>

\* One goroutine of stopChildren.
CancelForFinish(c) ==
    /\ c \in stopSet
    /\ ~entry[c].stopped
    /\ entry' = [entry EXCEPT ![c].stopped = TRUE, ![c].disposition = Cancelled(@)]
    /\ UNCHANGED <<node, call, clean, pipe, proc>>

\* requestStop, or finish itself, sets stopRequested.
CloseAdmission ==
    /\ finish = "open"
    /\ finish' = "closing"
    /\ UNCHANGED <<stopSet, registered, call, entry, clean, pipe, proc>>

\* stopChildren cancels every entry registered at that moment.
StopChildren ==
    /\ finish = "closing"
    /\ finish' = "stopping"
    /\ stopSet' = registered
    /\ UNCHANGED <<registered, call, entry, clean, pipe, proc>>

\* Mutant: finish does not wait for the cancelled children.
FinishEarly ==
    /\ finish = "stopping"
    /\ \A c \in stopSet : entry[c].stopped
    /\ finish' = "done"
    /\ UNCHANGED <<stopSet, registered, call, entry, clean, pipe, proc>>

FinishNode ==
    /\ finish = "stopping"
    /\ \A c \in stopSet : entry[c].stopped /\ clean[c].pc = "done"
    /\ finish' = "done"
    /\ UNCHANGED <<stopSet, registered, call, entry, clean, pipe, proc>>
-----------------------------------------------------------------------------
(* The child supervisor process (process.RunInheritedChild and the runner). *)

ChildProvisions(c) ==
    /\ proc[c].pc = "provisioning"
    /\ ~proc[c].resources
    /\ proc' = [proc EXCEPT ![c].resources = TRUE]
    /\ UNCHANGED <<node, call, entry, clean, pipe>>

Send(c, m) == pipe' = [pipe EXCEPT ![c].reports = IF pipe[c].reading THEN Append(@, m) ELSE @]

ChildPublishesOwnership(c) ==
    /\ proc[c].pc = "provisioning" /\ proc[c].resources
    /\ proc' = [proc EXCEPT ![c].pc = "owned"]
    /\ Send(c, "ownership")
    /\ UNCHANGED <<node, call, entry, clean>>

ChildPublishesReady(c) ==
    /\ proc[c].pc = "owned"
    /\ proc' = [proc EXCEPT ![c].pc = "ready"]
    /\ Send(c, "ready")
    /\ UNCHANGED <<node, call, entry, clean>>

\* A terminal report while the server is still up; the child then blocks in
\* waitForTerminalAck.
ChildReports(c) ==
    /\ proc[c].pc = "ready"
    /\ proc' = [proc EXCEPT ![c].pc = "reporting"]
    /\ \E m \in {"result", "failure"} : Send(c, m)
    /\ UNCHANGED <<node, call, entry, clean>>

\* Startup or the task failed, the session ended by itself, or the child heard
\* the liveness EOF, SIGTERM or a routed DELETE: the node tears itself down.
ChildTearsDown(c) ==
    /\ proc[c].pc \in {"provisioning", "owned", "ready"}
    /\ proc' = [proc EXCEPT ![c].pc = "teardown"]
    /\ UNCHANGED <<node, call, entry, clean, pipe>>

\* RunInheritedChild reports a failure of the runner that nothing reported yet,
\* when the node has already removed what it created, or failed to.
ChildReportsFailure(c) ==
    /\ proc[c].pc = "teardown"
    /\ \E left \in {FALSE, proc[c].resources} :
          proc' = [proc EXCEPT ![c].pc = "lastReport", ![c].resources = left]
    /\ Send(c, "failure")
    /\ UNCHANGED <<node, call, entry, clean>>

\* The child's context ends with its liveness, on SIGTERM or on a DELETE.
ContextEnded(c) == ~pipe[c].liveness \/ proc[c].asked

\* waitForTerminalAck ends, with or without the byte.
AckWaitOver(c) == ContextEnded(c) \/ pipe[c].ack # "open"

ChildCloses(c) ==
    /\ proc[c].pc = "reporting"
    /\ AckWaitOver(c)
    /\ proc' = [proc EXCEPT ![c].pc = "closing"]
    /\ UNCHANGED <<node, call, entry, clean, pipe>>

\* What a failed teardown leaves behind shows in the exit status, unless the
\* context ended or the acknowledgement endpoint was closed on the child:
\* RunInheritedChild then drops every error joined to that.
ChildExits(c) ==
    /\ \/ proc[c].pc \in {"closing", "teardown"}
       \/ proc[c].pc = "lastReport" /\ AckWaitOver(c)
    /\ \E left \in {FALSE, proc[c].resources}, e \in BOOLEAN :
          /\ proc[c].pc = "lastReport" => left = proc[c].resources
          /\ left => e \/ ContextEnded(c) \/ pipe[c].ack = "closed"
          /\ proc' = [proc EXCEPT ![c].pc = "exited", ![c].exitErr = e,
                                  ![c].resources = left]
    /\ UNCHANGED <<node, call, entry, clean, pipe>>

\* A crash, or the SIGKILL of exec.CommandContext when the spawn context ends
\* after Start; the latter needs no action of its own.
ChildCrashes(c) ==
    /\ proc[c].pc \in Running
    /\ proc' = [proc EXCEPT ![c].pc = "exited", ![c].exitErr = TRUE]
    /\ UNCHANGED <<node, call, entry, clean, pipe>>
-----------------------------------------------------------------------------
CallStep(c) ==
    \/ StartProcess(c) \/ StartFails(c) \/ SpawnReturns(c) \/ SpawnAborts(c)
    \/ ReceiveOwnership(c) \/ ReceiveReady(c) \/ ProbeSucceeds(c) \/ StartupFails(c)
    \/ Connect(c) \/ ConnectFails(c) \/ ReceiveReport(c) \/ ReportStreamEnds(c)
    \/ ClaimAccepted(c) \/ MarkCloseExpected(c) \/ Acknowledge(c) \/ AcknowledgeFails(c)
    \/ CleanupForCall(c) \/ Return(c) \/ ReturnAborted(c)

CleanupStep(c) ==
    \/ CleanupForCanceller(c) \/ SpawnSettled(c) \/ SignalStop(c) \/ StopDeadline(c)
    \/ Terminate(c) \/ Kill(c) \/ ExitObserved(c) \/ DrainForwarder(c)
    \/ DrainTimesOut(c) \/ Recover(c) \/ Release(c)

ForwarderStep(c) == ForwarderEnds(c) \/ StreamFails(c)

ProcessStep(c) ==
    \/ ChildProvisions(c) \/ ChildPublishesOwnership(c) \/ ChildPublishesReady(c)
    \/ ChildReports(c) \/ ChildTearsDown(c) \/ ChildReportsFailure(c)
    \/ ChildCloses(c) \/ ChildExits(c) \/ ChildCrashes(c)

NodeStep == CloseAdmission \/ StopChildren \/ FinishNode

Next ==
    \/ NodeStep
    \/ \E c \in Child :
          \/ Admit(c) \/ Reject(c) \/ CallStep(c) \/ RequestCancelled(c)
          \/ CancelForUser(c) \/ CancelForFinish(c) \/ CleanupStep(c)
          \/ ForwarderStep(c) \/ ProcessStep(c)

Spec == Init /\ [][Next]_vars

(***************************************************************************)
(* Fairness: the parent's own goroutines run, the timers it has fire and   *)
(* SIGKILL ends a process.  Nothing is assumed of the child, of the users  *)
(* who create, cancel and stop, or of the request context; a cleanup       *)
(* without a deadline waits for a child that need not exit.                *)
(***************************************************************************)
Fairness ==
    /\ WF_vars(StopChildren) /\ WF_vars(FinishNode)
    /\ \A c \in Child :
          /\ WF_vars(CallStep(c))
          /\ WF_vars(CleanupStep(c))
          /\ WF_vars((entry[c].eventsCancelled \/ proc[c].pc = "exited") /\ ForwarderStep(c))
          /\ WF_vars(CancelForFinish(c))

FairSpec == Spec /\ Fairness
-----------------------------------------------------------------------------
(* Safety *)

\* The acknowledgement byte is written only for a report that won the
\* disposition: a cancellation that came first is never answered with it.
AckedOnlyWhenAccepted ==
    \A c \in Child : pipe[c].ack = "acked" => entry[c].disposition = "accepted"

\* CreateChild answers with a result or a failure only when the child's process
\* is gone and its entry is out of the registry, whoever ran the cleanup.
SettledBeforeReturn ==
    \A c \in Child : call[c].outcome \in {"result", "reported", "failed"} =>
        proc[c].pc \in {"none", "exited"} /\ c \notin registered

\* A successful delegation leaves nothing behind and was acknowledged: no Incus
\* resource survives a teardown and a recovery whose errors were both ignored.
ResultMeansSettled ==
    \A c \in Child : call[c].outcome = "result" =>
        ~proc[c].resources /\ pipe[c].ack = "acked"

\* Whatever order escalation and exit take, the parent touches the resources of
\* a child only after it has seen the process exit.
RecoveryAfterExit ==
    \A c \in Child : entry[c].handle /\ clean[c].pc \in {"recover", "release", "done"} =>
        proc[c].pc = "exited"

\* A delegation that ends naturally with success answers only when the child's
\* events have no forwarder any more, and no stream that ended before its end was
\* expected is passed over.  What the code does pass over is a subscription that
\* failed at the start: no event of that child was forwarded.
ResultFollowsEvents ==
    \A c \in Child : call[c].outcome = "result" /\ clean[c].mode = "complete" =>
        entry[c].forwarder = "unsubscribed" \/ (entry[c].forwarder = "done" /\ ~entry[c].streamErr)

\* Admission closes before finish lists the children, so that a node that has
\* finished has no registered child and no running child process.
NoOrphanAfterFinish ==
    finish = "done" =>
        registered = {} /\ \A c \in Child : proc[c].pc \in {"none", "exited"}
-----------------------------------------------------------------------------
(***************************************************************************)
(* The inductive invariant behind the safety properties, in parts: what    *)
(* spawning, cleanup, registration, answering, acknowledging, recovering   *)
(* and forwarding events each know of one child.                           *)
(***************************************************************************)
SpawnInv(c) ==
    /\ call[c].pc \in {"idle", "spawning"} => proc[c].pc = "none"
    /\ entry[c].handle => SpawnDone(c)
    /\ SpawnDone(c) /\ ~entry[c].handle => proc[c].pc \in {"none", "exited"}

CleanInv(c) ==
    /\ clean[c].pc \in {"signal", "exitWait", "grace", "termGrace", "drain", "recover"}
          => entry[c].handle
    /\ clean[c].pc \in {"release", "done"} => SpawnDone(c)
    /\ clean[c].pc \in {"drain", "recover", "release", "done"} /\ entry[c].handle
          => proc[c].pc = "exited"

RegistryInv(c) ==
    /\ call[c].pc = "idle" \/ call[c].outcome = "rejected"
          => /\ clean[c].pc = "idle" /\ c \notin stopSet
             /\ ~entry[c].deleted /\ ~entry[c].stopped
    /\ c \in registered <=> /\ call[c].pc # "idle" /\ call[c].outcome # "rejected"
                            /\ clean[c].pc # "done"
    /\ call[c].outcome = "rejected" => proc[c].pc = "none"
    /\ finish \in {"stopping", "done"} /\ c \in registered => c \in stopSet
    /\ finish = "done" /\ c \in stopSet => clean[c].pc = "done"

OutcomeInv(c) ==
    /\ call[c].outcome # "none" <=> call[c].pc = "returned"
    /\ call[c].outcome \in {"result", "reported", "failed"} => clean[c].pc = "done"

AckInv(c) ==
    /\ call[c].pc \in {"marking", "acking", "completing"} =>
          entry[c].disposition = "accepted"
    /\ pipe[c].ack = "acked" => entry[c].disposition = "accepted"
    /\ call[c].pc = "completing" => pipe[c].ack = "acked"

\* The steps of CreateChild after WaitReady: the entry has the ticket.
Connected == {"connecting", "awaitReport", "claiming", "marking", "acking", "completing"}

RecoveryInv(c) ==
    /\ call[c].pc \in Waiting \cup Connected => entry[c].handle
    /\ call[c].pc \in {"awaitReady", "probing"} => entry[c].ticket = "child"
    /\ call[c].pc \in Connected => entry[c].ticket = "entry"
    /\ call[c].pc \in Connected /\ clean[c].pc \in {"release", "done"} /\ ~clean[c].err
          => ~proc[c].resources
    /\ call[c].outcome = "result" => ~proc[c].resources /\ pipe[c].ack = "acked"

\* Once the child is connected its events have a forwarder; a natural end has seen
\* it, and goes on without an error only behind it.
EventsInv(c) ==
    /\ call[c].pc \in Connected \ {"connecting"} =>
          entry[c].forwarder # "none" /\ (clean[c].pc # "done" => entry[c].client = "open")
    /\ clean[c].mode = "complete" =>
          /\ call[c].pc \in {"completing", "returned"} /\ clean[c].pc # "spawnWait"
          /\ clean[c].saw /\ entry[c].forwarder # "none"
    /\ clean[c].mode = "complete" /\ ~clean[c].err =>
          /\ clean[c].pc \in {"recover", "release", "done"} => ForwarderGone(c)
          /\ clean[c].pc = "done" => ~entry[c].streamErr
    /\ call[c].outcome = "result" => ~clean[c].err

ChildInv(c) == SpawnInv(c) /\ CleanInv(c) /\ RegistryInv(c) /\ OutcomeInv(c)
                 /\ AckInv(c) /\ RecoveryInv(c) /\ EventsInv(c)

\* What every step preserves: the state of each child is consistent in its
\* spawn, cleanup, registration, answer, acknowledgement, recovery and events.
SupervisionInv == TypeOK /\ \A c \in Child : ChildInv(c)
-----------------------------------------------------------------------------
(* Liveness *)

\* The cleanup waits, without a deadline, for a process that has not exited.
Held(c) == clean[c].pc = "exitWait" /\ ~clean[c].bounded /\ proc[c].pc \in Running

\* A cleanup that began ends, even if the child hangs, ignores its liveness pipe
\* and SIGTERM, or never takes its report back; only one that a DELETE began may
\* wait for ever, and only for a child that never exits.
CleanupTerminates ==
    \A c \in Child : clean[c].pc # "idle" ~> (clean[c].pc = "done" \/ []Held(c))

\* When the cleanup of an entry is over the CreateChild call that waits for that
\* child returns, unless it is polling a socket nobody serves any more.
ReturnsAfterCleanup ==
    \A c \in Child : clean[c].pc = "done" ~> call[c].pc \in {"returned", "probing"}
-----------------------------------------------------------------------------
(* Refinement *)

Promise == INSTANCE Delegation WITH
    open     <- finish = "open",
    finished <- finish = "done",
    admitted <- {c \in Child : call[c].pc # "idle" /\ call[c].outcome # "rejected"},
    live     <- registered,
    held     <- {c \in Child : Held(c)},
    outcome  <- [c \in Child |-> call[c].outcome]

\* The node keeps the promises of Delegation, its liveness included: a node that
\* is told to stop settles every child that no DELETE holds, and finishes when none
\* is left.
KeepsPromise == Promise!FairSpec
-----------------------------------------------------------------------------
(* What the documents say and the code does not do: each is refuted by a run. *)

\* A cancellation that wins while CreateChild waits for the child is answered
\* child_aborted, never child_failed (node.go:395-401 and the plan's item 3).
CancelledReportsAborted ==
    [][\A c \in Child :
          entry[c].disposition = "cancelled" /\ call[c].pc \in Waiting /\ ReportsEnded(c)
             => call'[c].pc # "failing"]_vars

\* A report that won the disposition is acknowledged: no cancellation that comes
\* second closes the endpoint under the child that waits for the byte.
AcceptedIsAcknowledged ==
    \A c \in Child : ~(/\ entry[c].disposition = "accepted"
                       /\ proc[c].pc = "reporting"
                       /\ pipe[c].ack = "closed")

\* Once a child has published its ownership ticket, its parent's cleanup tries
\* the recovery before it removes the entry.
RecoveryNeverSkipped ==
    [][\A c \in Child :
          clean[c].pc = "recover" /\ clean'[c].pc = "release" => entry[c].ticket # "child"]_vars

\* A child that dies while CreateChild waits for it is reported to the caller.
ChildExitIsReported ==
    \A c \in Child :
        proc[c].pc = "exited" /\ call[c].pc \in Waiting ~> call[c].pc = "returned"
=============================================================================
