----------------------------- MODULE NodeLifecycle -----------------------------
(***************************************************************************)
(* The life of one supervisor process and of its Node: startup, stop,      *)
(* handoff and the single teardown (internal/supervisor/node.go, stop.go,  *)
(* result.go, cmd/session_runtime.go and process/liveness.go).             *)
(*                                                                         *)
(* The goroutines are: the runner, which is the main goroutine; Start,     *)
(* which the runner calls; the finalizer of the first stop request; the    *)
(* watcher of the Pi connection; the watchdog of an accepted handoff; and  *)
(* one handler per POST /v1/handoff.  Four of them may call finish, which  *)
(* runs once.  A DELETE may arrive at any moment, the context may end, Pi  *)
(* may die, the listener may fail and the parent may close the             *)
(* acknowledgement pipe; every operation on Incus may fail.  The node may  *)
(* have a direct child (ChildSupervision has its details); what matters    *)
(* here is that a DELETE of that child cleans it up without a deadline,    *)
(* and that finish then has to wait for that cleanup.                      *)
(*                                                                         *)
(* Everything stops when the process exits: see Alive.                     *)
(***************************************************************************)
EXTENDS Naturals

CONSTANT Handler \* handoff requests, each served once

VARIABLES
    start,      \* the goroutine in Node.Start and the error it returns
    node,       \* the fields of Node that stop and startup share
    world,      \* Incus resources, Pi connection and its drain, Unix listener, child
    fin,        \* the body of finish, what it captured and its error
    helper,     \* finalizer, watcher and watchdog
    handler,    \* the handoff handlers
    handoff,    \* handoffMu and handoffComplete
    report,     \* the reporter: terminalSent, records written, acknowledgement
    run,        \* the runner of a root or a child, its joined error and the exit status
    ctx         \* the process context has ended: SIGTERM or liveness EOF

vars == <<start, node, world, fin, helper, handler, handoff, report, run, ctx>>

\* "cancelled": context.Canceled or ErrTerminalAckClosed is among the joined errors.
Error == {"none", "error", "cancelled"}

Join(a, b) == IF "cancelled" \in {a, b} THEN "cancelled"
              ELSE IF a = "none" THEN b ELSE a

StartPC == {"begin", "provisioning", "recording", "publishing", "dialing", "dialled",
            "binding", "rechecking", "failing", "returned"}

FinPC == {"idle", "children", "rpc", "draining", "destroy", "listener", "settle", "done"}

SessionKind == {"root", "read", "write"}

RunPC == {"starting", "serving", "reporting", "stopping", "bailing", "returned",
          "failing", "exited"}

HandlerPC == {"idle", "verifying", "sending", "awaiting", "responding", "accepted",
              "unanswered", "refused"}

State == {"provisioning", "starting", "stopping", "completed", "failed", "stopped"}

TypeOK ==
    /\ start \in [pc : StartPC, err : Error]
    /\ node \in [stopping : BOOLEAN, started : BOOLEAN, startupDone : BOOLEAN,
                 recorded : BOOLEAN, local : BOOLEAN, state : State]
    /\ world \in [resources : {"none", "live", "gone"}, conn : {"none", "open", "closed"},
                  drained : BOOLEAN, listener : {"serving", "closed", "failed"},
                  child : {"none", "running", "held", "ended"}]
    /\ fin \in [pc : FinPC, terminal : State, closeRPC : BOOLEAN, local : BOOLEAN,
                resources : BOOLEAN, err : Error]
    /\ helper \in [finalizer : {"none", "waiting"},
                   watcher : {"none", "watching", "completed", "failed", "gone"},
                   watchdog : {"none", "armed"}]
    /\ handler \in [Handler -> HandlerPC]
    /\ handoff \in [locked : BOOLEAN, complete : BOOLEAN]
    /\ report \in [sent : BOOLEAN, written : Nat, ack : {"open", "acked", "closed"}]
    /\ run \in [kind : SessionKind, pc : RunPC, err : Error, status : {"running", "success", "failure"}]
    /\ ctx \in BOOLEAN

Init ==
    /\ start = [pc |-> "begin", err |-> "none"]
    /\ node = [stopping |-> FALSE, started |-> FALSE, startupDone |-> FALSE,
               recorded |-> FALSE, local |-> FALSE, state |-> "provisioning"]
    /\ world = [resources |-> "none", conn |-> "none", drained |-> FALSE,
                listener |-> "serving", child |-> "none"]
    /\ fin = [pc |-> "idle", terminal |-> "provisioning", closeRPC |-> FALSE,
              local |-> FALSE, resources |-> FALSE, err |-> "none"]
    /\ helper = [finalizer |-> "none", watcher |-> "none", watchdog |-> "none"]
    /\ handler = [h \in Handler |-> "idle"]
    /\ handoff = [locked |-> FALSE, complete |-> FALSE]
    /\ report = [sent |-> FALSE, written |-> 0, ack |-> "open"]
    /\ \E k \in SessionKind :
          run = [kind |-> k, pc |-> "starting", err |-> "none", status |-> "running"]
    /\ ctx = FALSE

Alive == run.pc # "exited"

\* Closing a listener that has failed changes nothing.
Closed(listener) == IF listener = "serving" THEN "closed" ELSE listener

tasks == <<helper, handler, handoff, report>>
-----------------------------------------------------------------------------
(* Node.Start *)

\* startupCtx is cancelled by a stop request and ends with the process context; a
\* root's context also ends with its listener.
StartupEnded == node.stopping \/ ctx \/ (run.kind = "root" /\ world.listener # "serving")

\* What a startup step that honours the context may fail with.
StartupError == IF StartupEnded THEN {"error", "cancelled"} ELSE {"error"}

\* Mutant: a return of Start that leaves startupDone open.
StartReturnsSilently(e) ==
    /\ start' = [pc |-> "returned", err |-> e]
    /\ UNCHANGED node

\* Every return of a startup that has begun closes startupDone.
StartReturns(e) ==
    /\ start' = [pc |-> "returned", err |-> e]
    /\ node' = [node EXCEPT !.startupDone = TRUE]

StartFailing(e) == /\ start' = [pc |-> "failing", err |-> e]
                   /\ UNCHANGED node

BeginStart ==
    /\ start.pc = "begin"
    /\ ~node.stopping
    /\ node' = [node EXCEPT !.started = TRUE]
    /\ \/ start' = [start EXCEPT !.pc = "provisioning"]
       \/ start' = [pc |-> "failing", err |-> "error"]  \* the socket is not as it must be
    /\ UNCHANGED <<world, fin, tasks, run, ctx>>

StartRefused ==
    /\ start.pc = "begin"
    /\ node.stopping
    /\ start' = [pc |-> "returned", err |-> "error"]
    /\ UNCHANGED <<node, world, fin, tasks, run, ctx>>

\* ProvisionRoot returns resources, or an error after it has rolled back what it
\* had created or failed to.
Provision ==
    /\ start.pc = "provisioning"
    /\ \/ /\ start' = [start EXCEPT !.pc = "recording"]
          /\ world' = [world EXCEPT !.resources = "live"]
       \/ /\ \E e \in StartupError : start' = [pc |-> "recording", err |-> e]
          /\ \E left \in {"none", "live"} : world' = [world EXCEPT !.resources = left]
    /\ UNCHANGED <<node, fin, tasks, run, ctx>>

\* The resources are recorded before stopRequested is looked at.
Record ==
    /\ start.pc = "recording"
    /\ LET recorded == start.err = "none"
       IN  IF node.stopping
             THEN /\ start' = [pc |-> "returned", err |-> "cancelled"]
                  /\ node' = [node EXCEPT !.recorded = recorded, !.startupDone = TRUE]
             ELSE /\ start' = [start EXCEPT !.pc = IF recorded THEN "publishing" ELSE "failing"]
                  /\ node' = [node EXCEPT !.recorded = recorded,
                                          !.state = IF recorded THEN "starting" ELSE @]
    /\ UNCHANGED <<world, fin, tasks, run, ctx>>

\* ResourcePublished: a child reports its ownership ticket, a root has no such hook.
Publish ==
    /\ start.pc = "publishing"
    /\ \/ /\ start' = [start EXCEPT !.pc = "dialing"]
          /\ UNCHANGED node
       \/ run.kind # "root" /\ StartFailing("error")
    /\ UNCHANGED <<world, fin, tasks, run, ctx>>

Dial ==
    /\ start.pc = "dialing"
    /\ \/ /\ start' = [start EXCEPT !.pc = "dialled"]
          /\ world' = [world EXCEPT !.conn = "open"]
          /\ UNCHANGED node
       \/ /\ \E e \in StartupError : IF node.stopping THEN StartReturns(e) ELSE StartFailing(e)
          /\ UNCHANGED world
    /\ UNCHANGED <<fin, tasks, run, ctx>>

\* A connection that comes too late is closed here; any other gets its
\* LocalSession, which finish will close.
Adopt ==
    /\ start.pc = "dialled"
    /\ IF node.stopping
         THEN /\ StartReturns("error")
              /\ world' = [world EXCEPT !.conn = "closed"]
         ELSE /\ start' = [start EXCEPT !.pc = "binding"]
              /\ node' = [node EXCEPT !.local = TRUE]
              /\ UNCHANGED world
    /\ UNCHANGED <<fin, tasks, run, ctx>>

Bind ==
    /\ start.pc = "binding"
    /\ \/ /\ world.conn = "open"
          /\ start' = [start EXCEPT !.pc = "rechecking"]
          /\ UNCHANGED node
       \/ \E e \in StartupError : IF node.stopping THEN StartReturns(e) ELSE StartFailing(e)
    /\ UNCHANGED <<world, fin, tasks, run, ctx>>

Recheck ==
    /\ start.pc = "rechecking"
    /\ StartReturns(IF node.stopping THEN "error" ELSE "none")
    /\ helper' = [helper EXCEPT !.watcher = IF node.stopping THEN @ ELSE "watching"]
    /\ UNCHANGED <<world, fin, handler, handoff, report, run, ctx>>

\* failStart has run finish, or waits for it.
StartFailed ==
    /\ start.pc = "failing"
    /\ fin.pc = "done"
    /\ StartReturns(fin.err)
    /\ UNCHANGED <<world, fin, tasks, run, ctx>>

StartStep == BeginStart \/ StartRefused \/ Provision \/ Record \/ Publish \/ Dial
               \/ Adopt \/ Bind \/ Recheck \/ StartFailed
-----------------------------------------------------------------------------
(* Stop requests and finish *)

Stopped(n) == [n EXCEPT !.stopping = TRUE, !.startupDone = @ \/ ~n.started,
                        !.state = IF @ \in {"stopped", "failed"} THEN @ ELSE "stopping"]

\* requestStop: only the first request starts the finalizer.
RequestStop ==
    /\ node' = Stopped(node)
    /\ helper' = [helper EXCEPT !.finalizer = IF node.stopping THEN @ ELSE "waiting"]

\* The goroutine of a DELETE request, which may be delayed for as long as it likes.
Delete ==
    /\ RequestStop
    /\ UNCHANGED <<start, world, fin, handler, handoff, report, run, ctx>>

\* finishOnce: later callers wait for the first and do nothing.
BeginFinish(terminal, closeRPC, primary) ==
    /\ fin.pc = "idle"
    /\ fin' = [pc |-> "children", terminal |-> terminal, closeRPC |-> closeRPC,
               local |-> node.local, resources |-> node.recorded, err |-> primary]
    /\ node' = [node EXCEPT !.stopping = TRUE]
    /\ UNCHANGED <<start, world, tasks, run, ctx>>

FinishFailedStart == start.pc = "failing" /\ BeginFinish("failed", TRUE, start.err)

\* Mutant: the finalizer does not wait for the startup to settle.
FinalizeEarly == helper.finalizer = "waiting" /\ BeginFinish("stopped", TRUE, "none")

Finalize ==
    /\ helper.finalizer = "waiting"
    /\ node.startupDone
    /\ BeginFinish("stopped", TRUE, "none")

\* handoffShutdownTimeout after an answered handoff.
WatchdogFires == helper.watchdog = "armed" /\ BeginFinish("completed", TRUE, "none")

\* Mutant: the end of Pi is taken for a completed handoff.
WatchOptimist ==
    /\ helper.watcher = "watching"
    /\ world.conn = "closed" /\ world.drained
    /\ node.stopping \/ ~handoff.locked
    /\ helper' = [helper EXCEPT !.watcher = IF node.stopping THEN "gone" ELSE "completed"]
    /\ UNCHANGED <<start, node, world, fin, handler, handoff, report, run, ctx>>

\* watchRPC decides how the session ended; reading handoffComplete takes the lock
\* that a handler holds until its report is answered.
Watch ==
    /\ helper.watcher = "watching"
    /\ world.conn = "closed" /\ world.drained
    /\ node.stopping \/ ~handoff.locked
    /\ helper' = [helper EXCEPT !.watcher = IF node.stopping THEN "gone"
                                            ELSE IF handoff.complete THEN "completed" ELSE "failed"]
    /\ UNCHANGED <<start, node, world, fin, handler, handoff, report, run, ctx>>

FinishWatched ==
    \/ helper.watcher = "completed" /\ BeginFinish("completed", FALSE, "none")
    \/ helper.watcher = "failed" /\ BeginFinish("failed", FALSE, "error")

\* A DELETE has begun the cleanup of the child, which has not exited: every other
\* caller waits inside cleanupOnce, and no deadline ends that.
ChildHolds == fin.pc = "children" /\ world.child = "held"

\* stopChildren ends within its deadline if it is the one that cleans the child up.
StopChildren ==
    /\ fin.pc = "children"
    /\ ~ChildHolds
    /\ \E e \in {"none", "error"} : fin' = [fin EXCEPT !.pc = "rpc", !.err = Join(@, e)]
    /\ UNCHANGED <<start, node, world, tasks, run, ctx>>

StopRPC ==
    /\ fin.pc = "rpc"
    /\ fin' = [fin EXCEPT !.pc = IF fin.local THEN "draining" ELSE "destroy"]
    /\ world' = [world EXCEPT !.conn = IF fin.local /\ fin.closeRPC THEN "closed" ELSE @]
    /\ UNCHANGED <<start, node, tasks, run, ctx>>

DrainEnds ==
    /\ fin.pc = "draining"
    /\ world.drained
    /\ fin' = [fin EXCEPT !.pc = "destroy"]
    /\ UNCHANGED <<start, node, world, tasks, run, ctx>>

\* Mutant: an error of Destroy is dropped.
DestroySilently ==
    /\ fin.pc = "destroy"
    /\ fin' = [fin EXCEPT !.pc = "listener"]
    /\ \E gone \in BOOLEAN :
          world' = [world EXCEPT !.resources = IF fin.resources /\ gone THEN "gone" ELSE @]
    /\ UNCHANGED <<start, node, tasks, run, ctx>>

Destroy ==
    /\ fin.pc = "destroy"
    /\ \/ /\ fin' = [fin EXCEPT !.pc = "listener"]
          /\ world' = [world EXCEPT !.resources = IF fin.resources THEN "gone" ELSE @]
       \/ /\ fin.resources
          /\ fin' = [fin EXCEPT !.pc = "listener", !.err = Join(@, "error")]
          /\ UNCHANGED world
    /\ UNCHANGED <<start, node, tasks, run, ctx>>

\* The broker is closed first, which ends the event streams, then the listener.
CloseListener ==
    /\ fin.pc = "listener"
    /\ \E e \in {"none", "error"} : fin' = [fin EXCEPT !.pc = "settle", !.err = Join(@, e)]
    /\ world' = [world EXCEPT !.listener = Closed(@)]
    /\ UNCHANGED <<start, node, tasks, run, ctx>>

Settle ==
    /\ fin.pc = "settle"
    /\ fin' = [fin EXCEPT !.pc = "done"]
    /\ node' = [node EXCEPT !.state = fin.terminal]
    /\ UNCHANGED <<start, world, tasks, run, ctx>>

FinishStep == FinishFailedStart \/ Finalize \/ FinishWatched \/ StopChildren \/ StopRPC
                \/ DrainEnds \/ Destroy \/ CloseListener \/ Settle
-----------------------------------------------------------------------------
(* The direct child, as far as finish has to do with it *)

\* CreateChild needs recorded resources and open admission.
AdmitChild ==
    /\ node.recorded /\ ~node.stopping
    /\ world.child = "none"
    /\ world' = [world EXCEPT !.child = "running"]
    /\ UNCHANGED <<start, node, fin, tasks, run, ctx>>

\* A DELETE of the child begins its cleanup, under a context that never ends.
DeleteChild ==
    /\ world.child = "running"
    /\ fin.pc \in {"idle", "children"}
    /\ world' = [world EXCEPT !.child = "held"]
    /\ UNCHANGED <<start, node, fin, tasks, run, ctx>>

ChildEnds ==
    /\ world.child \in {"running", "held"}
    /\ world' = [world EXCEPT !.child = "ended"]
    /\ UNCHANGED <<start, node, fin, tasks, run, ctx>>

ChildStep == AdmitChild \/ DeleteChild \/ ChildEnds
-----------------------------------------------------------------------------
(* The Pi connection, the listener, the context and the parent *)

PiExits ==
    /\ world.conn = "open"
    /\ world' = [world EXCEPT !.conn = "closed"]
    /\ UNCHANGED <<start, node, fin, tasks, run, ctx>>

\* LocalSession.StopRPC drops what is still buffered and waits for DrainDone.
Drain ==
    /\ node.local /\ ~world.drained
    /\ world.conn = "closed"
    /\ world' = [world EXCEPT !.drained = TRUE]
    /\ UNCHANGED <<start, node, fin, tasks, run, ctx>>

ServeFails ==
    /\ world.listener = "serving"
    /\ world' = [world EXCEPT !.listener = "failed"]
    /\ UNCHANGED <<start, node, fin, tasks, run, ctx>>

ContextEnds ==
    /\ ~ctx
    /\ ctx' = TRUE
    /\ UNCHANGED <<start, node, world, fin, tasks, run>>

\* The parent ingests a terminal report and writes the byte, or refuses it.
ParentAnswers ==
    /\ report.written > 0 /\ report.ack = "open"
    /\ \E a \in {"acked", "closed"} : report' = [report EXCEPT !.ack = a]
    /\ UNCHANGED <<start, node, world, fin, helper, handler, handoff, run, ctx>>

\* The parent cancels the child and closes the endpoint unasked.
ParentCloses ==
    /\ run.kind # "root"
    /\ report.ack = "open"
    /\ report' = [report EXCEPT !.ack = "closed"]
    /\ UNCHANGED <<start, node, world, fin, helper, handler, handoff, run, ctx>>

EnvironmentStep == PiExits \/ ServeFails \/ ContextEnds \/ ParentCloses \/ Delete \/ ChildStep
-----------------------------------------------------------------------------
(* Reporter.sendTerminal *)

\* terminalSent is set before the record is written, and stays set if that fails.
SendTerminal(written) ==
    /\ ~report.sent
    /\ report' = [report EXCEPT !.sent = TRUE,
                                !.written = IF written THEN @ + 1 ELSE @]

AckRefused == report.ack = "closed" \/ ctx
-----------------------------------------------------------------------------
(* POST /v1/handoff, one handler per request *)

\* The extension inside Pi asks while the task of a writer runs.
RequestHandoff(h) ==
    /\ run.kind = "write" /\ run.pc = "serving"
    /\ world.conn = "open" /\ world.listener = "serving"
    /\ handler[h] = "idle"
    /\ handler' = [handler EXCEPT ![h] = "verifying"]
    /\ UNCHANGED <<start, node, world, fin, helper, handoff, report, run, ctx>>

\* HandoffVerifier accepts, or refuses, or its context has ended; then the handler
\* takes handoffMu.
VerifyHandoff(h) ==
    /\ handler[h] = "verifying"
    /\ \/ /\ handler' = [handler EXCEPT ![h] = "refused"]
          /\ UNCHANGED handoff
       \/ /\ ~handoff.locked /\ handoff.complete
          /\ handler' = [handler EXCEPT ![h] = "refused"]
          /\ UNCHANGED handoff
       \/ /\ ~handoff.locked /\ ~handoff.complete
          /\ handler' = [handler EXCEPT ![h] = "sending"]
          /\ handoff' = [handoff EXCEPT !.locked = TRUE]
    /\ UNCHANGED <<start, node, world, fin, helper, report, run, ctx>>

\* reportWrite: a second report is refused, and so is a record that is too long or
\* meets a broken pipe.
ReportHandoff(h) ==
    /\ handler[h] = "sending"
    /\ \/ /\ report.sent
          /\ handler' = [handler EXCEPT ![h] = "refused"]
          /\ handoff' = [handoff EXCEPT !.locked = FALSE]
          /\ UNCHANGED report
       \/ /\ SendTerminal(FALSE)
          /\ handler' = [handler EXCEPT ![h] = "refused"]
          /\ handoff' = [handoff EXCEPT !.locked = FALSE]
       \/ /\ SendTerminal(TRUE)
          /\ handler' = [handler EXCEPT ![h] = "awaiting"]
          /\ UNCHANGED handoff
    /\ UNCHANGED <<start, node, world, fin, helper, run, ctx>>

\* Mutant: a refused report keeps handoffMu.
HandoffKeepsLock(h) ==
    /\ handler[h] = "awaiting"
    /\ \/ /\ report.ack = "acked"
          /\ handler' = [handler EXCEPT ![h] = "responding"]
          /\ handoff' = [locked |-> FALSE, complete |-> TRUE]
       \/ /\ AckRefused
          /\ handler' = [handler EXCEPT ![h] = "refused"]
          /\ UNCHANGED handoff
    /\ UNCHANGED <<start, node, world, fin, helper, report, run, ctx>>

\* The wait for the acknowledgement ends: the handoff is complete or rolled back.
HandoffAnswered(h) ==
    /\ handler[h] = "awaiting"
    /\ \/ /\ report.ack = "acked"
          /\ handler' = [handler EXCEPT ![h] = "responding"]
          /\ handoff' = [locked |-> FALSE, complete |-> TRUE]
       \/ /\ AckRefused
          /\ handler' = [handler EXCEPT ![h] = "refused"]
          /\ handoff' = [handoff EXCEPT !.locked = FALSE]
    /\ UNCHANGED <<start, node, world, fin, helper, report, run, ctx>>

\* Mutant: the watchdog is never armed.
RespondOnly(h) ==
    /\ handler[h] = "responding"
    /\ \E p \in {"accepted", "unanswered"} : handler' = [handler EXCEPT ![h] = p]
    /\ UNCHANGED <<start, node, world, fin, helper, handoff, report, run, ctx>>

\* Only when the response was written and flushed does AcknowledgeHandoff arm the
\* watchdog.
Respond(h) ==
    /\ handler[h] = "responding"
    /\ \/ /\ handler' = [handler EXCEPT ![h] = "accepted"]
          /\ helper' = [helper EXCEPT !.watchdog = "armed"]
       \/ /\ handler' = [handler EXCEPT ![h] = "unanswered"]
          /\ UNCHANGED helper
    /\ UNCHANGED <<start, node, world, fin, handoff, report, run, ctx>>

HandlerStep(h) == VerifyHandoff(h) \/ ReportHandoff(h) \/ HandoffAnswered(h) \/ Respond(h)
-----------------------------------------------------------------------------
(* The runner: runSupervisor of a root, productionChildRunner inside              *)
(* RunInheritedChild of a child.                                                  *)

runnerStops == <<start, world, fin, handler, handoff, ctx>>

\* node.Stop: request the stop, then wait for the end of finish.
RunnerStops(err) ==
    /\ run' = [run EXCEPT !.pc = "stopping", !.err = Join(@, err)]
    /\ RequestStop

\* Start has returned: a root reports its status, a child its readiness.
RunnerStarted ==
    /\ run.pc = "starting"
    /\ start.pc = "returned"
    /\ IF start.err = "none"
         THEN \/ /\ run' = [run EXCEPT !.pc = "serving"]
                 /\ UNCHANGED <<node, helper>>
              \/ RunnerStops("error")
         ELSE /\ run' = [run EXCEPT !.pc = "bailing", !.err = start.err]
              /\ UNCHANGED <<node, helper>>
    /\ UNCHANGED <<runnerStops, report>>

\* Mutant: a root whose startup failed does not wait for its listener to end.
BailAtOnce ==
    /\ run.pc = "bailing"
    /\ run' = [run EXCEPT !.pc = "returned"]
    /\ UNCHANGED <<start, node, world, fin, tasks, ctx>>

\* After a failed startup a root waits for its listener to end, which finish
\* closes last; a child closes its listener itself.
Bail ==
    /\ run.pc = "bailing"
    /\ run.kind = "root" => world.listener # "serving"
    /\ world' = [world EXCEPT !.listener = Closed(@)]
    /\ run' = [run EXCEPT !.pc = "returned"]
    /\ UNCHANGED <<start, node, fin, tasks, ctx>>

RootStops ==
    /\ run.kind = "root" /\ run.pc = "serving"
    /\ \/ ctx /\ RunnerStops("none")
       \/ fin.pc = "done" /\ RunnerStops("none")
       \/ world.listener # "serving" /\ \E e \in {"none", "error"} : RunnerStops(e)
    /\ UNCHANGED <<runnerStops, report>>

\* RunWriteTask could not submit the prompt, the node is done, or the context ends.
WriterStops ==
    /\ run.kind = "write" /\ run.pc = "serving"
    /\ \/ \E e \in {"error", "cancelled"} : (e = "cancelled" => ctx) /\ RunnerStops(e)
       \/ fin.pc = "done" /\ RunnerStops(fin.err)
    /\ UNCHANGED <<runnerStops, report>>

\* RunReadTask ends; unless the context did so first, the routed calls are drained
\* and the result or a failure is reported.
ReaderReports ==
    /\ run.kind = "read" /\ run.pc = "serving"
    /\ ~ctx
    /\ \E e \in {"none", "error"}, written \in BOOLEAN :
          /\ SendTerminal(written)
          /\ IF written
               THEN /\ run' = [run EXCEPT !.pc = "reporting", !.err = e]
                    /\ UNCHANGED <<node, helper>>
               ELSE RunnerStops("error")
    /\ UNCHANGED runnerStops

ReaderStops ==
    /\ run.kind = "read" /\ run.pc = "serving"
    /\ ctx
    /\ RunnerStops("cancelled")
    /\ UNCHANGED <<runnerStops, report>>

ReaderAnswered ==
    /\ run.pc = "reporting"
    /\ \/ report.ack = "acked" /\ RunnerStops("none")
       \/ AckRefused /\ RunnerStops("cancelled")
    /\ UNCHANGED <<runnerStops, report>>

StopReturns ==
    /\ run.pc = "stopping"
    /\ \/ fin.pc = "done" /\ run' = [run EXCEPT !.pc = "returned", !.err = Join(@, fin.err)]
       \/ fin.pc # "done" /\ run' = [run EXCEPT !.pc = "returned", !.err = Join(@, "error")]
    /\ UNCHANGED <<start, node, world, fin, tasks, ctx>>

\* RunInheritedChild reports a failure nobody has reported, unless the context
\* ended first.
MustReport == run.kind # "root" /\ run.err # "none" /\ ~report.sent /\ (run.err = "cancelled" => ~ctx)

ReportFailure ==
    /\ run.pc = "returned"
    /\ MustReport
    /\ \E written \in BOOLEAN :
          /\ SendTerminal(written)
          /\ run' = IF written THEN [run EXCEPT !.pc = "failing"]
                               ELSE [run EXCEPT !.pc = "exited", !.status = "failure"]
    /\ UNCHANGED <<start, node, world, fin, helper, handler, handoff, ctx>>

\* The status of a child drops every error that is joined to a cancellation.
RunnerStatus == IF run.err = "none" \/ (run.kind # "root" /\ run.err = "cancelled")
                  THEN "success" ELSE "failure"

Exit ==
    /\ \/ /\ run.pc = "returned"
          /\ ~MustReport
          /\ run' = [run EXCEPT !.pc = "exited", !.status = RunnerStatus]
       \/ /\ run.pc = "failing"
          /\ report.ack = "acked"
          /\ run' = [run EXCEPT !.pc = "exited", !.status = RunnerStatus]
       \/ /\ run.pc = "failing"
          /\ AckRefused
          /\ run' = [run EXCEPT !.pc = "exited", !.status = "failure"]
    /\ UNCHANGED <<start, node, world, fin, tasks, ctx>>

RunnerStep == RunnerStarted \/ Bail \/ RootStops \/ WriterStops \/ ReaderReports
                \/ ReaderStops \/ ReaderAnswered \/ StopReturns \/ ReportFailure \/ Exit
-----------------------------------------------------------------------------
Step == \/ StartStep \/ FinishStep \/ Watch \/ WatchdogFires \/ Drain \/ ParentAnswers
        \/ EnvironmentStep \/ RunnerStep
        \/ \E h \in Handler : RequestHandoff(h) \/ HandlerStep(h)

\* The exit of the process ends every goroutine.
Next == Alive /\ Step

Spec == Init /\ [][Next]_vars

(***************************************************************************)
(* Fairness: goroutines run, Incus and Pi operations end by success, error *)
(* or deadline, timers fire, and the parent answers the report it awaits.  *)
(* The runner must go on once what it selects on has happened.  Nothing is *)
(* assumed of stop requests, of Pi, of the listener, of the context or of  *)
(* a child that a user stops.                                              *)
(***************************************************************************)
RunnerDue == \/ run.pc # "serving" \/ ctx \/ fin.pc = "done"
             \/ run.kind = "root" /\ world.listener # "serving"
             \/ run.kind = "read" /\ world.conn = "closed"

Fairness ==
    /\ WF_vars(Alive /\ StartStep) /\ WF_vars(Alive /\ FinishStep)
    /\ WF_vars(Alive /\ Watch) /\ WF_vars(Alive /\ WatchdogFires)
    /\ WF_vars(Alive /\ Drain) /\ WF_vars(Alive /\ ParentAnswers)
    /\ WF_vars(Alive /\ RunnerDue /\ RunnerStep)
    /\ \A h \in Handler : WF_vars(Alive /\ HandlerStep(h))

FairSpec == Spec /\ Fairness
-----------------------------------------------------------------------------
(* Safety *)

\* When finish is over nothing the startup may have acquired is left, however late
\* it arrived: the startup has settled, no Pi connection is open, the drain of
\* Pi's events is over, and resources that remain are an error of the teardown.
ReleasedWhenDone ==
    fin.pc = "done" =>
        /\ start.pc \in {"begin", "failing", "returned"}
        /\ world.conn # "open"
        /\ node.local => world.drained
        /\ world.resources = "live" => fin.err # "none" \/ start.err # "none"

\* A process that exits with success leaves no resources, unless a child dropped the
\* error of its teardown because a cancellation was joined to it.
ExitStatusTellsTruth ==
    run.status = "success" /\ world.resources = "live" =>
        run.kind # "root" /\ run.err = "cancelled"

\* A root whose startup failed or was stopped exits only after its teardown has
\* dealt with the resources it recorded, although a stop lets Start return at once:
\* the teardown closes the listener last, and the runner waits for that.
TeardownBeforeExit ==
    run.kind = "root" /\ run.pc = "exited" /\ start.err # "none" /\ world.listener # "failed"
        => fin.pc \in {"settle", "done"}

\* A session ends as completed only after its parent has acknowledged its handoff.
CompletedMeansHandedOff ==
    fin.terminal = "completed" => handoff.complete /\ report.ack = "acked"

\* Handlers, runner and RunInheritedChild together write one terminal report.
AtMostOneReport == report.written <= 1
-----------------------------------------------------------------------------
(***************************************************************************)
(* The inductive invariant behind the safety properties.                   *)
(***************************************************************************)
StartActive == {"provisioning", "recording", "publishing", "dialing", "dialled",
                "binding", "rechecking", "failing"}

\* What the startup holds at each of its steps, and that startupDone closes only
\* when it holds nothing that is not recorded.
StartInv ==
    /\ start.pc = "begin" => ~node.started /\ start.err = "none"
    /\ start.pc \in StartActive => node.started /\ ~node.startupDone
    /\ start.pc = "begin" /\ node.startupDone => node.stopping
    /\ start.pc \in {"publishing", "dialing", "dialled", "binding", "rechecking"}
          => start.err = "none"
    /\ start.pc = "failing" => start.err # "none"

AcquireInv ==
    /\ start.pc \in {"begin", "provisioning", "recording"} => ~node.recorded
    /\ start.pc \in {"begin", "provisioning", "recording", "publishing", "dialing"}
          => world.conn = "none"
    /\ start.pc \in {"begin", "provisioning"} => world.resources = "none"
    /\ node.local => start.pc \in {"binding", "rechecking", "failing", "returned"}
    /\ start.pc \in {"binding", "rechecking"} => node.local
    /\ start.pc \notin {"begin", "provisioning", "recording", "failing", "returned"}
          => node.recorded
    /\ world.drained => node.local /\ world.conn = "closed"
    /\ world.conn = "open" => node.local \/ start.pc = "dialled"
    /\ start.pc \in {"failing", "returned"} /\ world.resources = "live"
          => node.recorded \/ start.err # "none"

FinishInv ==
    /\ fin.pc # "idle" => node.stopping /\ start.pc \in {"begin", "failing", "returned"}
    /\ fin.pc # "idle" => fin.local = node.local /\ fin.resources = node.recorded
    /\ fin.pc # "idle" /\ start.pc = "failing" => fin.err # "none"
    /\ fin.pc \in {"destroy", "listener", "settle", "done"} /\ fin.local => world.drained
    /\ fin.pc \in {"listener", "settle", "done"} /\ fin.resources
          /\ world.resources = "live" => fin.err # "none"
    /\ fin.pc \in {"settle", "done"} => world.listener # "serving"
    /\ fin.terminal = "completed" => handoff.complete

HandoffInv ==
    /\ handoff.complete => report.ack = "acked"
    /\ \A h \in Handler :
          /\ handler[h] # "idle" => start.pc = "returned"
          /\ handler[h] \in {"responding", "accepted", "unanswered"} => handoff.complete
    /\ helper.watcher # "none" => start.pc = "returned"
    /\ helper.watcher = "completed" => handoff.complete
    /\ helper.watchdog = "armed" => handoff.complete /\ start.pc = "returned"

ReportInv == report.written <= 1 /\ (~report.sent => report.written = 0)

RunInv ==
    /\ run.pc # "starting" => start.pc = "returned"
    /\ run.pc = "bailing" => run.err # "none" /\ start.err # "none"
    /\ start.err # "none" /\ run.pc # "starting" => run.err # "none"
    /\ run.pc \in {"returned", "failing", "exited"} /\ run.err = "none"
          => fin.pc = "done" /\ fin.err = "none"
    /\ run.pc = "failing" => run.kind # "root" /\ run.err # "none"
    /\ run.status = "success" =>
          run.pc = "exited" /\ (run.err = "none" \/ (run.kind # "root" /\ run.err = "cancelled"))
    /\ start.err # "none" /\ run.pc \notin {"starting", "bailing"}
          => /\ run.pc \in {"returned", "failing", "exited"}
             /\ run.kind = "root" => world.listener # "serving"
    /\ run.kind = "root" /\ world.listener = "closed" => fin.pc \in {"settle", "done"}

\* What every step preserves: what the startup holds, finish has captured or will be
\* handed back, and the handoff, its report and the exit agree.
LifecycleInv ==
    TypeOK /\ StartInv /\ AcquireInv /\ FinishInv /\ HandoffInv /\ ReportInv /\ RunInv
-----------------------------------------------------------------------------
(* Liveness *)

\* Once a stop is requested the one teardown runs to its end, at whatever point of
\* the startup, a handoff or a natural end the request arrives; what can keep it
\* for ever is only a child that hangs and whose cleanup a DELETE began.
StopFinishes == node.stopping ~> (fin.pc = "done" \/ ~Alive \/ []ChildHolds)

\* The end of Pi ends the session, even while a handoff holds the lock that the
\* watcher needs; the exception is the same.
PiExitFinishes ==
    helper.watcher = "watching" /\ world.conn = "closed"
        ~> (fin.pc = "done" \/ ~Alive \/ []ChildHolds)

\* A process whose context has ended exits.
ContextEndExits == ctx ~> ~Alive

\* A writer whose handoff was answered exits although Pi may stay; the exception is
\* the same, since a writer may have delegated too.
HandoffExits ==
    \A h \in Handler : handler[h] = "accepted" ~> (~Alive \/ []ChildHolds)
-----------------------------------------------------------------------------
(* What a comment says and the code does not do: refuted by a run. *)

\* A report that was not delivered is rolled back and the writer stays retryable: as
\* long as the parent waits, a handoff that is not complete can still be reported.
HandoffRetryable ==
    run.kind = "write" /\ run.pc = "serving" /\ ~handoff.locked /\ ~handoff.complete
        /\ ~AckRefused => ~report.sent
=============================================================================
