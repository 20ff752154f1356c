----------------------- MODULE NodeLifecycleProofs -----------------------
(***************************************************************************)
(* Proofs about NodeLifecycle, for any number of handoff requests.         *)
(*                                                                         *)
(* The invariant is LifecycleInv.  There is one lemma for each of its      *)
(* conjuncts, which says that a step preserves it, with one step for each  *)
(* action that may disturb it; the theorems are at the end.                *)
(***************************************************************************)
EXTENDS NodeLifecycle, TLAPS

-----------------------------------------------------------------------------
(* Type correctness *)

Startup == [pc : StartPC, err : Error]
NodeFields == [stopping : BOOLEAN, started : BOOLEAN, startupDone : BOOLEAN,
               recorded : BOOLEAN, local : BOOLEAN, state : State]
World == [resources : {"none", "live", "gone"}, conn : {"none", "open", "closed"},
          drained : BOOLEAN, listener : {"serving", "closed", "failed"},
          child : {"none", "running", "held", "ended"}]
Finishing == [pc : FinPC, terminal : State, closeRPC : BOOLEAN, local : BOOLEAN,
              resources : BOOLEAN, err : Error]
Helpers == [finalizer : {"none", "waiting"},
            watcher : {"none", "watching", "completed", "failed", "gone"},
            watchdog : {"none", "armed"}]
Handoff == [locked : BOOLEAN, complete : BOOLEAN]
Reporting == [sent : BOOLEAN, written : Nat, ack : {"open", "acked", "closed"}]
Runner == [kind : SessionKind, pc : RunPC, err : Error, status : {"running", "success", "failure"}]

\* What the record fields may hold.
LEMMA Values ==
    /\ StartPC = {"begin", "provisioning", "recording", "publishing", "dialing", "dialled",
                  "binding", "rechecking", "failing", "returned"}
    /\ Error = {"none", "error", "cancelled"}
    /\ \A a, b \in Error : Join(a, b) \in Error
    /\ \A a, b \in Error : Join(a, b) = "none" <=> a = "none" /\ b = "none"
    /\ \A a, b \in Error : Join(a, b) = "cancelled" <=> a = "cancelled" \/ b = "cancelled"
    /\ StartupError \subseteq {"error", "cancelled"}
BY DEF StartPC, Error, Join, StartupError

\* The fields of a typed state.
LEMMA Fields ==
    ASSUME TypeOK
    PROVE  /\ start \in Startup /\ node \in NodeFields /\ world \in World
           /\ fin \in Finishing /\ helper \in Helpers /\ handler \in [Handler -> HandlerPC]
           /\ handoff \in Handoff /\ report \in Reporting /\ run \in Runner
           /\ start.err \in Error /\ fin.err \in Error /\ run.err \in Error
           /\ start.pc \in StartPC /\ fin.pc \in FinPC /\ run.pc \in RunPC
           /\ node.local \in BOOLEAN /\ node.recorded \in BOOLEAN
BY DEF TypeOK, Startup, NodeFields, World, Finishing, Helpers, Handoff, Reporting, Runner

LEMMA TypeFromFields ==
    ASSUME start \in Startup, node \in NodeFields, world \in World,
           fin \in Finishing, helper \in Helpers, handler \in [Handler -> HandlerPC],
           handoff \in Handoff, report \in Reporting, run \in Runner, ctx \in BOOLEAN
    PROVE  TypeOK
BY DEF TypeOK, Startup, NodeFields, World, Finishing, Helpers, Handoff, Reporting, Runner

\* A return of Start, with the error it returns.
LEMMA StartReturnsType ==
    ASSUME TypeOK, NEW e \in Error, StartReturns(e)
    PROVE  start' \in Startup /\ node' \in NodeFields
<1>1. start' \in Startup
  BY Values DEF StartReturns, Startup
<1>2. node' \in NodeFields
  BY Fields, Zenon DEF StartReturns, NodeFields
<1>. QED BY <1>1, <1>2

LEMMA RequestStopType ==
    ASSUME TypeOK, RequestStop
    PROVE  node' \in NodeFields /\ helper' \in Helpers
<1>1. PICK s \in State, d \in BOOLEAN : node' = [node EXCEPT !.stopping = TRUE, !.startupDone = d, !.state = s]
  <2>1. node.state \in State /\ "stopping" \in State
    BY Fields DEF NodeFields, State
  <2>. QED BY <2>1, Zenon DEF RequestStop, Stopped
<1>2. node' \in NodeFields
  BY <1>1, Fields, Zenon DEF NodeFields
<1>3. helper' \in Helpers
  BY Fields DEF RequestStop, Helpers
<1>. QED BY <1>2, <1>3

LEMMA BeginFinishType ==
    ASSUME TypeOK, NEW t \in State, NEW b \in BOOLEAN, NEW e \in Error, BeginFinish(t, b, e)
    PROVE  TypeOK'
<1>1. fin' \in Finishing
  <2>1. "children" \in FinPC
    BY DEF FinPC
  <2>. QED BY <2>1, Fields, Zenon DEF BeginFinish, Finishing
<1>2. node' \in NodeFields
  BY Fields, Zenon DEF BeginFinish, NodeFields
<1>. QED BY <1>1, <1>2 DEF BeginFinish, tasks, TypeOK, NodeFields, Finishing

LEMMA RunnerStopsType ==
    ASSUME TypeOK, NEW e \in Error, RunnerStops(e), UNCHANGED runnerStops, report' \in Reporting
    PROVE  TypeOK'
<1>1. run' \in Runner
  <2>1. Join(run.err, e) \in Error
    BY Values, Fields
  <2>. QED BY <2>1, Fields DEF RunnerStops, Runner, RunPC
<1>2. node' \in NodeFields /\ helper' \in Helpers
  BY RequestStopType DEF RunnerStops
<1>. QED BY <1>1, <1>2 DEF runnerStops, TypeOK, NodeFields, Helpers, Reporting, Runner

LEMMA SendTerminalType ==
    ASSUME TypeOK, NEW w \in BOOLEAN, SendTerminal(w)
    PROVE  report' \in Reporting
<1>1. PICK n \in Nat : report' = [report EXCEPT !.sent = TRUE, !.written = n]
  <2>1. report.written \in Nat /\ report.written + 1 \in Nat
    BY Fields DEF Reporting
  <2>. QED BY <2>1, Zenon DEF SendTerminal
<1>. QED BY <1>1, Fields, Zenon DEF Reporting

\* The steps of the direct child touch nothing else.
LEMMA ChildEffect ==
    ASSUME TypeOK, ChildStep
    PROVE  /\ UNCHANGED <<start, node, fin, helper, handler, handoff, report, run, ctx>>
           /\ world' \in World
           /\ world'.resources = world.resources /\ world'.conn = world.conn
           /\ world'.drained = world.drained /\ world'.listener = world.listener
<1>1. PICK k \in {"running", "held", "ended"} : world' = [world EXCEPT !.child = k]
  BY DEF ChildStep, AdmitChild, DeleteChild, ChildEnds
<1>2. UNCHANGED <<start, node, fin, helper, handler, handoff, report, run, ctx>>
  BY DEF ChildStep, AdmitChild, DeleteChild, ChildEnds, tasks
<1>. QED BY <1>1, <1>2, Fields DEF World

LEMMA InitType == Init => TypeOK
<1>. SUFFICES ASSUME Init PROVE TypeOK
  OBVIOUS
<1>1. start \in Startup /\ world \in World /\ helper \in Helpers /\ report \in Reporting
  BY DEF Init, Startup, World, Helpers, Reporting, StartPC, Error
<1>2. node \in NodeFields /\ handoff \in Handoff /\ fin \in Finishing
  BY DEF Init, NodeFields, Handoff, Finishing, FinPC, State, Error
<1>3. handler \in [Handler -> HandlerPC] /\ ctx \in BOOLEAN
  BY DEF Init, HandlerPC
<1>4. run \in Runner
  <2>1. PICK k \in SessionKind :
           run = [kind |-> k, pc |-> "starting", err |-> "none", status |-> "running"]
    BY DEF Init
  <2>. QED BY <2>1 DEF Runner, RunPC, Error
<1>. QED BY <1>1, <1>2, <1>3, <1>4, TypeFromFields

\* The steps of Start.
LEMMA StartTypeKept ==
    ASSUME TypeOK, StartStep
    PROVE  TypeOK'
<1>1. CASE BeginStart
  <2>1. start' \in Startup
    BY <1>1, Fields DEF BeginStart, Startup, StartPC, Error
  <2>2. node' \in NodeFields
    BY <1>1, Fields, Zenon DEF BeginStart, NodeFields
  <2>. QED BY <1>1, <2>1, <2>2 DEF BeginStart, tasks, TypeOK, Startup, NodeFields
<1>2. CASE StartRefused
  <2>1. start' \in Startup
    BY <1>2 DEF StartRefused, Startup, StartPC, Error
  <2>. QED BY <1>2, <2>1 DEF StartRefused, tasks, TypeOK, Startup
<1>3. CASE Provision
  <2>1. start' \in Startup
    BY <1>3, Fields, Values DEF Provision, Startup
  <2>2. world' \in World
    BY <1>3, Fields DEF Provision, World
  <2>. QED BY <1>3, <2>1, <2>2 DEF Provision, tasks, TypeOK, Startup, World
<1>4. CASE Record
  <2>1. start' \in Startup
    BY <1>4, Fields DEF Record, Startup, StartPC, Error
  <2>2. node' \in NodeFields
    <3>1. (start.err = "none") \in BOOLEAN /\ "starting" \in State
      BY DEF State
    <3>2. CASE node.stopping
      BY <1>4, <3>1, <3>2, Fields, Zenon DEF Record, NodeFields
    <3>3. CASE ~node.stopping /\ start.err = "none"
      <4>1. node' = [node EXCEPT !.recorded = TRUE, !.state = "starting"]
        BY <1>4, <3>3 DEF Record
      <4>. QED BY <3>1, <4>1, Fields, Zenon DEF NodeFields
    <3>4. CASE ~node.stopping /\ start.err # "none"
      <4>1. node' = [node EXCEPT !.recorded = FALSE, !.state = node.state]
        BY <1>4, <3>4 DEF Record
      <4>2. node.state \in State
        BY Fields DEF NodeFields
      <4>. QED BY <4>1, <4>2, Fields, Zenon DEF NodeFields
    <3>. QED BY <3>2, <3>3, <3>4
  <2>. QED BY <1>4, <2>1, <2>2 DEF Record, tasks, TypeOK, Startup, NodeFields
<1>5. CASE Publish
  <2>1. start' \in Startup /\ node' \in NodeFields
    BY <1>5, Fields DEF Publish, StartFailing, Startup, StartPC, Error
  <2>. QED BY <1>5, <2>1 DEF Publish, tasks, TypeOK, Startup, NodeFields
<1>6. CASE Dial
  <2>1. start' \in Startup /\ node' \in NodeFields
    BY <1>6, Fields, Values, StartReturnsType DEF Dial, StartFailing, Startup
  <2>2. world' \in World
    BY <1>6, Fields DEF Dial, World
  <2>. QED BY <1>6, <2>1, <2>2 DEF Dial, tasks, TypeOK, Startup, NodeFields, World
<1>7. CASE Adopt
  <2>1. start' \in Startup
    BY <1>7, Fields DEF Adopt, StartReturns, Startup, StartPC, Error
  <2>2. node' \in NodeFields
    BY <1>7, Fields, Zenon DEF Adopt, StartReturns, NodeFields
  <2>3. world' \in World
    BY <1>7, Fields DEF Adopt, World
  <2>. QED BY <1>7, <2>1, <2>2, <2>3 DEF Adopt, tasks, TypeOK, Startup, NodeFields, World
<1>8. CASE Bind
  <2>1. start' \in Startup /\ node' \in NodeFields
    BY <1>8, Fields, Values, StartReturnsType DEF Bind, StartFailing, Startup
  <2>. QED BY <1>8, <2>1 DEF Bind, tasks, TypeOK, Startup, NodeFields
<1>9. CASE Recheck
  <2>1. start' \in Startup /\ node' \in NodeFields
    BY <1>9, Fields, Values, StartReturnsType DEF Recheck
  <2>2. helper' \in Helpers
    BY <1>9, Fields DEF Recheck, Helpers
  <2>. QED BY <1>9, <2>1, <2>2 DEF Recheck, TypeOK, Startup, NodeFields, Helpers
<1>10. CASE StartFailed
  <2>1. start' \in Startup /\ node' \in NodeFields
    BY <1>10, Fields, StartReturnsType DEF StartFailed
  <2>. QED BY <1>10, <2>1 DEF StartFailed, tasks, TypeOK, Startup, NodeFields
<1>. QED BY <1>1, <1>2, <1>3, <1>4, <1>5, <1>6, <1>7, <1>8, <1>9, <1>10 DEF StartStep

\* The steps of finish, and the watchdog that may begin it.
LEMMA FinishTypeKept ==
    ASSUME TypeOK, FinishStep \/ WatchdogFires
    PROVE  TypeOK'
<1>1. ASSUME NEW t \in State, NEW b \in BOOLEAN, NEW e \in Error, BeginFinish(t, b, e)
      PROVE  TypeOK'
  BY <1>1, BeginFinishType
<1>2. {"completed", "failed", "stopped"} \subseteq State
  BY DEF State
<1>3. CASE FinishFailedStart \/ Finalize \/ FinishWatched \/ WatchdogFires
  BY <1>1, <1>2, <1>3, Fields, Values DEF FinishFailedStart, Finalize, FinishWatched, WatchdogFires
<1>4. CASE StopChildren \/ CloseListener
  <2>1. fin' \in Finishing
    <3>1. \A e \in {"none", "error"} : Join(fin.err, e) \in Error
      BY Fields, Values
    <3>. QED BY <1>4, <3>1, Fields, Zenon DEF StopChildren, CloseListener, Finishing, FinPC
  <2>2. world' \in World
    BY <1>4, Fields DEF StopChildren, CloseListener, Closed, World
  <2>. QED BY <1>4, <2>1, <2>2 DEF StopChildren, CloseListener, tasks, TypeOK, Finishing, World
<1>5. CASE StopRPC
  <2>1. fin' \in Finishing
    BY <1>5, Fields DEF StopRPC, Finishing, FinPC
  <2>2. world' \in World
    BY <1>5, Fields DEF StopRPC, World
  <2>. QED BY <1>5, <2>1, <2>2 DEF StopRPC, tasks, TypeOK, Finishing, World
<1>6. CASE DrainEnds
  <2>1. fin' \in Finishing
    BY <1>6, Fields DEF DrainEnds, Finishing, FinPC
  <2>. QED BY <1>6, <2>1 DEF DrainEnds, tasks, TypeOK, Finishing
<1>7. CASE Destroy
  <2>1. fin' \in Finishing
    <3>1. Join(fin.err, "error") \in Error
      BY Fields, Values
    <3>. QED BY <1>7, <3>1, Fields DEF Destroy, Finishing, FinPC
  <2>2. world' \in World
    BY <1>7, Fields DEF Destroy, World
  <2>. QED BY <1>7, <2>1, <2>2 DEF Destroy, tasks, TypeOK, Finishing, World
<1>8. CASE Settle
  <2>1. fin' \in Finishing
    BY <1>8, Fields DEF Settle, Finishing, FinPC
  <2>2. node' \in NodeFields
    BY <1>8, Fields DEF Settle, Finishing, NodeFields
  <2>. QED BY <1>8, <2>1, <2>2 DEF Settle, tasks, TypeOK, Finishing, NodeFields
<1>. QED BY <1>3, <1>4, <1>5, <1>6, <1>7, <1>8 DEF FinishStep

\* The steps of the runner.
LEMMA RunnerTypeKept ==
    ASSUME TypeOK, RunnerStep
    PROVE  TypeOK'
<1>1. ASSUME NEW e \in Error, RunnerStops(e), UNCHANGED runnerStops, report' \in Reporting
      PROVE  TypeOK'
  BY <1>1, RunnerStopsType
<1>2. report \in Reporting /\ {"none", "error", "cancelled"} \subseteq Error /\ fin.err \in Error
  BY Fields, Values
<1>3. CASE RunnerStarted
  <2>1. CASE RunnerStops("error")
    BY <1>1, <1>2, <1>3, <2>1 DEF RunnerStarted
  <2>2. CASE ~RunnerStops("error")
    <3>1. run' \in Runner
      BY <1>3, <2>2, Fields DEF RunnerStarted, Runner, RunPC
    <3>. QED BY <1>3, <2>2, <3>1 DEF RunnerStarted, runnerStops, TypeOK, Runner
  <2>. QED BY <2>1, <2>2
<1>4. CASE Bail
  <2>1. run' \in Runner /\ world' \in World
    BY <1>4, Fields DEF Bail, Closed, Runner, RunPC, World
  <2>. QED BY <1>4, <2>1 DEF Bail, tasks, TypeOK, Runner, World
<1>5. CASE RootStops \/ WriterStops \/ ReaderStops
  BY <1>1, <1>2, <1>5 DEF RootStops, WriterStops, ReaderStops
<1>6. CASE ReaderReports
  <2>1. PICK e \in {"none", "error"}, w \in BOOLEAN :
           /\ SendTerminal(w)
           /\ IF w THEN /\ run' = [run EXCEPT !.pc = "reporting", !.err = e]
                        /\ UNCHANGED <<node, helper>>
                   ELSE RunnerStops("error")
    BY <1>6 DEF ReaderReports
  <2>2. report' \in Reporting
    BY <2>1, SendTerminalType
  <2>3. CASE w
    <3>1. run' \in Runner
      BY <2>1, <2>3, Fields DEF Runner, RunPC, Error
    <3>. QED BY <1>6, <2>1, <2>2, <2>3, <3>1 DEF ReaderReports, runnerStops, TypeOK, Runner, Reporting
  <2>4. CASE ~w
    BY <1>1, <1>2, <1>6, <2>1, <2>2, <2>4 DEF ReaderReports
  <2>. QED BY <2>3, <2>4
<1>7. CASE ReaderAnswered
  BY <1>1, <1>2, <1>7 DEF ReaderAnswered
<1>8. CASE StopReturns
  <2>1. run' \in Runner
    <3>1. \A e \in Error : Join(run.err, e) \in Error
      BY Fields, Values
    <3>. QED BY <1>2, <1>8, <3>1, Fields DEF StopReturns, Runner, RunPC
  <2>. QED BY <1>8, <2>1 DEF StopReturns, tasks, TypeOK, Runner
<1>9. CASE ReportFailure
  <2>1. report' \in Reporting
    BY <1>9, SendTerminalType DEF ReportFailure
  <2>2. run' \in Runner
    BY <1>9, Fields DEF ReportFailure, Runner, RunPC
  <2>. QED BY <1>9, <2>1, <2>2 DEF ReportFailure, TypeOK, Runner, Reporting
<1>10. CASE Exit
  <2>1. run' \in Runner
    BY <1>10, Fields DEF Exit, RunnerStatus, Runner, RunPC
  <2>. QED BY <1>10, <2>1 DEF Exit, tasks, TypeOK, Runner
<1>. QED BY <1>3, <1>4, <1>5, <1>6, <1>7, <1>8, <1>9, <1>10 DEF RunnerStep

\* Everything else: handlers, helpers and the environment.
LEMMA TypeKept ==
    ASSUME TypeOK, Step
    PROVE  TypeOK'
<1>1. CASE StartStep
  BY <1>1, StartTypeKept
<1>2. CASE FinishStep \/ WatchdogFires
  BY <1>2, FinishTypeKept
<1>3. CASE RunnerStep
  BY <1>3, RunnerTypeKept
<1>4. CASE Watch
  <2>1. helper' \in Helpers
    BY <1>4, Fields DEF Watch, Helpers
  <2>. QED BY <1>4, <2>1 DEF Watch, TypeOK, Helpers
<1>5. CASE Drain \/ PiExits \/ ServeFails
  <2>1. world' \in World
    BY <1>5, Fields, Zenon DEF Drain, PiExits, ServeFails, World
  <2>. QED BY <1>5, <2>1 DEF Drain, PiExits, ServeFails, tasks, TypeOK, World
<1>6. CASE ParentAnswers \/ ParentCloses
  <2>1. report' \in Reporting
    BY <1>6, Fields DEF ParentAnswers, ParentCloses, Reporting
  <2>. QED BY <1>6, <2>1 DEF ParentAnswers, ParentCloses, TypeOK, Reporting
<1>7. CASE ContextEnds
  BY <1>7 DEF ContextEnds, tasks, TypeOK
<1>8. CASE Delete
  <2>1. node' \in NodeFields /\ helper' \in Helpers
    BY <1>8, RequestStopType DEF Delete
  <2>. QED BY <1>8, <2>1 DEF Delete, TypeOK, NodeFields, Helpers
<1>9. ASSUME NEW h \in Handler, RequestHandoff(h) \/ HandlerStep(h)
      PROVE  TypeOK'
  <2>1. handler' \in [Handler -> HandlerPC]
    BY <1>9, Fields
    DEF RequestHandoff, HandlerStep, VerifyHandoff, ReportHandoff, HandoffAnswered, Respond, HandlerPC
  <2>2. handoff' \in Handoff
    <3>1. \/ handoff' = handoff
          \/ handoff' = [handoff EXCEPT !.locked = TRUE]
          \/ handoff' = [handoff EXCEPT !.locked = FALSE]
          \/ handoff' = [locked |-> FALSE, complete |-> TRUE]
      BY <1>9, Zenon
      DEF RequestHandoff, HandlerStep, VerifyHandoff, ReportHandoff, HandoffAnswered, Respond
    <3>2. handoff \in Handoff /\ [locked |-> FALSE, complete |-> TRUE] \in Handoff
      BY Fields DEF Handoff
    <3>3. \A b \in BOOLEAN : [handoff EXCEPT !.locked = b] \in Handoff
      BY <3>2, Zenon DEF Handoff
    <3>. QED BY <3>1, <3>2, <3>3, Zenon
  <2>3. report' \in Reporting
    BY <1>9, Fields, SendTerminalType
    DEF RequestHandoff, HandlerStep, VerifyHandoff, ReportHandoff, HandoffAnswered, Respond
  <2>4. helper' \in Helpers
    BY <1>9, Fields
    DEF RequestHandoff, HandlerStep, VerifyHandoff, ReportHandoff, HandoffAnswered, Respond, Helpers
  <2>5. UNCHANGED <<start, node, world, fin, run, ctx>>
    BY <1>9 DEF RequestHandoff, HandlerStep, VerifyHandoff, ReportHandoff, HandoffAnswered, Respond
  <2>. QED BY <2>1, <2>2, <2>3, <2>4, <2>5 DEF TypeOK, Handoff, Reporting, Helpers
<1>10. CASE ChildStep
  BY <1>10, ChildEffect DEF TypeOK, World
<1>. QED BY <1>1, <1>2, <1>3, <1>4, <1>5, <1>6, <1>7, <1>8, <1>9, <1>10 DEF Step, EnvironmentStep
-----------------------------------------------------------------------------
(* What the steps of one goroutine leave alone.                               *)

\* finish writes its own record, what it releases, and two fields of Node.
LEMMA FinishEffect ==
    ASSUME TypeOK, FinishStep \/ WatchdogFires
    PROVE  /\ UNCHANGED <<start, helper, handler, handoff, report, run, ctx>>
           /\ node'.started = node.started /\ node'.startupDone = node.startupDone
           /\ node'.recorded = node.recorded /\ node'.local = node.local
           /\ node.stopping => node'.stopping
BY Fields DEF FinishStep, FinishFailedStart, Finalize, FinishWatched, WatchdogFires, BeginFinish,
   StopChildren, StopRPC, DrainEnds, Destroy, CloseListener, Settle, tasks, NodeFields

\* The runner may request the stop, as a DELETE does, report, and close a listener.
LEMMA RunnerEffect ==
    ASSUME TypeOK, RunnerStep
    PROVE  /\ UNCHANGED <<start, fin, handler, handoff, ctx>>
           /\ report'.ack = report.ack
           /\ RequestStop \/ UNCHANGED <<node, helper>>
           /\ Bail \/ UNCHANGED world
<1>1. \A w \in BOOLEAN : SendTerminal(w) => report'.ack = report.ack
  BY Fields DEF SendTerminal, Reporting
<1>2. CASE RunnerStarted \/ RootStops \/ WriterStops \/ ReaderStops \/ ReaderAnswered
  BY <1>2 DEF RunnerStarted, RootStops, WriterStops, ReaderStops, ReaderAnswered, RunnerStops, runnerStops
<1>3. CASE ReaderReports
  BY <1>1, <1>3 DEF ReaderReports, RunnerStops, runnerStops
<1>4. CASE Bail \/ StopReturns \/ Exit \/ ReportFailure
  BY <1>1, <1>4 DEF Bail, StopReturns, Exit, ReportFailure, tasks
<1>. QED BY <1>2, <1>3, <1>4 DEF RunnerStep

LEMMA RequestStopEffect ==
    ASSUME TypeOK, RequestStop
    PROVE  /\ node'.started = node.started
           /\ node'.startupDone <=> node.startupDone \/ ~node.started
           /\ node'.recorded = node.recorded /\ node'.local = node.local
           /\ node'.stopping
           /\ helper'.watcher = helper.watcher /\ helper'.watchdog = helper.watchdog
BY Fields DEF RequestStop, Stopped, NodeFields, Helpers

LEMMA HandlerEffect ==
    ASSUME NEW h \in Handler, RequestHandoff(h) \/ HandlerStep(h)
    PROVE  UNCHANGED <<start, node, world, fin, run, ctx>>
BY DEF RequestHandoff, HandlerStep, VerifyHandoff, ReportHandoff, HandoffAnswered, Respond

\* Parent, Pi, listener, drain and context.
LEMMA OutsideEffect ==
    ASSUME PiExits \/ ServeFails \/ ContextEnds \/ ParentCloses \/ ParentAnswers \/ Drain
    PROVE  UNCHANGED <<start, node, fin, helper, handler, handoff, run>>
BY DEF PiExits, ServeFails, ContextEnds, ParentCloses, ParentAnswers, Drain, tasks
-----------------------------------------------------------------------------
(* The conjuncts of the invariant *)

\* What becomes of the resources that ProvisionRoot returned, or did not.
LEMMA RecordEffect ==
    ASSUME TypeOK, Record
    PROVE  /\ start.pc = "recording"
           /\ node.stopping => start'.pc = "returned" /\ start'.err # "none" /\ node'.startupDone
           /\ ~node.stopping => start'.err = start.err /\ node'.startupDone = node.startupDone
           /\ ~node.stopping /\ start.err = "none" => start'.pc = "publishing"
           /\ ~node.stopping /\ start.err # "none" => start'.pc = "failing"
           /\ node'.recorded <=> start.err = "none"
           /\ node'.started = node.started /\ node'.local = node.local
           /\ node'.stopping = node.stopping
           /\ UNCHANGED <<world, fin, helper, handler, handoff, report, run, ctx>>
<1>1. CASE node.stopping /\ start.err = "none"
  <2>1. node' = [node EXCEPT !.recorded = TRUE, !.startupDone = TRUE]
    BY <1>1 DEF Record
  <2>2. /\ node'.startupDone /\ (node'.recorded <=> TRUE)
        /\ node'.started = node.started /\ node'.local = node.local
        /\ node'.stopping = node.stopping
    BY <2>1, Fields, Zenon DEF NodeFields
  <2>. QED BY <1>1, <2>2 DEF Record, tasks
<1>2. CASE node.stopping /\ start.err # "none"
  <2>1. node' = [node EXCEPT !.recorded = FALSE, !.startupDone = TRUE]
    BY <1>2 DEF Record
  <2>2. /\ node'.startupDone /\ (node'.recorded <=> FALSE)
        /\ node'.started = node.started /\ node'.local = node.local
        /\ node'.stopping = node.stopping
    BY <2>1, Fields, Zenon DEF NodeFields
  <2>. QED BY <1>2, <2>2 DEF Record, tasks
<1>3. CASE ~node.stopping /\ start.err = "none"
  <2>1. node' = [node EXCEPT !.recorded = TRUE, !.state = "starting"]
    BY <1>3 DEF Record
  <2>. QED BY <1>3, <2>1, Fields DEF Record, tasks, NodeFields, Startup
<1>4. CASE ~node.stopping /\ start.err # "none"
  <2>1. node' = [node EXCEPT !.recorded = FALSE, !.state = node.state]
    BY <1>4 DEF Record
  <2>. QED BY <1>4, <2>1, Fields DEF Record, tasks, NodeFields, Startup
<1>. QED BY <1>1, <1>2, <1>3, <1>4

LEMMA StartKept ==
    ASSUME LifecycleInv, Step
    PROVE  StartInv'
<1>. TypeOK /\ StartInv
  BY DEF LifecycleInv
<1>1. CASE BeginStart \/ StartRefused \/ Provision
  BY <1>1, Fields, Values DEF BeginStart, StartRefused, Provision, StartInv, StartActive, Startup, NodeFields
<1>2. CASE Record
  BY <1>2, RecordEffect DEF StartInv, StartActive
<1>3. CASE Publish \/ Dial \/ Bind
  BY <1>3, Fields, Values
  DEF Publish, Dial, Bind, StartReturns, StartFailing, StartInv, StartActive, Startup, NodeFields
<1>4. CASE Adopt \/ Recheck \/ StartFailed
  BY <1>4, Fields DEF Adopt, Recheck, StartFailed, StartReturns, StartInv, StartActive, Startup, NodeFields
<1>5. CASE FinishStep \/ WatchdogFires
  BY <1>5, FinishEffect DEF StartInv
<1>6. CASE RequestStop /\ UNCHANGED start
  BY <1>6, RequestStopEffect DEF StartInv, StartActive
<1>7. CASE UNCHANGED <<start, node>>
  BY <1>7 DEF StartInv
<1>8. Delete => RequestStop /\ UNCHANGED start
  BY DEF Delete
<1>9. Watch => UNCHANGED <<start, node>>
  BY DEF Watch
<1>10. CASE ChildStep
  BY <1>10, ChildEffect DEF StartInv
<1>. QED
  BY <1>1, <1>2, <1>3, <1>4, <1>5, <1>6, <1>7, <1>8, <1>9, <1>10, RunnerEffect, HandlerEffect, OutsideEffect
  DEF Step, StartStep, EnvironmentStep

LEMMA AcquireKept ==
    ASSUME LifecycleInv, Step
    PROVE  AcquireInv'
<1>. TypeOK /\ StartInv /\ AcquireInv /\ FinishInv
  BY DEF LifecycleInv
<1>1. CASE BeginStart \/ StartRefused
  BY <1>1, Fields DEF BeginStart, StartRefused, AcquireInv, Startup, NodeFields
<1>2. CASE Provision
  BY <1>2, Fields DEF Provision, AcquireInv, StartInv, Startup, World
<1>3. CASE Record
  BY <1>3, RecordEffect DEF AcquireInv
<1>4. CASE Publish \/ Dial \/ Bind
  BY <1>4, Fields, Values
  DEF Publish, Dial, Bind, StartReturns, StartFailing, AcquireInv, StartInv, Startup, NodeFields, World
<1>5. CASE Adopt \/ Recheck \/ StartFailed
  <2>1. CASE Adopt
    <3>1. CASE node.stopping
      <4>1. /\ start.pc = "dialled" /\ start'.pc = "returned" /\ start'.err = "error"
            /\ node'.recorded = node.recorded /\ node'.local = node.local
            /\ world'.conn = "closed" /\ world'.drained = world.drained
        BY <2>1, <3>1, Fields DEF Adopt, StartReturns, NodeFields, World
      <4>. QED BY <4>1 DEF AcquireInv
    <3>2. CASE ~node.stopping
      <4>1. /\ start.pc = "dialled" /\ start'.pc = "binding"
            /\ node'.recorded = node.recorded /\ node'.local /\ UNCHANGED world
        BY <2>1, <3>2, Fields DEF Adopt, NodeFields, Startup
      <4>. QED BY <4>1 DEF AcquireInv
    <3>. QED BY <3>1, <3>2
  <2>2. CASE Recheck
    BY <2>2, Fields DEF Recheck, StartReturns, AcquireInv, StartInv, NodeFields
  <2>3. CASE StartFailed
    BY <2>3, Fields DEF StartFailed, StartReturns, AcquireInv, FinishInv, NodeFields
  <2>. QED BY <1>5, <2>1, <2>2, <2>3
<1>6. CASE FinishStep \/ WatchdogFires
  <2>1. /\ world'.drained = world.drained
        /\ world'.conn = world.conn \/ (world'.conn = "closed" /\ node.local)
        /\ world'.resources = world.resources \/ (world'.resources = "gone" /\ node.recorded)
    <3>1. CASE StopRPC
      BY <3>1, Fields DEF StopRPC, FinishInv, World
    <3>2. CASE Destroy
      BY <3>2, Fields DEF Destroy, FinishInv, World
    <3>3. CASE CloseListener
      BY <3>3, Fields DEF CloseListener, World
    <3>4. CASE ~StopRPC /\ ~Destroy /\ ~CloseListener
      BY <1>6, <3>4
      DEF FinishStep, FinishFailedStart, Finalize, FinishWatched, WatchdogFires, BeginFinish,
          StopChildren, DrainEnds, Settle
    <3>. QED BY <3>1, <3>2, <3>3, <3>4
  <2>. QED BY <1>6, <2>1, FinishEffect DEF AcquireInv
<1>7. CASE PiExits \/ Drain \/ ServeFails \/ Bail
  BY <1>7, Fields DEF PiExits, Drain, ServeFails, Bail, tasks, AcquireInv, World
<1>8. CASE RequestStop /\ UNCHANGED <<start, world>>
  BY <1>8, RequestStopEffect DEF AcquireInv
<1>9. CASE UNCHANGED <<start, node, world>>
  BY <1>9 DEF AcquireInv
<1>10. Delete => RequestStop /\ UNCHANGED <<start, world>>
  BY DEF Delete
<1>11. Watch \/ ContextEnds \/ ParentCloses \/ ParentAnswers => UNCHANGED <<start, node, world>>
  BY DEF Watch, ContextEnds, ParentCloses, ParentAnswers
<1>12. CASE ChildStep
  BY <1>12, ChildEffect DEF AcquireInv
<1>. QED
  BY <1>1, <1>2, <1>3, <1>4, <1>5, <1>6, <1>7, <1>8, <1>9, <1>10, <1>11, <1>12, RunnerEffect, HandlerEffect
  DEF Step, StartStep, EnvironmentStep

\* What finish and its callers do to the state of finish.
LEMMA FinishKept ==
    ASSUME LifecycleInv, Step
    PROVE  FinishInv'
<1>. TypeOK /\ StartInv /\ AcquireInv /\ FinishInv /\ HandoffInv
  BY DEF LifecycleInv
<1>1. CASE StartStep
  <2>1. UNCHANGED <<fin, handoff>>
    BY <1>1 DEF StartStep, BeginStart, StartRefused, Provision, Record, Publish, Dial, Adopt, Bind,
                Recheck, StartFailed, tasks
  <2>2. CASE fin.pc = "idle"
    BY <2>1, <2>2 DEF FinishInv
  <2>3. CASE fin.pc # "idle"
    <3>1. StartRefused \/ StartFailed
      BY <1>1, <2>3 DEF FinishInv, StartStep, BeginStart, Provision, Record, Publish, Dial, Adopt, Bind,
                        Recheck
    <3>2. /\ UNCHANGED world /\ start'.pc = "returned"
          /\ node'.stopping = node.stopping /\ node'.local = node.local
          /\ node'.recorded = node.recorded
      BY <3>1, Fields DEF StartRefused, StartFailed, StartReturns, NodeFields
    <3>. QED BY <2>1, <3>2 DEF FinishInv
  <2>. QED BY <2>2, <2>3
<1>2. ASSUME NEW t \in State, NEW b \in BOOLEAN, NEW e \in Error, BeginFinish(t, b, e),
             start.pc \in {"begin", "failing", "returned"},
             start.pc = "failing" => e # "none",
             t = "completed" => handoff.complete
      PROVE  FinishInv'
  BY <1>2, Fields DEF BeginFinish, tasks, FinishInv, NodeFields
<1>3. CASE FinishFailedStart \/ Finalize
  <2>1. start.pc \in {"begin", "failing", "returned"}
    BY <1>3, Fields DEF FinishFailedStart, Finalize, StartInv, StartActive, StartPC
  <2>2. CASE FinishFailedStart
    <3>1. "failed" \in State /\ start.err # "none" /\ start.err \in Error
      BY <2>2, Fields DEF FinishFailedStart, StartInv, State
    <3>. QED BY <1>2, <2>1, <2>2, <3>1 DEF FinishFailedStart
  <2>3. CASE Finalize
    <3>1. "stopped" \in State /\ "none" \in Error /\ start.pc # "failing"
      BY <2>3, Values DEF Finalize, StartInv, StartActive, State
    <3>. QED BY <1>2, <2>1, <2>3, <3>1 DEF Finalize
  <2>. QED BY <1>3, <2>2, <2>3
<1>4. CASE FinishWatched \/ WatchdogFires
  <2>1. start.pc = "returned" /\ {"none", "error"} \subseteq Error /\ {"completed", "failed"} \subseteq State
    BY <1>4, Values DEF FinishWatched, WatchdogFires, HandoffInv, State
  <2>. QED BY <1>2, <1>4, <2>1 DEF FinishWatched, WatchdogFires, HandoffInv
<1>5. CASE StopChildren \/ StopRPC \/ DrainEnds
  <2>1. CASE StopChildren
    BY <2>1, Fields, Values DEF StopChildren, tasks, FinishInv, Finishing
  <2>2. CASE StopRPC
    <3>1. \/ fin' = [fin EXCEPT !.pc = "draining"] /\ fin.local
          \/ fin' = [fin EXCEPT !.pc = "destroy"] /\ ~fin.local
      BY <2>2 DEF StopRPC
    <3>2. /\ world'.drained = world.drained /\ world'.listener = world.listener
          /\ UNCHANGED <<start, node, handoff>>
      BY <2>2, Fields DEF StopRPC, tasks, World
    <3>. QED BY <2>2, <3>1, <3>2, Fields DEF StopRPC, FinishInv, Finishing
  <2>3. CASE DrainEnds
    BY <2>3, Fields DEF DrainEnds, tasks, FinishInv, Finishing
  <2>. QED BY <1>5, <2>1, <2>2, <2>3
<1>6. CASE Destroy
  <2>1. /\ fin.pc = "destroy" /\ fin'.pc = "listener"
        /\ fin'.local = fin.local /\ fin'.resources = fin.resources /\ fin'.terminal = fin.terminal
        /\ fin.err # "none" => fin'.err # "none"
    <3>1. \/ fin' = [fin EXCEPT !.pc = "listener"]
          \/ fin' = [fin EXCEPT !.pc = "listener", !.err = Join(fin.err, "error")]
      BY <1>6 DEF Destroy
    <3>2. fin.err # "none" => Join(fin.err, "error") # "none"
      BY Fields, Values
    <3>. QED BY <1>6, <3>1, <3>2, Fields DEF Destroy, Finishing
  <2>2. fin.resources => world'.resources = "gone" \/ fin'.err # "none"
    BY <1>6, Fields, Values DEF Destroy, Finishing, World
  <2>3. /\ world'.drained = world.drained /\ UNCHANGED <<start, node, handoff>>
    BY <1>6, Fields DEF Destroy, tasks, World
  <2>. QED BY <2>1, <2>2, <2>3 DEF FinishInv
<1>7. CASE CloseListener
  BY <1>7, Fields, Values DEF CloseListener, Closed, tasks, FinishInv, Finishing, World
<1>8. CASE Settle
  BY <1>8, Fields DEF Settle, tasks, FinishInv, Finishing, NodeFields
<1>9. CASE PiExits \/ Drain \/ ServeFails \/ Bail
  BY <1>9, Fields DEF PiExits, Drain, ServeFails, Bail, Closed, tasks, AcquireInv, FinishInv, World
<1>10. CASE RequestStop /\ UNCHANGED <<start, world, fin, handoff>>
  BY <1>10, RequestStopEffect DEF FinishInv
<1>11. CASE UNCHANGED <<start, node, world, fin, handoff>>
  BY <1>11 DEF FinishInv
<1>12. ASSUME NEW h \in Handler, RequestHandoff(h) \/ HandlerStep(h)
       PROVE  FinishInv'
  <2>1. \/ handoff' = handoff
        \/ handoff' = [handoff EXCEPT !.locked = TRUE]
        \/ handoff' = [handoff EXCEPT !.locked = FALSE]
        \/ handoff' = [locked |-> FALSE, complete |-> TRUE]
    BY <1>12, Zenon
    DEF RequestHandoff, HandlerStep, VerifyHandoff, ReportHandoff, HandoffAnswered, Respond
  <2>2. handoff.complete => handoff'.complete
    BY <2>1, Fields DEF Handoff
  <2>. QED BY <1>12, <2>2, HandlerEffect DEF FinishInv
<1>13. Delete => RequestStop /\ UNCHANGED <<start, world, fin, handoff>>
  BY DEF Delete
<1>14. Watch \/ ContextEnds \/ ParentCloses \/ ParentAnswers => UNCHANGED <<start, node, world, fin, handoff>>
  BY DEF Watch, ContextEnds, ParentCloses, ParentAnswers, tasks
<1>15. CASE ChildStep
  BY <1>15, ChildEffect DEF FinishInv
<1>. QED
  BY <1>1, <1>3, <1>4, <1>5, <1>6, <1>7, <1>8, <1>9, <1>10, <1>11, <1>12, <1>13, <1>14, <1>15, RunnerEffect
  DEF Step, FinishStep, EnvironmentStep

\* The handlers, the watcher and the watchdog.
LEMMA HandoffKept ==
    ASSUME LifecycleInv, Step
    PROVE  HandoffInv'
<1>. TypeOK /\ HandoffInv
  BY DEF LifecycleInv
<1>1. CASE StartStep
  <2>1. UNCHANGED <<handler, handoff, report>>
    BY <1>1 DEF StartStep, BeginStart, StartRefused, Provision, Record, Publish, Dial, Adopt, Bind,
                Recheck, StartFailed, tasks
  <2>2. start.pc # "returned"
    BY <1>1 DEF StartStep, BeginStart, StartRefused, Provision, Record, Publish, Dial, Adopt, Bind,
                Recheck, StartFailed
  <2>3. \/ UNCHANGED helper
        \/ /\ start'.pc = "returned" /\ helper'.watchdog = helper.watchdog
           /\ helper'.watcher \in {helper.watcher, "watching"}
    BY <1>1, Fields
    DEF StartStep, BeginStart, StartRefused, Provision, Record, Publish, Dial, Adopt, Bind,
        Recheck, StartReturns, StartFailed, Helpers, tasks
  <2>. QED BY <2>1, <2>2, <2>3 DEF HandoffInv
<1>2. CASE FinishStep \/ WatchdogFires
  BY <1>2, FinishEffect DEF HandoffInv
<1>3. CASE Watch
  BY <1>3, Fields DEF Watch, HandoffInv, Helpers
<1>4. CASE RunnerStep \/ Delete
  <2>1. /\ UNCHANGED <<start, handler, handoff>> /\ report'.ack = report.ack
        /\ helper'.watcher = helper.watcher /\ helper'.watchdog = helper.watchdog
    BY <1>4, RunnerEffect, RequestStopEffect DEF Delete
  <2>. QED BY <2>1 DEF HandoffInv
<1>5. CASE PiExits \/ ServeFails \/ ContextEnds \/ ParentCloses \/ ParentAnswers \/ Drain
  <2>1. report.ack = "acked" => report'.ack = "acked"
    BY <1>5 DEF PiExits, ServeFails, ContextEnds, ParentCloses, ParentAnswers, Drain, tasks
  <2>. QED BY <1>5, <2>1, OutsideEffect DEF HandoffInv
<1>6. ASSUME NEW h \in Handler, RequestHandoff(h) \/ HandlerStep(h)
      PROVE  HandoffInv'
  <2>1. start.pc = "returned" /\ UNCHANGED start
    <3>1. run.pc # "starting" => start.pc = "returned"
      BY DEF LifecycleInv, RunInv
    <3>. QED
      BY <1>6, <3>1
      DEF RequestHandoff, HandlerStep, VerifyHandoff, ReportHandoff, HandoffAnswered, Respond, HandoffInv
  <2>2. report'.ack = report.ack
    BY <1>6, Fields
    DEF RequestHandoff, HandlerStep, VerifyHandoff, ReportHandoff, HandoffAnswered, Respond,
        SendTerminal, Reporting
  <2>3. CASE RequestHandoff(h) \/ VerifyHandoff(h) \/ ReportHandoff(h)
    <3>1. handoff'.complete = handoff.complete /\ UNCHANGED helper
      BY <2>3, Fields DEF RequestHandoff, VerifyHandoff, ReportHandoff, Handoff
    <3>2. PICK p \in {"verifying", "sending", "refused", "awaiting"} :
             handler' = [handler EXCEPT ![h] = p]
      BY <2>3 DEF RequestHandoff, VerifyHandoff, ReportHandoff
    <3>. QED BY <2>1, <2>2, <3>1, <3>2, Fields DEF HandoffInv
  <2>4. CASE HandoffAnswered(h)
    BY <2>1, <2>2, <2>4, Fields DEF HandoffAnswered, HandoffInv, Handoff
  <2>5. CASE Respond(h)
    BY <2>1, <2>2, <2>5, Fields DEF Respond, HandoffInv, Helpers
  <2>. QED BY <1>6, <2>3, <2>4, <2>5 DEF HandlerStep
<1>7. CASE ChildStep
  BY <1>7, ChildEffect DEF HandoffInv
<1>. QED BY <1>1, <1>2, <1>3, <1>4, <1>5, <1>6, <1>7 DEF Step, EnvironmentStep

\* Only sendTerminal writes a record, and only once.
LEMMA ReportKept ==
    ASSUME LifecycleInv, Step
    PROVE  ReportInv'
<1>. TypeOK /\ ReportInv
  BY DEF LifecycleInv
<1>1. ASSUME NEW w \in BOOLEAN, SendTerminal(w)
      PROVE  ReportInv'
  BY <1>1, Fields DEF SendTerminal, ReportInv, Reporting
<1>2. CASE report'.sent = report.sent /\ report'.written = report.written
  BY <1>2 DEF ReportInv
<1>3. CASE StartStep \/ FinishStep \/ WatchdogFires \/ Watch
  BY <1>2, <1>3, FinishEffect
  DEF StartStep, BeginStart, StartRefused, Provision, Record, Publish, Dial, Adopt, Bind,
      Recheck, StartFailed, Watch, tasks
<1>4. CASE ParentAnswers \/ EnvironmentStep \/ Drain
  BY <1>2, <1>4, Fields, ChildEffect
  DEF ParentAnswers, EnvironmentStep, PiExits, ServeFails, ContextEnds, ParentCloses, Delete, Drain,
      tasks, Reporting
<1>5. CASE ReaderReports \/ ReportFailure
  BY <1>1, <1>5 DEF ReaderReports, ReportFailure
<1>6. CASE RunnerStep /\ ~ReaderReports /\ ~ReportFailure
  BY <1>2, <1>6
  DEF RunnerStep, RunnerStarted, Bail, RootStops, WriterStops, ReaderStops, ReaderAnswered,
      StopReturns, Exit, tasks
<1>7. ASSUME NEW h \in Handler, RequestHandoff(h) \/ HandlerStep(h)
      PROVE  ReportInv'
  BY <1>1, <1>2, <1>7
  DEF RequestHandoff, HandlerStep, VerifyHandoff, ReportHandoff, HandoffAnswered, Respond
<1>. QED BY <1>3, <1>4, <1>5, <1>6, <1>7 DEF Step

\* The runner, and what finish has come to when the runner is over.
LEMMA RunKept ==
    ASSUME LifecycleInv, Step
    PROVE  RunInv'
<1>. TypeOK /\ StartInv /\ FinishInv /\ RunInv
  BY DEF LifecycleInv
<1>1. CASE StartStep
  <2>1. start.pc # "returned"
    BY <1>1 DEF StartStep, BeginStart, StartRefused, Provision, Record, Publish, Dial, Adopt, Bind,
                Recheck, StartFailed
  <2>2. run.pc = "starting" /\ UNCHANGED <<run, fin>>
    BY <1>1, <2>1
    DEF RunInv, StartStep, BeginStart, StartRefused, Provision, Record, Publish, Dial, Adopt, Bind,
        Recheck, StartFailed, tasks
  <2>3. world'.listener = world.listener
    BY <1>1, Fields
    DEF StartStep, BeginStart, StartRefused, Provision, Record, Publish, Dial, Adopt, Bind,
        Recheck, StartFailed, tasks, World
  <2>. QED BY <2>2, <2>3 DEF RunInv
<1>2. CASE FinishStep \/ WatchdogFires
  <2>1. UNCHANGED <<start, run>> /\ fin.pc # "done"
    BY <1>2, FinishEffect
    DEF FinishStep, FinishFailedStart, Finalize, FinishWatched, WatchdogFires, BeginFinish,
        StopChildren, StopRPC, DrainEnds, Destroy, CloseListener, Settle
  <2>2. \/ world'.listener = world.listener /\ (fin.pc = "settle" => fin'.pc = "done")
        \/ fin'.pc = "settle" /\ world'.listener # "serving"
    <3>1. CASE CloseListener
      BY <3>1, Fields DEF CloseListener, Closed, Finishing, World
    <3>2. CASE Settle
      BY <3>2, Fields DEF Settle, Finishing
    <3>3. CASE Destroy \/ StopRPC
      BY <3>3, Fields DEF Destroy, StopRPC, World
    <3>4. CASE FinishFailedStart \/ Finalize \/ FinishWatched \/ WatchdogFires \/ StopChildren \/ DrainEnds
      BY <3>4
      DEF FinishFailedStart, Finalize, FinishWatched, WatchdogFires, BeginFinish, StopChildren, DrainEnds
    <3>. QED BY <1>2, <3>1, <3>2, <3>3, <3>4 DEF FinishStep
  <2>. QED BY <2>1, <2>2 DEF RunInv
<1>3. CASE PiExits \/ ServeFails \/ ContextEnds \/ ParentCloses \/ ParentAnswers \/ Drain
  <2>1. world'.listener = world.listener \/ world'.listener = "failed"
    BY <1>3, Fields
    DEF PiExits, ServeFails, ContextEnds, ParentCloses, ParentAnswers, Drain, World
  <2>. QED BY <1>3, <2>1, OutsideEffect DEF RunInv
<1>4. CASE UNCHANGED <<start, world, fin, run>>
  BY <1>4 DEF RunInv
<1>5. CASE RunnerStep
  <2>1. UNCHANGED <<start, fin>>
    BY <1>5, RunnerEffect
  <2>2. ASSUME NEW e \in Error, RunnerStops(e), UNCHANGED world,
               start.pc = "returned", start.err = "none"
        PROVE  RunInv'
    <3>1. run'.pc = "stopping" /\ run'.kind = run.kind /\ run'.status = run.status
      BY <2>2, Fields DEF RunnerStops, Runner
    <3>2. run.pc # "exited"
      BY <1>5, Fields
      DEF RunnerStep, RunnerStarted, Bail, RootStops, WriterStops, ReaderReports, ReaderStops,
          ReaderAnswered, StopReturns, ReportFailure, Exit
    <3>. QED BY <2>1, <2>2, <3>1, <3>2 DEF RunInv
  <2>3. run.pc \in {"serving", "reporting"} => start.pc = "returned" /\ start.err = "none"
    BY DEF RunInv
  <2>4. {"none", "error", "cancelled"} \subseteq Error /\ fin.err \in Error
    BY Fields, Values
  <2>5. CASE RunnerStarted
    <3>1. CASE start.err = "none" /\ RunnerStops("error")
      BY <2>2, <2>4, <2>5, <3>1 DEF RunnerStarted, runnerStops
    <3>2. CASE start.err = "none" /\ ~RunnerStops("error")
      BY <2>1, <2>5, <3>2, Fields DEF RunnerStarted, runnerStops, RunInv, Runner
    <3>3. CASE start.err # "none"
      BY <2>1, <2>5, <3>3, Fields DEF RunnerStarted, runnerStops, RunInv, Runner
    <3>. QED BY <3>1, <3>2, <3>3
  <2>6. CASE Bail
    <3>1. run.kind = "root" => world'.listener = world.listener
      BY <2>6, Fields DEF Bail, Closed, World
    <3>2. /\ run.pc = "bailing" /\ run'.pc = "returned"
          /\ run'.kind = run.kind /\ run'.err = run.err /\ run'.status = run.status
          /\ run.kind = "root" => world.listener # "serving"
      BY <2>6, Fields DEF Bail, Runner
    <3>. QED BY <2>1, <3>1, <3>2 DEF RunInv
  <2>7. CASE RootStops \/ WriterStops \/ ReaderStops \/ ReaderAnswered
    BY <2>2, <2>3, <2>4, <2>7 DEF RootStops, WriterStops, ReaderStops, ReaderAnswered, runnerStops
  <2>8. CASE ReaderReports
    <3>1. CASE RunnerStops("error")
      BY <2>2, <2>3, <2>4, <2>8, <3>1 DEF ReaderReports, runnerStops
    <3>2. CASE ~RunnerStops("error")
      <4>1. PICK e \in {"none", "error"} : run' = [run EXCEPT !.pc = "reporting", !.err = e]
        BY <2>8, <3>2 DEF ReaderReports
      <4>. QED BY <2>1, <2>3, <2>8, <4>1, Fields DEF ReaderReports, runnerStops, RunInv, Runner
    <3>. QED BY <3>1, <3>2
  <2>9. CASE StopReturns
    <3>1. PICK e \in Error :
             /\ run.pc = "stopping" /\ UNCHANGED world
             /\ run' = [run EXCEPT !.pc = "returned", !.err = Join(run.err, e)]
             /\ e = "none" => fin.pc = "done" /\ fin.err = "none"
      BY <2>4, <2>9 DEF StopReturns, tasks
    <3>2. /\ run'.pc = "returned" /\ run'.kind = run.kind /\ run'.status = run.status
          /\ run'.err = "none" <=> run.err = "none" /\ e = "none"
      BY <3>1, Fields, Values DEF Runner
    <3>. QED BY <2>1, <3>1, <3>2 DEF RunInv
  <2>10. CASE ReportFailure
    BY <2>1, <2>10, Fields DEF ReportFailure, MustReport, RunInv, Runner
  <2>11. CASE Exit
    BY <2>1, <2>11, Fields DEF Exit, RunnerStatus, tasks, RunInv, Runner
  <2>. QED BY <1>5, <2>5, <2>6, <2>7, <2>8, <2>9, <2>10, <2>11 DEF RunnerStep
<1>6. Delete \/ Watch => UNCHANGED <<start, world, fin, run>>
  BY DEF Delete, Watch
<1>7. \A h \in Handler : RequestHandoff(h) \/ HandlerStep(h) => UNCHANGED <<start, world, fin, run>>
  BY HandlerEffect
<1>8. CASE ChildStep
  BY <1>8, ChildEffect DEF RunInv
<1>. QED BY <1>1, <1>2, <1>3, <1>4, <1>5, <1>6, <1>7, <1>8 DEF Step, EnvironmentStep
-----------------------------------------------------------------------------
(* The theorems *)

\* The initial states, of a root and of each kind of child, satisfy the invariant.
LEMMA InitInvariant == Init => LifecycleInv
<1>. SUFFICES ASSUME Init PROVE LifecycleInv
  OBVIOUS
<1>1. TypeOK
  BY InitType
<1>2. StartInv /\ AcquireInv /\ FinishInv
  BY DEF Init, StartInv, StartActive, AcquireInv, FinishInv
<1>3. HandoffInv /\ ReportInv
  BY DEF Init, HandoffInv, ReportInv
<1>4. RunInv
  <2>1. PICK k \in SessionKind :
           run = [kind |-> k, pc |-> "starting", err |-> "none", status |-> "running"]
    BY DEF Init
  <2>. QED BY <2>1 DEF Init, RunInv
<1>. QED BY <1>1, <1>2, <1>3, <1>4 DEF LifecycleInv

\* Every step of every goroutine, of Pi, of the parent and of the context preserves
\* the invariant.
LEMMA StepInvariant == LifecycleInv /\ [Next]_vars => LifecycleInv'
<1>. SUFFICES ASSUME LifecycleInv, [Next]_vars PROVE LifecycleInv'
  OBVIOUS
<1>1. CASE Step
  <2>1. TypeOK'
    BY <1>1, TypeKept DEF LifecycleInv
  <2>. QED
    BY <1>1, <2>1, StartKept, AcquireKept, FinishKept, HandoffKept, ReportKept, RunKept DEF LifecycleInv
<1>2. CASE UNCHANGED vars
  BY <1>2 DEF vars, tasks, LifecycleInv, TypeOK, StartInv, AcquireInv, FinishInv, HandoffInv, ReportInv, RunInv
<1>. QED BY <1>1, <1>2 DEF Next

\* The startup, the teardown, the handoff, its report and the exit of a supervisor
\* agree in every reachable state.
THEOREM LifecycleInvariant == Spec => []LifecycleInv
<1>. QED BY InitInvariant, StepInvariant, PTL DEF Spec

\* The variables of node.go, result.go and the runner keep their types.
THEOREM TypeCorrect == Spec => []TypeOK
<1>1. LifecycleInv => TypeOK
  BY DEF LifecycleInv
<1>. QED BY <1>1, LifecycleInvariant, PTL

\* When finish is over, at whatever point of the startup the stop arrived, nothing
\* the startup acquired is left behind unnoticed.
THEOREM Released == Spec => []ReleasedWhenDone
<1>1. LifecycleInv => ReleasedWhenDone
  <2>. SUFFICES ASSUME LifecycleInv, fin.pc = "done" PROVE ReleasedWhenDone
    BY DEF ReleasedWhenDone
  <2>. TypeOK /\ StartInv /\ AcquireInv /\ FinishInv
    BY DEF LifecycleInv
  <2>1. start.pc \in {"begin", "failing", "returned"} /\ fin.local = node.local /\ fin.resources = node.recorded
    BY DEF FinishInv
  <2>2. node.local => world.drained
    BY <2>1 DEF FinishInv
  <2>3. world.conn # "open"
    BY <2>1, <2>2 DEF AcquireInv
  <2>4. world.resources = "live" => fin.err # "none" \/ start.err # "none"
    BY <2>1 DEF AcquireInv, FinishInv
  <2>. QED BY <2>1, <2>2, <2>3, <2>4 DEF ReleasedWhenDone
<1>. QED BY <1>1, LifecycleInvariant, PTL

\* The exit status of a supervisor does not hide resources that a teardown left,
\* but for the cancellation that a child takes for success.
THEOREM ExitIsTrue == Spec => []ExitStatusTellsTruth
<1>1. LifecycleInv => ExitStatusTellsTruth
  <2>. SUFFICES ASSUME LifecycleInv, run.status = "success", world.resources = "live",
                       ~(run.kind # "root" /\ run.err = "cancelled")
                PROVE  FALSE
    BY DEF ExitStatusTellsTruth
  <2>1. run.pc = "exited" /\ run.err = "none"
    BY DEF LifecycleInv, RunInv
  <2>2. fin.pc = "done" /\ fin.err = "none" /\ start.pc = "returned" /\ start.err = "none"
    BY <2>1 DEF LifecycleInv, RunInv
  <2>3. node.recorded
    BY <2>2 DEF LifecycleInv, AcquireInv
  <2>. QED BY <2>2, <2>3 DEF LifecycleInv, FinishInv
<1>. QED BY <1>1, LifecycleInvariant, PTL

\* A root whose startup did not succeed outlives its teardown, unless its listener
\* failed.
THEOREM RootOutlivesTeardown == Spec => []TeardownBeforeExit
<1>1. LifecycleInv => TeardownBeforeExit
  <2>. SUFFICES ASSUME LifecycleInv, run.kind = "root", run.pc = "exited", start.err # "none",
                       world.listener # "failed"
                PROVE  fin.pc \in {"settle", "done"}
    BY DEF TeardownBeforeExit
  <2>1. world.listener # "serving" /\ world \in World
    BY Fields DEF LifecycleInv, RunInv
  <2>. QED BY <2>1 DEF LifecycleInv, RunInv, World
<1>. QED BY <1>1, LifecycleInvariant, PTL

\* Whoever ends the session, and whichever handler, watcher or watchdog says so, a
\* completed session has been handed off and acknowledged.
THEOREM CompletedIsHandedOff == Spec => []CompletedMeansHandedOff
<1>1. LifecycleInv => CompletedMeansHandedOff
  BY DEF LifecycleInv, FinishInv, HandoffInv, CompletedMeansHandedOff
<1>. QED BY <1>1, LifecycleInvariant, PTL

\* However many handoffs are requested, the process writes one terminal report.
THEOREM ReportsOnce == Spec => []AtMostOneReport
<1>1. LifecycleInv => AtMostOneReport
  BY DEF LifecycleInv, ReportInv, AtMostOneReport
<1>. QED BY <1>1, LifecycleInvariant, PTL
=============================================================================
