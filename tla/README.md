# A formal model of kanedias

kanedias runs coding-agent sessions, each in its own Incus container. A session
is owned by one *supervisor* process; a session may delegate a task to a child
session, whose supervisor is a child process of its own, and so on
recursively. A *manager* discovers the root supervisors of a host and projects
their trees to a web server.

This directory holds TLA+ models of that system, the TLC configurations that
check them and proofs for the TLA+ proof system. The code under `src/` is the
reference; `PROJECT.json` maps every definition of a model to the lines it
stands for.

## 1. Inventory

### Parts, their state and how they interact

| part (package) | state it keeps | operations | talks to |
|---|---|---|---|
| child supervision (`supervisor/children.go`, `node.go`, `process/spawn.go`) | the registry of direct children; per child the entry (disposition, process handle, client, ticket, forwarder) and one cleanup | CreateChild, Router.Stop of a child, stopChildren | the child process over three pipes and its Unix socket; provisioning for recovery |
| child protocol (`process/protocol.go`, `liveness.go`, `cmd/session_runtime.go`) | what was reported, whether the terminal report was sent | publish ownership, readiness and one terminal report; wait for the acknowledgement; stop at the EOF of the liveness pipe | the parent |
| node lifecycle (`node.go`, `stop.go`, `lifecycle.go`) | state, stopRequested, started, resources, local session, finish once | Start, Stop, watchRPC, handoff watchdog, finish | provisioner, Pi client, children, listener |
| local session (`local.go`, `questions.go`) | binding, model, lifecycle, sequence numbers of the last response and activity; pending questions | bind, CallRPC, handleEvent, StopRPC, Answer | Pi client, broker |
| results (`result.go`) | the handoff record | RunReadTask, Handoff, AcknowledgeHandoff | local session, broker, reporter |
| Pi client (`pirpc`) | pending calls, write gate, closed | CallWithSequence, Send, Close, readLoop | Pi over a stream, the mailbox |
| mailbox and broker (`eventmailbox`, `events.go`) | bounded queue; sequence numbers, retained events, subscribers | Send, Close, Abort; PublishLocal, Forward, Subscribe, Close | the event streams of the HTTP API |
| routing (`router.go`) | none | find the next hop, forward, stop a direct child | child clients |
| provisioning (`provision`) | the Incus instance and volume it has created so far, and how sure it is of each | ProvisionRoot, ProvisionChild, Destroy, RecoverDirectChild | Incus, through `incusclient` and its operations |
| HTTP API (`supervisorapi`) | the listener and its connections | the `/v1` routes, the SSE stream, DELETE | node, broker |
| manager: fleet (`manager/discovery.go`, `monitor.go`, `spawn.go`, `manager.go`) | roots by socket, routes by session, one handle a root with its client and two loops, names | discover, commit, monitor, spawn, stop, rename, quiesce, close | root supervisors through their sockets |
| manager: projection (`manager/monitor.go`, `mirror.go`, `notify.go`) | the mirror of each root's events, the subscribers of changes | subscribe, accept, publish, close | event streams, the pages of the web server |
| web server (`server`) | the page a browser has open, the phase of its shutdown | stream a session or the fleet, actions, shutdown | manager |
| credentials (`proxy/oauth.go`) | the credential file, its lock directories, one mutex a source | Token, refresh, Login, heartbeat | the OAuth endpoints, other processes through the file system |
| image, configuration, commands, the credential-injecting proxy | nothing that changes later | builds, parsing, forwarding | Incus, providers |

### What is hard

* **Concurrency.** One child is touched by four activities at once: the HTTP
  goroutine in CreateChild, the one cleanup, the event forwarder and the child
  process; a user who stops the child and a node that stops itself join in.
* **Failure.** A child may crash, hang, refuse SIGTERM or lose its socket;
  deleting Incus resources may fail; contexts may end between any two steps.
  An Incus operation that was accepted goes on when nobody waits for it.
* **Ordering.** A terminal report, its acknowledgement, the end of the event
  stream and the teardown of the child must not overtake one another; responses
  of Pi do overtake the events written before them.
* **Staleness.** The manager looks at sockets, snapshots and directories without
  its lock and acts on what it saw; a lock on a credential is judged by the age
  of its directory and removed by its path.
* **Timeouts.** Stop, SIGTERM and SIGKILL escalate on timers that race the exit
  they wait for.

### What makes each part correct

* Child supervision: nothing is answered, acknowledged or recovered too early;
  every cleanup that has a deadline ends; a node that has finished has no child;
  a cancellation and a report agree on who won.
* Node lifecycle: every resource that was created is destroyed, once, whatever
  stops the node; an accepted handoff ends as completed.
* Local session: the lifecycle follows the order of the records on the
  transport, not the order in which goroutines see them; users are offered
  exactly the questions Pi waits for; a stop or a lost transport is final.
* Mailbox and broker: no subscriber misses an event without being told; a slow
  one never blocks the others, and catches up.
* Pi client: each call gets its own response or an error, exactly once.
* Provisioning: what a failed provision leaves is reported; an instance never
  runs under the identity of its source; a recovery without an error has left nothing.
* Manager: a session is reached through one live handle; a client outlives the
  loops that use it; a cancelled handle does not return; a failed spawn leaves
  neither process nor handle; Close ends.
* Web server: an open page shows what the manager has; a shutdown ends every page.
* Credentials: a refresh token is spent once; no update is lost; a lock that a
  crash leaves is taken over.

The list of hazards, each at its line with the properties that watch it, is in
`PROJECT.json`.

## 2. Plan and state of it

| # | module | what it covers | abstract specification | proofs |
|---|---|---|---|---|
| 1 | `ChildSupervision` | a node and its direct children | `Delegation` | type, safety, refinement |
| 2 | `NodeLifecycle` | one supervisor process: startup, stop, handoff, teardown, exit | | type, safety |
| 3 | `PiSession` | RPC client, mailbox, session lifecycle, questions, StopRPC | | type, safety |
| 4 | `RootManager` | discovery, admission, eviction, monitoring, concurrent spawns and their cleanup, rename, quiesce, close | | type, safety |
| 5 | `Provisioning` | ProvisionRoot, ProvisionChild, their cleanup, Destroy, RecoverDirectChild, over Incus operations | | type, safety |
| 6 | `EventStream`, `LiveView` | broker, event stream, manager's mirror; change fan-out, page, shutdown | | type, safety |
| 7 | `Credentials` | refresh and login under a directory lock | | type, safety |
| 8 | `ReadTask` (open) | the generation boundary of RunReadTask, the RPC gate and QuiesceRPC | a result is the last text of the task's own generation | |

`LiveView` EXTENDS `EventStream` and adds the page: the two share the mirror of
the manager. `ChildSupervision` sees of `Provisioning` whether resources exist
and that a recovery may fail; `NodeLifecycle` sees of it that it ends.
`RootManager` sees of `NodeLifecycle` that a root starts, becomes ready, ends and
exits, and runs the event loop of a handle as "until cancelled", which is what
`EventStream` checks of it (`Released`).

## 3. The models

Modelling conventions: every context that may end, timer that may fire and
operation that may fail is an alternative that is always available, so no
variable counts time; fairness says what must happen in the end. Contents of
messages, names and paths are left out, and so is logging. A definition marked
*Mutant* states a plausible bug; it is not part of any specification and shows
only that a property can fail.

### ChildSupervision

One node and its direct children. Every child has four activities that share
its `childEntry`, and each is a program counter:

| variable | code |
|---|---|
| `call[c]` | the HTTP goroutine in `Node.CreateChild`: admission, `Spawn`, `WaitReady` with `probeTree`, `Snapshot`, `NextMessage`, the claim, the acknowledgement, the final cleanup |
| `entry[c]` | `childEntry`: disposition, process handle, recovery ticket, client, forwarder, and the errors of its stream |
| `clean[c]` | the body of `cleanupChildMode`, once an entry: waiting for the spawn, stop, SIGTERM, SIGKILL, drain of the forwarder, recovery, release |
| `pipe[c]` | the report, acknowledgement and liveness pipes |
| `proc[c]` | the child process, which may crash or hang, and whether its Incus resources exist |
| `finish`, `stopSet`, `registered` | `Node.finish`, the entries `stopChildren` took, `childRegistry` |

`CallStep`, `CleanupStep`, `ForwarderStep`, `ProcessStep` and `NodeStep` are the
actions of these activities; `RequestCancelled` is the caller that goes away,
`CancelForUser` a user who stops the child through a DELETE and `Router.Stop`,
`CancelForFinish` one goroutine of `stopChildren`.

Whoever begins the one cleanup lends it a context (`clean[c].bounded`). That of
CreateChild and of `finish` has a deadline. That of a DELETE is
`context.WithoutCancel(request.Context())` (`supervisorapi/handler.go:136`) and has
none, so `<-ctx.Done()` (`children.go:394`) never fires, a child that hangs gets
neither SIGTERM nor SIGKILL, and every later caller waits in `cleanupOnce.Do`.
`StopDeadline` needs a bounded cleanup, and `Held` is a child in that state.

`Delegation` is what the node promises about its children: admission once and
only while open, one outcome a call, no outcome but an abort while the child is
live, no live child in a finished node; a child may be held (`Hold`) and is then
settled only after its own end (`Yield`). `ChildSupervision` implements it through
the mapping `Promise`.

A forwarder that cannot subscribe ends without an error (`children.go:276-279`),
with nothing forwarded: `forwarder = "unsubscribed"`. The code passes that over, and
`ResultFollowsEvents` says so.

Two steps of the code are merged: setting the client of an entry and starting
its forwarder, and finding the entry and claiming it in `cancelChildExternal`.
Between them nothing else reads the two values.

### NodeLifecycle

One supervisor process. `start` is the goroutine in `Node.Start`, `node` the
fields it shares with a stop, `world` what exists outside the process (Incus
resources, Pi connection, listener), `fin` the body of `finish` with what it
captured, `helper` the finalizer, the watcher of Pi and the watchdog, `handler`
and `handoff` the handoff requests and their lock, `report` the reporter, `run`
the main goroutine of a root, a reader or a writer and the exit status, `ctx`
the end of the process context.

Abstractions: `Adopt` is the check for a stop, NewLocalSession and the
assignment, which happen under one lock; a handoff is requested only while the
writer's task runs; closing the broker is part of closing the listener; the
children phase of `finish` is one step here and the whole of `ChildSupervision`
there. `world.child` is one direct child, as far as that phase has to do with it: a
DELETE of the child may begin its cleanup (`DeleteChild`), and then `StopChildren`
waits until the child has ended by itself (`ChildHolds`). A DELETE of the node may
arrive at any time, as may one that was delayed.

### PiSession

The conversation of one session with Pi. Pi writes one numbered stream of
records; the read loop hands a response to the call that waits for it and every
other record to a bounded mailbox, so a response overtakes the events before
it. `call` holds the goroutine of every call and its result channel, `client`
and `pending` the RPC client, `box` the mailbox, `drain` drainEvents, `session`
the lifecycle and the positions it has reconciled, `store`, `terminated` and
`answer` the questions, `stop` StopRPC. `pi`, `asked` and `inbox` are Pi
(external): whether a generation runs, which dialogs it waits for, which
commands it has yet to answer.

Abstractions:

* A record is read in the step in which Pi writes it, for a record under way is
  one not written yet; one still in the reader's buffer when the client closes
  is taken to have been read before. A record is written in one step, so the
  write gate needs no state.
* Taking an event from the mailbox, publishing it and the question half of
  handleEvent are one step of the drain, reconciling the lifecycle is another.
* A command Pi refuses is a call that was cancelled. A prompt that Pi accepts
  without a generation (a command of an extension) is not modelled.
* Pi closes all dialogs when a turn or a generation ends or is aborted, as the
  code assumes; a turn that ends before a dialog was opened changes nothing and
  is left out; dialogs never reuse an identifier.
* The mailbox is limited by its number of events, not by bytes. bind's
  comparison with the expected model and identity is not modelled.

### RootManager

The fleet of a manager. `fleet` is what `m.mu` guards: `roots`, `routes` and the
record of every handle (its client, its tree, its name, whether it is monitored
or cancelled); `disc` is the discovery loop with the locals of one pass
(`discoverOnce`, `probeRoot`), `spawn[g]` the goroutine of SpawnRootWithRequest that
launches `g` and that of its cleanupFailedSpawn, `loop[h]` the snapshot loop of a
handle, `stopping` the evicted handles that calls of StopSession are draining, `mgr`
the shutdown. `disk`, `life`
and `kids` are the world: the sockets, and the process and child sessions of
each *generation*, which is one supervisor process with the inode it bound.

An action holds the lock once. In particular a commit
(`commitTreeWithAdmission`) and the start of the loops (`monitorRoot`) are two
actions, the listing of the directory and the copy of the fleet are two, and a
snapshot is taken in one action and committed in a later one.

Abstractions: a snapshot is the generation that answered, the class of its
lifecycle (not ready, live, ending) and its child sessions; an invalid one is
one that failed. A client dials by path, so one of an old generation is answered
by the next. Marking a handle stale is left out: only its own snapshot loop does it,
after a tick that fails, as any may; StopSession may therefore find stale any root
whose loop has been started, and no other (`Unreachable`). The event loop of a handle runs until it is cancelled. Handles
are a pool whose garbage is used again (`Collect` is the only action that is no
code). The name of a launch is one value. Launches run at once, for nothing in
`SpawnRootWithRequest` excludes another; each has its own generation and socket. A
session ID is an input: `RootOf` may give two generations the same one, which is what
the duplicate check of a commit is there for.

The manager process itself does not crash here. The goroutine that cleans up a
failed spawn is not tracked (`spawn.go:538-544`): one under way when the process
exits dies with it, and `FailedSpawnDies` is about a manager that runs.

### Provisioning

The resources of one session in Incus. `prov` is the provisioner: the position
in the plan (`RootPlan`, `ChildPlan`: the steps that Incus sees, in the order of
the code), what it owns, what it is unsure of, and the errors it joins; `server`
is Incus: whose configuration the instance carries (`none`, `source`, `own`), the
same for the volume, whether the instance runs and the one operation under way; `parent` is
RecoverDirectChild in the parent of a child.

A request may be refused, accepted and waited for, accepted and no longer waited
for (the context ended), or accepted with a lost reply. An accepted operation
ends when the server pleases, before or after the provisioner has gone on.
Incus itself is external: what deleting a running instance or a volume in use
does is modelled from how the code treats the errors.

A start that collides with a MAC address is retried once. When the retry fails its
error joins that of the first start, and the cleanup finds the operation of the first
in it (`Failing`, `Submitted`); when it succeeds, a later failure carries no operation
and the cleanup has nothing to await.

### EventStream and LiveView

`broker` is an EventBroker with the delivery `publishMu` covers, `stream[s]` one
connection to `GET /v1/events` (the handler with its replay and mailbox, and
the client's mailbox at the other end), `mgr` the event loop of a handle and its
mirror. An event is its sequence number; the retained events are an interval,
so the ring is its lower end. `mgr.missing` is history: what the mirror skipped.
`LiveView` adds `page` (the handler that streams a session and its entry in
the fan-out), `web` (the phases of `runWithManager`) and `routed`.

Abstractions: the connection itself buffers nothing, for its buffer only delays
what the two mailboxes already delay; both limits of a mailbox, events and bytes, are one
capacity, and one event may evict several; a malformed event is a stream that
ends; the eviction of mirrors, the deadline of Close and the fleet page, which
works as a session page does, are left out. A replay fits the
mailbox of the client (`StreamAssumption`), as it does by default: see section 7.

### Credentials

The credential file of a provider and the processes that share it: `file` is the
number of the credential saved, `endpoint` what the provider has issued and which
refresh tokens it accepts, `dir` the lock directories with their inode and
whether they are stale, `proc[p]` the goroutine that runs Token or Login in each
process, `faults` what has failed so far. What the code does in two steps is two
actions: `Mkdir` and `Stat`, the look at a directory and its removal in `Steal` as in
`Release`, the check of the locks and the write of the file. So a process may record
as its lock a directory that another has made at the path since (`Stat`), or find
nothing there and remove what comes next (`Unmake`). A new directory may take any
inode that somebody still remembers, or a fresh one (`Mkdir`), since file systems use
inodes again and `os.SameFile` then matches (`oauth_test.go:238-246`). A save may fail
after the refresh token was spent (`WriteFails`), and so may a touch by the heartbeat
(`BeatFails`), whose error sticks. `dir[i].by`, `endpoint.dropped` and `faults.robbed`
are history: who made a directory, which refresh tokens were lost, and whose checks
were of a lock that was not theirs or was gone when they wrote.

Abstractions: the heartbeat's look at a directory and its touch are one step;
Claude's and Codex's source are one process that may do what either does. A pause is
a process stopped for longer than a lock takes to go stale.

## 4. The runs

| run | instance | distinct states | what it shows |
|---|---|---|---|
| `child_all` | 1 child | 136 692 | no early answer or recovery; results follow events; every cleanup ends but one of a hung child that a DELETE began, every call returns after its cleanup; `Delegation` is implemented, its fairness included, by a child that is not held for ever |
| `node` | 3 kinds, 1 handoff request, 1 direct child | 257 641 | teardown releases what startup got, the exit status tells the truth, a root outlives its teardown; every stop, Pi exit and answered handoff ends the process unless it waits for a hung child a user has deleted |
| `pi_safety` | bind, 2 calls, 3 kinds | 1 590 190 | the lifecycle follows the transport |
| `pi_questions` | bind, 1 call, 1 dialog, root | 335 581 | users see what Pi waits for; nobody waits for ever |
| `manager_spawn` | 2 paths, 1 launched and 1 user's generation with one session ID, 1 child session, 2 handles, rename | 976 160 | one socket carries a session, the launch name never overwrites the user's |
| `manager_replace` | 1 path, 2 different roots, 1 child session, 2 handles, stop and quiesce | 1.17 million | a client outlives the loops of a watched handle, a cancelled handle never returns, nothing is open after Close, the routes of an actionable root lead to its tree |
| `manager_live` | 1 path, 1 launched generation, 2 handles, quiesce | 103 645 | a failed spawn ends with its process dead, a root that has gone leaves the fleet, Close ends |
| `provisioning` | a root and a child | 1 741 | what is left is reported, nothing runs under the identity of its source, a clean recovery has left nothing |
| `events` | 2 streams, 2 events, 1 write deadline, 1 page | 146 296 | no hole in a stream, gaps are true and reported, mirror and page catch up, nothing of a removed root stays, the shutdown ends |
| `credentials` | 2 processes, 1 lock, 3 credentials, 1 crash, pause, failed touch or failed save | 698 832 | a refresh token is spent once, no update is lost under the lock, a lock left behind is taken over |

Two runs refute a statement of the repository, and are the findings of
`PROJECT.json`:

| run | statement | what happens |
|---|---|---|
| `client_outlives_loops` | MGR-A, "a client is never closed while a loop may be mid-call on it" (`manager/discovery.go:32`) | the handle of a root that leaves the fleet between its commit and the start of its loops has its client closed first, then both loops start |
| `fresh_lock_survives` | "heartbeat did not prevent stale-lock takeover" (`proxy/oauth_test.go:233`) | of two waiters that saw the same stale directory the slower one removes the lock the faster one has taken |

Every property of a passing run has a mutant of the code that violates it.

### Bounds, and why they are enough

* **One child.** Children share only the registry, `stopSet` and `finish`;
  everything else is a child's own, and the proofs cover any set of children.
* **One handoff request** for liveness: a second is refused or queued. The proofs
  of the safety properties cover any number.
* **`pi_safety`** bounds nothing: bind and two prompts cause at most seven
  records that matter (three responses, two starts, two settlements), and eight
  give the same states. The mailbox holds two events, so it overflows. Two calls
  are needed for a prompt's response and an abort or a second prompt to be
  reconciled out of order.
* **`pi_questions`** has one dialog, since dialogs are independent in the store,
  and four records: bind's response, the dialog, and a generation or a prompt. Only
  roots: the store does not read the kind.
* **`manager_*`.** The races are between two handles of one path (a replaced
  root, a spawn that discovery also finds) or between two paths that claim one
  session; a third handle is built only when one of two has become garbage. In
  `manager_spawn` a launched root and a root of the user share a session ID. In
  `manager_replace` the generation that takes the socket over is another root, and the
  first has a child session to route. One eviction by a user. The kept runs
  launch one root. Launches that run at once are the business of the proofs, which
  have any number of them; `OneSocketPerRoot` was also checked with both roots of
  `manager_spawn` launched at once, on 3.7 million states, longer than a run kept here
  may take. With two launches the rest is proved and not model-checked.
* **`provisioning`** bounds nothing but the one session.
* **`events`.** Two events and a ring of two, of which one may be evicted by the
  other's size; two streams, since a handler of the last stream may still run
  when the next is open; a page that holds one revision, so it overflows.
* **`credentials`.** A third credential is the refresh of the one that raced; one
  fault (a crash, a pause, a failed touch or a failed save), since the second is again
  a first one. Two inodes suffice for two processes: of the inodes nobody remembers
  the first stands for all. `Rotation` is {TRUE}: a refresh token that is not replaced
  stays valid and asks nothing of anybody; with both, 1 148 340 states, `RefreshOnce` and
  `NoLostUpdate` hold too. The proofs have either, and any number of locks, as Claude's
  has two.
* Symmetry is used in runs without liveness properties only.
* Deadlock is not checked where a settled system stops: all runs but `credentials`.

### Fairness

* `ChildSupervision`: goroutines run, the forwarder ends once its stream or its
  context has, the timers a cleanup has fire, SIGKILL ends a process. Nothing is
  assumed of the child itself, and no deadline of a cleanup that a DELETE began:
  `CleanupTerminates` excepts one that is `Held` for ever, and `Delegation` a held child.
* `NodeLifecycle`: goroutines run, Incus and Pi operations end by success, error
  or deadline, timers fire, and the parent answers a report it waits for: each of
  these has a context with a deadline, or is a parent whose cleanup
  `child_all` shows to end. Nothing is assumed of users, Pi, the context or a direct
  child: `StopFinishes`, `PiExitFinishes` and `HandoffExits` except a node that waits
  for ever for a hung child whose cleanup a DELETE began (`ChildHolds`).
* `PiSession`: goroutines run, and reads and writes on a closed transport fail.
  Pi, users, timers and contexts promise nothing, and while the transport is open
  a write may block for ever.
* `RootManager`: the goroutines run (each call on a socket has a deadline),
  admission gives up in the end, and a process that was sent SIGKILL dies. Roots and
  users promise nothing.
* `EventStream`, `LiveView`: who holds a mutex or has something to read goes on;
  the event loop subscribes again; a shutdown that has begun goes on. Users and
  write deadlines promise nothing. The liveness is stated as "again and again",
  since an overflow may undo what was reached.
* `Credentials`: a process that is not paused runs, a pause ends, time passes.
  Nobody has to
  give up waiting, and no heartbeat has to beat: `DeadHolderReplaced` rests on neither.

## 5. What is proved

The proofs hold for every value of the constants (any set of children, handoff
requests, calls, dialogs, streams and processes, any capacity and number of
records or events). The assumptions on constants are `SessionAssumption`,
`FleetAssumption`, `RoleAssumption`, `StreamAssumption`, `PageAssumption` and
`CredentialsAssumption`; one theorem, `RoutesFollow`, has a hypothesis of its own.

* **`ChildSupervisionProofs`, `ChildSafetyProofs`.** `SupervisionInv` is
  inductive: per child, what the spawn, the cleanup, the registration, the
  answer, the acknowledgement, the recovery and the event pipe know. It is needed because the
  safety properties speak of the end of a chain: that an answered call has no
  process follows from "a cleanup past the exit wait saw the exit" and "the
  entry leaves the registry when the cleanup is done", neither of which they
  say. It implies `AckedOnlyWhenAccepted`, `SettledBeforeReturn`,
  `ResultMeansSettled`, `RecoveryAfterExit`, `ResultFollowsEvents` and
  `NoOrphanAfterFinish`. For `ResultFollowsEvents` the link (`EventsInv`) is that
  a cleanup after a natural end passes the drain without an error only when the
  forwarder has ended and its stream has not broken, and that a result is answered
  only if the cleanup had no error. A forwarder that never subscribed has ended too:
  the property names it.
  Initial states map to initial states of `Delegation`
  and every step to one of its steps or a stutter, so `Spec => Promise!Spec`.
* **`NodeLifecycleProofs`.** `LifecycleInv` is inductive: what the startup holds
  at each step (`StartInv`, `AcquireInv`), that `finish` captured it all
  (`FinishInv`), who has been handed off (`HandoffInv`), the report
  (`ReportInv`) and the runner (`RunInv`). It implies the safety properties of
  `node` and `AtMostOneReport`. The heart is that `finish` begins only when the
  startup has settled: whatever the startup acquired is recorded by then or the
  startup has failed with an error.
* **`PiSessionProofs`.** `SessionInv` is inductive: `ClientInv` ties pending
  calls, their goroutines and the closed client together, `DrainInv` the mailbox, the
  drain, the store and the lifecycle, `StopInv` the steps of StopRPC. It implies
  `WaiterHasSource`, `TerminatedHasNoQuestions`, `StopSettles` and
  `LossIsFailure`. These speak of the end of a session; what holds while its
  transport is open is a second invariant, `TransportInv`. Events are handled in
  the order Pi wrote them (`OrderInv`, from which every position comes); a
  response is that of the call's own command (`CommandInv`); a dialog is on its
  way, in the store or answered, and no end is queued behind one that still waits
  (`QuestionsInv`); and there is a position in the transport, that of the last
  activity, that every later event and response is measured by (`LifecycleInv`).
  A lifecycle that disagrees with Pi does so only while the record of that
  position is still to be reconciled and no response has overtaken it
  (`Decides`). `QuestionsMatch` and `LifecycleFollowsTransport` are what remains
  of it when nothing is queued. The exception of the second, a prompt accepted
  before bind, is where the invariant stops: section 7, `FollowsTransport`.
* **`EventStreamProofs`.** `StreamInv` is inductive, in the specification of
  `LiveView`. Its heart is `Carries`: what is on its way in a stream is one run
  of sequence numbers, cut in two places between the mailbox of the client, the
  replay and the mailbox of the broker; it reaches to the last event while the
  stream is subscribed and has been delivered to; and where the current stream
  begins, all that the mirror lacks has been evicted. The last part is what
  `GapIsTrue` needs and does not say: the events between the mirror and a new
  stream become "missing" only when the stream is read, long after the broker
  evicted them. `NoHole` follows because two runs that meet are one (`RunConcat`).
* **`CredentialsProofs`.** `CredentialInv` is inductive: of the processes that made a
  directory at a path at most one is alive; whoever has checked a lock that is its own
  directory keeps it, or has been robbed of it; what was read under it and not written
  over by one who was robbed is what the file has; and a refresh token that was spent is
  one no later read finds. It implies `RefreshOnce` and `NoLostUpdate`. What they
  except is what the code does not exclude, and each case is one the model reaches: the
  directory that is removed between the check of the locks and the replacement of the
  file, the directory another made (between Mkdir and Stat, or with an inode that is
  used again), a credential that was lost with its reply, its process or its save, and
  one written by a process in the first two cases. Without `by`, which knows who
  made a directory, the lock a process believes in and the one it holds cannot be told
  apart: the code compares inodes only.
* **`RootManagerProofs`.** `ManagerInv` is inductive, for any paths, generations
  (also several at a path and several of one root), handles, requests and any set of
  launches that run at once. `FleetAssumption` asks of a launch only that nothing else
  binds its socket, whose name is a random token. The probes of the discovery and of
  each launch are different handles (`ProbesApart`, `SpawnsApart`). The
  safety properties speak of the fleet; what a goroutine relies on between two
  sections under the lock is not in them. The invariant adds it, as three things
  that a step of anybody else must leave alone (`StandingKept`): a probe is
  private, a victim has left the fleet, a target is in the fleet until it leaves
  it. Then a client is closed only when it is private or its victim has drained,
  and a commit finds its handle in one of two states. What each change of the
  fleet does to all of this is one lemma (`RemovedKeeps`, `ClosedKeeps`,
  `CommitKeeps`, `DropKeeps`, `MonitorKeeps`, `CollectKeeps`, `LoopsKeep`); the
  actions cite them. It implies `OneSocketPerRoot`, `DrainBeforeClose` and
  `NoResurrection`. Three more results rest on it.
  `BookInv` says that sockets, clients, answers in flight and the spawn agree on
  paths; with it every step that changes the fleet is one of the moves of
  `FleetMoves` (a removal, a commit or a retained answer, a new, monitored, dropped or
  collected handle, a rename, a closing of clients), and `RenameSticks` and
  `RoutesFollowTree` are proved move by move. `RoutesFollow`
  assumes that distinct processes have distinct session IDs, which the code draws at
  random (`cmd/session_runtime.go:473`), and holds however often the root of a path is
  replaced.
  `LeakInv` gives every open client somebody who will close it: the fleet, a
  victim of a discovery, an evicting user or a probe (`OwnersInv`). A commit may
  displace a handle that is then nobody's; the invariant shows that this takes a
  zombie (`Haunted`), a handle that left the fleet before it was watched and
  whose loops started all the same (section 7). With "a request that is
  over holds nothing" (`HoldsInv`) `NothingLeaks` follows.
* **`ProvisioningProofs`.** `ProvisionInv` is inductive. TLC visits every state
  of this module, whose constant is finite; the proof adds the reason. While a
  provision runs, Incus is where the plan is, or one operation ahead
  (`ProgressInv`): so nothing runs that is not labelled (`ServerInv`). A cleanup
  that has noted no error, and lost no reply, knows of what there is until it has
  deleted it, and no operation is left that could make more (`CleanupInv`). Once
  the ticket is out nothing is under way but a deletion (`TicketInv`), so what
  the parent has not seen does not appear behind its back (`ParentInv`). They
  imply `RunsOnlyItsOwn`, `NothingLeftUnsaid` and `RecoveredClean`.

Model-checked only:

* all liveness, which the prover does not do for want of ENABLED
  (`CleanupTerminates`, `ReturnsAfterCleanup`, the fairness part of
  `KeepsPromise`, `StopFinishes`, `PiExitFinishes`, `HandoffExits`, `StopEnds`,
  `LossSettles`, `FailedSpawnDies`, `GoneIsForgotten`, `CloseEnds`, `CatchesUp`,
  `PageShows`, `Released`, `ShutdownEnds`, `DeadHolderReplaced`).

Every invariant and every action property that a run checks is a theorem.

## 6. What is not modelled

* The read generation boundary of RunReadTask, the RPC gate and QuiesceRPC
  (`node.go:549`: it waits for the calls in flight while new ones arrive), and the
  shutdown of the listener while handlers run (`supervisorapi/unix.go:121`).
* Encoding and size limits of the pipes; the records of the root bootstrap.
* The projection of events to activity items, the tree render data, the launch
  options; the eviction of mirrors.
* Rendering, request parsing, the browser's scripts; the reverse proxy that
  injects a token; the forwarding calls of the Incus client: input and output with
  no shared state that a model would add to.
* Image builds and the Pi extension run at build time or inside the guest;
  configuration and commands parse once.

## 7. Known disagreements

Besides the two findings, the models hold properties that state what a document,
a comment or a test says and that the code does not keep. No run is kept for
them; each is a definition that TLC refutes when it is added to the named run.

| definition (run) | statement | what the code does |
|---|---|---|
| `CancelledReportsAborted` (`child_all`) | a cancellation that wins is answered `child_aborted` (`docs/superpowers/plans/2026-08-10-rpc-lifecycle-hardening.md:1392`) | while the child starts it is answered `child_failed` (`node.go:368`) |
| `AcceptedIsAcknowledged` (`child_all`) | a report that wins is acknowledged (same plan, line 1393) | a later cancellation closes the endpoint first (`children.go:330`) |
| `RecoveryNeverSkipped` (`child_all`) | the entry is removed after recovery (`docs/superpowers/specs/2026-08-10-child-liveness-shutdown-design.md:38`) | a cancellation during WaitReady finds no ticket in the entry and skips the recovery (`node.go:364`) |
| `ChildExitIsReported` (`child_all`) | an unexpected failure is returned to the caller (`docs/architecture/session-supervisor.md:375`) | `probeTree` keeps polling the socket of a dead child (`process/spawn.go:452`) |
| `HandoffRetryable` (`node`) | a rejected report leaves the writer retryable (comment in `result.go:251`) | the reporter refuses every later report (`process/protocol.go:280`) |
| `FollowsTransport` (`pi_safety`) | a delayed prompt response cannot overwrite a later settlement (`local_test.go:199`) | it can when the prompt was accepted before `get_state` (`local.go:183`) |
| `AwaitedOrTimedOut` (`provisioning`) | AwaitSubmittedOperation waits for a submitted operation to reach its terminal state (`incusclient/client.go:291`) | a retried start is joined behind the first, which has failed: the first is found, and the retry is not awaited (`provision/child.go:335-361`) |

Manager. Met while modelling, beyond `client_outlives_loops`:

* The window between a commit and `monitorRoot` is open to a sweep, to
  StopSession of a retained root (`pi.go:243`; an actionable one that nobody monitors
  yet is asked to stop) and to a commit that displaces the handle. The loops that then start belong to a handle
  outside the fleet; only Close cancels them. A drain of such a handle waits
  until then, and a discovery pass with it: `GoneIsForgotten` and `NothingLeaks`
  except it (`Zombie`).
* snapshotLoop ignores the handle its commit displaces (`monitor.go:124`), whose
  client is then never closed.
* snapshotLoop does not check which root has answered: after a replacement a
  loop of the old handle may commit the tree of the new root under the old
  handle, and when that handle leaves, routes of the other session stay and point at a
  root that is not in the fleet: an action on them fails with "root not found"
  (`pi.go:241`) until that root is admitted again. The comment of `updateRetainedTree`
  (`monitor.go:299-300`) says otherwise. `RoutesFollowTree` is about routes of roots
  in the fleet, and holds across a replacement.
* A spawn that is refused after Quiesce stops a root that discovery had admitted,
  where `manager.go:443-444` says that admitted roots go on.

Provisioning. `docs/architecture/session-supervisor.md:156` says that resources
are recoverable by the ticket; between the copy and the write of the metadata
they are not, and the ticket is published only after the provision. An accepted
operation whose reply was lost is not recognised; `NothingLeftUnsaid` excepts it.

Events. The mailbox of the client is fixed (`client.go:63-66`) while the ring of
the broker is configured: with a larger ring a replay could overflow it each
time. An overflow at the broker looks like the end of the stream. Revisions may
reach a page out of order, where `notify.go` calls them monotonically
increasing; pages read the state again and do not compare them. A
page that subscribes after Close is not closed by the fan-out but ends
through the context of the streams.

Credentials. A refreshed credential is dropped when the lock was lost before it
could be saved, or when the save fails (`oauth.go:449-451`, `145-147`), and the refresh
token spent for it is not accepted again: a new login is needed, as after a lost reply.
Between Mkdir and Stat (`oauth.go:533-534`) a slow waiter may remove the directory and
another make it anew; both then take it for theirs. Locks are compared by inode, which
a file system may use again (`oauth_test.go:238-246`): a process that was paused and
robbed may then pass the check of its lock and replace a newer credential.

Children. A DELETE of a direct child that hangs waits for it for ever, and with it
every caller that waits for that cleanup, the stop of the node included
(`supervisorapi/handler.go:136`, `children.go:348`, `394`). A child whose events could
not be subscribed to is answered as if they had been forwarded (`children.go:276-279`).

Sessions:

* An abort's response clears the store when its goroutine runs, so a question
  Pi asks after the abort may disappear (`local.go:176`); `QuestionsMatch` is
  therefore restricted to sessions without an abort.
* `Client.Close` aborts the mailbox (`pirpc/client.go:178-183`): events that were
  queued when StopRPC began are dropped, where the comment on `DrainDone`
  (`local.go:241-242`) reads as if they were drained.
* A `get_state` of the API answered before bind has recorded the binding fails
  the session (`local.go:166`).
* `lastAssistantText` may read text of a generation that was not the task's
  (`result.go:106-127`).
