----------------------------- MODULE RootManager -----------------------------
(***************************************************************************)
(* The manager's fleet (internal/manager: discovery.go, monitor.go,        *)
(* spawn.go, manager.go, pi.go): roots found by scanning a directory of    *)
(* sockets or launched by the manager, the routes from sessions to roots,  *)
(* and the loops that watch each root.                                     *)
(*                                                                         *)
(* The goroutines are the discovery loop, the request that spawns a root   *)
(* and the cleanup it may leave behind, the requests that stop or rename a *)
(* session, a snapshot loop and an event loop per handle, and Close.  What *)
(* m.mu guards is the variable fleet: an action holds the lock at most     *)
(* once, or twice with nothing read in between.                            *)
(*                                                                         *)
(* A socket generation is one supervisor process and the inode it bound.   *)
(* Clients dial by path, so a client of an old generation may be answered  *)
(* by the next one; closing a client only drops its idle connections.      *)
(* A snapshot is what the manager tells apart: the generation, the class   *)
(* of its lifecycle and its child sessions.  An invalid snapshot is one    *)
(* that failed, for both have the same consequences.                       *)
(***************************************************************************)
EXTENDS Naturals, FiniteSets

CONSTANTS
    Path,       \* socket paths of the directory
    Gen,        \* socket generations
    PathOf,     \* the path a generation binds
    RootOf,     \* the session ID of its root
    Root,       \* session IDs of roots
    Kid,        \* session IDs of children
    KidsOf,     \* those a generation may have
    Launched,   \* the generations the manager launches, each by a request of its own
    Handle,     \* pool of root handles; one that is garbage is used again
    Request,    \* what the user asks of the manager, of "stop", "rename", "quiesce"
    MaxEvictions, \* bound on the roots that StopSession evicts
    NewName,    \* the names the user gives: "" clears the name
    NoGen, NoRoot, NoHandle

ASSUME FleetAssumption ==
    /\ PathOf \in [Gen -> Path] /\ RootOf \in [Gen -> Root] /\ KidsOf \in [Gen -> SUBSET Kid]
    /\ Root \cap Kid = {} /\ NoGen \notin Gen /\ NoRoot \notin Root /\ NoHandle \notin Handle
    /\ Path # {} /\ MaxEvictions \in Nat
    /\ Launched \subseteq Gen
    /\ \A l \in Launched, g \in Gen : PathOf[g] = PathOf[l] => g = l   \* a random token

VARIABLES
    disk,    \* the socket at each path
    life,    \* the process of each generation
    kids,    \* its child sessions
    fleet,   \* roots by path, routes by session and every handle
    loop,    \* the snapshot loop of each handle
    disc,    \* the discovery loop
    spawn,   \* each SpawnRootWithRequest and its cleanup, by the generation it launches
    stopping, \* the handles a StopSession has evicted and drains
    mgr      \* quiesced, closed, clientsClosed

world == <<disk, life, kids>>
vars == <<world, fleet, loop, disc, spawn, stopping, mgr>>

Session == Root \cup Kid
Name == {"", "launch"} \cup NewName
Life == {"none", "boot", "early", "live", "ending", "dead"}
Serving == {"early", "live", "ending"}

Snapshot == [gen : Gen \cup {NoGen}, life : Serving, kids : SUBSET Kid]
Failed == [gen |-> NoGen, life |-> "early", kids |-> {}]

HandleRecord ==
    [path : Path, gen : Gen \cup {NoGen}, tree : SUBSET Session, actionable : BOOLEAN,
     name : Name, touched : BOOLEAN, monitoring : BOOLEAN,
     cancelled : BOOLEAN, left : {"no", "watched", "unwatched", "dropped"}, client : {"none", "open", "closed"}]

\* A handle nobody has built yet.
Unbuilt == [path |-> CHOOSE p \in Path : TRUE, gen |-> NoGen, tree |-> {}, actionable |-> FALSE,
            name |-> "", touched |-> FALSE, monitoring |-> FALSE,
            cancelled |-> FALSE, left |-> "no", client |-> "none"]

AnyHandle == Handle \cup {NoHandle}

TypeOK ==
    /\ disk \in [Path -> Gen \cup {NoGen}]
    /\ life \in [Gen -> Life] /\ kids \in [Gen -> SUBSET Kid]
    /\ fleet \in [roots : [Path -> AnyHandle], routes : [Session -> Root \cup {NoRoot}],
                  handle : [Handle -> HandleRecord]]
    /\ loop \in [Handle -> [pc : {"off", "wait", "got", "done"}, snapshot : Snapshot]]
    /\ disc \in [pc : {"idle", "listed", "scan", "drain", "dial", "probed", "displaced",
                       "monitor", "sweep"},
                 todo : SUBSET Path, known : [Path -> AnyHandle], gen : Gen \cup {NoGen},
                 probe : AnyHandle, target : AnyHandle, snapshot : Snapshot,
                 victims : SUBSET Handle]
    /\ spawn \in [Launched ->
                    [pc : {"idle", "bootstrap", "poll", "probed", "monitor", "stop", "term", "kill",
                           "reap", "done"},
                     result : {"none", "ok", "error"}, gen : Gen \cup {NoGen}, known : BOOLEAN,
                     probe : AnyHandle, target : AnyHandle, snapshot : Snapshot, killed : BOOLEAN]]
    /\ stopping \subseteq Handle
    /\ mgr \in [quiesced : BOOLEAN, closed : BOOLEAN, clientsClosed : BOOLEAN,
                evictions : 0..MaxEvictions]

DiscIdle == [pc |-> "idle", todo |-> {}, known |-> [p \in Path |-> NoHandle], gen |-> NoGen,
             probe |-> NoHandle, target |-> NoHandle, snapshot |-> Failed, victims |-> {}]

SpawnIdle == [pc |-> "idle", result |-> "none", gen |-> NoGen, known |-> FALSE,
              probe |-> NoHandle, target |-> NoHandle, snapshot |-> Failed, killed |-> FALSE]

Init ==
    /\ disk = [p \in Path |-> NoGen]
    /\ life = [g \in Gen |-> "none"]
    /\ kids = [g \in Gen |-> {}]
    /\ fleet = [roots |-> [p \in Path |-> NoHandle], routes |-> [s \in Session |-> NoRoot],
                handle |-> [h \in Handle |-> Unbuilt]]
    /\ loop = [h \in Handle |-> [pc |-> "off", snapshot |-> Failed]]
    /\ disc = DiscIdle
    /\ spawn = [g \in Launched |-> SpawnIdle]
    /\ stopping = {}
    /\ mgr = [quiesced |-> FALSE, closed |-> FALSE, clientsClosed |-> FALSE,
              evictions |-> 0]
-----------------------------------------------------------------------------
(* The supervisors *)

\* StartUnix publishes the socket, over one that refuses connections at most.  SpawnStart has
\* started the manager's own root; the user starts the others.
Bind(g) ==
    LET p == PathOf[g] IN
    /\ life[g] = IF g \in Launched THEN "boot" ELSE "none"
    /\ disk[p] # NoGen => life[disk[p]] \notin Serving
    /\ disk' = [disk EXCEPT ![p] = g]
    /\ life' = [life EXCEPT ![g] = "early"]
    /\ UNCHANGED <<kids, fleet, loop, disc, spawn, stopping, mgr>>

\* The root becomes ready, or starts to end.
Advance(g) ==
    /\ \/ life[g] = "early" /\ life' = [life EXCEPT ![g] = "live"]
       \/ life[g] \in {"early", "live"} /\ life' = [life EXCEPT ![g] = "ending"]
    /\ UNCHANGED <<disk, kids, fleet, loop, disc, spawn, stopping, mgr>>

ChangeKids(g) ==
    /\ life[g] = "live"
    /\ \E K \in SUBSET KidsOf[g] : K # kids[g] /\ kids' = [kids EXCEPT ![g] = K]
    /\ UNCHANGED <<disk, life, fleet, loop, disc, spawn, stopping, mgr>>

\* The process exits and removes its socket, or crashes and leaves it.  SIGKILL is a crash.
Exit(g) ==
    /\ life[g] \in {"boot"} \cup Serving
    /\ life' = [life EXCEPT ![g] = "dead"]
    /\ \/ UNCHANGED disk
       \/ life[g] \in Serving /\ disk[PathOf[g]] = g
          /\ disk' = [disk EXCEPT ![PathOf[g]] = NoGen]
    /\ UNCHANGED <<kids, fleet, loop, disc, spawn, stopping, mgr>>

\* What Snapshot over a socket path may return: any call may fail.
Answers(p) ==
    {Failed} \cup {[gen |-> g, life |-> life[g], kids |-> kids[g]] :
                      g \in {x \in Gen : x = disk[p] /\ life[x] \in Serving}}

\* The answers that discovery and the loops act on, those of a live root or one that ends.
Usable(p) == {a \in Answers(p) : a.life # "early"}
-----------------------------------------------------------------------------
(* The fleet under m.mu *)

WithoutRoutes(routes, owners) ==
    [s \in Session |-> IF routes[s] \in owners THEN NoRoot ELSE routes[s]]

RootOfHandle(h) == RootOf[fleet.handle[h].gen]

InFleet == {fleet.roots[p] : p \in Path} \ {NoHandle}

\* removeRootLocked for some paths: a handle that nobody monitors yet has no context to cancel.
Removed(P) ==
    LET gone == {fleet.roots[p] : p \in P} \ {NoHandle} IN
    [roots |-> [p \in Path |-> IF p \in P THEN NoHandle ELSE fleet.roots[p]],
     routes |-> WithoutRoutes(fleet.routes, {RootOfHandle(h) : h \in gone}),
     handle |-> [h \in Handle |->
                    IF h \in gone
                    THEN [fleet.handle[h] EXCEPT !.cancelled = fleet.handle[h].monitoring,
                                                 !.left = IF fleet.handle[h].monitoring /\ @ = "no"
                                                          THEN "watched" ELSE "unwatched"]
                    ELSE fleet.handle[h]]]

\* The handle another caller has admitted at the path of h.
Rival(h) == LET x == fleet.roots[fleet.handle[h].path] IN IF x = h THEN NoHandle ELSE x

SameSocket(h) == Rival(h) # NoHandle /\ fleet.handle[Rival(h)].gen = fleet.handle[h].gen

Displaced(h) == IF SameSocket(h) THEN {} ELSE {Rival(h)} \ {NoHandle}

\* The handle that commitTree leaves at the path.
Target(h) == IF SameSocket(h) THEN Rival(h) ELSE h

Tree(snapshot) == {RootOf[snapshot.gen]} \cup snapshot.kids

\* Mutant: the fleet is not searched for the same root at another path.
RefusedHere(h, snapshot) ==
    \/ mgr.quiesced \/ mgr.closed
    \/ fleet.handle[h].cancelled

\* Mutant: a handle that has been cancelled meanwhile may commit.
RefusedUnlessUnique(h, snapshot) ==
    \/ mgr.quiesced \/ mgr.closed
    \/ \E p \in Path \ {fleet.handle[h].path} :
          fleet.roots[p] \notin {h, NoHandle} /\ RootOfHandle(fleet.roots[p]) = RootOfHandle(h)

\* Why commitTreeWithAdmission refuses.
Refused(h, snapshot) ==
    LET path == fleet.handle[h].path
        reused == {RootOfHandle(x) : x \in {Rival(h)} \ {NoHandle}} IN
    \/ mgr.quiesced \/ mgr.closed
    \/ fleet.handle[h].cancelled
    \/ \E p \in Path \ {path} : fleet.roots[p] \notin {h, NoHandle}
                                 /\ RootOfHandle(fleet.roots[p]) = RootOfHandle(h)
    \/ \E s \in Tree(snapshot) :
          fleet.routes[s] \notin {NoRoot, RootOf[snapshot.gen]} \cup reused

\* Mutant: the routes of the last tree stay.
CommittedOver(h, snapshot, actionable, names) ==
    LET t == Target(h) IN
    [roots |-> [fleet.roots EXCEPT ![fleet.handle[t].path] = t],
     routes |-> [s \in Session |-> IF s \in Tree(snapshot) THEN RootOf[snapshot.gen]
                                   ELSE fleet.routes[s]],
     handle |-> [fleet.handle EXCEPT ![t].tree = Tree(snapshot), ![t].actionable = actionable]]

\* Mutant: the launch name is written whatever the user did.
CommittedNamed(h, snapshot, actionable, names) ==
    LET t == Target(h) IN
    [roots |-> [fleet.roots EXCEPT ![fleet.handle[t].path] = t],
     routes |-> [s \in Session |-> IF s \in Tree(snapshot) THEN RootOf[snapshot.gen]
                                   ELSE fleet.routes[s]],
     handle |-> [fleet.handle EXCEPT ![t].actionable = actionable,
                                     ![t].name = IF names = {} THEN @ ELSE "launch"]]

\* commitTreeWithAdmission: names is the launch name, or none.
Committed(h, snapshot, actionable, names) ==
    LET t == Target(h)
        base == IF Displaced(h) = {} THEN fleet ELSE Removed({fleet.handle[h].path})
        cleared == WithoutRoutes(base.routes, {RootOfHandle(t)})
        new == [base.handle[t] EXCEPT
                   !.tree = Tree(snapshot), !.actionable = actionable,
                   !.name = IF names = {} \/ base.handle[t].touched THEN @
                            ELSE CHOOSE n \in names : TRUE]
    IN [roots |-> [base.roots EXCEPT ![new.path] = t],
        routes |-> [s \in Session |-> IF s \in Tree(snapshot) THEN RootOf[snapshot.gen]
                                      ELSE cleared[s]],
        handle |-> [x \in Handle |-> IF x = t THEN new
                                     ELSE IF x = h THEN [base.handle[h] EXCEPT !.client = "closed"]
                                     ELSE base.handle[x]]]

WithClosed(f, H) ==
    [f EXCEPT !.handle = [h \in Handle |-> IF h \in H THEN [f.handle[h] EXCEPT !.client = "closed"]
                                           ELSE f.handle[h]]]

\* The snapshot loop has ended, and the event loop, which runs until its handle is cancelled.
LoopsEnded(h) == loop[h].pc = "off" \/ (loop[h].pc = "done" /\ fleet.handle[h].cancelled)

\* monitorRoot: refused, already live, or both loops start.
Monitor(h) ==
    IF mgr.quiesced \/ mgr.closed \/ fleet.handle[h].monitoring
    THEN UNCHANGED <<fleet, loop>>
    ELSE /\ fleet' = [fleet EXCEPT !.handle[h].monitoring = TRUE]
         /\ loop' = [loop EXCEPT ![h].pc = "wait"]

\* Mutant: the client of a root that is refused at the last moment stays open.
DroppedOpen(h) ==
    [Removed({fleet.handle[h].path}) EXCEPT !.handle[h].left = "dropped"]

\* removeRootBySocketPath: it cancels nothing.
Dropped(h) ==
    [Removed({fleet.handle[h].path}) EXCEPT
        !.handle[h] = [fleet.handle[h] EXCEPT !.client = "closed", !.left = "dropped"]]

\* admitCommitted: a handle of one's own that is refused leaves the fleet again.
Admit(h, own) ==
    IF (mgr.quiesced \/ mgr.closed) /\ h = own /\ h \in InFleet
    THEN fleet' = Dropped(h) /\ UNCHANGED loop
    ELSE Monitor(h)

\* A handle that left the fleet before its loops were started: only Close cancels them.
Zombie(h) == fleet.handle[h].left = "unwatched" /\ fleet.handle[h].monitoring

\* A handle that nothing refers to is garbage.
Collect(h) ==
    /\ fleet.handle[h].client = "closed" /\ LoopsEnded(h) /\ ~Zombie(h)
    /\ h \notin InFleet \cup disc.victims \cup stopping \cup {disc.probe, disc.target}
               \cup {disc.known[p] : p \in Path}
    /\ \A g \in Launched : h \notin {spawn[g].probe, spawn[g].target}
    /\ fleet' = [fleet EXCEPT !.handle[h] = Unbuilt]
    /\ loop' = [loop EXCEPT ![h] = [pc |-> "off", snapshot |-> Failed]]
    /\ UNCHANGED <<world, disc, spawn, stopping, mgr>>

Fresh(path, g) ==
    [Unbuilt EXCEPT !.path = path, !.gen = g, !.client = "open"]
-----------------------------------------------------------------------------
(* discoverOnce *)

\* os.ReadDir, outside the lock.  The ticker may win once more after Quiesce.
List ==
    /\ disc.pc = "idle"
    /\ disc' = [disc EXCEPT !.pc = "listed", !.todo = {p \in Path : disk[p] # NoGen}]
    /\ UNCHANGED <<world, fleet, loop, spawn, stopping, mgr>>

\* Mutant: the roots known before the scan are not remembered.
TakeNothing ==
    /\ disc.pc = "listed"
    /\ disc' = [disc EXCEPT !.pc = "scan"]
    /\ UNCHANGED <<world, fleet, loop, spawn, stopping, mgr>>

TakeKnown ==
    /\ disc.pc = "listed"
    /\ disc' = [disc EXCEPT !.pc = "scan", !.known = fleet.roots]
    /\ UNCHANGED <<world, fleet, loop, spawn, stopping, mgr>>

\* One entry: it cannot be inspected, it is unchanged, or it is a socket generation to probe.
Skip(p) ==
    /\ disc.pc = "scan" /\ p \in disc.todo
    /\ \/ disk[p] = NoGen /\ disc' = [disc EXCEPT !.todo = @ \ {p}]
       \/ /\ disk[p] # NoGen /\ disc.known[p] # NoHandle
          /\ fleet.handle[disc.known[p]].gen = disk[p]
          /\ disc' = [disc EXCEPT !.todo = @ \ {p}, !.known[p] = NoHandle]
    /\ UNCHANGED <<world, fleet, loop, spawn, stopping, mgr>>

\* removeReplacedSocket follows: whatever else is at the path by now leaves the fleet.
Inspect(p) ==
    LET h == fleet.roots[p]
        replaced == h # NoHandle /\ fleet.handle[h].gen # disk[p] IN
    /\ disc.pc = "scan" /\ p \in disc.todo /\ disk[p] # NoGen
    /\ disc.known[p] # NoHandle => fleet.handle[disc.known[p]].gen # disk[p]
    /\ fleet' = IF replaced THEN Removed({p}) ELSE fleet
    /\ disc' = [disc EXCEPT !.todo = @ \ {p}, !.known[p] = NoHandle, !.gen = disk[p],
                            !.pc = IF replaced THEN "drain" ELSE "dial",
                            !.victims = IF replaced THEN {h} ELSE {}]
    /\ UNCHANGED <<world, loop, spawn, stopping, mgr>>

\* drainAndCloseDisplaced: the loops of a victim end, then its client is closed.
AfterDrain(d) ==
    IF d.victims # {} THEN d
    ELSE CASE d.pc = "drain" -> [d EXCEPT !.pc = "dial"]
           [] d.pc = "displaced" -> [d EXCEPT !.pc = "monitor"]
           [] OTHER -> DiscIdle

\* Mutant: the client is closed while the loops run.
DiscCloses(h) ==
    /\ disc.pc \in {"drain", "displaced", "sweep"} /\ h \in disc.victims
    /\ fleet' = WithClosed(fleet, {h})
    /\ disc' = AfterDrain([disc EXCEPT !.victims = @ \ {h}])
    /\ UNCHANGED <<world, loop, spawn, stopping, mgr>>

DiscDrain(h) ==
    /\ disc.pc \in {"drain", "displaced", "sweep"} /\ h \in disc.victims /\ LoopsEnded(h)
    /\ fleet' = WithClosed(fleet, {h})
    /\ disc' = AfterDrain([disc EXCEPT !.victims = @ \ {h}])
    /\ UNCHANGED <<world, loop, spawn, stopping, mgr>>

NextEntry == [disc EXCEPT !.pc = "scan", !.gen = NoGen, !.probe = NoHandle,
                          !.target = NoHandle, !.snapshot = Failed, !.victims = {}]

\* probeRoot: the client and its snapshot.
Dial(h) ==
    LET p == PathOf[disc.gen] IN
    /\ disc.pc = "dial" /\ fleet.handle[h].client = "none"
    /\ \/ disc' = NextEntry /\ UNCHANGED fleet
       \/ \E a \in Usable(p) :
             /\ fleet' = [fleet EXCEPT !.handle[h] = Fresh(p, disc.gen)]
             /\ disc' = [disc EXCEPT !.pc = "probed", !.probe = h, !.snapshot = a]
    /\ UNCHANGED <<world, loop, spawn, stopping, mgr>>

\* The second look at the socket, the lifecycle, and the commit of a live root or, by
\* commitStoppingRoot, of one that ends.
DiscCommit ==
    LET h == disc.probe
        a == disc.snapshot IN
    /\ disc.pc = "probed"
    /\ IF disk[PathOf[disc.gen]] # disc.gen \/ Refused(h, a)
       THEN disc' = NextEntry /\ fleet' = WithClosed(fleet, {h})
       ELSE /\ fleet' = Committed(h, a, a.life = "live", {})
            /\ disc' = AfterDrain([disc EXCEPT !.pc = "displaced", !.target = Target(h),
                                               !.snapshot = Failed, !.victims = Displaced(h)])
    /\ UNCHANGED <<world, loop, spawn, stopping, mgr>>

DiscMonitor ==
    /\ disc.pc = "monitor"
    /\ Admit(disc.target, disc.probe)
    /\ disc' = NextEntry
    /\ UNCHANGED <<world, spawn, stopping, mgr>>

\* What is left in known has vanished: whatever is at its path goes.
Sweep ==
    LET P == {p \in Path : disc.known[p] # NoHandle} IN
    /\ disc.pc = "scan" /\ disc.todo = {}
    /\ fleet' = Removed(P)
    /\ disc' = AfterDrain([disc EXCEPT !.pc = "sweep", !.known = [p \in Path |-> NoHandle],
                                       !.victims = {fleet.roots[p] : p \in P} \ {NoHandle}])
    /\ UNCHANGED <<world, loop, spawn, stopping, mgr>>
-----------------------------------------------------------------------------
(* The loops of a handle *)

\* snapshotLoop ticks: the client under the lock, then its snapshot.  One that failed, or is not
\* usable yet, marks the handle stale: see StopSession.
PollTick(h) ==
    /\ loop[h].pc = "wait"
    /\ IF fleet.handle[h].cancelled \/ mgr.quiesced
       THEN loop' = [loop EXCEPT ![h].pc = "done"]
       ELSE \E a \in Usable(fleet.handle[h].path) :
               loop' = [loop EXCEPT ![h] = [pc |-> "got", snapshot |-> a]]
    /\ UNCHANGED <<world, fleet, disc, spawn, stopping, mgr>>

\* What it does with the snapshot.
PollGot(h) ==
    LET a == loop[h].snapshot
        back == [loop EXCEPT ![h] = [pc |-> "wait", snapshot |-> Failed]]
        ended == [loop EXCEPT ![h] = [pc |-> "done", snapshot |-> Failed]]
        retained == [fleet EXCEPT !.handle[h] = [fleet.handle[h] EXCEPT !.tree = Tree(a),
                                                                        !.actionable = FALSE]] IN
    /\ loop[h].pc = "got"
    /\ \/ mgr.quiesced /\ loop' = ended /\ UNCHANGED fleet
       \/ /\ ~mgr.quiesced
          /\ \/ /\ a.life = "ending"
                /\ fleet' = IF h \in InFleet THEN retained ELSE fleet
                /\ loop' = back
             \/ /\ a.life = "live" /\ Refused(h, a)
                /\ loop' = IF fleet.handle[h].cancelled THEN ended ELSE back
                /\ UNCHANGED fleet
             \/ /\ a.life = "live" /\ ~Refused(h, a)
                /\ fleet' = Committed(h, a, TRUE, {}) /\ loop' = back
    /\ UNCHANGED <<world, disc, spawn, stopping, mgr>>
-----------------------------------------------------------------------------
(* SpawnRootWithRequest *)

Spawned(g, n) == spawn' = [spawn EXCEPT ![g] = n]

SpawnFails(g) == [spawn[g] EXCEPT !.pc = "stop", !.result = "error", !.snapshot = Failed]

\* The process starts; a launch that fails before leaves nothing behind.
SpawnStart(g) ==
    /\ g \in Launched /\ spawn[g].pc = "idle" /\ ~mgr.quiesced
    /\ life' = [life EXCEPT ![g] = "boot"]
    /\ Spawned(g, [spawn[g] EXCEPT !.pc = "bootstrap"])
    /\ UNCHANGED <<disk, kids, fleet, loop, disc, stopping, mgr>>

\* The bootstrap is delivered, or the root is killed at once.
Bootstrap(g) ==
    /\ g \in Launched /\ spawn[g].pc = "bootstrap"
    /\ \/ Spawned(g, [spawn[g] EXCEPT !.pc = "poll"])
       \/ Spawned(g, [spawn[g] EXCEPT !.pc = "done", !.result = "error", !.killed = TRUE])
    /\ UNCHANGED <<world, fleet, loop, disc, stopping, mgr>>

\* admitRoot gives up: a failed status, the exit of the process, the context or its timeout.
GiveUp(g) ==
    /\ g \in Launched /\ spawn[g].pc = "poll"
    /\ Spawned(g, SpawnFails(g))
    /\ UNCHANGED <<world, fleet, loop, disc, stopping, mgr>>

\* A tick of admitRoot: identity, then probe with the client kept from the last one.
SpawnProbe(g, h) ==
    LET p == PathOf[g] IN
    /\ g \in Launched /\ spawn[g].pc = "poll" /\ disk[p] # NoGen
    /\ spawn[g].gen \in {NoGen, disk[p]}
    /\ IF spawn[g].probe = NoHandle THEN fleet.handle[h].client = "none" ELSE h = spawn[g].probe
    /\ \E a \in Answers(p) :
          IF a = Failed
          THEN /\ fleet' = IF spawn[g].probe = NoHandle THEN fleet ELSE WithClosed(fleet, {h})
               /\ Spawned(g, [spawn[g] EXCEPT !.gen = disk[p], !.probe = NoHandle])
          ELSE /\ fleet' = IF spawn[g].probe = NoHandle
                           THEN [fleet EXCEPT !.handle[h] = Fresh(p, disk[p])] ELSE fleet
               /\ Spawned(g, [spawn[g] EXCEPT !.pc = "probed", !.gen = disk[p], !.probe = h,
                                         !.snapshot = a])
    /\ UNCHANGED <<world, loop, disc, stopping, mgr>>

\* The rest of the tick: probe's second look at the socket, the lifecycle, then
\* observeRootBeforeCommit, which sees a failed status or an exit if it has arrived by then.
SpawnRetry(g) ==
    LET same == disk[PathOf[g]] = spawn[g].gen IN
    /\ g \in Launched /\ spawn[g].pc = "probed" /\ (~same \/ spawn[g].snapshot.life # "live")
    /\ fleet' = IF same THEN fleet ELSE WithClosed(fleet, {spawn[g].probe})
    /\ Spawned(g, [spawn[g] EXCEPT !.pc = "poll", !.snapshot = Failed, !.known = @ \/ same,
                              !.probe = IF same THEN @ ELSE NoHandle])
    /\ UNCHANGED <<world, loop, disc, stopping, mgr>>

\* commitSpawn: the name is admitted together with the routes.
SpawnCommit(g) ==
    LET h == spawn[g].probe
        known == [spawn[g] EXCEPT !.known = TRUE, !.snapshot = Failed] IN
    /\ g \in Launched /\ spawn[g].pc = "probed"
    /\ disk[PathOf[g]] = spawn[g].gen /\ spawn[g].snapshot.life = "live"
    /\ \/ /\ life[g] \in {"ending", "dead"} \/ Refused(h, spawn[g].snapshot)
          /\ Spawned(g, [known EXCEPT !.pc = "stop", !.result = "error"]) /\ UNCHANGED fleet
       \/ /\ ~Refused(h, spawn[g].snapshot)
          /\ fleet' = Committed(h, spawn[g].snapshot, TRUE, {"launch"})
          /\ Spawned(g, [known EXCEPT !.pc = "monitor", !.target = Target(h)])
    /\ UNCHANGED <<world, loop, disc, stopping, mgr>>

\* The end of commitSpawn.  Refused, the root is torn down like any failed spawn.
SpawnMonitor(g) ==
    /\ g \in Launched /\ spawn[g].pc = "monitor"
    /\ Admit(spawn[g].target, spawn[g].probe)
    /\ Spawned(g, IF mgr.quiesced \/ mgr.closed
                  THEN [SpawnFails(g) EXCEPT !.probe = NoHandle, !.target = NoHandle]
                  ELSE [SpawnIdle EXCEPT !.pc = "done", !.result = "ok"])
    /\ UNCHANGED <<world, disc, stopping, mgr>>

\* cleanupFailedSpawn: a responsive root is asked to stop, and the client is closed.
CleanupStop(g) ==
    /\ g \in Launched /\ spawn[g].pc = "stop"
    /\ \/ /\ spawn[g].known /\ spawn[g].probe # NoHandle /\ life[g] \in {"early", "live"}
          /\ life' = [life EXCEPT ![g] = "ending"]
       \/ UNCHANGED life
    /\ fleet' = WithClosed(fleet, {spawn[g].probe} \ {NoHandle})
    /\ Spawned(g, [spawn[g] EXCEPT !.pc = "term", !.probe = NoHandle, !.known = FALSE])
    /\ UNCHANGED <<disk, kids, loop, disc, stopping, mgr>>

\* A wait, then SIGTERM; a wait, then SIGKILL, each unless the process has exited.
CleanupTerm(g) ==
    /\ g \in Launched /\ spawn[g].pc = "term"
    /\ life' = IF life[g] \in {"early", "live"} THEN [life EXCEPT ![g] = "ending"] ELSE life
    /\ Spawned(g, [spawn[g] EXCEPT !.pc = "kill"])
    /\ UNCHANGED <<disk, kids, fleet, loop, disc, stopping, mgr>>

\* Mutant: a root that ignores SIGTERM is left alone.
CleanupGivesUp(g) ==
    /\ g \in Launched /\ spawn[g].pc = "kill"
    /\ Spawned(g, [spawn[g] EXCEPT !.pc = "reap"])
    /\ UNCHANGED <<world, fleet, loop, disc, stopping, mgr>>

CleanupKill(g) ==
    /\ g \in Launched /\ spawn[g].pc = "kill"
    /\ Spawned(g, [spawn[g] EXCEPT !.pc = "reap", !.killed = life[g] # "dead"])
    /\ UNCHANGED <<world, fleet, loop, disc, stopping, mgr>>

\* The exit is seen and the socket unlinked if it is the one admission observed; or the
\* budget of the cleanup ends first.
CleanupReap(g) ==
    /\ g \in Launched /\ spawn[g].pc = "reap"
    /\ \/ /\ life[g] = "dead"
          /\ disk' = IF spawn[g].gen # NoGen /\ disk[PathOf[g]] = spawn[g].gen
                     THEN [disk EXCEPT ![PathOf[g]] = NoGen] ELSE disk
       \/ UNCHANGED disk
    /\ Spawned(g, [spawn[g] EXCEPT !.pc = "done", !.gen = NoGen, !.known = FALSE])
    /\ UNCHANGED <<life, kids, fleet, loop, disc, stopping, mgr>>

\* SIGKILL takes effect.
Die(g) ==
    /\ g \in Launched /\ spawn[g].killed /\ life[g] # "dead"
    /\ life' = [life EXCEPT ![g] = "dead"]
    /\ UNCHANGED <<disk, kids, fleet, loop, disc, spawn, stopping, mgr>>
-----------------------------------------------------------------------------
(* Requests of the user, and shutdown *)

\* A root that cannot be acted on: it is retained, or stale.  Only its own snapshot loop makes a
\* handle stale, by a tick that fails, and that any tick may do (see PollTick).
Unreachable(h) == ~fleet.handle[h].actionable \/ loop[h].pc # "off"

\* StopSession evicts a root it cannot act on; of another one it asks the root.
StopSession(s) ==
    /\ "stop" \in Request /\ ~mgr.quiesced
    /\ \E p \in Path :
          LET h == fleet.roots[p] IN
          /\ h # NoHandle /\ fleet.routes[s] = RootOfHandle(h)
          /\ \/ /\ Unreachable(h) /\ mgr.evictions < MaxEvictions
                /\ mgr' = [mgr EXCEPT !.evictions = @ + 1]
                /\ fleet' = Removed({p}) /\ stopping' = stopping \cup {h} /\ UNCHANGED life
             \/ /\ fleet.handle[h].actionable
                /\ \E g \in Gen : /\ disk[p] = g /\ life[g] = "live" /\ RootOf[g] = s
                                  /\ life' = [life EXCEPT ![g] = "ending"]
                /\ UNCHANGED <<fleet, stopping, mgr>>
    /\ UNCHANGED <<disk, kids, loop, disc, spawn>>

StopDrain(h) ==
    /\ h \in stopping /\ LoopsEnded(h)
    /\ fleet' = WithClosed(fleet, {h})
    /\ stopping' = stopping \ {h}
    /\ UNCHANGED <<world, loop, disc, spawn, mgr>>

\* RenameRoot: a name, or none.
RenameRoot(r, name) ==
    /\ "rename" \in Request
    /\ \E h \in InFleet :
          /\ fleet.routes[r] = r /\ RootOfHandle(h) = r
          /\ fleet' = [fleet EXCEPT !.handle[h] = [fleet.handle[h] EXCEPT !.touched = TRUE,
                                                                          !.name = name]]
    /\ UNCHANGED <<world, loop, disc, spawn, stopping, mgr>>

Quiesce ==
    /\ "quiesce" \in Request /\ ~mgr.quiesced
    /\ mgr' = [mgr EXCEPT !.quiesced = TRUE]
    /\ UNCHANGED <<world, fleet, loop, disc, spawn, stopping>>

\* Mutant: nobody cancels the loops.
CloseUncancelled ==
    /\ mgr.quiesced /\ ~mgr.closed
    /\ mgr' = [mgr EXCEPT !.closed = TRUE]
    /\ UNCHANGED <<world, fleet, loop, disc, spawn, stopping>>

\* Close marks the manager closed and cancels every monitored handle.
Close ==
    /\ mgr.quiesced /\ ~mgr.closed
    /\ mgr' = [mgr EXCEPT !.closed = TRUE]
    /\ fleet' = [fleet EXCEPT !.handle = [h \in Handle |->
                    [fleet.handle[h] EXCEPT !.cancelled = fleet.handle[h].cancelled
                                                              \/ fleet.handle[h].monitoring]]]
    /\ UNCHANGED <<world, loop, disc, spawn, stopping>>

\* closeClients, once the loops have ended: a Close whose context expires never comes here.
CloseClients ==
    /\ mgr.closed /\ ~mgr.clientsClosed
    /\ \A h \in Handle : LoopsEnded(h)
    /\ mgr' = [mgr EXCEPT !.clientsClosed = TRUE]
    /\ fleet' = [WithClosed(fleet, InFleet) EXCEPT
                    !.roots = [p \in Path |-> NoHandle],
                    !.routes = [s \in Session |-> NoRoot]]
    /\ UNCHANGED <<world, loop, disc, spawn, stopping>>
-----------------------------------------------------------------------------
Discover ==
    \/ List \/ TakeKnown \/ DiscCommit \/ DiscMonitor \/ Sweep
    \/ \E p \in Path : Skip(p) \/ Inspect(p)
    \/ \E h \in Handle : DiscDrain(h) \/ Dial(h)

SpawnStep(g) ==
    \/ Bootstrap(g) \/ GiveUp(g) \/ SpawnRetry(g) \/ SpawnCommit(g) \/ SpawnMonitor(g)
    \/ CleanupStop(g) \/ CleanupTerm(g) \/ CleanupKill(g) \/ CleanupReap(g) \/ Die(g)
    \/ \E h \in Handle : SpawnProbe(g, h)

LoopStep(h) == PollTick(h) \/ PollGot(h)

World == \E g \in Gen : Bind(g) \/ Advance(g) \/ ChangeKids(g) \/ Exit(g)

User ==
    \/ \E g \in Launched : SpawnStart(g)
    \/ \E s \in Session : StopSession(s)
    \/ \E r \in Root, n \in NewName : RenameRoot(r, n)
    \/ Quiesce \/ Close

Next ==
    \/ World \/ Discover \/ User \/ CloseClients
    \/ \E g \in Launched : SpawnStep(g)
    \/ \E h \in Handle : LoopStep(h) \/ StopDrain(h) \/ Collect(h)

Spec == Init /\ [][Next]_vars

\* The scheduler runs every goroutine, a killed process dies, and a handle can be built again.
Fairness ==
    /\ WF_vars(Discover) /\ WF_vars(CloseClients)
    /\ \A g \in Launched : /\ WF_vars(Bootstrap(g)) /\ WF_vars(GiveUp(g)) /\ WF_vars(SpawnRetry(g))
                           /\ WF_vars(SpawnCommit(g)) /\ WF_vars(SpawnMonitor(g))
                           /\ WF_vars(CleanupStop(g)) /\ WF_vars(CleanupTerm(g))
                           /\ WF_vars(CleanupKill(g)) /\ WF_vars(CleanupReap(g)) /\ WF_vars(Die(g))
    /\ \A h \in Handle : WF_vars(LoopStep(h)) /\ WF_vars(StopDrain(h)) /\ WF_vars(Collect(h))

FairSpec == Spec /\ Fairness
-----------------------------------------------------------------------------
(* Properties *)

Running(h) == ~LoopsEnded(h)

\* A root is reached through one socket: however a discovery, a spawn and a snapshot loop
\* overlap, no two handles of the fleet carry the same session ID.
OneSocketPerRoot ==
    \A p, q \in Path : (p # q /\ fleet.roots[p] # NoHandle /\ fleet.roots[q] # NoHandle)
                       => RootOfHandle(fleet.roots[p]) # RootOfHandle(fleet.roots[q])

\* An action on a routed session of an actionable root finds its node in the tree.
RoutesFollowTree ==
    \A h \in InFleet, s \in Session :
        (fleet.handle[h].actionable /\ fleet.routes[s] = RootOfHandle(h))
            => s \in fleet.handle[h].tree

\* MGR-A, as the comment has it: no client is closed while a loop of its handle may use it.
ClientOutlivesLoops ==
    \A h \in Handle : Running(h) => fleet.handle[h].client = "open"

\* MGR-A, as the code keeps it: unless a handle left the fleet in the window between its commit
\* and its monitoring, its client stays open as long as its loops run or it is in the fleet.
DrainBeforeClose ==
    \A h \in Handle : (fleet.handle[h].left \in {"no", "watched"} /\ (Running(h) \/ h \in InFleet))
                           => fleet.handle[h].client = "open"

\* A handle whose loops were cancelled when it left the fleet is never committed again.
NoResurrection == \A h \in InFleet : fleet.handle[h].left # "watched"

\* Once Close has closed the clients and every request has ended, nothing is left open, unless
\* a zombie has displaced a handle: snapshotLoop forgets the handle its commit displaces.
NothingLeaks ==
    /\ mgr.clientsClosed /\ disc.pc = "idle" /\ stopping = {}
    /\ \A g \in Launched : spawn[g].pc \in {"idle", "done"}
    /\ ~\E h \in Handle : Zombie(h)
    => /\ InFleet = {}
       /\ \A h \in Handle : fleet.handle[h].client # "open" /\ LoopsEnded(h)

\* A name the user has set, or cleared, is never overwritten by the launch.
RenameSticks ==
    [][\A h \in Handle :
          (fleet.handle[h].touched /\ fleet'.handle[h].touched
             /\ fleet'.handle[h].name # fleet.handle[h].name)
               => \E r \in Root, n \in Name : RenameRoot(r, n)]_vars

\* A spawn that failed ends: the root it started exits.
FailedSpawnDies ==
    \A g \in Launched : spawn[g].result = "error" ~> (life[g] = "dead" /\ spawn[g].pc = "done")

\* A root that has gone with its socket leaves the fleet, unless the discovery loop may be
\* waiting for the loops of a zombie, which it never sees end.
GoneIsForgotten ==
    \A g \in Gen : (life[g] = "dead" /\ disk[PathOf[g]] # g)
                       ~> \/ mgr.quiesced \/ \E h \in Handle : Zombie(h)
                          \/ \A h \in InFleet : fleet.handle[h].gen # g

\* A Close that is not cut short ends with every client closed.
CloseEnds == mgr.closed ~> mgr.clientsClosed
==============================================================================
