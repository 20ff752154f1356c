------------------------- MODULE RootManagerProofs -------------------------
(***************************************************************************)
(* Proofs about RootManager, for any paths, generations, handles and       *)
(* requests: type correctness, an inductive invariant, and that a root has *)
(* one socket, that clients outlive the loops of a watched handle and that *)
(* a cancelled handle does not return to the fleet.  Then, each from an    *)
(* invariant of its own on top of the first: names stick, routes follow    *)
(* the trees, and every client that is opened is closed.                   *)
(***************************************************************************)
EXTENDS RootManager, TLAPS

USE FleetAssumption

-----------------------------------------------------------------------------
(* The inductive invariant *)

\* Who refers to a handle relies on one of three things.  A probe is nobody else's ...
Private(x) ==
    /\ x \in Handle /\ x \notin InFleet
    /\ fleet.handle[x].client = "open" /\ fleet.handle[x].left = "no"
    /\ ~fleet.handle[x].monitoring

\* ... a victim has left the fleet once ...
Evicted(x) ==
    x \in Handle /\ fleet.handle[x].client # "none" /\ fleet.handle[x].left # "no"

\* ... and a target is in the fleet until it leaves it or the clients are closed.
Targeted(x) ==
    /\ x \in Handle /\ fleet.handle[x].client # "none"
    /\ (fleet.handle[x].left = "no" /\ ~mgr.clientsClosed) => x \in InFleet

\* What the record of a handle says of it.
HandleInv ==
    \A h \in Handle :
        /\ fleet.handle[h].client = "none" => /\ fleet.handle[h].left = "no"
                                               /\ ~fleet.handle[h].monitoring
        /\ fleet.handle[h].left = "watched" => fleet.handle[h].cancelled
        /\ fleet.handle[h].cancelled => fleet.handle[h].monitoring
        /\ fleet.handle[h].monitoring <=> loop[h].pc # "off"
        /\ (fleet.handle[h].monitoring /\ fleet.handle[h].left = "no" /\ ~mgr.clientsClosed)
               => h \in InFleet

RootsInv ==
    \A p \in Path : fleet.roots[p] # NoHandle =>
        /\ fleet.handle[fleet.roots[p]].path = p
        /\ fleet.handle[fleet.roots[p]].client # "none"

MgrInv == (mgr.clientsClosed => mgr.closed) /\ (mgr.closed => mgr.quiesced)

FleetInv ==
    HandleInv /\ RootsInv /\ MgrInv /\ OneSocketPerRoot /\ DrainBeforeClose /\ NoResurrection

DiscInv ==
    /\ disc.pc = "probed" => Private(disc.probe) /\ disc.snapshot.life # "early"
    /\ disc.pc \in {"displaced", "monitor"} => Targeted(disc.target)
    /\ \A x \in disc.victims : Evicted(x)
    /\ disc.pc \in {"drain", "dial"} => disc.gen \in Gen

SpawnGood(g) ==
    /\ (spawn[g].pc # "monitor" /\ spawn[g].probe # NoHandle) => Private(spawn[g].probe)
    /\ spawn[g].pc = "probed" => spawn[g].probe # NoHandle
    /\ spawn[g].pc = "monitor" => Targeted(spawn[g].target)
SpawnInv == \A g \in Launched : SpawnGood(g)

\* The probes of discovery and of each spawn are different handles.
ProbesApart ==
    \A g \in Launched : (disc.pc = "probed" /\ spawn[g].pc # "monitor") => disc.probe # spawn[g].probe
SpawnsApart ==
    \A g, l \in Launched :
        (g # l /\ spawn[g].pc # "monitor" /\ spawn[l].pc # "monitor" /\ spawn[g].probe # NoHandle)
            => spawn[g].probe # spawn[l].probe

StopInv == \A x \in stopping : Evicted(x)

\* A root has answered what is not "not ready yet".
Answered(a) == a.life # "early" => a.gen \in Gen
AnsweredInv ==
    /\ Answered(disc.snapshot) /\ \A h \in Handle : Answered(loop[h].snapshot)
    /\ \A g \in Launched : Answered(spawn[g].snapshot)

ManagerInv ==
    /\ TypeOK /\ FleetInv /\ DiscInv /\ SpawnInv /\ StopInv /\ AnsweredInv
    /\ ProbesApart /\ SpawnsApart
-----------------------------------------------------------------------------
(* Types *)

FleetRec == [roots : [Path -> AnyHandle], routes : [Session -> Root \cup {NoRoot}],
             handle : [Handle -> HandleRecord]]
LoopRec == [pc : {"off", "wait", "got", "done"}, snapshot : Snapshot]
DiscRec == [pc : {"idle", "listed", "scan", "drain", "dial", "probed", "displaced", "monitor",
                  "sweep"},
            todo : SUBSET Path, known : [Path -> AnyHandle], gen : Gen \cup {NoGen},
            probe : AnyHandle, target : AnyHandle, snapshot : Snapshot, victims : SUBSET Handle]
SpawnRec == [pc : {"idle", "bootstrap", "poll", "probed", "monitor", "stop", "term", "kill",
                   "reap", "done"},
             result : {"none", "ok", "error"}, gen : Gen \cup {NoGen}, known : BOOLEAN,
             probe : AnyHandle, target : AnyHandle, snapshot : Snapshot, killed : BOOLEAN]
MgrRec == [quiesced : BOOLEAN, closed : BOOLEAN, clientsClosed : BOOLEAN,
           evictions : 0..MaxEvictions]
WorldOK == disk \in [Path -> Gen \cup {NoGen}] /\ life \in [Gen -> Life] /\ kids \in [Gen -> SUBSET Kid]

\* The parts of the type invariant.
LEMMA Typed ==
    TypeOK <=> /\ WorldOK /\ fleet \in FleetRec /\ loop \in [Handle -> LoopRec]
               /\ disc \in DiscRec /\ spawn \in [Launched -> SpawnRec] /\ stopping \subseteq Handle
               /\ mgr \in MgrRec
BY DEF TypeOK, WorldOK, FleetRec, LoopRec, DiscRec, SpawnRec, MgrRec

\* The same after a step.
LEMMA TypedNext ==
    ASSUME WorldOK', fleet' \in FleetRec, loop' \in [Handle -> LoopRec], disc' \in DiscRec,
           spawn' \in [Launched -> SpawnRec], stopping' \subseteq Handle, mgr' \in MgrRec
    PROVE  TypeOK'
BY DEF TypeOK, WorldOK, FleetRec, LoopRec, DiscRec, SpawnRec, MgrRec

\* What is known of a typed fleet.
LEMMA FleetFields ==
    ASSUME NEW f \in FleetRec
    PROVE  /\ f.roots \in [Path -> AnyHandle] /\ f.routes \in [Session -> Root \cup {NoRoot}]
           /\ f.handle \in [Handle -> HandleRecord]
           /\ \A h \in Handle : /\ f.handle[h] \in HandleRecord /\ f.handle[h].path \in Path
                                /\ f.handle[h].monitoring \in BOOLEAN
                                /\ f.handle[h].cancelled \in BOOLEAN
BY DEF FleetRec, HandleRecord

\* A handle in the fleet is at a path.
LEMMA InFleetAtPath ==
    ASSUME fleet \in FleetRec, RootsInv
    PROVE  /\ \A x : x \in InFleet <=> \E p \in Path : fleet.roots[p] = x /\ x # NoHandle
           /\ \A p \in Path : fleet.roots[p] # NoHandle =>
                 /\ fleet.roots[p] \in Handle /\ fleet.roots[p] \in InFleet
                 /\ fleet.handle[fleet.roots[p]].path = p
           /\ \A x \in InFleet : x \in Handle /\ fleet.roots[fleet.handle[x].path] = x
                                 /\ fleet.handle[x].path \in Path
<1>1. \A p \in Path : fleet.roots[p] \in Handle \cup {NoHandle}
  BY DEF FleetRec, AnyHandle
<1>2. \A x : x \in InFleet <=> \E p \in Path : fleet.roots[p] = x /\ x # NoHandle
  BY Zenon DEF InFleet
<1> QED
  BY <1>1, <1>2 DEF RootsInv

\* A loop goes on, or ends.
LoopMoves ==
    /\ loop' \in [Handle -> LoopRec]
    /\ \A x \in Handle : \/ loop'[x].pc = loop[x].pc
                         \/ loop[x].pc \in {"wait", "got"} /\ loop'[x].pc \in {"wait", "got", "done"}
    /\ \A x \in Handle : Answered(loop'[x].snapshot)

\* What is relied on stays, but for private handles in X.
StandingKept(X) ==
    /\ \A x \in Handle : Evicted(x) => Evicted(x)'
    /\ \A x \in Handle : Targeted(x) => Targeted(x)'
    /\ \A x \in Handle \ X : Private(x) => Private(x)'

\* The manager does not move on.
MgrStays == mgr' \in MgrRec /\ UNCHANGED <<mgr.quiesced, mgr.closed, mgr.clientsClosed>>

\* The fields of a handle that the fleet relies on.
Unmoved(x) ==
    UNCHANGED <<fleet.handle[x].path, fleet.handle[x].gen, fleet.handle[x].left,
                fleet.handle[x].monitoring, fleet.handle[x].cancelled>>

-----------------------------------------------------------------------------
(* What happens to the fleet *)

\* The fields of a fleet from which paths were removed.
LEMMA RemovedFields ==
    ASSUME fleet \in FleetRec, RootsInv, NEW P \in SUBSET Path
    PROVE  LET gone == {fleet.roots[p] : p \in P} \ {NoHandle}
               f == Removed(P) IN
           /\ f \in FleetRec
           /\ \A p \in Path : f.roots[p] = IF p \in P THEN NoHandle ELSE fleet.roots[p]
           /\ \A x \in Handle :
                 /\ x \in gone <=> (x \in InFleet /\ fleet.handle[x].path \in P)
                 /\ x \notin gone => f.handle[x] = fleet.handle[x]
                 /\ x \in gone =>
                       /\ f.handle[x].path = fleet.handle[x].path
                       /\ f.handle[x].gen = fleet.handle[x].gen
                       /\ f.handle[x].client = fleet.handle[x].client
                       /\ f.handle[x].monitoring = fleet.handle[x].monitoring
                       /\ f.handle[x].cancelled = fleet.handle[x].monitoring
                       /\ f.handle[x].left =
                             IF fleet.handle[x].monitoring /\ fleet.handle[x].left = "no"
                             THEN "watched" ELSE "unwatched"
<1> DEFINE gone == {fleet.roots[p] : p \in P} \ {NoHandle}
           R == [p \in Path |-> IF p \in P THEN NoHandle ELSE fleet.roots[p]]
           S == WithoutRoutes(fleet.routes, {RootOfHandle(h) : h \in gone})
           c(h) == [fleet.handle[h] EXCEPT
                       !.cancelled = fleet.handle[h].monitoring,
                       !.left = IF fleet.handle[h].monitoring /\ fleet.handle[h].left = "no"
                                THEN "watched" ELSE "unwatched"]
           T == [h \in Handle |-> IF h \in gone THEN c(h) ELSE fleet.handle[h]]
<1>1. Removed(P) = [roots |-> R, routes |-> S, handle |-> T]
  BY DEF Removed
<1>2. R \in [Path -> AnyHandle] /\ S \in [Session -> Root \cup {NoRoot}]
  BY FleetFields DEF AnyHandle, WithoutRoutes
<1>3. ASSUME NEW h \in Handle
      PROVE  /\ c(h) \in HandleRecord
             /\ c(h).path = fleet.handle[h].path /\ c(h).gen = fleet.handle[h].gen
             /\ c(h).client = fleet.handle[h].client
             /\ c(h).monitoring = fleet.handle[h].monitoring
             /\ c(h).cancelled = fleet.handle[h].monitoring
             /\ c(h).left = IF fleet.handle[h].monitoring /\ fleet.handle[h].left = "no"
                            THEN "watched" ELSE "unwatched"
  <2> DEFINE q == fleet.handle[h]
             l == IF q.monitoring /\ q.left = "no" THEN "watched" ELSE "unwatched"
  <2>1. q \in HandleRecord /\ q.monitoring \in BOOLEAN /\ l \in {"watched", "unwatched"}
    BY FleetFields
  <2>2. c(h) = [q EXCEPT !.cancelled = q.monitoring, !.left = l]
    OBVIOUS
  <2> HIDE DEF c, l, q
  <2>3. c(h) \in HandleRecord
    BY <2>1, <2>2, Zenon DEF HandleRecord
  <2>4. /\ c(h).path = q.path /\ c(h).gen = q.gen /\ c(h).client = q.client
        /\ c(h).monitoring = q.monitoring /\ c(h).cancelled = q.monitoring /\ c(h).left = l
    BY <2>1, <2>2 DEF HandleRecord
  <2> QED
    BY <2>3, <2>4 DEF l, q
<1>4. T \in [Handle -> HandleRecord]
  BY <1>3, FleetFields
<1>5. \A x \in Handle : x \in gone <=> (x \in InFleet /\ fleet.handle[x].path \in P)
  BY InFleetAtPath
<1>6. /\ \A p \in Path : R[p] = IF p \in P THEN NoHandle ELSE fleet.roots[p]
      /\ \A x \in Handle : T[x] = IF x \in gone THEN c(x) ELSE fleet.handle[x]
  OBVIOUS
<1> HIDE DEF R, S, T, c, gone
<1>7. Removed(P) \in FleetRec /\ Removed(P).roots = R /\ Removed(P).handle = T
  BY <1>1, <1>2, <1>4 DEF FleetRec
<1> QED
  BY <1>3, <1>5, <1>6, <1>7 DEF gone

\* The fields of a fleet in which clients were closed.
LEMMA ClosedFields ==
    ASSUME NEW f \in FleetRec, NEW X
    PROVE  LET g == WithClosed(f, X) IN
           /\ g \in FleetRec /\ g.roots = f.roots /\ g.routes = f.routes
           /\ \A x \in Handle :
                 /\ x \notin X => g.handle[x] = f.handle[x]
                 /\ g.handle[x].path = f.handle[x].path /\ g.handle[x].gen = f.handle[x].gen
                 /\ g.handle[x].left = f.handle[x].left
                 /\ g.handle[x].monitoring = f.handle[x].monitoring
                 /\ g.handle[x].cancelled = f.handle[x].cancelled
                 /\ x \in X => g.handle[x].client = "closed"
<1> DEFINE c(h) == [f.handle[h] EXCEPT !.client = "closed"]
           T == [h \in Handle |-> IF h \in X THEN c(h) ELSE f.handle[h]]
<1>1. WithClosed(f, X) = [f EXCEPT !.handle = T]
  BY DEF WithClosed
<1>2. ASSUME NEW h \in Handle
      PROVE  /\ c(h) \in HandleRecord
             /\ c(h).path = f.handle[h].path /\ c(h).gen = f.handle[h].gen
             /\ c(h).left = f.handle[h].left /\ c(h).monitoring = f.handle[h].monitoring
             /\ c(h).cancelled = f.handle[h].cancelled /\ c(h).client = "closed"
  <2>1. f.handle[h] \in HandleRecord
    BY FleetFields
  <2>2. c(h) \in HandleRecord
    BY <2>1, Zenon DEF HandleRecord
  <2> QED
    BY <2>1, <2>2 DEF HandleRecord
<1>3. T \in [Handle -> HandleRecord]
  BY <1>2, FleetFields
<1>4. \A x \in Handle : T[x] = IF x \in X THEN c(x) ELSE f.handle[x]
  OBVIOUS
<1> HIDE DEF T, c
<1>5. /\ WithClosed(f, X) \in FleetRec /\ WithClosed(f, X).roots = f.roots
      /\ WithClosed(f, X).routes = f.routes /\ WithClosed(f, X).handle = T
  BY <1>1, <1>3 DEF FleetRec
<1> QED
  BY <1>2, <1>4, <1>5

\* The fields of a fleet in which one record is another.
LEMMA SetFields ==
    ASSUME NEW f \in FleetRec, NEW h \in Handle, NEW r \in HandleRecord
    PROVE  LET g == [f EXCEPT !.handle[h] = r] IN
           /\ g \in FleetRec /\ g.roots = f.roots /\ g.routes = f.routes
           /\ g.handle[h] = r /\ \A x \in Handle \ {h} : g.handle[x] = f.handle[x]
<1> DEFINE T == [f.handle EXCEPT ![h] = r]
<1>1. [f EXCEPT !.handle[h] = r] = [f EXCEPT !.handle = T]
  OBVIOUS
<1>2. /\ T \in [Handle -> HandleRecord] /\ T[h] = r
      /\ \A x \in Handle \ {h} : T[x] = f.handle[x]
  BY FleetFields
<1> HIDE DEF T
<1> DEFINE g == [f EXCEPT !.handle = T]
<1>3. g \in FleetRec /\ g.roots = f.roots /\ g.routes = f.routes /\ g.handle = T
  BY <1>2 DEF FleetRec
<1> QED
  BY <1>1, <1>2, <1>3
\* Who is in the fleet after a step.
LEMMA InFleetNext ==
    \A x : x \in InFleet' <=> \E p \in Path : fleet'.roots[p] = x /\ x # NoHandle
BY Zenon DEF InFleet

\* A loop that has ended stays so, while its handle does.
LEMMA RunningKept ==
    ASSUME LoopMoves, NEW x \in Handle, loop[x] \in LoopRec,
           fleet.handle[x].cancelled => fleet'.handle[x].cancelled
    PROVE  /\ Running(x)' => Running(x)
           /\ loop'[x].pc # "off" <=> loop[x].pc # "off"
           /\ Running(x) => loop[x].pc # "off"
BY DEF LoopMoves, Running, LoopsEnded, LoopRec

\* Roots of the fleet stay, or leave.
LEMMA SocketsKept ==
    ASSUME OneSocketPerRoot,
           \A p \in Path : fleet'.roots[p] \in {fleet.roots[p], NoHandle},
           \A p \in Path : fleet.roots[p] # NoHandle =>
              fleet'.handle[fleet.roots[p]].gen = fleet.handle[fleet.roots[p]].gen
    PROVE  OneSocketPerRoot'
<1>1. ASSUME NEW x \in Path, NEW y \in Path, x # y,
             fleet'.roots[x] # NoHandle, fleet'.roots[y] # NoHandle
      PROVE  RootOf[fleet'.handle[fleet'.roots[x]].gen] # RootOf[fleet'.handle[fleet'.roots[y]].gen]
  <2>1. fleet'.roots[x] = fleet.roots[x] /\ fleet'.roots[y] = fleet.roots[y]
    BY <1>1
  <2>2. RootOf[fleet.handle[fleet.roots[x]].gen] # RootOf[fleet.handle[fleet.roots[y]].gen]
    BY <1>1, <2>1 DEF OneSocketPerRoot, RootOfHandle
  <2> QED
    BY <1>1, <2>1, <2>2
<1> QED
  BY <1>1 DEF OneSocketPerRoot, RootOfHandle

\* Roots leave the fleet: their loops are cancelled if they are watched.
LEMMA RemovedKeeps ==
    ASSUME TypeOK, FleetInv, NEW P \in SUBSET Path, fleet' = Removed(P), loop' = loop, MgrStays
    PROVE  /\ fleet' \in FleetRec /\ FleetInv' /\ StandingKept({})
           /\ \A x \in InFleet : fleet.handle[x].path \in P => Evicted(x)'
<1> DEFINE gone == {fleet.roots[p] : p \in P} \ {NoHandle}
           q(x) == fleet.handle[x]
           r(x) == fleet'.handle[x]
<1>1. /\ fleet \in FleetRec /\ loop \in [Handle -> LoopRec] /\ RootsInv /\ HandleInv /\ MgrInv
      /\ OneSocketPerRoot /\ DrainBeforeClose /\ NoResurrection
  BY Typed DEF FleetInv
<1>2. /\ fleet' \in FleetRec
      /\ \A p \in Path : fleet'.roots[p] = IF p \in P THEN NoHandle ELSE fleet.roots[p]
      /\ \A x \in Handle :
            /\ x \in gone <=> (x \in InFleet /\ q(x).path \in P)
            /\ x \notin gone => r(x) = q(x)
            /\ x \in gone =>
                  /\ r(x).path = q(x).path /\ r(x).gen = q(x).gen /\ r(x).client = q(x).client
                  /\ r(x).monitoring = q(x).monitoring /\ r(x).cancelled = q(x).monitoring
                  /\ r(x).left = IF q(x).monitoring /\ q(x).left = "no" THEN "watched" ELSE "unwatched"
  BY <1>1, RemovedFields
<1>3. /\ \A p \in Path : fleet.roots[p] # NoHandle =>
                 /\ fleet.roots[p] \in Handle /\ fleet.roots[p] \in InFleet
                 /\ q(fleet.roots[p]).path = p
      /\ \A x \in InFleet : x \in Handle /\ fleet.roots[q(x).path] = x /\ q(x).path \in Path
  BY <1>1, InFleetAtPath
<1> HIDE DEF gone
<1>4. \A x : x \in InFleet' <=> x \in InFleet /\ x \notin gone
  BY <1>2, <1>3, InFleetNext
<1>5. \A x \in Handle : /\ q(x).left # "no" => r(x).left # "no"
                        /\ r(x).client = q(x).client /\ r(x).monitoring = q(x).monitoring
                        /\ r(x).path = q(x).path /\ r(x).gen = q(x).gen
                        /\ x \in gone => r(x).left # "no"
                        /\ q(x).cancelled => r(x).cancelled
  BY <1>1, <1>2 DEF HandleInv
<1>6. HandleInv'
  <2>1. ASSUME NEW h \in Handle
        PROVE  /\ r(h).client = "none" => r(h).left = "no" /\ ~r(h).monitoring
               /\ r(h).left = "watched" => r(h).cancelled
               /\ r(h).cancelled => r(h).monitoring
               /\ r(h).monitoring <=> loop[h].pc # "off"
               /\ (r(h).monitoring /\ r(h).left = "no" /\ ~mgr.clientsClosed) => h \in InFleet'
    <3>1. CASE h \in gone
      <4>1. q(h).client # "none"
        BY <1>1, <1>2, <1>3, <3>1 DEF RootsInv
      <4> QED
        BY <1>1, <1>2, <1>5, <3>1, <4>1 DEF HandleInv
    <3>2. CASE h \notin gone
      BY <1>1, <1>2, <1>4, <3>2 DEF HandleInv
    <3> QED
      BY <3>1, <3>2
  <2> QED
    BY <2>1 DEF HandleInv, MgrStays
<1>7. RootsInv'
  BY <1>1, <1>2, <1>3, <1>5 DEF RootsInv
<1>8. MgrInv'
  BY <1>1 DEF MgrInv, MgrStays
<1>9. OneSocketPerRoot'
  <2>1. \A p \in Path : fleet'.roots[p] \in {fleet.roots[p], NoHandle}
    BY <1>2
  <2>2. \A p \in Path : fleet.roots[p] # NoHandle => r(fleet.roots[p]).gen = q(fleet.roots[p]).gen
    BY <1>3, <1>5
  <2> QED
    BY <1>1, <2>1, <2>2, SocketsKept
<1>10. DrainBeforeClose'
  <2>1. ASSUME NEW h \in Handle, r(h).left \in {"no", "watched"}, Running(h)' \/ h \in InFleet'
        PROVE  r(h).client = "open"
    <3>1. Running(h)' => Running(h)
      BY <1>5 DEF Running, LoopsEnded
    <3>2. q(h).left \in {"no", "watched"}
      BY <1>2, <1>5, <2>1
    <3>3. Running(h) \/ h \in InFleet
      BY <1>4, <2>1, <3>1
    <3> QED
      BY <1>1, <1>5, <3>2, <3>3 DEF DrainBeforeClose
  <2> QED
    BY <2>1 DEF DrainBeforeClose
<1>11. NoResurrection'
  <2>1. ASSUME NEW h \in InFleet' PROVE r(h).left # "watched"
    BY <1>1, <1>2, <1>3, <1>4 DEF NoResurrection
  <2> QED
    BY <2>1 DEF NoResurrection
<1>12. StandingKept({})
  <2>1. ASSUME NEW x \in Handle, Private(x) PROVE Private(x)'
    BY <1>2, <1>4, <2>1 DEF Private
  <2>2. ASSUME NEW x \in Handle, Targeted(x) PROVE Targeted(x)'
    BY <1>2, <1>4, <1>5, <2>2 DEF Targeted, MgrStays
  <2>3. ASSUME NEW x \in Handle, Evicted(x) PROVE Evicted(x)'
    BY <1>5, <2>3 DEF Evicted
  <2> QED
    BY <2>1, <2>2, <2>3 DEF StandingKept
<1>13. ASSUME NEW x \in InFleet, q(x).path \in P PROVE Evicted(x)'
  <2>1. x \in Handle /\ x \in gone /\ q(x).client # "none"
    BY <1>1, <1>2, <1>3, <1>13 DEF RootsInv
  <2> QED
    BY <1>5, <2>1 DEF Evicted
<1> QED
  BY <1>2, <1>6, <1>7, <1>8, <1>9, <1>10, <1>11, <1>12, <1>13 DEF FleetInv
\* A client may be closed that no loop uses and no path leads to, or whose handle is excepted.
Closable(x) ==
    \/ x \notin InFleet /\ ~Running(x)
    \/ fleet.handle[x].left \notin {"no", "watched"}

\* Clients are closed.
LEMMA ClosedKeeps ==
    ASSUME TypeOK, FleetInv, NEW X \in SUBSET Handle, \A x \in X : Closable(x),
           fleet' = WithClosed(fleet, X), loop' = loop, MgrStays
    PROVE  fleet' \in FleetRec /\ FleetInv' /\ StandingKept(X)
<1> DEFINE q(x) == fleet.handle[x]
           r(x) == fleet'.handle[x]
<1>1. /\ fleet \in FleetRec /\ loop \in [Handle -> LoopRec] /\ RootsInv /\ HandleInv /\ MgrInv
      /\ OneSocketPerRoot /\ DrainBeforeClose /\ NoResurrection
  BY Typed DEF FleetInv
<1>2. /\ fleet' \in FleetRec /\ fleet'.roots = fleet.roots
      /\ \A x \in Handle :
            /\ x \notin X => r(x) = q(x)
            /\ r(x).path = q(x).path /\ r(x).gen = q(x).gen /\ r(x).left = q(x).left
            /\ r(x).monitoring = q(x).monitoring /\ r(x).cancelled = q(x).cancelled
            /\ x \in X => r(x).client = "closed"
  BY <1>1, ClosedFields
<1>3. /\ InFleet' = InFleet /\ \A x \in InFleet : x \in Handle
      /\ \A p \in Path : fleet.roots[p] # NoHandle => fleet.roots[p] \in Handle
  BY <1>1, <1>2, InFleetAtPath DEF InFleet
<1>4. \A x \in Handle : q(x).client # "none" => r(x).client # "none"
  BY <1>2
<1>5. HandleInv'
  <2>1. ASSUME NEW h \in Handle
        PROVE  /\ r(h).client = "none" => r(h).left = "no" /\ ~r(h).monitoring
               /\ r(h).left = "watched" => r(h).cancelled
               /\ r(h).cancelled => r(h).monitoring
               /\ r(h).monitoring <=> loop[h].pc # "off"
               /\ (r(h).monitoring /\ r(h).left = "no" /\ ~mgr.clientsClosed) => h \in InFleet
    BY <1>1, <1>2 DEF HandleInv
  <2> QED
    BY <1>3, <2>1 DEF HandleInv, MgrStays
<1>6. RootsInv'
  BY <1>1, <1>2, <1>3, <1>4 DEF RootsInv
<1>7. MgrInv'
  BY <1>1 DEF MgrInv, MgrStays
<1>8. OneSocketPerRoot'
  <2>1. \A p \in Path : fleet.roots[p] # NoHandle => r(fleet.roots[p]).gen = q(fleet.roots[p]).gen
    BY <1>2, <1>3
  <2> QED
    BY <1>1, <1>2, <2>1, SocketsKept
<1>9. \A h \in Handle : Running(h)' <=> Running(h)
  BY <1>2 DEF Running, LoopsEnded
<1>10. DrainBeforeClose'
  <2>1. ASSUME NEW h \in Handle, r(h).left \in {"no", "watched"}, Running(h) \/ h \in InFleet
        PROVE  r(h).client = "open"
    <3>1. h \notin X
      BY <1>2, <2>1 DEF Closable
    <3> QED
      BY <1>1, <1>2, <2>1, <3>1 DEF DrainBeforeClose
  <2> QED
    BY <1>3, <1>9, <2>1 DEF DrainBeforeClose
<1>11. NoResurrection'
  BY <1>1, <1>2, <1>3 DEF NoResurrection
<1>12. StandingKept(X)
  <2>1. ASSUME NEW x \in Handle \ X, Private(x) PROVE Private(x)'
    BY <1>2, <1>3, <2>1 DEF Private
  <2>2. ASSUME NEW x \in Handle, Targeted(x) PROVE Targeted(x)'
    BY <1>2, <1>3, <1>4, <2>2 DEF Targeted, MgrStays
  <2>3. ASSUME NEW x \in Handle, Evicted(x) PROVE Evicted(x)'
    BY <1>2, <1>4, <2>3 DEF Evicted
  <2> QED
    BY <2>1, <2>2, <2>3 DEF StandingKept
<1> QED
  BY <1>2, <1>5, <1>6, <1>7, <1>8, <1>10, <1>11, <1>12 DEF FleetInv

\* The fields of a fleet in which a tree was committed.
LEMMA CommittedFields ==
    ASSUME fleet \in FleetRec, RootsInv, NEW h \in Handle, NEW a \in Snapshot, a.gen \in Gen,
           NEW actionable \in BOOLEAN, NEW names \in SUBSET Name
    PROVE  LET f == Committed(h, a, actionable, names)
               p == fleet.handle[h].path
               x0 == fleet.roots[p] IN
           /\ f \in FleetRec /\ Target(h) \in Handle
           /\ SameSocket(h) => /\ Target(h) = x0 /\ x0 # h /\ x0 \in Handle /\ f.roots = fleet.roots
                               /\ Displaced(h) = {}
           /\ ~SameSocket(h) =>
                 /\ Target(h) = h /\ Displaced(h) = {x0} \ {h, NoHandle}
                 /\ \A y \in Path : f.roots[y] = IF y = p THEN h ELSE fleet.roots[y]
           /\ \A x \in Handle :
                 /\ f.handle[x].path = fleet.handle[x].path /\ f.handle[x].gen = fleet.handle[x].gen
                 /\ f.handle[x].monitoring = fleet.handle[x].monitoring
                 /\ x \in Displaced(h) =>
                       /\ f.handle[x].client = fleet.handle[x].client
                       /\ f.handle[x].cancelled = fleet.handle[x].monitoring
                       /\ f.handle[x].left =
                             IF fleet.handle[x].monitoring /\ fleet.handle[x].left = "no"
                             THEN "watched" ELSE "unwatched"
                 /\ x \notin Displaced(h) =>
                       /\ f.handle[x].client = IF SameSocket(h) /\ x = h THEN "closed"
                                               ELSE fleet.handle[x].client
                       /\ f.handle[x].cancelled = fleet.handle[x].cancelled
                       /\ f.handle[x].left = fleet.handle[x].left
<1> DEFINE p == fleet.handle[h].path
           x0 == fleet.roots[p]
           t == Target(h)
           base == IF Displaced(h) = {} THEN fleet ELSE Removed({p})
           cleared == WithoutRoutes(base.routes, {RootOfHandle(t)})
           name == IF names = {} \/ base.handle[t].touched THEN base.handle[t].name
                   ELSE CHOOSE n \in names : TRUE
           new == [base.handle[t] EXCEPT !.tree = Tree(a), !.actionable = actionable, !.name = name]
           shut == [base.handle[h] EXCEPT !.client = "closed"]
           R == [base.roots EXCEPT ![new.path] = t]
           S == [s \in Session |-> IF s \in Tree(a) THEN RootOf[a.gen] ELSE cleared[s]]
           T == [x \in Handle |-> IF x = t THEN new ELSE IF x = h THEN shut ELSE base.handle[x]]
<1>1. Committed(h, a, actionable, names) = [roots |-> R, routes |-> S, handle |-> T]
  BY DEF Committed
<1>2. /\ p \in Path /\ x0 \in AnyHandle
      /\ x0 # NoHandle => x0 \in Handle /\ x0 \in InFleet /\ fleet.handle[x0].path = p
  BY FleetFields, InFleetAtPath
<1>3. /\ SameSocket(h) => t = x0 /\ x0 # h /\ x0 # NoHandle /\ Displaced(h) = {}
      /\ ~SameSocket(h) => t = h /\ Displaced(h) = {x0} \ {h, NoHandle}
  BY DEF SameSocket, Rival, Target, Displaced
<1>4. t \in Handle /\ fleet.handle[t].path = p
  BY <1>2, <1>3
<1>5. /\ base \in FleetRec
      /\ Displaced(h) # {} => /\ ~SameSocket(h)
                              /\ \A y \in Path : base.roots[y] = IF y = p THEN NoHandle
                                                                 ELSE fleet.roots[y]
      /\ Displaced(h) = {} => base = fleet
      /\ \A x \in Handle :
            /\ x \notin Displaced(h) => base.handle[x] = fleet.handle[x]
            /\ x \in Displaced(h) =>
                  /\ base.handle[x].path = fleet.handle[x].path
                  /\ base.handle[x].gen = fleet.handle[x].gen
                  /\ base.handle[x].client = fleet.handle[x].client
                  /\ base.handle[x].monitoring = fleet.handle[x].monitoring
                  /\ base.handle[x].cancelled = fleet.handle[x].monitoring
                  /\ base.handle[x].left =
                        IF fleet.handle[x].monitoring /\ fleet.handle[x].left = "no"
                        THEN "watched" ELSE "unwatched"
  <2>1. CASE Displaced(h) = {}
    BY <2>1
  <2>2. CASE Displaced(h) # {}
    <3>1. {fleet.roots[y] : y \in {p}} \ {NoHandle} = {x0} \ {NoHandle}
      OBVIOUS
    <3>2. ~SameSocket(h) /\ Displaced(h) = {x0} \ {NoHandle}
      BY <1>3, <2>2
    <3>3. {p} \in SUBSET Path
      BY <1>2
    <3> HIDE DEF p, x0
    <3> QED
      BY <2>2, <3>1, <3>2, <3>3, RemovedFields
  <2> QED
    BY <2>1, <2>2
<1>6. t \notin Displaced(h) /\ h \notin Displaced(h)
  BY <1>3
<1> HIDE DEF p, x0, t, base
<1>7. base.handle[t] = fleet.handle[t] /\ base.handle[h] = fleet.handle[h]
  BY <1>4, <1>5, <1>6
<1>8. RootOf[a.gen] \in Root /\ Tree(a) \in SUBSET Session
  BY DEF Tree, Snapshot, Session
<1>9. name \in Name
  <2>1. fleet.handle[t].name \in Name
    BY <1>4, FleetFields DEF HandleRecord
  <2> QED
    BY <1>7, <2>1
<1> HIDE DEF name
<1>10. /\ new \in HandleRecord /\ new.path = fleet.handle[t].path /\ new.gen = fleet.handle[t].gen
       /\ new.monitoring = fleet.handle[t].monitoring /\ new.client = fleet.handle[t].client
       /\ new.cancelled = fleet.handle[t].cancelled /\ new.left = fleet.handle[t].left
  <2>1. base.handle[t] \in HandleRecord
    BY <1>4, <1>7, FleetFields
  <2>2. new \in HandleRecord
    BY <1>8, <1>9, <2>1, Zenon DEF HandleRecord
  <2> QED
    BY <1>7, <2>1, <2>2 DEF HandleRecord
<1>11. /\ shut \in HandleRecord /\ shut.path = fleet.handle[h].path /\ shut.gen = fleet.handle[h].gen
       /\ shut.monitoring = fleet.handle[h].monitoring /\ shut.client = "closed"
       /\ shut.cancelled = fleet.handle[h].cancelled /\ shut.left = fleet.handle[h].left
  <2>1. base.handle[h] \in HandleRecord
    BY <1>7, FleetFields
  <2>2. shut \in HandleRecord
    BY <2>1, Zenon DEF HandleRecord
  <2> QED
    BY <1>7, <2>1, <2>2 DEF HandleRecord
<1>12. S \in [Session -> Root \cup {NoRoot}]
  <2>1. cleared \in [Session -> Root \cup {NoRoot}]
    BY <1>5, FleetFields DEF WithoutRoutes
  <2> HIDE DEF cleared
  <2> QED
    BY <1>8, <2>1
<1>13. \A x \in Handle : T[x] = IF x = t THEN new ELSE IF x = h THEN shut ELSE base.handle[x]
  OBVIOUS
<1>14. T \in [Handle -> HandleRecord]
  BY <1>5, <1>10, <1>11, FleetFields
<1>15. R \in [Path -> AnyHandle] /\ \A y \in Path : R[y] = IF y = p THEN t ELSE base.roots[y]
  BY <1>4, <1>5, <1>10, FleetFields DEF AnyHandle
<1> HIDE DEF new, shut, R, S, T
<1>16. /\ Committed(h, a, actionable, names) \in FleetRec
       /\ Committed(h, a, actionable, names).roots = R
       /\ Committed(h, a, actionable, names).handle = T
  BY <1>1, <1>12, <1>14, <1>15 DEF FleetRec
<1>17. SameSocket(h) => R = fleet.roots
  <2>1. ASSUME SameSocket(h) PROVE R = fleet.roots
    <3>1. fleet.roots \in [Path -> AnyHandle]
      BY FleetFields
    <3>2. \A y \in Path : R[y] = fleet.roots[y]
      BY <1>3, <1>5, <1>15, <2>1 DEF x0
    <3> QED
      BY <1>15, <3>1, <3>2
  <2> QED
    BY <2>1
<1>18. ~SameSocket(h) => \A y \in Path : R[y] = IF y = p THEN h ELSE fleet.roots[y]
  BY <1>3, <1>5, <1>15
<1>19. ASSUME NEW x \in Handle
       PROVE  /\ T[x].path = fleet.handle[x].path /\ T[x].gen = fleet.handle[x].gen
              /\ T[x].monitoring = fleet.handle[x].monitoring
              /\ x \in Displaced(h) =>
                    /\ T[x].client = fleet.handle[x].client
                    /\ T[x].cancelled = fleet.handle[x].monitoring
                    /\ T[x].left = IF fleet.handle[x].monitoring /\ fleet.handle[x].left = "no"
                                   THEN "watched" ELSE "unwatched"
              /\ x \notin Displaced(h) =>
                    /\ T[x].client = IF SameSocket(h) /\ x = h THEN "closed"
                                     ELSE fleet.handle[x].client
                    /\ T[x].cancelled = fleet.handle[x].cancelled
                    /\ T[x].left = fleet.handle[x].left
  <2>1. CASE x = t
    BY <1>3, <1>6, <1>10, <1>13, <2>1
  <2>2. CASE x # t /\ x = h
    BY <1>3, <1>6, <1>11, <1>13, <2>2
  <2>3. CASE x # t /\ x # h
    BY <1>5, <1>13, <2>3
  <2> QED
    BY <2>1, <2>2, <2>3
<1> QED
  BY <1>2, <1>3, <1>4, <1>16, <1>17, <1>18, <1>19 DEF p, x0, t
\* A tree is committed by a probe or a loop, which is not refused.
LEMMA CommitKeeps ==
    ASSUME TypeOK, FleetInv, NEW h \in Handle, NEW a \in Snapshot, a.gen \in Gen,
           NEW actionable \in BOOLEAN, NEW names \in SUBSET Name, ~Refused(h, a),
           Private(h) \/ (fleet.handle[h].monitoring /\ Running(h)),
           fleet' = Committed(h, a, actionable, names), LoopMoves, MgrStays
    PROVE  /\ fleet' \in FleetRec /\ FleetInv' /\ StandingKept({h})
           /\ \A t \in Handle : t = Target(h) => Targeted(t)'
           /\ \A x \in Displaced(h) : x \in Handle /\ Evicted(x)'
<1> DEFINE q(x) == fleet.handle[x]
           r(x) == fleet'.handle[x]
           p == fleet.handle[h].path
           x0 == fleet.roots[p]
           D == Displaced(h)
           same == SameSocket(h)
<1>1. /\ fleet \in FleetRec /\ loop \in [Handle -> LoopRec] /\ RootsInv /\ HandleInv /\ MgrInv
      /\ OneSocketPerRoot /\ DrainBeforeClose /\ NoResurrection
  BY Typed DEF FleetInv
<1>2. /\ fleet' \in FleetRec /\ Target(h) \in Handle
      /\ same => /\ Target(h) = x0 /\ x0 # h /\ x0 \in Handle /\ fleet'.roots = fleet.roots /\ D = {}
      /\ ~same => /\ Target(h) = h /\ D = {x0} \ {h, NoHandle}
                  /\ \A y \in Path : fleet'.roots[y] = IF y = p THEN h ELSE fleet.roots[y]
      /\ \A x \in Handle :
            /\ r(x).path = q(x).path /\ r(x).gen = q(x).gen /\ r(x).monitoring = q(x).monitoring
            /\ x \in D =>
                  /\ r(x).client = q(x).client /\ r(x).cancelled = q(x).monitoring
                  /\ r(x).left = IF q(x).monitoring /\ q(x).left = "no" THEN "watched" ELSE "unwatched"
            /\ x \notin D =>
                  /\ r(x).client = IF same /\ x = h THEN "closed" ELSE q(x).client
                  /\ r(x).cancelled = q(x).cancelled /\ r(x).left = q(x).left
  BY <1>1, CommittedFields
<1>3. /\ \A y \in Path : fleet.roots[y] # NoHandle =>
                 /\ fleet.roots[y] \in Handle /\ fleet.roots[y] \in InFleet
                 /\ q(fleet.roots[y]).path = y
      /\ \A x \in InFleet : x \in Handle /\ fleet.roots[q(x).path] = x /\ q(x).path \in Path
      /\ p \in Path /\ h # NoHandle
  BY <1>1, InFleetAtPath, FleetFields
<1>4. /\ ~mgr.closed /\ ~mgr.clientsClosed /\ ~q(h).cancelled
      /\ \A y \in Path \ {p} : fleet.roots[y] \notin {h, NoHandle}
                                  => RootOf[q(fleet.roots[y]).gen] # RootOf[q(h).gen]
  BY <1>1 DEF Refused, MgrInv, RootOfHandle
\* A loop that commits belongs to a handle in the fleet, or to a zombie.
<1>5. /\ q(h).left # "watched" /\ q(h).client # "none"
      /\ q(h).left = "no" => q(h).client = "open"
      /\ (q(h).left = "no" /\ q(h).monitoring) => h \in InFleet
  BY <1>1, <1>4 DEF Private, HandleInv, DrainBeforeClose
<1>6. same => h \notin InFleet /\ ~(q(h).left = "no" /\ q(h).monitoring)
  BY <1>2, <1>3, <1>5
<1> HIDE DEF D, same, x0, p
<1>7. ASSUME NEW x
      PROVE  /\ same => (x \in InFleet' <=> x \in InFleet)
             /\ ~same => (x \in InFleet' <=> x = h \/ (x \in InFleet /\ x \notin D))
  <2>1. CASE same
    <3>1. fleet'.roots = fleet.roots
      BY <1>2, <2>1
    <3> QED
      BY <2>1, <3>1 DEF InFleet
  <2>2. CASE ~same
    <3>1. x \in InFleet' <=> \E y \in Path : fleet'.roots[y] = x /\ x # NoHandle
      BY InFleetNext
    <3>2. x \in InFleet <=> \E y \in Path : fleet.roots[y] = x /\ x # NoHandle
      BY <1>1, InFleetAtPath
    <3>3. D = {x0} \ {h, NoHandle}
             /\ \A y \in Path : fleet'.roots[y] = IF y = p THEN h ELSE fleet.roots[y]
      BY <1>2, <2>2
    <3>4. ASSUME x \in InFleet' PROVE x = h \/ (x \in InFleet /\ x \notin D)
      <4>1. PICK y \in Path : fleet'.roots[y] = x /\ x # NoHandle
        BY <3>1, <3>4
      <4>2. CASE y = p
        BY <3>3, <4>1, <4>2
      <4>3. CASE y # p
        <5>1. fleet.roots[y] = x /\ x \in InFleet /\ q(x).path = y
          BY <1>3, <3>3, <4>1, <4>3
        <5>2. x # x0 \/ x = h
          BY <1>3, <4>3, <5>1 DEF x0
        <5> QED
          BY <3>3, <5>1, <5>2
      <4> QED
        BY <4>2, <4>3
    <3>5. ASSUME x = h \/ (x \in InFleet /\ x \notin D) PROVE x \in InFleet'
      <4>1. CASE x = h
        BY <1>3, <3>1, <3>3, <4>1
      <4>2. CASE x # h /\ x \in InFleet /\ x \notin D
        <5>1. fleet.roots[q(x).path] = x /\ q(x).path \in Path /\ x # NoHandle
          BY <1>3, <3>2, <4>2
        <5>2. q(x).path # p
          BY <3>3, <4>2, <5>1 DEF x0
        <5> QED
          BY <3>1, <3>3, <5>1, <5>2
      <4> QED
        BY <3>5, <4>1, <4>2
    <3> QED
      BY <2>2, <3>4, <3>5
  <2> QED
    BY <2>1, <2>2
\* Those displaced were in the fleet.
<1>8. \A x \in D : x \in Handle /\ x \in InFleet /\ x # h /\ q(x).client # "none" /\ r(x).left # "no"
  BY <1>1, <1>2, <1>3 DEF RootsInv, x0
<1>9. \A x \in Handle : /\ q(x).left # "no" => r(x).left # "no"
                        /\ q(x).client # "none" => r(x).client # "none"
                        /\ q(x).cancelled => r(x).cancelled
  BY <1>1, <1>2 DEF HandleInv
<1>10. \A x \in Handle : /\ Running(x)' => Running(x)
                         /\ loop'[x].pc # "off" <=> loop[x].pc # "off"
  BY <1>1, <1>9, RunningKept
<1>11. HandleInv'
  <2>1. ASSUME NEW x \in Handle
        PROVE  /\ r(x).client = "none" => r(x).left = "no" /\ ~r(x).monitoring
               /\ r(x).left = "watched" => r(x).cancelled
               /\ r(x).cancelled => r(x).monitoring
               /\ r(x).monitoring <=> loop[x].pc # "off"
               /\ (r(x).monitoring /\ r(x).left = "no" /\ ~mgr.clientsClosed) => x \in InFleet'
    <3>1. CASE x \in D
      BY <1>1, <1>2, <1>8, <3>1 DEF HandleInv
    <3>2. CASE x \notin D
      BY <1>1, <1>2, <1>5, <1>7, <3>2 DEF HandleInv
    <3> QED
      BY <3>1, <3>2
  <2> QED
    BY <1>10, <2>1 DEF HandleInv, MgrStays
<1>12. RootsInv'
  <2>1. ASSUME NEW y \in Path, fleet'.roots[y] # NoHandle
        PROVE  r(fleet'.roots[y]).path = y /\ r(fleet'.roots[y]).client # "none"
    <3>1. fleet'.roots[y] = fleet.roots[y] \/ (y = p /\ fleet'.roots[y] = h)
      BY <1>2
    <3>2. CASE fleet'.roots[y] = fleet.roots[y]
      BY <1>1, <1>2, <1>3, <1>9, <2>1, <3>2 DEF RootsInv
    <3>3. CASE y = p /\ fleet'.roots[y] = h
      BY <1>2, <1>5, <1>9, <3>3 DEF p
    <3> QED
      BY <3>1, <3>2, <3>3
  <2> QED
    BY <2>1 DEF RootsInv
<1>13. MgrInv'
  BY <1>1 DEF MgrInv, MgrStays
<1>14. OneSocketPerRoot'
  <2>1. CASE same
    <3>1. \A y \in Path : fleet'.roots[y] = fleet.roots[y]
      BY <1>2, <2>1
    <3>2. \A y \in Path : fleet.roots[y] # NoHandle
                             => r(fleet.roots[y]).gen = q(fleet.roots[y]).gen
      BY <1>2, <1>3
    <3> QED
      BY <1>1, <3>1, <3>2, SocketsKept
  <2>2. CASE ~same
    <3>1. \A y \in Path : fleet'.roots[y] = IF y = p THEN h ELSE fleet.roots[y]
      BY <1>2, <2>2
    <3>2. ASSUME NEW x \in Path, NEW y \in Path, x # y, fleet'.roots[x] # NoHandle,
                 fleet'.roots[y] # NoHandle
          PROVE  RootOf[r(fleet'.roots[x]).gen] # RootOf[r(fleet'.roots[y]).gen]
      <4>1. ASSUME NEW z \in Path, z # p, fleet'.roots[z] # NoHandle
            PROVE  /\ fleet'.roots[z] = fleet.roots[z] /\ fleet.roots[z] # h
                   /\ r(fleet'.roots[z]).gen = q(fleet.roots[z]).gen
                   /\ RootOf[q(fleet.roots[z]).gen] # RootOf[q(h).gen]
        <5>1. fleet'.roots[z] = fleet.roots[z] /\ fleet.roots[z] \in Handle
                 /\ q(fleet.roots[z]).path = z
          BY <1>3, <3>1, <4>1
        <5>2. fleet.roots[z] # h
          BY <4>1, <5>1 DEF p
        <5> QED
          BY <1>2, <1>4, <4>1, <5>1, <5>2
      <4>2. fleet'.roots[p] = h /\ r(h).gen = q(h).gen
        BY <1>2, <1>3, <3>1
      <4>3. CASE x = p
        <5>1. RootOf[r(fleet'.roots[x]).gen] = RootOf[q(h).gen]
          BY <4>2, <4>3
        <5>2. /\ r(fleet'.roots[y]).gen = q(fleet.roots[y]).gen
              /\ RootOf[q(fleet.roots[y]).gen] # RootOf[q(h).gen]
          BY <3>2, <4>1, <4>3
        <5> QED
          BY <5>1, <5>2
      <4>4. CASE y = p
        <5>1. RootOf[r(fleet'.roots[y]).gen] = RootOf[q(h).gen]
          BY <4>2, <4>4
        <5>2. /\ r(fleet'.roots[x]).gen = q(fleet.roots[x]).gen
              /\ RootOf[q(fleet.roots[x]).gen] # RootOf[q(h).gen]
          BY <3>2, <4>1, <4>4
        <5> QED
          BY <5>1, <5>2
      <4>5. CASE x # p /\ y # p
        <5>1. RootOf[q(fleet.roots[x]).gen] # RootOf[q(fleet.roots[y]).gen]
          BY <1>1, <3>1, <3>2, <4>5 DEF OneSocketPerRoot, RootOfHandle
        <5> QED
          BY <3>2, <4>1, <4>5, <5>1
      <4> QED
        BY <4>3, <4>4, <4>5
    <3> QED
      BY <3>2 DEF OneSocketPerRoot, RootOfHandle
  <2> QED
    BY <2>1, <2>2
<1>15. DrainBeforeClose'
  <2>1. ASSUME NEW x \in Handle, r(x).left \in {"no", "watched"}, Running(x)' \/ x \in InFleet'
        PROVE  r(x).client = "open"
    <3>1. CASE x = h
      <4>1. q(h).left = "no" /\ q(h).client = "open" /\ h \notin D
        BY <1>2, <1>5, <1>8, <2>1, <3>1
      <4>2. CASE same
        <5>1. Running(h) => q(h).monitoring
          BY <1>1 DEF HandleInv, Running, LoopsEnded
        <5>2. Running(h) \/ h \in InFleet
          BY <1>7, <1>10, <2>1, <3>1, <4>2
        <5> QED
          BY <1>6, <4>1, <4>2, <5>1, <5>2
      <4>3. CASE ~same
        BY <1>2, <3>1, <4>1, <4>3
      <4> QED
        BY <4>2, <4>3
    <3>2. CASE x # h
      <4>1. r(x).client = q(x).client /\ q(x).left \in {"no", "watched"}
        BY <1>2, <2>1, <3>2
      <4>2. Running(x) \/ x \in InFleet
        BY <1>7, <1>10, <2>1, <3>2
      <4> QED
        BY <1>1, <4>1, <4>2 DEF DrainBeforeClose
    <3> QED
      BY <3>1, <3>2
  <2> QED
    BY <2>1 DEF DrainBeforeClose
<1>16. NoResurrection'
  <2>1. ASSUME NEW x \in InFleet' PROVE r(x).left # "watched"
    <3>1. x = h \/ (x \in InFleet /\ x \notin D)
      BY <1>2, <1>7, <2>1
    <3>2. x \in Handle /\ x \notin D /\ q(x).left # "watched"
      BY <1>1, <1>3, <1>5, <1>8, <3>1 DEF NoResurrection
    <3> QED
      BY <1>2, <3>2
  <2> QED
    BY <2>1 DEF NoResurrection
<1>17. StandingKept({h})
  <2>1. ASSUME NEW x \in Handle \ {h}, Private(x) PROVE Private(x)'
    BY <1>2, <1>7, <1>8, <2>1 DEF Private
  <2>2. ASSUME NEW x \in Handle, Targeted(x) PROVE Targeted(x)'
    BY <1>2, <1>7, <1>8, <1>9, <2>2 DEF Targeted, MgrStays
  <2>3. ASSUME NEW x \in Handle, Evicted(x) PROVE Evicted(x)'
    BY <1>9, <2>3 DEF Evicted
  <2> QED
    BY <2>1, <2>2, <2>3 DEF StandingKept
<1>18. ASSUME NEW t \in Handle, t = Target(h) PROVE Targeted(t)'
  <2>1. t \in InFleet' /\ r(t).client # "none"
    <3>1. CASE same
      <4>1. t = x0 /\ t \in Handle
        BY <1>2, <1>18, <3>1
      <4>2. t # NoHandle
        BY <4>1
      <4>3. t \in InFleet /\ q(t).client # "none"
        BY <1>1, <1>3, <4>1, <4>2 DEF RootsInv, x0
      <4> QED
        BY <1>7, <1>9, <3>1, <4>1, <4>3
    <3>2. CASE ~same
      BY <1>2, <1>5, <1>7, <1>9, <1>18, <3>2
    <3> QED
      BY <3>1, <3>2
  <2> QED
    BY <2>1 DEF Targeted
<1>19. ASSUME NEW x \in D PROVE x \in Handle /\ Evicted(x)'
  BY <1>8, <1>9, <1>19 DEF Evicted
<1> QED
  BY <1>2, <1>11, <1>12, <1>13, <1>14, <1>15, <1>16, <1>17, <1>18, <1>19 DEF FleetInv, D
\* Loops go on, are cancelled or end, and what the fleet does not rely on changes.
LEMMA LoopsKeep ==
    ASSUME TypeOK, FleetInv, fleet' \in FleetRec, fleet'.roots = fleet.roots, LoopMoves,
           \A x \in Handle :
              /\ UNCHANGED <<fleet.handle[x].path, fleet.handle[x].gen, fleet.handle[x].left,
                             fleet.handle[x].monitoring, fleet.handle[x].client>>
              /\ fleet.handle[x].cancelled => fleet'.handle[x].cancelled
              /\ fleet'.handle[x].cancelled => fleet.handle[x].monitoring,
           mgr' \in MgrRec, UNCHANGED mgr.clientsClosed, MgrInv'
    PROVE  FleetInv' /\ StandingKept({})
<1> DEFINE q(x) == fleet.handle[x]
           r(x) == fleet'.handle[x]
<1>1. /\ fleet \in FleetRec /\ loop \in [Handle -> LoopRec] /\ RootsInv /\ HandleInv
      /\ OneSocketPerRoot /\ DrainBeforeClose /\ NoResurrection
  BY Typed DEF FleetInv
<1>2. \A x \in Handle :
         /\ r(x).path = q(x).path /\ r(x).gen = q(x).gen /\ r(x).left = q(x).left
         /\ r(x).monitoring = q(x).monitoring /\ r(x).client = q(x).client
         /\ q(x).cancelled => r(x).cancelled
         /\ r(x).cancelled => r(x).monitoring
  OBVIOUS
<1>3. /\ InFleet' = InFleet /\ \A x \in InFleet : x \in Handle
      /\ \A p \in Path : fleet.roots[p] # NoHandle => fleet.roots[p] \in Handle
  BY <1>1, InFleetAtPath DEF InFleet
<1>4. \A x \in Handle : /\ Running(x)' => Running(x)
                        /\ loop'[x].pc # "off" <=> loop[x].pc # "off"
  BY <1>1, <1>2, RunningKept
<1>5. HandleInv'
  <2>1. ASSUME NEW x \in Handle
        PROVE  /\ r(x).client = "none" => r(x).left = "no" /\ ~r(x).monitoring
               /\ r(x).left = "watched" => r(x).cancelled
               /\ r(x).cancelled => r(x).monitoring
               /\ r(x).monitoring <=> loop[x].pc # "off"
               /\ (r(x).monitoring /\ r(x).left = "no" /\ ~mgr.clientsClosed) => x \in InFleet
    BY <1>1, <1>2 DEF HandleInv
  <2> QED
    BY <1>3, <1>4, <2>1 DEF HandleInv
<1>6. RootsInv'
  BY <1>1, <1>2, <1>3 DEF RootsInv
<1>7. OneSocketPerRoot'
  <2>1. \A p \in Path : fleet.roots[p] # NoHandle => r(fleet.roots[p]).gen = q(fleet.roots[p]).gen
    BY <1>2, <1>3
  <2> QED
    BY <1>1, <1>2, <2>1, SocketsKept
<1>8. DrainBeforeClose'
  BY <1>1, <1>2, <1>3, <1>4 DEF DrainBeforeClose
<1>9. NoResurrection'
  BY <1>1, <1>2, <1>3 DEF NoResurrection
<1>10. StandingKept({})
  <2>1. ASSUME NEW x \in Handle, Private(x) PROVE Private(x)'
    BY <1>2, <1>3, <2>1 DEF Private
  <2>2. ASSUME NEW x \in Handle, Targeted(x) PROVE Targeted(x)'
    BY <1>2, <1>3, <2>2 DEF Targeted
  <2>3. ASSUME NEW x \in Handle, Evicted(x) PROVE Evicted(x)'
    BY <1>2, <2>3 DEF Evicted
  <2> QED
    BY <2>1, <2>2, <2>3 DEF StandingKept
<1> QED
  BY <1>5, <1>6, <1>7, <1>8, <1>9, <1>10 DEF FleetInv

\* Nothing happens to the fleet.
LEMMA IdleKeeps ==
    ASSUME TypeOK, FleetInv, fleet' = fleet, LoopMoves, MgrStays
    PROVE  FleetInv' /\ StandingKept({})
<1>1. fleet \in FleetRec /\ MgrInv' /\ mgr' \in MgrRec /\ UNCHANGED mgr.clientsClosed
  BY Typed DEF FleetInv, MgrInv, MgrStays
<1>2. \A x \in Handle : fleet.handle[x].cancelled => fleet.handle[x].monitoring
  BY DEF FleetInv, HandleInv
<1> QED
  BY <1>1, <1>2, LoopsKeep

\* A handle that one step fills or forgets: nobody relies on it, and no path leads to it.
LEMMA OneHandleKeeps ==
    ASSUME TypeOK, FleetInv, NEW h \in Handle, h \notin InFleet, NEW r \in HandleRecord,
           fleet' \in FleetRec, fleet'.roots = fleet.roots, fleet'.handle[h] = r,
           \A x \in Handle \ {h} : fleet'.handle[x] = fleet.handle[x],
           \A x \in Handle \ {h} : loop'[x] = loop[x],
           loop'[h].pc = "off", r.left = "no", ~r.monitoring, ~r.cancelled, MgrStays
    PROVE  /\ FleetInv'
           /\ \A x \in Handle \ {h} : /\ Evicted(x) => Evicted(x)'
                                      /\ Targeted(x) => Targeted(x)'
                                      /\ Private(x) => Private(x)'
           /\ r.client = "open" => Private(h)'
<1>1. /\ fleet \in FleetRec /\ loop \in [Handle -> LoopRec] /\ RootsInv /\ HandleInv /\ MgrInv
      /\ OneSocketPerRoot /\ DrainBeforeClose /\ NoResurrection
  BY Typed DEF FleetInv
<1>2. /\ InFleet' = InFleet /\ \A x \in InFleet : x \in Handle /\ x # h
      /\ \A p \in Path : fleet.roots[p] # NoHandle => fleet.roots[p] \in Handle \ {h}
  BY <1>1, InFleetAtPath DEF InFleet
<1>3. ~Running(h)' /\ \A x \in Handle \ {h} : Running(x)' <=> Running(x)
  BY DEF Running, LoopsEnded
<1>4. HandleInv'
  <2>1. ASSUME NEW x \in Handle
        PROVE  LET rx == fleet'.handle[x] IN
               /\ rx.client = "none" => rx.left = "no" /\ ~rx.monitoring
               /\ rx.left = "watched" => rx.cancelled
               /\ rx.cancelled => rx.monitoring
               /\ rx.monitoring <=> loop'[x].pc # "off"
               /\ (rx.monitoring /\ rx.left = "no" /\ ~mgr.clientsClosed) => x \in InFleet
    <3>1. CASE x = h
      BY <3>1
    <3>2. CASE x # h
      BY <1>1, <3>2 DEF HandleInv
    <3> QED
      BY <3>1, <3>2
  <2> QED
    BY <1>2, <2>1 DEF HandleInv, MgrStays
<1>5. RootsInv'
  BY <1>1, <1>2 DEF RootsInv
<1>6. OneSocketPerRoot'
  <2>1. \A p \in Path : fleet.roots[p] # NoHandle
           => fleet'.handle[fleet.roots[p]].gen = fleet.handle[fleet.roots[p]].gen
    BY <1>2
  <2> QED
    BY <1>1, <2>1, SocketsKept
<1>7. DrainBeforeClose'
  BY <1>1, <1>2, <1>3 DEF DrainBeforeClose
<1>8. NoResurrection'
  BY <1>1, <1>2 DEF NoResurrection
<1>9. MgrInv'
  BY <1>1 DEF MgrInv, MgrStays
<1>10. ASSUME NEW x \in Handle \ {h}
       PROVE  /\ Evicted(x) => Evicted(x)'
              /\ Targeted(x) => Targeted(x)'
              /\ Private(x) => Private(x)'
  BY <1>2 DEF Evicted, Targeted, Private, MgrStays
<1>11. r.client = "open" => Private(h)'
  BY <1>2 DEF Private
<1> QED
  BY <1>4, <1>5, <1>6, <1>7, <1>8, <1>9, <1>10, <1>11 DEF FleetInv

\* A handle nobody has built is not in use.
LEMMA UnbuiltFree ==
    ASSUME TypeOK, FleetInv, NEW h \in Handle, fleet.handle[h].client = "none"
    PROVE  h \notin InFleet /\ loop[h].pc = "off" /\ ~Evicted(h) /\ ~Targeted(h) /\ ~Private(h)
<1>1. fleet \in FleetRec /\ loop \in [Handle -> LoopRec] /\ RootsInv /\ HandleInv
  BY Typed DEF FleetInv
<1>2. h \notin InFleet
  BY <1>1, InFleetAtPath DEF RootsInv
<1> QED
  BY <1>1, <1>2 DEF HandleInv, Evicted, Targeted, Private

\* A handle nobody has built is a handle.
LEMMA UnbuiltIsTyped ==
    /\ Unbuilt \in HandleRecord /\ Unbuilt.left = "no" /\ ~Unbuilt.monitoring
    /\ ~Unbuilt.cancelled /\ Unbuilt.client = "none"
<1> DEFINE p0 == CHOOSE x \in Path : TRUE
<1>1. p0 \in Path
  OBVIOUS
<1>2. Unbuilt = [path |-> p0, gen |-> NoGen, tree |-> {}, actionable |-> FALSE,
                 name |-> "", touched |-> FALSE, monitoring |-> FALSE,
                 cancelled |-> FALSE, left |-> "no", client |-> "none"]
  BY DEF Unbuilt
<1> HIDE DEF p0
<1> QED
  BY <1>1, <1>2 DEF HandleRecord, Name

\* A new client.
LEMMA FreshIsTyped ==
    ASSUME NEW p \in Path, NEW g \in Gen
    PROVE  /\ Fresh(p, g) \in HandleRecord /\ Fresh(p, g).left = "no" /\ ~Fresh(p, g).monitoring
           /\ ~Fresh(p, g).cancelled /\ Fresh(p, g).client = "open"
<1>1. Fresh(p, g) = [Unbuilt EXCEPT !.path = p, !.gen = g, !.client = "open"]
  BY DEF Fresh
<1>2. Fresh(p, g) \in HandleRecord
  BY <1>1, UnbuiltIsTyped, Zenon DEF HandleRecord
<1> QED
  BY <1>1, <1>2, UnbuiltIsTyped DEF HandleRecord

\* A probe has built its handle.
LEMMA FreshKeeps ==
    ASSUME TypeOK, FleetInv, NEW h \in Handle, fleet.handle[h].client = "none",
           NEW p \in Path, NEW g \in Gen, fleet' = [fleet EXCEPT !.handle[h] = Fresh(p, g)],
           loop' = loop, MgrStays
    PROVE  fleet' \in FleetRec /\ FleetInv' /\ StandingKept({}) /\ Private(h)'
<1> DEFINE r == Fresh(p, g)
<1>1. fleet \in FleetRec
  BY Typed
<1>2. /\ r \in HandleRecord /\ r.left = "no" /\ ~r.monitoring /\ ~r.cancelled /\ r.client = "open"
  BY FreshIsTyped
<1>3. h \notin InFleet /\ loop[h].pc = "off" /\ ~Evicted(h) /\ ~Targeted(h) /\ ~Private(h)
  BY UnbuiltFree
<1> HIDE DEF r
<1>4. /\ fleet' \in FleetRec /\ fleet'.roots = fleet.roots /\ fleet'.handle[h] = r
      /\ \A x \in Handle \ {h} : fleet'.handle[x] = fleet.handle[x]
  BY <1>1, <1>2, SetFields DEF r
<1>5. /\ FleetInv' /\ Private(h)'
      /\ \A x \in Handle \ {h} : /\ Evicted(x) => Evicted(x)'
                                 /\ Targeted(x) => Targeted(x)'
                                 /\ Private(x) => Private(x)'
  BY <1>2, <1>3, <1>4, OneHandleKeeps
<1> QED
  BY <1>3, <1>4, <1>5 DEF StandingKept

\* Both loops of a target start, if it is not watched and the manager goes on.
LEMMA MonitorKeeps ==
    ASSUME TypeOK, FleetInv, NEW h \in Handle, Targeted(h), Monitor(h), mgr' = mgr,
           \A x \in Handle : Answered(loop[x].snapshot)
    PROVE  /\ fleet' \in FleetRec /\ loop' \in [Handle -> LoopRec] /\ FleetInv' /\ StandingKept({})
           /\ \A x \in Handle : Answered(loop'[x].snapshot)
<1> DEFINE q(x) == fleet.handle[x]
           r(x) == fleet'.handle[x]
<1>1. /\ fleet \in FleetRec /\ loop \in [Handle -> LoopRec] /\ RootsInv /\ HandleInv /\ MgrInv
      /\ OneSocketPerRoot /\ DrainBeforeClose /\ NoResurrection /\ mgr \in MgrRec
  BY Typed DEF FleetInv
<1>2. CASE UNCHANGED <<fleet, loop>>
  <2>1. LoopMoves
    BY <1>1, <1>2 DEF LoopMoves
  <2>2. MgrStays
    BY <1>1 DEF MgrStays
  <2> QED
    BY <1>1, <1>2, <2>1, <2>2, IdleKeeps
<1>3. CASE ~UNCHANGED <<fleet, loop>>
  <2>1. /\ ~mgr.closed /\ ~q(h).monitoring
        /\ fleet' = [fleet EXCEPT !.handle[h].monitoring = TRUE]
        /\ loop' = [loop EXCEPT ![h].pc = "wait"]
    BY <1>3 DEF Monitor
  <2> DEFINE s == [q(h) EXCEPT !.monitoring = TRUE]
             l == [loop[h] EXCEPT !.pc = "wait"]
  <2>2. q(h) \in HandleRecord /\ loop[h] \in LoopRec
    BY <1>1, FleetFields
  <2>3. s \in HandleRecord /\ l \in LoopRec
    BY <2>2, Zenon DEF HandleRecord, LoopRec
  <2>4. /\ s.path = q(h).path /\ s.gen = q(h).gen /\ s.left = q(h).left /\ s.client = q(h).client
        /\ s.cancelled = q(h).cancelled /\ s.monitoring
        /\ l.pc = "wait" /\ l.snapshot = loop[h].snapshot
    BY <2>2 DEF HandleRecord, LoopRec
  <2>5. fleet' = [fleet EXCEPT !.handle[h] = s] /\ loop' = [loop EXCEPT ![h] = l]
    BY <2>1
  <2> HIDE DEF s, l
  <2>6. /\ fleet' \in FleetRec /\ fleet'.roots = fleet.roots /\ r(h) = s
        /\ \A x \in Handle \ {h} : r(x) = q(x)
    BY <1>1, <2>3, <2>5, SetFields
  <2>7. /\ loop' \in [Handle -> LoopRec] /\ loop'[h] = l
        /\ \A x \in Handle \ {h} : loop'[x] = loop[x]
    BY <1>1, <2>3, <2>5
  <2>8. /\ \A x \in Handle : Answered(loop'[x].snapshot)
    BY <2>4, <2>7
  <2>9. /\ InFleet' = InFleet /\ \A x \in InFleet : x \in Handle
        /\ \A p \in Path : fleet.roots[p] # NoHandle => fleet.roots[p] \in Handle
    BY <1>1, <2>6, InFleetAtPath DEF InFleet
  <2>10. /\ ~mgr.clientsClosed /\ q(h).left # "watched" /\ q(h).client # "none"
         /\ ~q(h).cancelled
         /\ q(h).left = "no" => h \in InFleet /\ q(h).client = "open"
    BY <1>1, <2>1 DEF Targeted, HandleInv, MgrInv, DrainBeforeClose
  <2>11. \A x \in Handle \ {h} : Running(x)' <=> Running(x)
    BY <2>6, <2>7 DEF Running, LoopsEnded
  <2>12. \A x \in Handle : /\ r(x).path = q(x).path /\ r(x).gen = q(x).gen
                           /\ r(x).left = q(x).left /\ r(x).client = q(x).client
    BY <2>4, <2>6
  <2>13. HandleInv'
    <3>1. ASSUME NEW x \in Handle
          PROVE  /\ r(x).client = "none" => r(x).left = "no" /\ ~r(x).monitoring
                 /\ r(x).left = "watched" => r(x).cancelled
                 /\ r(x).cancelled => r(x).monitoring
                 /\ r(x).monitoring <=> loop'[x].pc # "off"
                 /\ (r(x).monitoring /\ r(x).left = "no" /\ ~mgr.clientsClosed) => x \in InFleet
      <4>1. CASE x = h
        BY <2>4, <2>6, <2>7, <2>10, <4>1
      <4>2. CASE x # h
        BY <1>1, <2>6, <2>7, <4>2 DEF HandleInv
      <4> QED
        BY <4>1, <4>2
    <3> QED
      BY <2>9, <3>1 DEF HandleInv
  <2>14. RootsInv'
    BY <1>1, <2>6, <2>9, <2>12 DEF RootsInv
  <2>15. OneSocketPerRoot'
    <3>1. \A p \in Path : fleet.roots[p] # NoHandle
             => r(fleet.roots[p]).gen = q(fleet.roots[p]).gen
      BY <2>9, <2>12
    <3> QED
      BY <1>1, <2>6, <3>1, SocketsKept
  <2>16. DrainBeforeClose'
    <3>1. ASSUME NEW x \in Handle, r(x).left \in {"no", "watched"}, Running(x)' \/ x \in InFleet
          PROVE  r(x).client = "open"
      <4>1. CASE x = h
        BY <2>10, <2>12, <3>1, <4>1
      <4>2. CASE x # h
        BY <1>1, <2>6, <2>11, <3>1, <4>2 DEF DrainBeforeClose
      <4> QED
        BY <4>1, <4>2
    <3> QED
      BY <2>9, <3>1 DEF DrainBeforeClose
  <2>17. NoResurrection'
    BY <1>1, <2>9, <2>12 DEF NoResurrection
  <2>18. MgrInv'
    BY <1>1 DEF MgrInv
  <2>19. StandingKept({})
    <3>1. ASSUME NEW x \in Handle, Private(x) PROVE Private(x)'
      <4>1. x # h
        BY <2>10, <3>1 DEF Private, Targeted
      <4> QED
        BY <2>6, <2>9, <3>1, <4>1 DEF Private
    <3>2. ASSUME NEW x \in Handle, Targeted(x) PROVE Targeted(x)'
      BY <2>9, <2>12, <3>2 DEF Targeted
    <3>3. ASSUME NEW x \in Handle, Evicted(x) PROVE Evicted(x)'
      BY <2>12, <3>3 DEF Evicted
    <3> QED
      BY <3>1, <3>2, <3>3 DEF StandingKept
  <2> QED
    BY <2>6, <2>7, <2>8, <2>13, <2>14, <2>15, <2>16, <2>17, <2>18, <2>19 DEF FleetInv
<1> QED
  BY <1>2, <1>3
\* A root that is refused at the last moment leaves the fleet, its client closed.
LEMMA DropKeeps ==
    ASSUME TypeOK, FleetInv, NEW h \in Handle, h \in InFleet, fleet' = Dropped(h), loop' = loop,
           MgrStays
    PROVE  fleet' \in FleetRec /\ FleetInv' /\ StandingKept({})
<1> DEFINE q(x) == fleet.handle[x]
           r(x) == fleet'.handle[x]
           p == fleet.handle[h].path
           R == Removed({p})
           d == [fleet.handle[h] EXCEPT !.client = "closed", !.left = "dropped"]
<1>1. /\ fleet \in FleetRec /\ loop \in [Handle -> LoopRec] /\ RootsInv /\ HandleInv /\ MgrInv
      /\ OneSocketPerRoot /\ DrainBeforeClose /\ NoResurrection
  BY Typed DEF FleetInv
<1>2. /\ \A y \in Path : fleet.roots[y] # NoHandle =>
                 /\ fleet.roots[y] \in Handle /\ fleet.roots[y] \in InFleet
                 /\ q(fleet.roots[y]).path = y
      /\ \A x \in InFleet : x \in Handle /\ fleet.roots[q(x).path] = x /\ q(x).path \in Path
  BY <1>1, InFleetAtPath
<1>3. p \in Path /\ fleet.roots[p] = h /\ h # NoHandle
  BY <1>2
<1>4. /\ R \in FleetRec /\ \A y \in Path : R.roots[y] = IF y = p THEN NoHandle ELSE fleet.roots[y]
      /\ \A x \in Handle : ~(x \in InFleet /\ q(x).path = p) => R.handle[x] = q(x)
  <2>1. PICK P \in SUBSET Path : P = {p}
    BY <1>3
  <2> DEFINE gone == {fleet.roots[y] : y \in P} \ {NoHandle}
  <2>2. /\ Removed(P) \in FleetRec
        /\ \A y \in Path : Removed(P).roots[y] = IF y \in P THEN NoHandle ELSE fleet.roots[y]
        /\ \A x \in Handle :
              /\ x \in gone <=> (x \in InFleet /\ q(x).path \in P)
              /\ x \notin gone => Removed(P).handle[x] = q(x)
    BY <1>1, RemovedFields
  <2>3. R = Removed(P)
    BY <2>1
  <2> HIDE DEF gone, R
  <2> QED
    BY <2>1, <2>2, <2>3
<1> HIDE DEF R
<1>5. \A x \in Handle \ {h} : R.handle[x] = q(x)
  BY <1>2, <1>3, <1>4
<1>6. q(h) \in HandleRecord
  BY <1>1, FleetFields
<1>7. d \in HandleRecord
  BY <1>6, Zenon DEF HandleRecord
<1>8. /\ d.path = q(h).path /\ d.gen = q(h).gen /\ d.monitoring = q(h).monitoring
      /\ d.cancelled = q(h).cancelled /\ d.client = "closed" /\ d.left = "dropped"
  BY <1>6 DEF HandleRecord
<1>9. fleet' = [R EXCEPT !.handle[h] = d]
  BY DEF Dropped, R
<1> HIDE DEF d
<1>10. /\ fleet' \in FleetRec /\ fleet'.roots = R.roots /\ r(h) = d
       /\ \A x \in Handle \ {h} : r(x) = R.handle[x]
  BY <1>4, <1>7, <1>9, SetFields
<1> HIDE DEF p
<1>11. /\ \A y \in Path : fleet'.roots[y] = IF y = p THEN NoHandle ELSE fleet.roots[y]
       /\ \A x \in Handle \ {h} : r(x) = q(x)
       /\ r(h).path = q(h).path /\ r(h).gen = q(h).gen /\ r(h).monitoring = q(h).monitoring
       /\ r(h).cancelled = q(h).cancelled /\ r(h).client = "closed" /\ r(h).left = "dropped"
  BY <1>4, <1>5, <1>8, <1>10
<1>12. \A x : x \in InFleet' <=> x \in InFleet /\ x # h
  BY <1>2, <1>3, <1>11, InFleetNext
<1>13. \A x \in Handle : Running(x)' <=> Running(x)
  BY <1>11 DEF Running, LoopsEnded
<1>14. \A x \in Handle : r(x).gen = q(x).gen /\ r(x).path = q(x).path
  BY <1>11
<1>15. HandleInv'
  <2>1. ASSUME NEW x \in Handle
        PROVE  /\ r(x).client = "none" => r(x).left = "no" /\ ~r(x).monitoring
               /\ r(x).left = "watched" => r(x).cancelled
               /\ r(x).cancelled => r(x).monitoring
               /\ r(x).monitoring <=> loop[x].pc # "off"
               /\ (r(x).monitoring /\ r(x).left = "no" /\ ~mgr.clientsClosed) => x \in InFleet'
    <3>1. CASE x = h
      BY <1>1, <1>11, <3>1 DEF HandleInv
    <3>2. CASE x # h
      BY <1>1, <1>11, <1>12, <3>2 DEF HandleInv
    <3> QED
      BY <3>1, <3>2
  <2> QED
    BY <2>1 DEF HandleInv, MgrStays
<1>16. RootsInv'
  BY <1>1, <1>2, <1>11, <1>14 DEF RootsInv
<1>17. MgrInv'
  BY <1>1 DEF MgrInv, MgrStays
<1>18. OneSocketPerRoot'
  <2>1. \A y \in Path : fleet'.roots[y] \in {fleet.roots[y], NoHandle}
    BY <1>11
  <2>2. \A y \in Path : fleet.roots[y] # NoHandle => r(fleet.roots[y]).gen = q(fleet.roots[y]).gen
    BY <1>2, <1>14
  <2> QED
    BY <1>1, <2>1, <2>2, SocketsKept
<1>19. DrainBeforeClose'
  BY <1>1, <1>11, <1>12, <1>13 DEF DrainBeforeClose
<1>20. NoResurrection'
  BY <1>1, <1>2, <1>11, <1>12 DEF NoResurrection
<1>21. StandingKept({})
  <2>1. ASSUME NEW x \in Handle, Private(x) PROVE Private(x)'
    BY <1>11, <1>12, <2>1 DEF Private
  <2>2. ASSUME NEW x \in Handle, Targeted(x) PROVE Targeted(x)'
    BY <1>11, <1>12, <2>2 DEF Targeted, MgrStays
  <2>3. ASSUME NEW x \in Handle, Evicted(x) PROVE Evicted(x)'
    BY <1>11, <2>3 DEF Evicted
  <2> QED
    BY <2>1, <2>2, <2>3 DEF StandingKept
<1> QED
  BY <1>10, <1>15, <1>16, <1>17, <1>18, <1>19, <1>20, <1>21 DEF FleetInv

\* The end of an admission: a target is monitored, or refused.
LEMMA AdmitKeeps ==
    ASSUME TypeOK, FleetInv, NEW h \in Handle, Targeted(h), NEW own, Admit(h, own), mgr' = mgr,
           \A x \in Handle : Answered(loop[x].snapshot)
    PROVE  /\ fleet' \in FleetRec /\ loop' \in [Handle -> LoopRec] /\ FleetInv' /\ StandingKept({})
           /\ \A x \in Handle : Answered(loop'[x].snapshot)
<1>1. loop \in [Handle -> LoopRec] /\ MgrStays
  BY Typed DEF MgrStays
<1>2. CASE h \in InFleet /\ fleet' = Dropped(h) /\ loop' = loop
  BY <1>1, <1>2, DropKeeps
<1>3. CASE Monitor(h)
  BY <1>3, MonitorKeeps
<1> QED
  BY <1>2, <1>3 DEF Admit

\* Garbage is forgotten.
LEMMA CollectKeeps ==
    ASSUME TypeOK, FleetInv, NEW h \in Handle, Collect(h)
    PROVE  /\ fleet' \in FleetRec /\ loop' \in [Handle -> LoopRec] /\ FleetInv'
           /\ \A x \in Handle \ {h} : /\ Evicted(x) => Evicted(x)'
                                      /\ Targeted(x) => Targeted(x)'
                                      /\ Private(x) => Private(x)'
           /\ loop'[h].snapshot = Failed /\ \A x \in Handle \ {h} : loop'[x] = loop[x]
<1> DEFINE off == [pc |-> "off", snapshot |-> Failed]
<1>1. /\ fleet \in FleetRec /\ loop \in [Handle -> LoopRec] /\ mgr \in MgrRec
  BY Typed
<1>4. off \in LoopRec
  BY DEF LoopRec, Snapshot, Failed, Serving
<1>5. fleet' = [fleet EXCEPT !.handle[h] = Unbuilt] /\ loop' = [loop EXCEPT ![h] = off]
  BY DEF Collect
<1>6. /\ off.pc = "off" /\ off.snapshot = Failed
  OBVIOUS
<1> HIDE DEF off
<1>7. /\ loop' \in [Handle -> LoopRec] /\ loop'[h] = off
      /\ \A x \in Handle \ {h} : loop'[x] = loop[x]
  BY <1>1, <1>4, <1>5
<1>8. /\ fleet' \in FleetRec /\ fleet'.roots = fleet.roots /\ fleet'.handle[h] = Unbuilt
      /\ \A x \in Handle \ {h} : fleet'.handle[x] = fleet.handle[x]
  BY <1>1, <1>5, SetFields, UnbuiltIsTyped
<1>9. h \notin InFleet /\ MgrStays
  BY <1>1 DEF Collect, MgrStays
<1>10. /\ FleetInv'
       /\ \A x \in Handle \ {h} : /\ Evicted(x) => Evicted(x)'
                                  /\ Targeted(x) => Targeted(x)'
                                  /\ Private(x) => Private(x)'
  BY <1>6, <1>7, <1>8, <1>9, OneHandleKeeps, UnbuiltIsTyped
<1> QED
  BY <1>6, <1>7, <1>8, <1>10
-----------------------------------------------------------------------------
(* What the steps share *)

\* Whoever relies on a handle goes on doing so, unless it is one that a step has used up.
LEMMA OthersKept ==
    ASSUME TypeOK, DiscInv, SpawnInv, StopInv, NEW X, StandingKept(X)
    PROVE  /\ (disc' = disc /\ (disc.pc = "probed" => disc.probe \notin X)) => DiscInv'
           /\ \A l \in Launched :
                 (spawn'[l] = spawn[l] /\ (spawn[l].pc # "monitor" => spawn[l].probe \notin X))
                     => SpawnGood(l)'
           /\ stopping' \subseteq stopping => StopInv'
<1>1. disc \in DiscRec /\ spawn \in [Launched -> SpawnRec] /\ stopping \subseteq Handle
  BY Typed
<1>2. /\ disc.victims \subseteq Handle /\ disc.probe \in AnyHandle /\ disc.target \in AnyHandle
      /\ \A l \in Launched : spawn[l].probe \in AnyHandle /\ spawn[l].target \in AnyHandle
  BY <1>1 DEF DiscRec, SpawnRec
<1>3. ASSUME disc' = disc, disc.pc = "probed" => disc.probe \notin X PROVE DiscInv'
  <2>1. disc.pc = "probed" => Private(disc.probe)'
    BY <1>3 DEF DiscInv, StandingKept, Private
  <2>2. disc.pc \in {"displaced", "monitor"} => Targeted(disc.target)'
    BY <1>3 DEF DiscInv, StandingKept, Targeted
  <2>3. \A x \in disc.victims : Evicted(x)'
    BY <1>2, <1>3 DEF DiscInv, StandingKept
  <2> QED
    BY <1>3, <2>1, <2>2, <2>3 DEF DiscInv
<1>4. ASSUME NEW l \in Launched, spawn'[l] = spawn[l], spawn[l].pc # "monitor" => spawn[l].probe \notin X
      PROVE  SpawnGood(l)'
  <2>1. SpawnGood(l)
    BY <1>4 DEF SpawnInv
  <2>2. (spawn[l].pc # "monitor" /\ spawn[l].probe # NoHandle) => Private(spawn[l].probe)'
    BY <1>4, <2>1 DEF SpawnGood, StandingKept, Private
  <2>3. spawn[l].pc = "monitor" => Targeted(spawn[l].target)'
    BY <1>4, <2>1 DEF SpawnGood, StandingKept, Targeted
  <2> QED
    BY <1>4, <2>1, <2>2, <2>3 DEF SpawnGood
<1>5. ASSUME stopping' \subseteq stopping PROVE StopInv'
  BY <1>1, <1>5 DEF StopInv, StandingKept
<1> QED
  BY <1>3, <1>4, <1>5

\* A step that leaves the fleet and its loops alone.
LEMMA QuietKeeps ==
    ASSUME ManagerInv, UNCHANGED <<fleet, loop>>, MgrStays
    PROVE  /\ FleetInv' /\ fleet' \in FleetRec /\ loop' \in [Handle -> LoopRec] /\ StandingKept({})
           /\ \A x \in Handle : Answered(loop'[x].snapshot)
           /\ stopping' = stopping => StopInv'
           /\ disc' = disc => DiscInv'
           /\ \A l \in Launched : spawn'[l] = spawn[l] => SpawnGood(l)'
<1>1. fleet \in FleetRec /\ loop \in [Handle -> LoopRec]
  BY Typed DEF ManagerInv
<1>2. LoopMoves
  BY <1>1 DEF LoopMoves, ManagerInv, AnsweredInv
<1>3. FleetInv' /\ StandingKept({})
  BY <1>2, IdleKeeps DEF ManagerInv
<1> QED
  BY <1>1, <1>2, <1>3, OthersKept DEF ManagerInv, LoopMoves

\* The spawns stay as they are.
LEMMA SpawnsStay ==
    ASSUME ManagerInv, spawn' = spawn
    PROVE  /\ spawn' \in [Launched -> SpawnRec] /\ SpawnsApart'
           /\ \A l \in Launched : Answered(spawn'[l].snapshot)
           /\ (\A l \in Launched : SpawnGood(l)') => SpawnInv'
<1>1. spawn \in [Launched -> SpawnRec]
  BY Typed DEF ManagerInv
<1> QED
  BY <1>1 DEF ManagerInv, SpawnsApart, AnsweredInv, SpawnInv

\* Only the supervisors move.
LEMMA WorldKeeps ==
    ASSUME ManagerInv, WorldOK', UNCHANGED <<fleet, loop, disc, spawn, stopping, mgr>>
    PROVE  ManagerInv'
<1>1. MgrStays /\ disc \in DiscRec /\ stopping \subseteq Handle
  BY Typed DEF ManagerInv, MgrStays
<1>2. ProbesApart' /\ Answered(disc.snapshot)'
  BY DEF ManagerInv, ProbesApart, AnsweredInv, Answered
<1>3. /\ FleetInv' /\ fleet' \in FleetRec /\ loop' \in [Handle -> LoopRec]
       /\ (\A x \in Handle : Answered(loop[x].snapshot))' /\ DiscInv' /\ StopInv'
       /\ \A l \in Launched : SpawnGood(l)'
  BY <1>1, QuietKeeps
<1>4. /\ SpawnInv' /\ SpawnsApart' /\ spawn' \in [Launched -> SpawnRec]
      /\ \A l \in Launched : Answered(spawn'[l].snapshot)
  BY <1>3, SpawnsStay
<1>5. TypeOK'
  BY <1>1, <1>3, <1>4, TypedNext DEF MgrStays
<1> QED
  BY <1>2, <1>3, <1>4, <1>5 DEF ManagerInv, AnsweredInv

\* A failed snapshot.
LEMMA FailedTyped == Failed \in Snapshot /\ Answered(Failed) /\ Failed.life = "early"
BY DEF Failed, Snapshot, Serving, Answered

\* What a supervisor answers.
LEMMA AnswersTyped ==
    ASSUME WorldOK, NEW p \in Path, NEW a \in Answers(p)
    PROVE  a \in Snapshot /\ Answered(a)
<1>1. CASE a = Failed
  BY <1>1, FailedTyped
<1>2. ASSUME NEW g \in Gen, life[g] \in Serving,
             a = [gen |-> g, life |-> life[g], kids |-> kids[g]]
      PROVE  a \in Snapshot /\ Answered(a)
  BY <1>2 DEF WorldOK, Snapshot, Answered
<1> QED
  BY <1>1, <1>2 DEF Answers

\* What discovery and the loops act on.
LEMMA UsableTyped ==
    ASSUME WorldOK, NEW p \in Path, NEW a \in Usable(p)
    PROVE  a \in Snapshot /\ Answered(a) /\ a.life # "early"
BY AnswersTyped DEF Usable

\* The discovery loop, idle.
LEMMA IdleTyped == DiscIdle \in DiscRec
BY FailedTyped DEF DiscIdle, DiscRec, AnyHandle

\* A spawn that has not begun.
LEMMA SpawnIdleTyped == SpawnIdle \in SpawnRec
BY FailedTyped DEF SpawnIdle, SpawnRec, AnyHandle

\* What follows the drain of a victim.
LEMMA AfterDrainFields ==
    ASSUME NEW d \in DiscRec, d.pc \in {"drain", "displaced", "sweep"}
    PROVE  LET e == AfterDrain(d) IN
           /\ e \in DiscRec /\ e.pc # "probed"
           /\ e.pc \in {"displaced", "monitor"} => d.pc = "displaced" /\ e.target = d.target
           /\ e.pc \in {"drain", "dial"} => d.pc = "drain" /\ e.gen = d.gen
           /\ e.victims \subseteq d.victims /\ e.snapshot \in {d.snapshot, Failed}
<1>1. CASE d.victims # {}
  BY <1>1 DEF AfterDrain
<1>2. CASE d.victims = {} /\ d.pc = "drain"
  <2> DEFINE e == [d EXCEPT !.pc = "dial"]
  <2>1. AfterDrain(d) = e
    BY <1>2 DEF AfterDrain
  <2>2. e \in DiscRec
    BY Zenon DEF DiscRec
  <2>3. e.pc = "dial" /\ e.victims = d.victims /\ e.snapshot = d.snapshot /\ e.gen = d.gen
    BY DEF DiscRec
  <2> QED
    BY <1>2, <2>1, <2>2, <2>3
<1>3. CASE d.victims = {} /\ d.pc = "displaced"
  <2> DEFINE e == [d EXCEPT !.pc = "monitor"]
  <2>1. AfterDrain(d) = e
    BY <1>3 DEF AfterDrain
  <2>2. e \in DiscRec
    BY Zenon DEF DiscRec
  <2>3. e.pc = "monitor" /\ e.victims = d.victims /\ e.snapshot = d.snapshot /\ e.target = d.target
    BY DEF DiscRec
  <2> QED
    BY <1>3, <2>1, <2>2, <2>3
<1>4. CASE d.victims = {} /\ d.pc = "sweep"
  <2>1. AfterDrain(d) = DiscIdle
    BY <1>4 DEF AfterDrain
  <2> QED
    BY <1>4, <2>1, IdleTyped DEF DiscIdle
<1> QED
  BY <1>1, <1>2, <1>3, <1>4

\* The discovery loop goes on to the next entry.
LEMMA NextEntryFields ==
    ASSUME disc \in DiscRec
    PROVE  /\ NextEntry \in DiscRec /\ NextEntry.pc = "scan" /\ NextEntry.victims = {}
           /\ NextEntry.snapshot = Failed
<1>1. NextEntry \in DiscRec
  <2>1. "scan" \in {"scan"} /\ NoHandle \in AnyHandle /\ {} \in SUBSET Handle
    BY DEF AnyHandle
  <2> QED
    BY <2>1, FailedTyped, Zenon DEF NextEntry, DiscRec
<1> QED
  BY <1>1 DEF NextEntry, DiscRec

\* The discovery loop relies on nothing.
LEMMA DiscFree ==
    ASSUME disc' \in DiscRec, disc'.pc \in {"idle", "listed", "scan", "dial"}, disc'.victims = {},
           disc'.pc = "dial" => disc'.gen \in Gen
    PROVE  DiscInv' /\ ProbesApart'
BY DEF DiscInv, ProbesApart
-----------------------------------------------------------------------------
(* The discovery loop *)

\* What a step of the discovery loop has to show.
LEMMA DiscStep ==
    ASSUME ManagerInv, NEW X, StandingKept(X),
           \A l \in Launched : spawn[l].pc # "monitor" => spawn[l].probe \notin X,
           fleet' \in FleetRec, FleetInv', loop' \in [Handle -> LoopRec],
           \A x \in Handle : Answered(loop'[x].snapshot),
           UNCHANGED <<world, spawn, stopping, mgr>>,
           disc' \in DiscRec, Answered(disc'.snapshot), DiscInv', ProbesApart'
    PROVE  ManagerInv'
<1>1. WorldOK /\ stopping \subseteq Handle /\ mgr \in MgrRec
  BY Typed DEF ManagerInv
<1>2. WorldOK'
  BY <1>1 DEF WorldOK, world
<1>3. StopInv' /\ \A l \in Launched : SpawnGood(l)'
  BY OthersKept DEF ManagerInv
<1>4. /\ SpawnInv' /\ SpawnsApart' /\ spawn' \in [Launched -> SpawnRec]
      /\ \A l \in Launched : Answered(spawn'[l].snapshot)
  BY <1>3, SpawnsStay
<1>5. TypeOK'
  BY <1>1, <1>2, <1>4, TypedNext
<1>6. AnsweredInv'
  BY <1>4 DEF AnsweredInv
<1> QED
  BY <1>3, <1>4, <1>5, <1>6 DEF ManagerInv

\* A step of the discovery loop that leaves the fleet alone.
LEMMA DiscQuiet ==
    ASSUME ManagerInv, UNCHANGED <<world, fleet, loop, spawn, stopping, mgr>>,
           disc' \in DiscRec, Answered(disc'.snapshot), DiscInv', ProbesApart'
    PROVE  ManagerInv'
<1>1. MgrStays
  BY Typed DEF ManagerInv, MgrStays
<1>2. /\ FleetInv' /\ fleet' \in FleetRec /\ loop' \in [Handle -> LoopRec] /\ StandingKept({})
      /\ \A x \in Handle : Answered(loop'[x].snapshot)
  BY <1>1, QuietKeeps
<1> QED
  BY <1>2, DiscStep

\* The directory is listed, and the roots are remembered.
LEMMA ListKeeps == ASSUME ManagerInv, List \/ TakeKnown PROVE ManagerInv'
<1>1. /\ disc \in DiscRec /\ fleet.roots \in [Path -> AnyHandle]
      /\ disc.victims \in SUBSET Handle /\ Answered(disc.snapshot)
      /\ \A x \in disc.victims : Evicted(x)
  BY Typed, FleetFields DEF ManagerInv, AnsweredInv, DiscRec, DiscInv
<1>2. UNCHANGED <<world, fleet, loop, spawn, stopping, mgr>>
  BY DEF List, TakeKnown
<1>3. /\ disc' \in DiscRec /\ disc'.pc \in {"listed", "scan"} /\ disc'.victims = disc.victims
      /\ disc'.snapshot = disc.snapshot
  <2>1. CASE List
    <3> DEFINE T == {p \in Path : disk[p] # NoGen}
    <3>1. disc' = [disc EXCEPT !.pc = "listed", !.todo = T] /\ T \in SUBSET Path
      BY <2>1 DEF List
    <3> HIDE DEF T
    <3>2. disc' \in DiscRec
      BY <1>1, <3>1, Zenon DEF DiscRec
    <3> QED
      BY <1>1, <3>1, <3>2 DEF DiscRec
  <2>2. CASE TakeKnown
    <3>1. disc' = [disc EXCEPT !.pc = "scan", !.known = fleet.roots]
      BY <2>2 DEF TakeKnown
    <3>2. disc' \in DiscRec
      BY <1>1, <3>1, Zenon DEF DiscRec
    <3> QED
      BY <1>1, <3>1, <3>2 DEF DiscRec
  <2> QED
    BY <2>1, <2>2
<1>4. MgrStays
  BY <1>2, Typed DEF ManagerInv, MgrStays
<1>5. \A x \in disc.victims : Evicted(x)'
  BY <1>1, <1>2, <1>4, QuietKeeps DEF StandingKept
<1>6. DiscInv' /\ ProbesApart'
  BY <1>3, <1>5 DEF DiscInv, ProbesApart
<1> QED
  BY <1>1, <1>2, <1>3, <1>6, DiscQuiet
\* Victims and the target stay what they are; the entry is another one.
LEMMA DiscMoves ==
    ASSUME ManagerInv, NEW X, StandingKept(X), disc' \in DiscRec, disc.pc # "probed",
           disc'.pc = disc.pc, disc'.target = disc.target, disc'.victims = disc.victims,
           disc'.gen = disc.gen
    PROVE  DiscInv' /\ ProbesApart'
<1>1. disc \in DiscRec /\ disc.victims \subseteq Handle
  BY Typed DEF ManagerInv, DiscRec
<1>2. disc.pc \in {"displaced", "monitor"} => Targeted(disc.target)'
  BY DEF ManagerInv, DiscInv, StandingKept, Targeted
<1>3. \A x \in disc.victims : Evicted(x)'
  BY <1>1 DEF ManagerInv, DiscInv, StandingKept
<1>4. disc'.pc \in {"displaced", "monitor"} => Targeted(disc.target)'
  BY <1>2 DEF Targeted
<1> QED
  BY <1>2, <1>3 DEF DiscInv, ProbesApart, ManagerInv, Targeted

\* An entry that needs no probe.
LEMMA SkipKeeps == ASSUME ManagerInv, NEW p \in Path, Skip(p) PROVE ManagerInv'
<1>1. disc \in DiscRec /\ Answered(disc.snapshot) /\ disc.todo \in SUBSET Path
  BY Typed DEF ManagerInv, AnsweredInv, DiscRec
<1>2. UNCHANGED <<world, fleet, loop, spawn, stopping, mgr>> /\ disc.pc = "scan"
  BY DEF Skip
<1>3. MgrStays
  BY <1>2, Typed DEF ManagerInv, MgrStays
<1>4. /\ disc' \in DiscRec /\ disc'.pc = disc.pc /\ disc'.victims = disc.victims
      /\ disc'.target = disc.target /\ disc'.gen = disc.gen /\ disc'.snapshot = disc.snapshot
  <2> DEFINE T == disc.todo \ {p}
             K == [disc.known EXCEPT ![p] = NoHandle]
  <2>1. T \in SUBSET Path /\ K \in [Path -> AnyHandle]
    BY <1>1 DEF DiscRec, AnyHandle
  <2>2. \/ disc' = [disc EXCEPT !.todo = T]
        \/ disc' = [disc EXCEPT !.todo = T, !.known = K]
    BY DEF Skip
  <2> HIDE DEF T, K
  <2>3. disc' \in DiscRec
    BY <1>1, <2>1, <2>2, Zenon DEF DiscRec
  <2> QED
    BY <1>1, <2>2, <2>3 DEF DiscRec
<1>5. DiscInv' /\ ProbesApart'
  BY <1>2, <1>3, <1>4, QuietKeeps, DiscMoves
<1> QED
  BY <1>1, <1>2, <1>4, <1>5, DiscQuiet

\* An entry to probe; a root that was replaced leaves the fleet.
LEMMA InspectKeeps == ASSUME ManagerInv, NEW p \in Path, Inspect(p) PROVE ManagerInv'
<1>1. /\ disc \in DiscRec /\ Answered(disc.snapshot) /\ disc.todo \in SUBSET Path
      /\ fleet \in FleetRec /\ loop \in [Handle -> LoopRec] /\ RootsInv /\ FleetInv /\ TypeOK
      /\ \A x \in Handle : Answered(loop[x].snapshot)
  BY Typed DEF ManagerInv, AnsweredInv, DiscRec, FleetInv
<1>2. PICK g \in Gen : disk[p] = g
  BY Typed DEF ManagerInv, WorldOK, Inspect
<1>3. UNCHANGED <<world, loop, spawn, stopping, mgr>> /\ MgrStays
  BY Typed DEF ManagerInv, MgrStays, Inspect
<1> DEFINE T == disc.todo \ {p}
           K == [disc.known EXCEPT ![p] = NoHandle]
<1>4. T \in SUBSET Path /\ K \in [Path -> AnyHandle]
  BY <1>1 DEF DiscRec, AnyHandle
<1>5. CASE fleet' = Removed({p}) /\ fleet.roots[p] # NoHandle
           /\ disc' = [disc EXCEPT !.todo = T, !.known = K, !.gen = g, !.pc = "drain",
                                   !.victims = {fleet.roots[p]}]
  <2>1. PICK h \in Handle : h = fleet.roots[p]
    BY <1>1, <1>5, InFleetAtPath
  <2>2. h \in InFleet /\ fleet.handle[h].path = p
    BY <1>1, <1>5, <2>1, InFleetAtPath
  <2>3. {p} \in SUBSET Path /\ {h} \in SUBSET Handle
    OBVIOUS
  <2>4. fleet' \in FleetRec /\ FleetInv' /\ StandingKept({}) /\ Evicted(h)'
    BY <1>1, <1>3, <1>5, <2>2, <2>3, RemovedKeeps
  <2>5. disc' = [disc EXCEPT !.todo = T, !.known = K, !.gen = g, !.pc = "drain", !.victims = {h}]
    BY <1>5, <2>1
  <2> HIDE DEF T, K
  <2>6. disc' \in DiscRec
    BY <1>1, <1>4, <2>3, <2>5, Zenon DEF DiscRec
  <2>7. /\ disc'.pc = "drain" /\ disc'.victims = {h} /\ disc'.gen = g
        /\ disc'.snapshot = disc.snapshot
    BY <1>1, <2>5 DEF DiscRec
  <2>8. DiscInv' /\ ProbesApart'
    BY <2>4, <2>7 DEF DiscInv, ProbesApart
  <2> QED
    BY <1>1, <1>3, <2>4, <2>6, <2>7, <2>8, DiscStep
<1>6. CASE fleet' = fleet
           /\ disc' = [disc EXCEPT !.todo = T, !.known = K, !.gen = g, !.pc = "dial",
                                   !.victims = {}]
  <2> HIDE DEF T, K
  <2>1. {} \in SUBSET Handle
    OBVIOUS
  <2>2. disc' \in DiscRec
    BY <1>1, <1>4, <1>6, <2>1, Zenon DEF DiscRec
  <2>3. /\ disc'.pc = "dial" /\ disc'.victims = {} /\ disc'.gen = g
        /\ disc'.snapshot = disc.snapshot
    BY <1>1, <1>6 DEF DiscRec
  <2>4. DiscInv' /\ ProbesApart'
    BY <2>2, <2>3, DiscFree
  <2>5. UNCHANGED <<world, fleet, loop, spawn, stopping, mgr>> /\ Answered(disc'.snapshot)
    BY <1>1, <1>3, <1>6, <2>3
  <2> QED
    BY <2>2, <2>4, <2>5, DiscQuiet
<1> DEFINE h == fleet.roots[p]
           replaced == h # NoHandle /\ fleet.handle[h].gen # disk[p]
<1>7. /\ fleet' = IF replaced THEN Removed({p}) ELSE fleet
      /\ disc' = [disc EXCEPT !.todo = T, !.known = K, !.gen = g,
                              !.pc = IF replaced THEN "drain" ELSE "dial",
                              !.victims = IF replaced THEN {h} ELSE {}]
  BY <1>2 DEF Inspect
<1> HIDE DEF T, K
<1> QED
  BY <1>5, <1>6, <1>7

\* A drained victim is closed.
LEMMA DiscDrainKeeps == ASSUME ManagerInv, NEW h \in Handle, DiscDrain(h) PROVE ManagerInv'
<1>1. /\ disc \in DiscRec /\ Answered(disc.snapshot) /\ disc.victims \in SUBSET Handle
      /\ fleet \in FleetRec /\ loop \in [Handle -> LoopRec] /\ FleetInv /\ TypeOK
      /\ NoResurrection /\ \A x \in Handle : Answered(loop[x].snapshot)
  BY Typed DEF ManagerInv, AnsweredInv, DiscRec, FleetInv
<1>2. UNCHANGED <<world, loop, spawn, stopping, mgr>> /\ MgrStays
  BY Typed DEF ManagerInv, MgrStays, DiscDrain
<1>3. /\ disc.pc \in {"drain", "displaced", "sweep"} /\ Evicted(h) /\ LoopsEnded(h)
      /\ \A x \in disc.victims : Evicted(x)
  BY DEF DiscDrain, ManagerInv, DiscInv
<1>4. Closable(h)
  BY <1>1, <1>3 DEF Closable, Running, Evicted, NoResurrection
<1>5. {h} \in SUBSET Handle /\ \A x \in {h} : Closable(x)
  BY <1>4
<1>6. fleet' \in FleetRec /\ FleetInv' /\ StandingKept({h})
  BY <1>1, <1>2, <1>5, ClosedKeeps DEF DiscDrain
<1> DEFINE V == disc.victims \ {h}
           d == [disc EXCEPT !.victims = V]
<1>7. disc' = AfterDrain(d)
  BY DEF DiscDrain
<1>8. V \in SUBSET Handle
  BY <1>1
<1> HIDE DEF V
<1>9. d \in DiscRec
  BY <1>1, <1>8, Zenon DEF DiscRec
<1>10. /\ d.victims = V /\ d.pc = disc.pc /\ d.target = disc.target /\ d.gen = disc.gen
       /\ d.snapshot = disc.snapshot
  BY <1>1 DEF DiscRec
<1> HIDE DEF d
<1>11. /\ disc' \in DiscRec /\ disc'.pc # "probed"
       /\ disc'.pc \in {"displaced", "monitor"}
             => disc.pc = "displaced" /\ disc'.target = disc.target
       /\ disc'.pc \in {"drain", "dial"} => disc.pc = "drain" /\ disc'.gen = disc.gen
       /\ disc'.victims \subseteq V /\ disc'.snapshot \in {disc.snapshot, Failed}
  <2>1. PICK e \in DiscRec : e = d
    BY <1>9
  <2>2. disc' = AfterDrain(e)
    BY <1>7, <2>1
  <2>3. /\ e.victims = V /\ e.pc = disc.pc /\ e.target = disc.target /\ e.gen = disc.gen
        /\ e.snapshot = disc.snapshot
    BY <1>10, <2>1
  <2> QED
    BY <1>3, <2>2, <2>3, AfterDrainFields
<1>12. DiscInv' /\ ProbesApart'
  <2>1. ASSUME disc'.pc \in {"displaced", "monitor"}
        PROVE  disc'.target = disc.target /\ Targeted(disc.target)
    BY <1>11, <2>1 DEF ManagerInv, DiscInv
  <2>2. disc'.pc \in {"displaced", "monitor"} => Targeted(disc.target)'
    BY <1>6, <2>1 DEF StandingKept, Targeted
  <2>3. \A x \in V : Evicted(x)'
    BY <1>1, <1>3, <1>6 DEF StandingKept, V
  <2>4. disc'.pc \in {"drain", "dial"} => disc'.gen \in Gen
    BY <1>11 DEF ManagerInv, DiscInv
  <2> QED
    BY <1>11, <2>2, <2>3, <2>4 DEF DiscInv, ProbesApart, Targeted
<1>13. \A l \in Launched : spawn[l].pc # "monitor" => spawn[l].probe \notin {h}
  BY <1>3 DEF ManagerInv, SpawnInv, SpawnGood, Private, Evicted
<1>14. Answered(disc'.snapshot)
  BY <1>1, <1>11, FailedTyped
<1> QED
  BY <1>1, <1>2, <1>6, <1>11, <1>12, <1>13, <1>14, DiscStep
\* A probe dials the root of an entry.
LEMMA DialKeeps == ASSUME ManagerInv, NEW h \in Handle, Dial(h) PROVE ManagerInv'
<1>1. /\ disc \in DiscRec /\ Answered(disc.snapshot) /\ disc.victims \in SUBSET Handle
      /\ fleet \in FleetRec /\ loop \in [Handle -> LoopRec] /\ FleetInv /\ TypeOK /\ WorldOK
      /\ \A x \in Handle : Answered(loop[x].snapshot)
  BY Typed DEF ManagerInv, AnsweredInv, DiscRec
<1>2. UNCHANGED <<world, loop, spawn, stopping, mgr>> /\ MgrStays /\ fleet.handle[h].client = "none"
  BY Typed DEF ManagerInv, MgrStays, Dial
<1>3. PICK g \in Gen : g = disc.gen
  BY DEF Dial, ManagerInv, DiscInv
<1>4. PICK p \in Path : p = PathOf[g]
  OBVIOUS
<1>5. CASE disc' = NextEntry /\ fleet' = fleet
  <2>1. disc' \in DiscRec /\ disc'.pc = "scan" /\ disc'.victims = {} /\ disc'.snapshot = Failed
    BY <1>1, <1>5, NextEntryFields
  <2>2. DiscInv' /\ ProbesApart' /\ Answered(disc'.snapshot)
    BY <2>1, DiscFree, FailedTyped
  <2>3. UNCHANGED <<world, fleet, loop, spawn, stopping, mgr>>
    BY <1>2, <1>5
  <2> QED
    BY <2>1, <2>2, <2>3, DiscQuiet
<1>6. ASSUME NEW a \in Usable(p), fleet' = [fleet EXCEPT !.handle[h] = Fresh(p, g)],
             disc' = [disc EXCEPT !.pc = "probed", !.probe = h, !.snapshot = a]
      PROVE  ManagerInv'
  <2>1. a \in Snapshot /\ Answered(a) /\ a.life # "early"
    BY <1>1, UsableTyped
  <2>2. fleet' \in FleetRec /\ FleetInv' /\ StandingKept({}) /\ Private(h)'
    BY <1>1, <1>2, <1>6, FreshKeeps
  <2>3. h \in AnyHandle /\ h # NoHandle
    BY DEF AnyHandle
  <2>4. disc' \in DiscRec
    BY <1>1, <1>6, <2>1, <2>3, Zenon DEF DiscRec
  <2>5. /\ disc'.pc = "probed" /\ disc'.probe = h /\ disc'.snapshot = a
        /\ disc'.victims = disc.victims
    BY <1>1, <1>6 DEF DiscRec
  <2>6. \A x \in disc.victims : Evicted(x)'
    BY <1>1, <2>2 DEF StandingKept, ManagerInv, DiscInv
  <2>7. DiscInv'
    BY <2>1, <2>2, <2>5, <2>6 DEF DiscInv, Private
  <2>8. ~Private(h)
    BY <1>1, <1>2, UnbuiltFree
  <2>9. ProbesApart'
    BY <1>2, <2>3, <2>5, <2>8 DEF ProbesApart, ManagerInv, SpawnInv, SpawnGood
  <2> QED
    BY <1>1, <1>2, <2>1, <2>2, <2>4, <2>5, <2>7, <2>9, DiscStep
<1> QED
  BY <1>3, <1>4, <1>5, <1>6 DEF Dial

\* A client nobody else has may be closed.
LEMMA PrivateClosable ==
    ASSUME TypeOK, FleetInv, NEW h \in Handle, Private(h)
    PROVE  Closable(h)
BY DEF FleetInv, HandleInv, Private, Closable, Running, LoopsEnded

\* A probed root is committed, or its client is closed.
LEMMA DiscCommitKeeps == ASSUME ManagerInv, DiscCommit PROVE ManagerInv'
<1>1. /\ disc \in DiscRec /\ fleet \in FleetRec /\ RootsInv /\ FleetInv /\ TypeOK
      /\ loop \in [Handle -> LoopRec] /\ \A x \in Handle : Answered(loop[x].snapshot)
  BY Typed DEF ManagerInv, AnsweredInv, FleetInv
<1>2. UNCHANGED <<world, loop, spawn, stopping, mgr>> /\ MgrStays /\ LoopMoves
  BY <1>1, Typed DEF ManagerInv, MgrStays, DiscCommit, LoopMoves
<1>3. PICK h \in Handle : h = disc.probe /\ Private(h)
  BY DEF DiscCommit, ManagerInv, DiscInv, Private
<1>4. PICK a \in Snapshot : a = disc.snapshot /\ a.gen \in Gen
  BY <1>1 DEF DiscCommit, ManagerInv, DiscInv, AnsweredInv, Answered, DiscRec
<1>5. \A l \in Launched : spawn[l].pc # "monitor" => spawn[l].probe \notin {h}
  BY <1>3 DEF DiscCommit, ManagerInv, ProbesApart
<1>6. CASE disc' = NextEntry /\ fleet' = WithClosed(fleet, {h})
  <2>1. {h} \in SUBSET Handle /\ \A x \in {h} : Closable(x)
    BY <1>1, <1>3, PrivateClosable
  <2>2. fleet' \in FleetRec /\ FleetInv' /\ StandingKept({h})
    BY <1>1, <1>2, <1>6, <2>1, ClosedKeeps
  <2>3. disc' \in DiscRec /\ disc'.pc = "scan" /\ disc'.victims = {} /\ disc'.snapshot = Failed
    BY <1>1, <1>6, NextEntryFields
  <2>4. DiscInv' /\ ProbesApart' /\ Answered(disc'.snapshot)
    BY <2>3, DiscFree, FailedTyped
  <2> QED
    BY <1>1, <1>2, <1>5, <2>2, <2>3, <2>4, DiscStep
<1>7. ASSUME NEW live \in BOOLEAN, ~Refused(h, a), fleet' = Committed(h, a, live, {}),
             disc' = AfterDrain([disc EXCEPT !.pc = "displaced", !.target = Target(h),
                                             !.snapshot = Failed, !.victims = Displaced(h)])
      PROVE  ManagerInv'
  <2>1. {} \in SUBSET Name
    OBVIOUS
  <2>2. PICK t \in Handle : t = Target(h)
    BY <1>1, <1>4, <2>1, CommittedFields
  <2>3. /\ fleet' \in FleetRec /\ FleetInv' /\ StandingKept({h}) /\ Targeted(t)'
        /\ \A x \in Displaced(h) : x \in Handle /\ Evicted(x)'
    BY <1>1, <1>2, <1>3, <1>4, <1>7, <2>1, <2>2, CommitKeeps
  <2>4. PICK V \in SUBSET Handle : V = Displaced(h)
    BY <2>3
  <2> DEFINE d0 == [disc EXCEPT !.pc = "displaced", !.target = t, !.snapshot = Failed, !.victims = V]
  <2>5. disc' = AfterDrain(d0)
    BY <1>7, <2>2, <2>4
  <2>6. t \in AnyHandle
    BY DEF AnyHandle
  <2>7. d0 \in DiscRec
    BY <1>1, <2>6, FailedTyped, Zenon DEF DiscRec
  <2>8. d0.pc = "displaced" /\ d0.target = t /\ d0.snapshot = Failed /\ d0.victims = V
    BY <1>1 DEF DiscRec
  <2> HIDE DEF d0
  <2>9. PICK d \in DiscRec : d = d0
    BY <2>7
  <2>10. /\ disc' \in DiscRec /\ disc'.pc # "probed" /\ disc'.pc \notin {"drain", "dial"}
         /\ disc'.pc \in {"displaced", "monitor"} => disc'.target = t
         /\ disc'.victims \subseteq V /\ disc'.snapshot = Failed
    <3>1. disc' = AfterDrain(d) /\ d.pc = "displaced" /\ d.target = t /\ d.snapshot = Failed
          /\ d.victims = V
      BY <2>5, <2>8, <2>9
    <3> QED
      BY <3>1, AfterDrainFields
  <2>11. \A x \in V : Evicted(x)'
    BY <2>3, <2>4
  <2>12. DiscInv' /\ ProbesApart'
    BY <2>3, <2>10, <2>11 DEF DiscInv, ProbesApart, Targeted
  <2>13. Answered(disc'.snapshot)
    BY <2>10, FailedTyped
  <2> QED
    BY <1>1, <1>2, <1>5, <2>3, <2>10, <2>12, <2>13, DiscStep
<1>8. (a.life = "live") \in BOOLEAN
  OBVIOUS
<1> QED
  BY <1>3, <1>4, <1>6, <1>7, <1>8 DEF DiscCommit

\* A target of the discovery loop is monitored.
LEMMA DiscMonitorKeeps == ASSUME ManagerInv, DiscMonitor PROVE ManagerInv'
<1>1. /\ disc \in DiscRec /\ FleetInv /\ TypeOK /\ \A x \in Handle : Answered(loop[x].snapshot)
  BY Typed DEF ManagerInv, AnsweredInv
<1>2. UNCHANGED <<world, spawn, stopping, mgr>>
  BY DEF DiscMonitor
<1>3. PICK t \in Handle : t = disc.target /\ Targeted(t)
  BY DEF DiscMonitor, ManagerInv, DiscInv, Targeted
<1>4. PICK own : own = disc.probe
  OBVIOUS
<1>5. Admit(t, own)
  BY <1>3, <1>4 DEF DiscMonitor
<1>6. /\ fleet' \in FleetRec /\ loop' \in [Handle -> LoopRec] /\ FleetInv' /\ StandingKept({})
      /\ \A x \in Handle : Answered(loop'[x].snapshot)
  BY <1>1, <1>2, <1>3, <1>5, AdmitKeeps
<1>7. disc' \in DiscRec /\ disc'.pc = "scan" /\ disc'.victims = {} /\ disc'.snapshot = Failed
  BY <1>1, NextEntryFields DEF DiscMonitor
<1>8. DiscInv' /\ ProbesApart' /\ Answered(disc'.snapshot)
  BY <1>7, DiscFree, FailedTyped
<1> QED
  BY <1>2, <1>6, <1>7, <1>8, DiscStep

\* The roots that have vanished leave the fleet.
LEMMA SweepKeeps == ASSUME ManagerInv, Sweep PROVE ManagerInv'
<1>1. /\ disc \in DiscRec /\ Answered(disc.snapshot) /\ fleet \in FleetRec /\ RootsInv /\ FleetInv
      /\ TypeOK /\ loop \in [Handle -> LoopRec] /\ \A x \in Handle : Answered(loop[x].snapshot)
  BY Typed DEF ManagerInv, AnsweredInv, FleetInv
<1>2. UNCHANGED <<world, loop, spawn, stopping, mgr>> /\ MgrStays
  BY Typed DEF ManagerInv, MgrStays, Sweep
<1>3. PICK P \in SUBSET Path : P = {p \in Path : disc.known[p] # NoHandle}
  OBVIOUS
<1>4. PICK V : V = {fleet.roots[p] : p \in P} \ {NoHandle}
  OBVIOUS
<1>5. PICK K \in [Path -> AnyHandle] : K = [p \in Path |-> NoHandle]
  BY DEF AnyHandle
<1>6. /\ fleet' = Removed(P)
      /\ disc' = AfterDrain([disc EXCEPT !.pc = "sweep", !.known = K, !.victims = V])
  BY <1>3, <1>4, <1>5 DEF Sweep
<1>7. \A x \in V : x \in Handle /\ x \in InFleet /\ fleet.handle[x].path \in P
  BY <1>1, <1>4, InFleetAtPath
<1>8. fleet' \in FleetRec /\ FleetInv' /\ StandingKept({}) /\ \A x \in V : Evicted(x)'
  BY <1>1, <1>2, <1>6, <1>7, RemovedKeeps
<1> DEFINE d0 == [disc EXCEPT !.pc = "sweep", !.known = K, !.victims = V]
<1>9. V \in SUBSET Handle
  BY <1>7
<1>10. d0 \in DiscRec
  BY <1>1, <1>9, Zenon DEF DiscRec
<1>11. d0.pc = "sweep" /\ d0.snapshot = disc.snapshot /\ d0.victims = V
  BY <1>1 DEF DiscRec
<1> HIDE DEF d0
<1>12. PICK d \in DiscRec : d = d0
  BY <1>10
<1>13. /\ disc' \in DiscRec /\ disc'.pc \notin {"probed", "displaced", "monitor", "drain", "dial"}
       /\ disc'.victims \subseteq V /\ disc'.snapshot \in {disc.snapshot, Failed}
  <2>1. disc' = AfterDrain(d) /\ d.pc = "sweep" /\ d.victims = V /\ d.snapshot = disc.snapshot
    BY <1>6, <1>11, <1>12 DEF d0
  <2> QED
    BY <2>1, AfterDrainFields
<1>14. DiscInv' /\ ProbesApart' /\ Answered(disc'.snapshot)
  BY <1>1, <1>8, <1>13, FailedTyped DEF DiscInv, ProbesApart
<1> QED
  BY <1>1, <1>2, <1>8, <1>13, <1>14, DiscStep

\* Every step of discovery.
LEMMA DiscoverKeeps == ASSUME ManagerInv, Discover PROVE ManagerInv'
BY ListKeeps, SkipKeeps, InspectKeeps, DiscDrainKeeps, DialKeeps, DiscCommitKeeps,
   DiscMonitorKeeps, SweepKeeps DEF Discover
-----------------------------------------------------------------------------
(* The loops of a handle *)

\* What a step has to show that neither discovery, nor a spawn, nor a stop takes.
LEMMA LoopStepKeeps ==
    ASSUME ManagerInv, StandingKept({}), fleet' \in FleetRec, FleetInv',
           loop' \in [Handle -> LoopRec], \A x \in Handle : Answered(loop'[x].snapshot),
           WorldOK', UNCHANGED <<disc, spawn, stopping>>, mgr' \in MgrRec
    PROVE  ManagerInv'
<1>1. disc \in DiscRec /\ stopping \subseteq Handle /\ Answered(disc.snapshot)
  BY Typed DEF ManagerInv, AnsweredInv
<1>2. DiscInv' /\ StopInv' /\ \A l \in Launched : SpawnGood(l)'
  BY OthersKept DEF ManagerInv
<1>3. /\ SpawnInv' /\ SpawnsApart' /\ spawn' \in [Launched -> SpawnRec]
      /\ \A l \in Launched : Answered(spawn'[l].snapshot)
  BY <1>2, SpawnsStay
<1>4. TypeOK'
  BY <1>1, <1>3, TypedNext
<1>5. ProbesApart' /\ AnsweredInv'
  BY <1>1, <1>3 DEF ManagerInv, ProbesApart, AnsweredInv
<1> QED
  BY <1>2, <1>3, <1>4, <1>5 DEF ManagerInv

\* A snapshot loop ticks.
LEMMA PollTickKeeps == ASSUME ManagerInv, NEW h \in Handle, PollTick(h) PROVE ManagerInv'
<1>1. /\ fleet \in FleetRec /\ FleetInv /\ TypeOK /\ WorldOK /\ mgr \in MgrRec
      /\ loop \in [Handle -> LoopRec] /\ \A x \in Handle : Answered(loop[x].snapshot)
      /\ loop[h] \in LoopRec /\ fleet.handle[h].path \in Path
  BY Typed, FleetFields DEF ManagerInv, AnsweredInv
<1>2. /\ UNCHANGED <<fleet, disc, spawn, stopping, mgr>> /\ WorldOK' /\ MgrStays
  BY <1>1 DEF PollTick, MgrStays, WorldOK, world
<1>3. PICK l \in LoopRec : /\ loop' = [loop EXCEPT ![h] = l] /\ l.pc \in {"got", "done"}
                           /\ Answered(l.snapshot)
  <2>1. CASE loop' = [loop EXCEPT ![h].pc = "done"]
    <3> DEFINE l == [loop[h] EXCEPT !.pc = "done"]
    <3>1. l \in LoopRec
      BY <1>1, Zenon DEF LoopRec
    <3>2. l.pc = "done" /\ l.snapshot = loop[h].snapshot /\ loop' = [loop EXCEPT ![h] = l]
      BY <1>1, <2>1 DEF LoopRec
    <3> QED
      BY <1>1, <3>1, <3>2
  <2>2. ASSUME NEW a \in Usable(fleet.handle[h].path),
               loop' = [loop EXCEPT ![h] = [pc |-> "got", snapshot |-> a]]
        PROVE  \E l \in LoopRec : /\ loop' = [loop EXCEPT ![h] = l] /\ l.pc \in {"got", "done"}
                                  /\ Answered(l.snapshot)
    <3>1. PICK p \in Path : p = fleet.handle[h].path
      BY <1>1
    <3>2. a \in Snapshot /\ Answered(a)
      BY <1>1, <2>2, <3>1, UsableTyped
    <3>3. [pc |-> "got", snapshot |-> a] \in LoopRec
      BY <3>2 DEF LoopRec
    <3> QED
      BY <2>2, <3>2, <3>3
  <2> QED
    BY <2>1, <2>2 DEF PollTick
<1>4. /\ loop' \in [Handle -> LoopRec] /\ loop'[h] = l
      /\ \A x \in Handle \ {h} : loop'[x] = loop[x]
  BY <1>1, <1>3
<1>5. LoopMoves
  BY <1>1, <1>3, <1>4 DEF LoopMoves, PollTick
<1>6. FleetInv' /\ StandingKept({})
  BY <1>1, <1>2, <1>5, IdleKeeps
<1> QED
  BY <1>1, <1>2, <1>5, <1>6, LoopStepKeeps DEF LoopMoves

\* A loop acts on its snapshot: the tree of a root that ends is retained, a live one committed.
LEMMA PollGotKeeps == ASSUME ManagerInv, NEW h \in Handle, PollGot(h) PROVE ManagerInv'
<1>1. /\ fleet \in FleetRec /\ FleetInv /\ HandleInv /\ TypeOK /\ WorldOK /\ mgr \in MgrRec
      /\ loop \in [Handle -> LoopRec] /\ \A x \in Handle : Answered(loop[x].snapshot)
      /\ loop[h] \in LoopRec /\ fleet.handle[h] \in HandleRecord
  BY Typed, FleetFields DEF ManagerInv, AnsweredInv, FleetInv
<1>2. /\ UNCHANGED <<disc, spawn, stopping, mgr>> /\ WorldOK' /\ MgrStays
  BY <1>1 DEF PollGot, MgrStays, WorldOK, world
<1>3. PICK a \in Snapshot : a = loop[h].snapshot /\ Answered(a)
  BY <1>1 DEF LoopRec
<1>4. PICK l \in LoopRec : /\ loop' = [loop EXCEPT ![h] = l] /\ l.pc \in {"wait", "done"}
                           /\ Answered(l.snapshot)
  <2>1. /\ [pc |-> "wait", snapshot |-> Failed] \in LoopRec
        /\ [pc |-> "done", snapshot |-> Failed] \in LoopRec
    BY FailedTyped DEF LoopRec
  <2> QED
    BY <2>1, FailedTyped DEF PollGot
<1>5. /\ loop' \in [Handle -> LoopRec] /\ loop'[h] = l
      /\ \A x \in Handle \ {h} : loop'[x] = loop[x]
  BY <1>1, <1>4
<1>6. LoopMoves /\ loop[h].pc = "got"
  BY <1>1, <1>4, <1>5 DEF LoopMoves, PollGot
<1>7. fleet.handle[h].monitoring /\ Running(h)
  BY <1>1, <1>6 DEF HandleInv, Running, LoopsEnded
<1>8. ASSUME fleet' \in FleetRec, FleetInv', StandingKept({}) PROVE ManagerInv'
  BY <1>2, <1>6, <1>8, LoopStepKeeps DEF LoopMoves, MgrStays
<1>9. CASE fleet' = fleet
  BY <1>1, <1>2, <1>6, <1>8, <1>9, IdleKeeps
<1>10. CASE /\ a.life = "ending"
            /\ fleet' = [fleet EXCEPT !.handle[h] = [fleet.handle[h] EXCEPT !.tree = Tree(a),
                                                                           !.actionable = FALSE]]
  <2>1. PICK T \in SUBSET Session : T = Tree(a)
    <3>1. a.gen \in Gen /\ a.kids \subseteq Kid
      BY <1>3, <1>10 DEF Snapshot, Answered
    <3>2. RootOf[a.gen] \in Root
      BY <3>1
    <3> QED
      BY <3>1, <3>2 DEF Tree, Session
  <2> DEFINE r == [fleet.handle[h] EXCEPT !.tree = T, !.actionable = FALSE]
  <2>2. r \in HandleRecord
    BY <1>1, Zenon DEF HandleRecord
  <2>3. /\ r.path = fleet.handle[h].path /\ r.gen = fleet.handle[h].gen
        /\ r.left = fleet.handle[h].left /\ r.monitoring = fleet.handle[h].monitoring
        /\ r.client = fleet.handle[h].client /\ r.cancelled = fleet.handle[h].cancelled
    BY <1>1 DEF HandleRecord
  <2>4. fleet' = [fleet EXCEPT !.handle[h] = r]
    BY <1>10, <2>1
  <2> HIDE DEF r
  <2>5. /\ fleet' \in FleetRec /\ fleet'.roots = fleet.roots /\ fleet'.handle[h] = r
        /\ \A x \in Handle \ {h} : fleet'.handle[x] = fleet.handle[x]
    BY <1>1, <2>2, <2>4, SetFields
  <2>6. \A x \in Handle :
           /\ UNCHANGED <<fleet.handle[x].path, fleet.handle[x].gen, fleet.handle[x].left,
                          fleet.handle[x].monitoring, fleet.handle[x].client>>
           /\ fleet.handle[x].cancelled => fleet'.handle[x].cancelled
           /\ fleet'.handle[x].cancelled => fleet.handle[x].monitoring
    BY <1>1, <2>3, <2>5 DEF HandleInv
  <2>7. MgrInv' /\ mgr' \in MgrRec /\ UNCHANGED mgr.clientsClosed
    BY <1>1, <1>2 DEF FleetInv, MgrInv
  <2>8. FleetInv' /\ StandingKept({})
    BY <1>1, <1>6, <2>5, <2>6, <2>7, LoopsKeep
  <2> QED
    BY <1>8, <2>5, <2>8
<1>11. CASE a.life = "live" /\ ~Refused(h, a) /\ fleet' = Committed(h, a, TRUE, {})
  <2>1. a.gen \in Gen /\ {} \in SUBSET Name
    BY <1>3, <1>11 DEF Answered
  <2>2. fleet' \in FleetRec /\ FleetInv' /\ StandingKept({h})
    BY <1>1, <1>2, <1>6, <1>7, <1>11, <2>1, CommitKeeps
  <2>3. StandingKept({})
    BY <1>7, <2>2 DEF StandingKept, Private
  <2> QED
    BY <1>8, <2>2, <2>3
<1> QED
  BY <1>3, <1>9, <1>10, <1>11 DEF PollGot

\* Garbage is nobody's.
LEMMA CollectStep == ASSUME ManagerInv, NEW h \in Handle, Collect(h) PROVE ManagerInv'
<1>1. /\ disc \in DiscRec /\ stopping \subseteq Handle /\ mgr \in MgrRec
      /\ WorldOK /\ FleetInv /\ TypeOK /\ \A x \in Handle : Answered(loop[x].snapshot)
      /\ Answered(disc.snapshot)
  BY Typed DEF ManagerInv, AnsweredInv
<1>2. UNCHANGED <<disc, spawn, stopping, mgr>> /\ WorldOK'
  BY <1>1 DEF Collect, WorldOK, world
<1>3. /\ h \notin disc.victims /\ h \notin {disc.probe, disc.target} /\ h \notin stopping
      /\ \A l \in Launched : h \notin {spawn[l].probe, spawn[l].target}
  BY DEF Collect
<1>4. /\ fleet' \in FleetRec /\ loop' \in [Handle -> LoopRec] /\ FleetInv'
      /\ \A x \in Handle \ {h} : /\ Evicted(x) => Evicted(x)'
                                 /\ Targeted(x) => Targeted(x)'
                                 /\ Private(x) => Private(x)'
      /\ loop'[h].snapshot = Failed /\ \A x \in Handle \ {h} : loop'[x] = loop[x]
  BY <1>1, CollectKeeps
<1>5. \A l \in Launched : SpawnGood(l)'
  <2> TAKE l \in Launched
  <2>1. SpawnGood(l)
    BY DEF ManagerInv, SpawnInv
  <2>2. (spawn[l].pc # "monitor" /\ spawn[l].probe # NoHandle) => Private(spawn[l].probe)'
    BY <1>2, <1>3, <1>4, <2>1 DEF SpawnGood, Private
  <2>3. spawn[l].pc = "monitor" => Targeted(spawn[l].target)'
    BY <1>2, <1>3, <1>4, <2>1 DEF SpawnGood, Targeted
  <2> QED
    BY <1>2, <2>1, <2>2, <2>3 DEF SpawnGood
<1>6. /\ SpawnInv' /\ SpawnsApart' /\ spawn' \in [Launched -> SpawnRec]
      /\ \A l \in Launched : Answered(spawn'[l].snapshot)
  BY <1>2, <1>5, SpawnsStay
<1>7. TypeOK'
  BY <1>1, <1>2, <1>4, <1>6, TypedNext
<1>8. ProbesApart' /\ AnsweredInv'
  BY <1>1, <1>2, <1>4, <1>6, FailedTyped DEF ManagerInv, ProbesApart, AnsweredInv
<1>9. DiscInv'
  <2>1. disc.pc = "probed" => Private(disc.probe)'
    BY <1>2, <1>3, <1>4 DEF ManagerInv, DiscInv, Private
  <2>2. disc.pc \in {"displaced", "monitor"} => Targeted(disc.target)'
    BY <1>2, <1>3, <1>4 DEF ManagerInv, DiscInv, Targeted
  <2>3. \A x \in disc.victims : Evicted(x)'
    BY <1>1, <1>3, <1>4 DEF ManagerInv, DiscInv, DiscRec
  <2> QED
    BY <1>2, <2>1, <2>2, <2>3 DEF DiscInv, ManagerInv
<1>10. StopInv'
  BY <1>1, <1>2, <1>3, <1>4 DEF ManagerInv, StopInv
<1> QED
  BY <1>4, <1>6, <1>7, <1>8, <1>9, <1>10 DEF ManagerInv
-----------------------------------------------------------------------------
(* The spawn of a root *)

\* What is known of the manager, and of each spawn.
LEMMA SpawnFields ==
    ASSUME ManagerInv
    PROVE  /\ spawn \in [Launched -> SpawnRec]
           /\ \A g \in Launched : /\ spawn[g] \in SpawnRec /\ spawn[g].snapshot \in Snapshot
                                  /\ spawn[g].probe \in AnyHandle /\ SpawnGood(g)
                                  /\ Answered(spawn[g].snapshot)
           /\ WorldOK /\ disc \in DiscRec /\ mgr \in MgrRec /\ stopping \subseteq Handle
           /\ FleetInv /\ TypeOK /\ fleet \in FleetRec /\ RootsInv
           /\ loop \in [Handle -> LoopRec] /\ \A x \in Handle : Answered(loop[x].snapshot)
           /\ Answered(disc.snapshot)
           /\ Failed \in Snapshot /\ NoHandle \in AnyHandle
<1>1. spawn \in [Launched -> SpawnRec]
  BY Typed DEF ManagerInv
<1>2. \A g \in Launched : spawn[g] \in SpawnRec
  BY <1>1
<1>3. \A g \in Launched : spawn[g].snapshot \in Snapshot /\ spawn[g].probe \in AnyHandle
  BY <1>2 DEF SpawnRec
<1> QED
  BY <1>1, <1>2, <1>3, Typed, FailedTyped DEF ManagerInv, AnyHandle, AnsweredInv, FleetInv, SpawnInv

\* A spawn has moved, and the others have not.
LEMMA SpawnedFields ==
    ASSUME spawn \in [Launched -> SpawnRec], NEW g \in Launched, NEW n \in SpawnRec, Spawned(g, n)
    PROVE  /\ spawn' \in [Launched -> SpawnRec] /\ spawn'[g] = n
           /\ \A l \in Launched \ {g} : spawn'[l] = spawn[l]
BY DEF Spawned

\* A handle that neither discovery nor another spawn probes.
Apart(g, x) ==
    /\ disc.pc = "probed" => disc.probe # x
    /\ \A l \in Launched \ {g} : spawn[l].pc # "monitor" => spawn[l].probe # x

LEMMA ProbeApart ==
    ASSUME ManagerInv, NEW g \in Launched, NEW h \in Handle, spawn[g].probe = h,
           spawn[g].pc # "monitor"
    PROVE  Apart(g, h) /\ Private(h)
<1>1. h # NoHandle
  OBVIOUS
<1> QED
  BY <1>1 DEF ManagerInv, ProbesApart, SpawnsApart, SpawnInv, SpawnGood, Apart

LEMMA UnbuiltApart ==
    ASSUME ManagerInv, NEW g \in Launched, NEW h \in Handle, ~Private(h) PROVE Apart(g, h)
<1>1. h # NoHandle
  OBVIOUS
<1> QED
  BY <1>1 DEF ManagerInv, DiscInv, SpawnInv, SpawnGood, Apart

\* What a step of a spawn has to show.
LEMMA SpawnStepKeeps ==
    ASSUME ManagerInv, NEW g \in Launched, NEW n \in SpawnRec, Spawned(g, n),
           NEW X, StandingKept(X), \A x \in X : Apart(g, x),
           fleet' \in FleetRec, FleetInv', loop' \in [Handle -> LoopRec],
           \A x \in Handle : Answered(loop'[x].snapshot), WorldOK',
           UNCHANGED <<disc, stopping, mgr>>,
           Answered(n.snapshot),
           (n.pc # "monitor" /\ n.probe # NoHandle) => Private(n.probe)' /\ Apart(g, n.probe),
           n.pc = "probed" => n.probe # NoHandle,
           n.pc = "monitor" => Targeted(n.target)'
    PROVE  ManagerInv'
<1>1. /\ disc \in DiscRec /\ stopping \subseteq Handle /\ mgr \in MgrRec /\ Answered(disc.snapshot)
      /\ spawn \in [Launched -> SpawnRec] /\ \A l \in Launched : Answered(spawn[l].snapshot)
  BY SpawnFields
<1>2. /\ spawn' \in [Launched -> SpawnRec] /\ spawn'[g] = n
      /\ \A l \in Launched \ {g} : spawn'[l] = spawn[l]
  BY <1>1, SpawnedFields
<1>3. TypeOK'
  BY <1>1, <1>2, TypedNext
<1>4. DiscInv' /\ StopInv'
  BY OthersKept DEF ManagerInv, Apart
<1>5. SpawnInv'
  <2>1. \A l \in Launched \ {g} : SpawnGood(l)'
    BY <1>2, OthersKept DEF ManagerInv, Apart
  <2>2. SpawnGood(g)'
    BY <1>2 DEF SpawnGood, Private, Targeted
  <2> QED
    BY <2>1, <2>2 DEF SpawnInv
<1>6. AnsweredInv'
  BY <1>1, <1>2 DEF AnsweredInv
<1>7. ProbesApart'
  <2>1. disc'.pc = "probed" => disc'.probe # NoHandle
    BY DEF ManagerInv, DiscInv, Private
  <2> QED
    BY <1>2, <2>1 DEF ManagerInv, ProbesApart, Apart
<1>8. SpawnsApart'
  BY <1>2 DEF ManagerInv, SpawnsApart, Apart
<1> QED
  BY <1>3, <1>4, <1>5, <1>6, <1>7, <1>8 DEF ManagerInv

\* A step of a spawn that leaves the fleet alone.
LEMMA SpawnQuiet ==
    ASSUME ManagerInv, WorldOK', UNCHANGED <<fleet, loop, disc, stopping, mgr>>,
           NEW g \in Launched, NEW n \in SpawnRec, Spawned(g, n),
           n.snapshot \in {spawn[g].snapshot, Failed},
           n.pc \notin {"probed", "monitor"}, spawn[g].pc # "monitor",
           n.probe \in {spawn[g].probe, NoHandle}
    PROVE  ManagerInv'
<1>1. MgrStays
  BY Typed DEF ManagerInv, MgrStays
<1>2. /\ FleetInv' /\ fleet' \in FleetRec /\ loop' \in [Handle -> LoopRec] /\ StandingKept({})
      /\ \A x \in Handle : Answered(loop'[x].snapshot)
  BY <1>1, QuietKeeps
<1>3. ASSUME n.probe # NoHandle PROVE Private(n.probe)' /\ Apart(g, n.probe)
  <2>1. PICK h \in Handle : h = n.probe /\ h = spawn[g].probe
    BY <1>3, SpawnFields DEF AnyHandle
  <2>2. Private(h) /\ Apart(g, h)
    BY <2>1, ProbeApart
  <2>3. Private(h)'
    BY <1>2, <2>2 DEF StandingKept
  <2> QED
    BY <2>1, <2>2, <2>3
<1>4. Answered(n.snapshot)
  BY FailedTyped, SpawnFields
<1> QED
  BY <1>2, <1>3, <1>4, SpawnStepKeeps

\* The probe of a spawn is closed.
LEMMA SpawnCloses ==
    ASSUME ManagerInv, NEW g \in Launched, NEW n \in SpawnRec, Spawned(g, n),
           NEW h \in Handle, spawn[g].probe = h, spawn[g].pc # "monitor",
           fleet' = WithClosed(fleet, {h}), UNCHANGED <<loop, disc, stopping, mgr>>, WorldOK',
           n.snapshot \in {spawn[g].snapshot, Failed},
           n.probe = NoHandle, n.pc \notin {"probed", "monitor"}
    PROVE  ManagerInv'
<1>1. /\ FleetInv /\ TypeOK /\ loop \in [Handle -> LoopRec] /\ MgrStays
      /\ \A x \in Handle : Answered(loop[x].snapshot)
  BY SpawnFields DEF MgrStays
<1>2. Private(h) /\ Apart(g, h)
  BY ProbeApart
<1>3. {h} \in SUBSET Handle /\ \A x \in {h} : Closable(x)
  BY <1>1, <1>2, PrivateClosable
<1>4. fleet' \in FleetRec /\ FleetInv' /\ StandingKept({h})
  BY <1>1, <1>3, ClosedKeeps
<1>5. Answered(n.snapshot) /\ \A x \in {h} : Apart(g, x)
  BY <1>2, FailedTyped, SpawnFields
<1> QED
  BY <1>1, <1>4, <1>5, SpawnStepKeeps

\* The process is started, its bootstrap delivered, or the spawn given up.
LEMMA LaunchKeeps ==
    ASSUME ManagerInv, NEW g \in Launched, SpawnStart(g) \/ Bootstrap(g) \/ GiveUp(g)
    PROVE  ManagerInv'
<1>1. WorldOK /\ Failed \in Snapshot
  BY SpawnFields
<1>2. PICK w \in SpawnRec : w = spawn[g]
  BY SpawnFields
<1>3. /\ UNCHANGED <<fleet, loop, disc, stopping, mgr>>
      /\ w.pc \in {"idle", "bootstrap", "poll"}
  BY <1>2 DEF SpawnStart, Bootstrap, GiveUp
<1>4. WorldOK'
  <2>1. CASE UNCHANGED world
    BY <1>1, <2>1 DEF WorldOK, world
  <2>2. CASE SpawnStart(g)
    BY <1>1, <2>2 DEF SpawnStart, WorldOK, Life
  <2> QED
    BY <2>1, <2>2 DEF Bootstrap, GiveUp
<1>5. PICK n : /\ Spawned(g, n)
               /\ \/ n = [w EXCEPT !.pc = "bootstrap"]
                  \/ n = [w EXCEPT !.pc = "poll"]
                  \/ n = [w EXCEPT !.pc = "done", !.result = "error", !.killed = TRUE]
                  \/ n = [w EXCEPT !.pc = "stop", !.result = "error", !.snapshot = Failed]
  BY <1>2, Zenon DEF SpawnStart, Bootstrap, GiveUp, SpawnFails
<1>6. n \in SpawnRec
  <2>1. CASE n = [w EXCEPT !.pc = "bootstrap"]
    BY <1>2, <2>1, Zenon DEF SpawnRec
  <2>2. CASE n = [w EXCEPT !.pc = "poll"]
    BY <1>2, <2>2, Zenon DEF SpawnRec
  <2>3. CASE n = [w EXCEPT !.pc = "done", !.result = "error", !.killed = TRUE]
    BY <1>2, <2>3, Zenon DEF SpawnRec
  <2>4. CASE n = [w EXCEPT !.pc = "stop", !.result = "error", !.snapshot = Failed]
    BY <1>1, <1>2, <2>4, Zenon DEF SpawnRec
  <2> QED
    BY <1>5, <2>1, <2>2, <2>3, <2>4
<1>7. /\ n.snapshot \in {w.snapshot, Failed} /\ n.probe = w.probe
      /\ n.pc \notin {"probed", "monitor"}
  BY <1>2, <1>5 DEF SpawnRec
<1> QED
  BY <1>2, <1>3, <1>4, <1>5, <1>6, <1>7, SpawnQuiet

\* A tick of admission probes the root.
LEMMA SpawnProbeKeeps ==
    ASSUME ManagerInv, NEW l \in Launched, NEW h \in Handle, SpawnProbe(l, h)
    PROVE  ManagerInv'
<1>1. /\ WorldOK /\ FleetInv /\ TypeOK /\ fleet \in FleetRec
      /\ loop \in [Handle -> LoopRec] /\ \A x \in Handle : Answered(loop[x].snapshot)
  BY SpawnFields
<1>2. PICK w \in SpawnRec : w = spawn[l]
  BY SpawnFields
<1>3. /\ UNCHANGED <<loop, disc, stopping, mgr>> /\ WorldOK' /\ w.pc = "poll" /\ MgrStays
  BY <1>1, <1>2, SpawnFields DEF SpawnProbe, WorldOK, world, MgrStays
<1>4. PICK p \in Path : p = PathOf[l]
  OBVIOUS
<1>5. PICK g \in Gen : g = disk[p]
  BY <1>1, <1>4 DEF SpawnProbe, WorldOK
<1>6. h \in AnyHandle /\ NoHandle \in AnyHandle /\ h # NoHandle
  BY DEF AnyHandle
<1>7. ASSUME NEW n, Spawned(l, n), n = [w EXCEPT !.gen = g, !.probe = NoHandle],
             fleet' = fleet \/ (w.probe = h /\ fleet' = WithClosed(fleet, {h}))
      PROVE  ManagerInv'
  <2>1. n \in SpawnRec
    BY <1>2, <1>6, <1>7, Zenon DEF SpawnRec
  <2>2. n.snapshot = w.snapshot /\ n.probe = NoHandle /\ n.pc = "poll"
    BY <1>2, <1>3, <1>7 DEF SpawnRec
  <2>3. CASE fleet' = fleet
    BY <1>2, <1>3, <1>7, <2>1, <2>2, <2>3, SpawnQuiet
  <2>4. CASE w.probe = h /\ fleet' = WithClosed(fleet, {h})
    BY <1>2, <1>3, <1>7, <2>1, <2>2, <2>4, SpawnCloses
  <2> QED
    BY <1>7, <2>3, <2>4
<1>8. ASSUME NEW a \in Answers(p), NEW n, Spawned(l, n),
             n = [w EXCEPT !.pc = "probed", !.gen = g, !.probe = h, !.snapshot = a],
             \/ w.probe = h /\ fleet' = fleet
             \/ /\ w.probe = NoHandle /\ fleet.handle[h].client = "none"
                /\ fleet' = [fleet EXCEPT !.handle[h] = Fresh(p, g)]
      PROVE  ManagerInv'
  <2>1. a \in Snapshot /\ Answered(a)
    BY <1>1, AnswersTyped
  <2>2. n \in SpawnRec
    BY <1>2, <1>6, <1>8, <2>1, Zenon DEF SpawnRec
  <2>3. n.pc = "probed" /\ n.probe = h /\ n.snapshot = a
    BY <1>2, <1>8 DEF SpawnRec
  <2>4. /\ fleet' \in FleetRec /\ FleetInv' /\ StandingKept({}) /\ Private(h)' /\ Apart(l, h)
    <3>1. CASE w.probe = h /\ fleet' = fleet
      <4>1. Private(h) /\ Apart(l, h)
        BY <1>2, <1>3, <3>1, ProbeApart
      <4>2. fleet' \in FleetRec /\ FleetInv' /\ StandingKept({})
        BY <1>3, <3>1, QuietKeeps
      <4> QED
        BY <4>1, <4>2 DEF StandingKept
    <3>2. CASE /\ fleet.handle[h].client = "none"
               /\ fleet' = [fleet EXCEPT !.handle[h] = Fresh(p, g)]
      <4>1. ~Private(h)
        BY <1>1, <3>2, UnbuiltFree
      <4>2. Apart(l, h)
        BY <4>1, UnbuiltApart
      <4>3. fleet' \in FleetRec /\ FleetInv' /\ StandingKept({}) /\ Private(h)'
        BY <1>1, <1>3, <3>2, FreshKeeps
      <4> QED
        BY <4>2, <4>3
    <3> QED
      BY <1>8, <3>1, <3>2
  <2>5. Private(n.probe)' /\ Apart(l, n.probe) /\ Answered(n.snapshot)
    BY <2>1, <2>3, <2>4
  <2>6. \A x \in {} : Apart(l, x)
    OBVIOUS
  <2> QED
    BY <1>1, <1>3, <1>6, <1>8, <2>2, <2>3, <2>4, <2>5, <2>6, SpawnStepKeeps
<1>9. w.probe \in {NoHandle, h} /\ (w.probe = NoHandle => fleet.handle[h].client = "none")
  BY <1>2 DEF SpawnProbe
<1>10. PICK a \in Answers(p) :
         \/ /\ fleet' = IF w.probe = NoHandle THEN fleet ELSE WithClosed(fleet, {h})
            /\ Spawned(l, [w EXCEPT !.gen = g, !.probe = NoHandle])
         \/ /\ fleet' = IF w.probe = NoHandle
                        THEN [fleet EXCEPT !.handle[h] = Fresh(p, g)] ELSE fleet
            /\ Spawned(l, [w EXCEPT !.pc = "probed", !.gen = g, !.probe = h, !.snapshot = a])
  BY <1>2, <1>4, <1>5, Zenon DEF SpawnProbe
<1>11. CASE /\ fleet' = IF w.probe = NoHandle THEN fleet ELSE WithClosed(fleet, {h})
            /\ Spawned(l, [w EXCEPT !.gen = g, !.probe = NoHandle])
  <2>1. PICK n : n = [w EXCEPT !.gen = g, !.probe = NoHandle] /\ Spawned(l, n)
    BY <1>11, Zenon
  <2> QED
    BY <1>7, <1>9, <1>11, <2>1
<1>12. CASE /\ fleet' = IF w.probe = NoHandle
                        THEN [fleet EXCEPT !.handle[h] = Fresh(p, g)] ELSE fleet
            /\ Spawned(l, [w EXCEPT !.pc = "probed", !.gen = g, !.probe = h, !.snapshot = a])
  <2>1. PICK n : /\ n = [w EXCEPT !.pc = "probed", !.gen = g, !.probe = h, !.snapshot = a]
                 /\ Spawned(l, n)
    BY <1>12, Zenon
  <2> QED
    BY <1>6, <1>8, <1>9, <1>12, <2>1
<1> QED
  BY <1>10, <1>11, <1>12

\* The socket has changed, or the root is not live yet: admission goes on.
LEMMA SpawnRetryKeeps ==
    ASSUME ManagerInv, NEW g \in Launched, SpawnRetry(g) PROVE ManagerInv'
<1>1. WorldOK /\ Failed \in Snapshot /\ NoHandle \in AnyHandle /\ SpawnGood(g)
  BY SpawnFields
<1>2. PICK w \in SpawnRec : w = spawn[g] /\ w.probe \in AnyHandle
  BY SpawnFields
<1>3. /\ UNCHANGED <<loop, disc, stopping, mgr>> /\ WorldOK' /\ w.pc = "probed"
  BY <1>1, <1>2 DEF SpawnRetry, WorldOK, world
<1>4. PICK h \in Handle : h = w.probe
  BY <1>1, <1>2, <1>3 DEF SpawnGood, AnyHandle
<1>5. PICK same \in BOOLEAN : same = (disk[PathOf[g]] = w.gen)
  OBVIOUS
<1>6. PICK known \in BOOLEAN : known = (w.known \/ same)
  OBVIOUS
<1>7. PICK q \in AnyHandle : q = IF same THEN w.probe ELSE NoHandle
  BY <1>1, <1>2
<1>8. /\ fleet' = IF same THEN fleet ELSE WithClosed(fleet, {h})
      /\ Spawned(g, [w EXCEPT !.pc = "poll", !.snapshot = Failed, !.known = known, !.probe = q])
  BY <1>2, <1>4, <1>5, <1>6, <1>7 DEF SpawnRetry
<1>9. PICK n : /\ n = [w EXCEPT !.pc = "poll", !.snapshot = Failed, !.known = known, !.probe = q]
               /\ Spawned(g, n)
  BY <1>8, Zenon
<1>10. n \in SpawnRec
  BY <1>1, <1>2, <1>9, Zenon DEF SpawnRec
<1>11. n.pc = "poll" /\ n.snapshot = Failed /\ n.probe = q
  BY <1>2, <1>9 DEF SpawnRec
<1>12. CASE same
  BY <1>2, <1>3, <1>7, <1>8, <1>9, <1>10, <1>11, <1>12, SpawnQuiet
<1>13. CASE ~same
  BY <1>2, <1>3, <1>4, <1>7, <1>8, <1>9, <1>10, <1>11, <1>13, SpawnCloses
<1> QED
  BY <1>12, <1>13

\* A spawned root is committed with its name, or refused.
LEMMA SpawnCommitKeeps ==
    ASSUME ManagerInv, NEW g \in Launched, SpawnCommit(g) PROVE ManagerInv'
<1>1. /\ WorldOK /\ FleetInv /\ TypeOK /\ fleet \in FleetRec /\ RootsInv
      /\ loop \in [Handle -> LoopRec] /\ \A x \in Handle : Answered(loop[x].snapshot)
      /\ Failed \in Snapshot /\ SpawnGood(g)
  BY SpawnFields
<1>2. PICK w \in SpawnRec : w = spawn[g] /\ w.probe \in AnyHandle /\ w.snapshot \in Snapshot
                            /\ Answered(w.snapshot)
  BY SpawnFields
<1>3. /\ UNCHANGED <<loop, disc, stopping, mgr>> /\ WorldOK' /\ w.pc = "probed" /\ MgrStays
      /\ LoopMoves
  BY <1>1, <1>2, SpawnFields DEF SpawnCommit, WorldOK, world, MgrStays, LoopMoves
<1>4. PICK h \in Handle : h = w.probe
  BY <1>1, <1>2, <1>3 DEF SpawnGood, AnyHandle
<1>5. Private(h) /\ Apart(g, h)
  BY <1>2, <1>3, <1>4, ProbeApart
<1>6. PICK a \in Snapshot : a = w.snapshot /\ a.gen \in Gen
  BY <1>2 DEF SpawnCommit, Answered
<1>7. PICK known : known = [w EXCEPT !.known = TRUE, !.snapshot = Failed]
  OBVIOUS
<1>8. known \in SpawnRec
  BY <1>1, <1>2, <1>7, Zenon DEF SpawnRec
<1>9. known.snapshot = Failed /\ known.probe = w.probe
  BY <1>2, <1>7 DEF SpawnRec
<1>10. \/ Spawned(g, [known EXCEPT !.pc = "stop", !.result = "error"]) /\ fleet' = fleet
       \/ /\ ~Refused(h, a) /\ fleet' = Committed(h, a, TRUE, {"launch"})
          /\ Spawned(g, [known EXCEPT !.pc = "monitor", !.target = Target(h)])
  BY <1>2, <1>4, <1>6, <1>7 DEF SpawnCommit
<1>11. CASE Spawned(g, [known EXCEPT !.pc = "stop", !.result = "error"]) /\ fleet' = fleet
  <2>1. PICK n : n = [known EXCEPT !.pc = "stop", !.result = "error"] /\ Spawned(g, n)
    BY <1>11, Zenon
  <2>2. n \in SpawnRec
    BY <1>8, <2>1, Zenon DEF SpawnRec
  <2>3. n.pc = "stop" /\ n.snapshot = Failed /\ n.probe = w.probe
    BY <1>8, <1>9, <2>1 DEF SpawnRec
  <2> QED
    BY <1>2, <1>3, <1>11, <2>1, <2>2, <2>3, SpawnQuiet
<1>12. CASE /\ ~Refused(h, a) /\ fleet' = Committed(h, a, TRUE, {"launch"})
            /\ Spawned(g, [known EXCEPT !.pc = "monitor", !.target = Target(h)])
  <2>1. {"launch"} \in SUBSET Name
    BY DEF Name
  <2>2. PICK t \in Handle : t = Target(h)
    BY <1>1, <1>6, <2>1, CommittedFields
  <2>3. fleet' \in FleetRec /\ FleetInv' /\ StandingKept({h}) /\ Targeted(t)'
    BY <1>1, <1>3, <1>5, <1>6, <1>12, <2>1, <2>2, CommitKeeps
  <2>4. t \in AnyHandle
    BY DEF AnyHandle
  <2>5. PICK n : n = [known EXCEPT !.pc = "monitor", !.target = t] /\ Spawned(g, n)
    BY <1>12, <2>2, Zenon
  <2>6. n \in SpawnRec
    BY <1>8, <2>4, <2>5, Zenon DEF SpawnRec
  <2>7. n.pc = "monitor" /\ n.snapshot = Failed /\ n.target = t
    BY <1>8, <1>9, <2>5 DEF SpawnRec
  <2>8. Targeted(n.target)'
    BY <2>3, <2>7 DEF Targeted
  <2>9. Answered(n.snapshot) /\ \A x \in {h} : Apart(g, x)
    BY <1>5, <2>7, FailedTyped
  <2> QED
    BY <1>1, <1>3, <2>3, <2>5, <2>6, <2>7, <2>8, <2>9, SpawnStepKeeps
<1> QED
  BY <1>10, <1>11, <1>12

\* The target of a spawn is monitored, or refused.
LEMMA SpawnMonitorKeeps ==
    ASSUME ManagerInv, NEW g \in Launched, SpawnMonitor(g) PROVE ManagerInv'
<1>1. /\ WorldOK /\ FleetInv /\ TypeOK /\ Failed \in Snapshot /\ SpawnGood(g)
      /\ \A x \in Handle : Answered(loop[x].snapshot) /\ NoHandle \in AnyHandle
  BY SpawnFields
<1>2. PICK w \in SpawnRec : w = spawn[g] /\ Answered(w.snapshot)
  BY SpawnFields
<1>3. UNCHANGED <<disc, stopping, mgr>> /\ WorldOK'
  BY <1>1 DEF SpawnMonitor, WorldOK, world
<1>4. PICK t \in Handle : t = w.target /\ Targeted(t)
  BY <1>1, <1>2 DEF SpawnMonitor, SpawnGood, Targeted
<1>5. PICK own : own = w.probe
  OBVIOUS
<1>6. Admit(t, own)
  BY <1>2, <1>4, <1>5 DEF SpawnMonitor
<1>7. /\ fleet' \in FleetRec /\ loop' \in [Handle -> LoopRec] /\ FleetInv' /\ StandingKept({})
      /\ \A x \in Handle : Answered(loop'[x].snapshot)
  BY <1>1, <1>3, <1>4, <1>6, AdmitKeeps
<1>8. PICK f : f = SpawnFails(g)
  OBVIOUS
<1>9. f \in SpawnRec
  BY <1>1, <1>2, <1>8, Zenon DEF SpawnFails, SpawnRec
<1>10. f.pc = "stop" /\ f.snapshot = Failed
  BY <1>2, <1>8 DEF SpawnFails, SpawnRec
<1>11. PICK n : /\ Spawned(g, n)
                /\ \/ n = [f EXCEPT !.probe = NoHandle, !.target = NoHandle]
                   \/ n = [SpawnIdle EXCEPT !.pc = "done", !.result = "ok"]
  BY <1>2, <1>8, Zenon DEF SpawnMonitor
<1>12. /\ n \in SpawnRec /\ n.probe = NoHandle /\ n.pc \notin {"probed", "monitor"}
       /\ n.snapshot = Failed
  <2>1. CASE n = [f EXCEPT !.probe = NoHandle, !.target = NoHandle]
    <3>1. n \in SpawnRec
      BY <1>1, <1>9, <2>1, Zenon DEF SpawnRec
    <3> QED
      BY <1>9, <1>10, <2>1, <3>1 DEF SpawnRec
  <2>2. CASE n = [SpawnIdle EXCEPT !.pc = "done", !.result = "ok"]
    <3>1. n \in SpawnRec
      BY <1>1, <2>2, SpawnIdleTyped, Zenon DEF SpawnRec
    <3> QED
      BY <2>2, <3>1 DEF SpawnIdle
  <2> QED
    BY <1>11, <2>1, <2>2
<1>13. Answered(n.snapshot) /\ \A x \in {} : Apart(g, x)
  BY <1>12, FailedTyped
<1> QED
  BY <1>3, <1>7, <1>11, <1>12, <1>13, SpawnStepKeeps

\* The cleanup of a spawn that failed, and the death of its root.
LEMMA CleanupStopKeeps ==
    ASSUME ManagerInv, NEW g \in Launched, CleanupStop(g) PROVE ManagerInv'
<1>1. WorldOK /\ NoHandle \in AnyHandle /\ fleet \in FleetRec
  BY SpawnFields
<1>2. PICK w \in SpawnRec : w = spawn[g] /\ w.probe \in AnyHandle /\ Answered(w.snapshot)
  BY SpawnFields
<1>3. /\ UNCHANGED <<loop, disc, stopping, mgr>> /\ w.pc = "stop"
      /\ fleet' = WithClosed(fleet, {w.probe} \ {NoHandle})
  BY <1>2 DEF CleanupStop
<1>4. PICK n : n = [w EXCEPT !.pc = "term", !.probe = NoHandle, !.known = FALSE] /\ Spawned(g, n)
  BY <1>2, Zenon DEF CleanupStop
<1>5. WorldOK'
  BY <1>1 DEF CleanupStop, WorldOK, Life
<1>6. n \in SpawnRec
  BY <1>1, <1>2, <1>4, Zenon DEF SpawnRec
<1>7. n.pc = "term" /\ n.snapshot = w.snapshot /\ n.probe = NoHandle
  BY <1>2, <1>4 DEF SpawnRec
<1>8. CASE w.probe = NoHandle
  <2>1. {w.probe} \ {NoHandle} = {}
    BY <1>8
  <2>2. PICK X : X = {w.probe} \ {NoHandle} /\ X = {}
    BY <2>1
  <2>3. /\ FleetInv /\ TypeOK /\ loop \in [Handle -> LoopRec] /\ MgrStays
        /\ \A x \in Handle : Answered(loop[x].snapshot)
    BY <1>3, SpawnFields DEF MgrStays
  <2>4. X \in SUBSET Handle /\ \A x \in X : Closable(x)
    BY <2>2
  <2>5. fleet' \in FleetRec /\ FleetInv' /\ StandingKept(X)
    BY <1>3, <2>2, <2>3, <2>4, ClosedKeeps
  <2>6. Answered(n.snapshot) /\ \A x \in X : Apart(g, x)
    BY <1>2, <1>7, <2>2
  <2> QED
    BY <1>3, <1>4, <1>5, <1>6, <1>7, <2>3, <2>5, <2>6, SpawnStepKeeps
<1>9. CASE w.probe # NoHandle
  <2>1. PICK h \in Handle : h = w.probe
    BY <1>2, <1>9 DEF AnyHandle
  <2>2. {w.probe} \ {NoHandle} = {h}
    BY <1>9, <2>1
  <2>3. fleet' = WithClosed(fleet, {h})
    BY <1>3, <2>2
  <2> QED
    BY <1>2, <1>3, <1>4, <1>5, <1>6, <1>7, <2>1, <2>3, SpawnCloses
<1> QED
  BY <1>8, <1>9

\* SIGTERM, SIGKILL, the exit of the process, and its socket.
LEMMA CleanupKeeps ==
    ASSUME ManagerInv, NEW g \in Launched,
           CleanupTerm(g) \/ CleanupKill(g) \/ CleanupReap(g) \/ Die(g)
    PROVE  ManagerInv'
<1>1. WorldOK /\ g \in Gen
  BY SpawnFields
<1>2. UNCHANGED <<fleet, loop, disc, stopping, mgr>>
  BY DEF CleanupTerm, CleanupKill, CleanupReap, Die
<1>3. WorldOK'
  BY <1>1 DEF CleanupTerm, CleanupKill, CleanupReap, Die, WorldOK, Life, world
<1>4. CASE Die(g)
  BY <1>2, <1>3, <1>4, WorldKeeps DEF Die
<1>5. CASE CleanupTerm(g) \/ CleanupKill(g) \/ CleanupReap(g)
  <2>1. PICK b \in BOOLEAN : b = (life[g] # "dead")
    OBVIOUS
  <2>2. PICK w \in SpawnRec : w = spawn[g]
    BY SpawnFields
  <2>3. PICK n : /\ Spawned(g, n)
                 /\ \/ n = [w EXCEPT !.pc = "kill"]
                    \/ n = [w EXCEPT !.pc = "reap", !.killed = b]
                    \/ n = [w EXCEPT !.pc = "done", !.gen = NoGen, !.known = FALSE]
    BY <1>5, <2>1, <2>2, Zenon DEF CleanupTerm, CleanupKill, CleanupReap
  <2>4. n \in SpawnRec
    <3>1. CASE n = [w EXCEPT !.pc = "kill"]
      BY <2>2, <3>1, Zenon DEF SpawnRec
    <3>2. CASE n = [w EXCEPT !.pc = "reap", !.killed = b]
      BY <2>2, <3>2, Zenon DEF SpawnRec
    <3>3. CASE n = [w EXCEPT !.pc = "done", !.gen = NoGen, !.known = FALSE]
      BY <2>2, <3>3, Zenon DEF SpawnRec
    <3> QED
      BY <2>3, <3>1, <3>2, <3>3
  <2>5. /\ n.snapshot = w.snapshot /\ n.probe = w.probe
        /\ n.pc \notin {"probed", "monitor"}
    BY <2>2, <2>3 DEF SpawnRec
  <2>6. w.pc # "monitor"
    BY <1>5, <2>2 DEF CleanupTerm, CleanupKill, CleanupReap
  <2> QED
    BY <1>2, <1>3, <2>2, <2>3, <2>4, <2>5, <2>6, SpawnQuiet
<1> QED
  BY <1>4, <1>5

\* Every step of a spawn.
LEMMA SpawnKeeps == ASSUME ManagerInv, NEW g \in Launched, SpawnStep(g) PROVE ManagerInv'
BY LaunchKeeps, SpawnMonitorKeeps, SpawnRetryKeeps, SpawnCommitKeeps, CleanupStopKeeps,
   CleanupKeeps, SpawnProbeKeeps DEF SpawnStep
-----------------------------------------------------------------------------
(* Supervisors, requests and shutdown *)

\* A supervisor moves.
LEMMA SupervisorKeeps == ASSUME ManagerInv, World PROVE ManagerInv'
<1>1. WorldOK
  BY SpawnFields
<1>2. PICK g \in Gen : Bind(g) \/ Advance(g) \/ ChangeKids(g) \/ Exit(g)
  BY DEF World
<1>3. UNCHANGED <<fleet, loop, disc, spawn, stopping, mgr>>
  BY <1>2 DEF Bind, Advance, ChangeKids, Exit
<1>4. CASE Bind(g)
  BY <1>1, <1>3, <1>4, WorldKeeps DEF Bind, WorldOK, Life
<1>5. CASE Advance(g)
  BY <1>1, <1>3, <1>5, WorldKeeps DEF Advance, WorldOK, Life
<1>6. CASE ChangeKids(g)
  <2>1. PICK K \in SUBSET KidsOf[g] : kids' = [kids EXCEPT ![g] = K]
    BY <1>6 DEF ChangeKids
  <2>2. K \in SUBSET Kid
    OBVIOUS
  <2> QED
    BY <1>1, <1>3, <1>6, <2>1, <2>2, WorldKeeps DEF ChangeKids, WorldOK
<1>7. CASE Exit(g)
  BY <1>1, <1>3, <1>7, WorldKeeps DEF Exit, WorldOK, Life
<1> QED
  BY <1>2, <1>4, <1>5, <1>6, <1>7

\* A stop evicts the root it cannot act on, or asks it to end.
LEMMA StopSessionKeeps == ASSUME ManagerInv, NEW s \in Session, StopSession(s) PROVE ManagerInv'
<1>1. /\ disc \in DiscRec /\ WorldOK /\ FleetInv /\ TypeOK /\ stopping \subseteq Handle
      /\ fleet \in FleetRec /\ RootsInv /\ mgr \in MgrRec
      /\ loop \in [Handle -> LoopRec] /\ \A x \in Handle : Answered(loop[x].snapshot)
      /\ Answered(disc.snapshot)
  BY SpawnFields
<1>2. UNCHANGED <<loop, disc, spawn>>
  BY DEF StopSession
<1>3. ASSUME NEW p \in Path, NEW h \in Handle, h = fleet.roots[p], UNCHANGED world,
             mgr.evictions < MaxEvictions, mgr' = [mgr EXCEPT !.evictions = mgr.evictions + 1],
             fleet' = Removed({p}), stopping' = stopping \cup {h}
      PROVE  ManagerInv'
  <2>1. PICK n \in 0..MaxEvictions : n = mgr.evictions + 1
    BY <1>1, <1>3 DEF MgrRec
  <2>2. mgr' = [mgr EXCEPT !.evictions = n]
    BY <1>3, <2>1
  <2>3. mgr' \in MgrRec
    BY <1>1, <2>2, Zenon DEF MgrRec
  <2>4. MgrStays
    BY <1>1, <2>2, <2>3 DEF MgrRec, MgrStays
  <2>5. h \in InFleet /\ fleet.handle[h].path = p /\ {p} \in SUBSET Path
    BY <1>1, <1>3, InFleetAtPath
  <2>6. fleet' \in FleetRec /\ FleetInv' /\ StandingKept({}) /\ Evicted(h)'
    BY <1>1, <1>2, <1>3, <2>4, <2>5, RemovedKeeps
  <2>7. WorldOK' /\ stopping' \subseteq Handle
    BY <1>1, <1>3 DEF WorldOK, world
  <2>8. DiscInv' /\ \A l \in Launched : SpawnGood(l)'
    BY <1>2, <2>6, OthersKept DEF ManagerInv
  <2>9. /\ SpawnInv' /\ SpawnsApart' /\ spawn' \in [Launched -> SpawnRec]
        /\ \A l \in Launched : Answered(spawn'[l].snapshot)
    BY <1>2, <2>8, SpawnsStay
  <2>10. TypeOK'
    BY <1>1, <1>2, <1>3, <2>3, <2>6, <2>7, <2>9, TypedNext
  <2>11. StopInv'
    <3>1. \A x \in stopping : Evicted(x)'
      BY <1>1, <2>6 DEF ManagerInv, StopInv, StandingKept
    <3> QED
      BY <1>3, <2>6, <3>1 DEF StopInv
  <2>12. ProbesApart' /\ AnsweredInv'
    BY <1>1, <1>2, <2>9 DEF ManagerInv, ProbesApart, AnsweredInv
  <2> QED
    BY <2>6, <2>8, <2>9, <2>10, <2>11, <2>12 DEF ManagerInv
<1>4. ASSUME NEW g \in Gen, life' = [life EXCEPT ![g] = "ending"],
             UNCHANGED <<fleet, stopping, mgr, disk, kids>>
      PROVE  ManagerInv'
  BY <1>1, <1>2, <1>4, WorldKeeps DEF WorldOK, Life
<1>5. PICK p \in Path :
         LET h == fleet.roots[p] IN
         /\ h # NoHandle
         /\ \/ /\ mgr.evictions < MaxEvictions
               /\ mgr' = [mgr EXCEPT !.evictions = mgr.evictions + 1]
               /\ fleet' = Removed({p}) /\ stopping' = stopping \cup {h} /\ UNCHANGED life
            \/ /\ \E g \in Gen : life' = [life EXCEPT ![g] = "ending"]
               /\ UNCHANGED <<fleet, stopping, mgr>>
  BY DEF StopSession
<1>6. PICK h \in Handle : h = fleet.roots[p]
  BY <1>1, <1>5, InFleetAtPath
<1>7. UNCHANGED <<disk, kids>>
  BY DEF StopSession
<1> QED
  BY <1>3, <1>4, <1>5, <1>6, <1>7 DEF world

\* An evicted root has drained.
LEMMA StopDrainKeeps == ASSUME ManagerInv, NEW h \in Handle, StopDrain(h) PROVE ManagerInv'
<1>1. /\ disc \in DiscRec /\ WorldOK /\ FleetInv /\ TypeOK /\ stopping \subseteq Handle
      /\ fleet \in FleetRec /\ NoResurrection /\ mgr \in MgrRec
      /\ loop \in [Handle -> LoopRec] /\ \A x \in Handle : Answered(loop[x].snapshot)
      /\ Answered(disc.snapshot)
  BY SpawnFields DEF FleetInv
<1>2. /\ UNCHANGED <<loop, disc, spawn, mgr>> /\ stopping' \subseteq stopping
      /\ WorldOK' /\ MgrStays
  BY <1>1 DEF StopDrain, WorldOK, world, MgrStays
<1>3. Evicted(h) /\ LoopsEnded(h)
  BY DEF StopDrain, ManagerInv, StopInv
<1>4. Closable(h)
  BY <1>1, <1>3 DEF Closable, Running, Evicted, NoResurrection
<1>5. {h} \in SUBSET Handle /\ \A x \in {h} : Closable(x)
  BY <1>4
<1>6. fleet' = WithClosed(fleet, {h})
  BY DEF StopDrain
<1>7. fleet' \in FleetRec /\ FleetInv' /\ StandingKept({h})
  BY <1>1, <1>2, <1>5, <1>6, ClosedKeeps
<1>8. /\ disc.pc = "probed" => disc.probe \notin {h}
      /\ \A l \in Launched : spawn[l].pc # "monitor" => spawn[l].probe \notin {h}
  BY <1>3 DEF ManagerInv, DiscInv, SpawnInv, SpawnGood, Private, Evicted
<1>9. DiscInv' /\ StopInv' /\ \A l \in Launched : SpawnGood(l)'
  BY <1>2, <1>7, <1>8, OthersKept DEF ManagerInv
<1>10. /\ SpawnInv' /\ SpawnsApart' /\ spawn' \in [Launched -> SpawnRec]
       /\ \A l \in Launched : Answered(spawn'[l].snapshot)
  BY <1>2, <1>9, SpawnsStay
<1>11. TypeOK'
  BY <1>1, <1>2, <1>7, <1>10, TypedNext
<1>12. ProbesApart' /\ AnsweredInv'
  BY <1>1, <1>2, <1>10 DEF ManagerInv, ProbesApart, AnsweredInv
<1> QED
  BY <1>7, <1>9, <1>10, <1>11, <1>12 DEF ManagerInv

\* A root gets a name.
LEMMA RenameKeeps ==
    ASSUME ManagerInv, NEW r \in Root, NEW name \in NewName, RenameRoot(r, name)
    PROVE  ManagerInv'
<1>1. /\ WorldOK /\ FleetInv /\ HandleInv /\ MgrInv /\ TypeOK /\ fleet \in FleetRec /\ RootsInv
      /\ mgr \in MgrRec
      /\ loop \in [Handle -> LoopRec] /\ \A x \in Handle : Answered(loop[x].snapshot)
  BY SpawnFields DEF FleetInv
<1>2. UNCHANGED <<loop, disc, spawn, stopping, mgr>> /\ WorldOK' /\ LoopMoves /\ MgrInv'
  BY <1>1 DEF RenameRoot, WorldOK, world, LoopMoves, MgrInv
<1>3. PICK h \in InFleet :
         fleet' = [fleet EXCEPT !.handle[h] = [fleet.handle[h] EXCEPT !.touched = TRUE,
                                                                      !.name = name]]
  BY DEF RenameRoot
<1>4. h \in Handle
  BY <1>1, InFleetAtPath
<1>5. fleet.handle[h] \in HandleRecord /\ name \in Name
  BY <1>1, <1>4, FleetFields DEF Name
<1> DEFINE n == [fleet.handle[h] EXCEPT !.touched = TRUE, !.name = name]
<1>6. n \in HandleRecord
  BY <1>5, Zenon DEF HandleRecord
<1>7. /\ n.path = fleet.handle[h].path /\ n.gen = fleet.handle[h].gen
      /\ n.left = fleet.handle[h].left /\ n.monitoring = fleet.handle[h].monitoring
      /\ n.client = fleet.handle[h].client /\ n.cancelled = fleet.handle[h].cancelled
  BY <1>5 DEF HandleRecord
<1>8. fleet' = [fleet EXCEPT !.handle[h] = n]
  BY <1>3
<1> HIDE DEF n
<1>9. /\ fleet' \in FleetRec /\ fleet'.roots = fleet.roots /\ fleet'.handle[h] = n
      /\ \A x \in Handle \ {h} : fleet'.handle[x] = fleet.handle[x]
  BY <1>1, <1>4, <1>6, <1>8, SetFields
<1>10. \A x \in Handle :
         /\ UNCHANGED <<fleet.handle[x].path, fleet.handle[x].gen, fleet.handle[x].left,
                        fleet.handle[x].monitoring, fleet.handle[x].client>>
         /\ fleet.handle[x].cancelled => fleet'.handle[x].cancelled
         /\ fleet'.handle[x].cancelled => fleet.handle[x].monitoring
  BY <1>1, <1>4, <1>7, <1>9 DEF HandleInv
<1>11. FleetInv' /\ StandingKept({})
  BY <1>1, <1>2, <1>9, <1>10, LoopsKeep
<1> QED
  BY <1>1, <1>2, <1>9, <1>11, LoopStepKeeps

\* The manager is quiesced, or closed: every loop is cancelled.
LEMMA ShutdownKeeps == ASSUME ManagerInv, Quiesce \/ Close PROVE ManagerInv'
<1>1. /\ WorldOK /\ FleetInv /\ HandleInv /\ MgrInv /\ TypeOK /\ fleet \in FleetRec /\ RootsInv
      /\ mgr \in MgrRec
      /\ loop \in [Handle -> LoopRec] /\ \A x \in Handle : Answered(loop[x].snapshot)
  BY SpawnFields DEF FleetInv
<1>2. UNCHANGED <<loop, disc, spawn, stopping>> /\ WorldOK' /\ LoopMoves
  BY <1>1 DEF Quiesce, Close, WorldOK, world, LoopMoves
<1>3. \/ mgr' = [mgr EXCEPT !.quiesced = TRUE]
      \/ mgr.quiesced /\ mgr' = [mgr EXCEPT !.closed = TRUE]
  BY DEF Quiesce, Close
<1>4. mgr' \in MgrRec
  BY <1>1, <1>3, Zenon DEF MgrRec
<1>5. UNCHANGED mgr.clientsClosed /\ MgrInv'
  BY <1>1, <1>3 DEF MgrRec, MgrInv
<1>6. /\ fleet' \in FleetRec /\ fleet'.roots = fleet.roots
      /\ \A x \in Handle :
         /\ UNCHANGED <<fleet.handle[x].path, fleet.handle[x].gen, fleet.handle[x].left,
                        fleet.handle[x].monitoring, fleet.handle[x].client>>
         /\ fleet.handle[x].cancelled => fleet'.handle[x].cancelled
         /\ fleet'.handle[x].cancelled => fleet.handle[x].monitoring
  <2>1. CASE fleet' = fleet
    BY <1>1, <2>1 DEF HandleInv
  <2>2. CASE Close
    <3> DEFINE c(h) == [fleet.handle[h] EXCEPT !.cancelled = fleet.handle[h].cancelled
                                                                \/ fleet.handle[h].monitoring]
               T == [h \in Handle |-> c(h)]
    <3>1. ASSUME NEW x \in Handle
          PROVE  /\ c(x) \in HandleRecord
                 /\ c(x).path = fleet.handle[x].path /\ c(x).gen = fleet.handle[x].gen
                 /\ c(x).left = fleet.handle[x].left /\ c(x).client = fleet.handle[x].client
                 /\ c(x).monitoring = fleet.handle[x].monitoring
                 /\ c(x).cancelled <=> fleet.handle[x].cancelled \/ fleet.handle[x].monitoring
      <4>1. PICK b \in BOOLEAN : b = (fleet.handle[x].cancelled \/ fleet.handle[x].monitoring)
        OBVIOUS
      <4>2. fleet.handle[x] \in HandleRecord /\ c(x) = [fleet.handle[x] EXCEPT !.cancelled = b]
        BY <1>1, <4>1, FleetFields
      <4> HIDE DEF c
      <4>3. c(x) \in HandleRecord
        BY <4>2, Zenon DEF HandleRecord
      <4> QED
        BY <4>1, <4>2, <4>3 DEF HandleRecord
    <3>2. fleet' = [fleet EXCEPT !.handle = T]
      BY <2>2 DEF Close
    <3> HIDE DEF c
    <3>3. T \in [Handle -> HandleRecord] /\ \A x \in Handle : T[x] = c(x)
      BY <3>1
    <3> HIDE DEF T
    <3>4. fleet' \in FleetRec /\ fleet'.roots = fleet.roots /\ fleet'.handle = T
      BY <1>1, <3>2, <3>3 DEF FleetRec
    <3> QED
      BY <1>1, <3>1, <3>3, <3>4 DEF HandleInv
  <2> QED
    BY <2>1, <2>2 DEF Quiesce
<1>7. FleetInv' /\ StandingKept({})
  BY <1>1, <1>2, <1>4, <1>5, <1>6, LoopsKeep
<1> QED
  BY <1>1, <1>2, <1>4, <1>6, <1>7, LoopStepKeeps
\* Every loop has ended: the clients of the fleet are closed, and the fleet is empty.
LEMMA CloseClientsKeeps == ASSUME ManagerInv, CloseClients PROVE ManagerInv'
<1>1. /\ WorldOK /\ FleetInv /\ HandleInv /\ MgrInv /\ TypeOK /\ fleet \in FleetRec /\ RootsInv
      /\ mgr \in MgrRec
      /\ loop \in [Handle -> LoopRec] /\ \A x \in Handle : Answered(loop[x].snapshot)
  BY SpawnFields DEF FleetInv
<1>2. UNCHANGED <<loop, disc, spawn, stopping>> /\ WorldOK'
  BY <1>1 DEF CloseClients, WorldOK, world
<1>3. mgr.closed /\ (\A x \in Handle : LoopsEnded(x)) /\ mgr' = [mgr EXCEPT !.clientsClosed = TRUE]
  BY DEF CloseClients
<1>4. mgr' \in MgrRec
  BY <1>1, <1>3, Zenon DEF MgrRec
<1>5. mgr'.clientsClosed /\ mgr'.closed /\ mgr'.quiesced
  BY <1>1, <1>3 DEF MgrRec, MgrInv
<1> DEFINE C == WithClosed(fleet, InFleet)
           R == [p \in Path |-> NoHandle]
           S == [s \in Session |-> NoRoot]
<1>6. PICK X : X = InFleet
  OBVIOUS
<1>7. /\ C \in FleetRec
      /\ \A x \in Handle :
            /\ x \notin X => C.handle[x] = fleet.handle[x]
            /\ C.handle[x].path = fleet.handle[x].path /\ C.handle[x].gen = fleet.handle[x].gen
            /\ C.handle[x].left = fleet.handle[x].left
            /\ C.handle[x].monitoring = fleet.handle[x].monitoring
            /\ C.handle[x].cancelled = fleet.handle[x].cancelled
            /\ x \in X => C.handle[x].client = "closed"
  <2>1. C = WithClosed(fleet, X)
    BY <1>6
  <2> HIDE DEF C
  <2> QED
    BY <1>1, <2>1, ClosedFields
<1>8. /\ fleet' = [C EXCEPT !.roots = R, !.routes = S]
      /\ R \in [Path -> AnyHandle] /\ S \in [Session -> Root \cup {NoRoot}]
      /\ \A p \in Path : R[p] = NoHandle
  BY DEF CloseClients, AnyHandle
<1> HIDE DEF C, R, S
<1>9. fleet' \in FleetRec /\ fleet'.roots = R /\ fleet'.handle = C.handle
  BY <1>7, <1>8 DEF FleetRec
<1>10. \A p \in Path : fleet'.roots[p] = NoHandle
  BY <1>8, <1>9
<1>11. \A x : x \notin InFleet'
  BY <1>10, InFleetNext
<1> DEFINE r(x) == fleet'.handle[x]
           q(x) == fleet.handle[x]
<1>12. \A x \in Handle :
          /\ x \notin InFleet => r(x).client = q(x).client
          /\ x \in InFleet => r(x).client = "closed"
          /\ r(x).left = q(x).left /\ r(x).monitoring = q(x).monitoring
          /\ r(x).cancelled = q(x).cancelled
  BY <1>6, <1>7, <1>9
<1>13. \A x \in Handle : ~Running(x)'
  BY <1>2, <1>3, <1>12 DEF Running, LoopsEnded
<1>14. HandleInv'
  <2>1. ASSUME NEW x \in Handle
        PROVE  /\ r(x).client = "none" => r(x).left = "no" /\ ~r(x).monitoring
               /\ r(x).left = "watched" => r(x).cancelled
               /\ r(x).cancelled => r(x).monitoring
               /\ r(x).monitoring <=> loop[x].pc # "off"
    BY <1>1, <1>12 DEF HandleInv
  <2> QED
    BY <1>2, <1>5, <2>1 DEF HandleInv
<1>15. RootsInv' /\ MgrInv' /\ OneSocketPerRoot' /\ DrainBeforeClose' /\ NoResurrection'
  BY <1>5, <1>10, <1>11, <1>13
  DEF RootsInv, MgrInv, OneSocketPerRoot, DrainBeforeClose, NoResurrection
<1>16. StandingKept({})
  <2>1. ASSUME NEW x \in Handle, Private(x) PROVE Private(x)'
    BY <1>11, <1>12, <2>1 DEF Private
  <2>2. ASSUME NEW x \in Handle, Targeted(x) PROVE Targeted(x)'
    BY <1>5, <1>12, <2>2 DEF Targeted
  <2>3. ASSUME NEW x \in Handle, Evicted(x) PROVE Evicted(x)'
    BY <1>12, <2>3 DEF Evicted
  <2> QED
    BY <2>1, <2>2, <2>3 DEF StandingKept
<1>17. FleetInv'
  BY <1>14, <1>15 DEF FleetInv
<1> QED
  BY <1>1, <1>2, <1>4, <1>9, <1>16, <1>17, LoopStepKeeps

-----------------------------------------------------------------------------
(* The theorems *)

\* The invariant holds of a manager that has just started.
LEMMA InitHolds == Init => ManagerInv
<1> SUFFICES ASSUME Init PROVE ManagerInv
  OBVIOUS
<1> DEFINE R == [p \in Path |-> NoHandle]
           S == [s \in Session |-> NoRoot]
           H == [h \in Handle |-> Unbuilt]
           off == [pc |-> "off", snapshot |-> Failed]
<1>1. fleet = [roots |-> R, routes |-> S, handle |-> H]
  BY DEF Init
<1>2. /\ R \in [Path -> AnyHandle] /\ S \in [Session -> Root \cup {NoRoot}]
      /\ H \in [Handle -> HandleRecord]
  BY UnbuiltIsTyped DEF AnyHandle
<1>3. /\ \A p \in Path : R[p] = NoHandle
      /\ \A h \in Handle : H[h] = Unbuilt
  OBVIOUS
<1>4. off \in LoopRec /\ off.pc = "off" /\ off.snapshot = Failed
  BY FailedTyped DEF LoopRec
<1>5. loop \in [Handle -> LoopRec] /\ \A h \in Handle : loop[h] = off
  BY <1>4 DEF Init
<1> HIDE DEF R, S, H, off
<1>6. fleet \in FleetRec /\ fleet.roots = R /\ fleet.handle = H
  BY <1>1, <1>2 DEF FleetRec
<1>7. disc \in DiscRec /\ disc.pc = "idle" /\ disc.victims = {} /\ disc.snapshot = Failed
  BY IdleTyped DEF Init, DiscIdle
<1>8. /\ spawn \in [Launched -> SpawnRec]
      /\ \A g \in Launched : /\ spawn[g].pc = "idle" /\ spawn[g].probe = NoHandle
                             /\ spawn[g].snapshot = Failed
  <2>1. SpawnIdle.pc = "idle" /\ SpawnIdle.probe = NoHandle /\ SpawnIdle.snapshot = Failed
    BY DEF SpawnIdle
  <2> QED
    BY <2>1, SpawnIdleTyped DEF Init
<1>9. mgr \in MgrRec /\ ~mgr.closed /\ ~mgr.clientsClosed
  BY DEF Init, MgrRec
<1>10. WorldOK /\ stopping = {}
  BY DEF Init, WorldOK, Life
<1>11. TypeOK
  BY <1>5, <1>6, <1>7, <1>8, <1>9, <1>10, Typed
<1>12. InFleet = {} /\ \A p \in Path : fleet.roots[p] = NoHandle
  BY <1>3, <1>6 DEF InFleet
<1>13. \A h \in Handle : fleet.handle[h] = Unbuilt /\ ~Running(h) /\ loop[h].pc = "off"
  BY <1>3, <1>4, <1>5, <1>6 DEF Running, LoopsEnded
<1>14. HandleInv
  BY <1>13, UnbuiltIsTyped DEF HandleInv
<1>15. FleetInv
  BY <1>9, <1>12, <1>13, <1>14
  DEF FleetInv, RootsInv, MgrInv, OneSocketPerRoot, DrainBeforeClose, NoResurrection
<1>16. DiscInv /\ SpawnInv /\ ProbesApart /\ SpawnsApart /\ StopInv
  BY <1>7, <1>8, <1>10 DEF DiscInv, SpawnInv, SpawnGood, ProbesApart, SpawnsApart, StopInv
<1>17. AnsweredInv
  BY <1>4, <1>5, <1>7, <1>8, FailedTyped DEF AnsweredInv
<1> QED
  BY <1>11, <1>15, <1>16, <1>17 DEF ManagerInv

\* Every step of the manager keeps the invariant.
LEMMA NextKeeps == ManagerInv /\ [Next]_vars => ManagerInv'
<1> SUFFICES ASSUME ManagerInv, [Next]_vars PROVE ManagerInv'
  OBVIOUS
<1>1. CASE UNCHANGED vars
  <2>1. WorldOK
    BY SpawnFields
  <2>2. WorldOK' /\ UNCHANGED <<fleet, loop, disc, spawn, stopping, mgr>>
    BY <1>1, <2>1 DEF vars, world, WorldOK
  <2> QED
    BY <2>2, WorldKeeps
<1>2. CASE User
  BY <1>2, LaunchKeeps, StopSessionKeeps, RenameKeeps, ShutdownKeeps DEF User
<1>3. CASE \E h \in Handle : LoopStep(h) \/ StopDrain(h) \/ Collect(h)
  BY <1>3, PollTickKeeps, PollGotKeeps, StopDrainKeeps, CollectStep DEF LoopStep
<1> QED
  BY <1>1, <1>2, <1>3, SupervisorKeeps, DiscoverKeeps, SpawnKeeps, CloseClientsKeeps DEF Next

\* However discovery, spawns, stops and the loops interleave, the invariant holds.
THEOREM ManagerInvariant == Spec => []ManagerInv
<1>1. Init => ManagerInv
  BY InitHolds
<1>2. ManagerInv /\ [Next]_vars => ManagerInv'
  BY NextKeeps
<1> QED
  BY <1>1, <1>2, PTL DEF Spec

\* Every variable keeps its type.
THEOREM TypeCorrect == Spec => []TypeOK
<1>1. ManagerInv => TypeOK
  BY DEF ManagerInv
<1> QED
  BY <1>1, ManagerInvariant, PTL

\* commitTreeWithAdmission: no two handles of the fleet carry the same session ID.
THEOREM OneSocket == Spec => []OneSocketPerRoot
<1>1. ManagerInv => OneSocketPerRoot
  BY DEF ManagerInv, FleetInv
<1> QED
  BY <1>1, ManagerInvariant, PTL

\* A client stays open while its handle is in the fleet or its loops run, unless the handle left
\* the fleet between its commit and its monitoring.
THEOREM ClientsOutliveLoops == Spec => []DrainBeforeClose
<1>1. ManagerInv => DrainBeforeClose
  BY DEF ManagerInv, FleetInv
<1> QED
  BY <1>1, ManagerInvariant, PTL

\* A handle whose loops were cancelled when it left the fleet never returns.
THEOREM NoReturn == Spec => []NoResurrection
<1>1. ManagerInv => NoResurrection
  BY DEF ManagerInv, FleetInv
<1> QED
  BY <1>1, ManagerInvariant, PTL
-----------------------------------------------------------------------------
(* Names, trees and routes *)

\* What the user sees of a root.
SamePage(r, q) ==
    r.tree = q.tree /\ r.actionable = q.actionable /\ r.name = q.name /\ r.touched = q.touched

\* A root that leaves the fleet takes its routes along, and nothing else is changed.
LEMMA RemovedPages ==
    ASSUME fleet \in FleetRec, RootsInv, NEW P \in SUBSET Path
    PROVE  /\ \A x \in Handle : SamePage(Removed(P).handle[x], fleet.handle[x])
           /\ \A s \in Session : Removed(P).routes[s] \in {fleet.routes[s], NoRoot}
<1> DEFINE gone == {fleet.roots[p] : p \in P} \ {NoHandle}
           left(x) == IF fleet.handle[x].monitoring /\ fleet.handle[x].left = "no"
                      THEN "watched" ELSE "unwatched"
           c(x) == [fleet.handle[x] EXCEPT !.cancelled = fleet.handle[x].monitoring,
                                           !.left = left(x)]
           S == WithoutRoutes(fleet.routes, {RootOfHandle(h) : h \in gone})
<1>1. /\ \A x \in Handle : Removed(P).handle[x] = IF x \in gone THEN c(x) ELSE fleet.handle[x]
      /\ Removed(P).routes = S
  BY DEF Removed
<1>2. \A x \in Handle : SamePage(c(x), fleet.handle[x])
  <2>1. ASSUME NEW x \in Handle, NEW q \in HandleRecord, NEW m, NEW l
        PROVE  SamePage([q EXCEPT !.cancelled = m, !.left = l], q)
    BY DEF SamePage, HandleRecord
  <2> QED
    BY <2>1, FleetFields
<1>3. \A s \in Session : S[s] \in {fleet.routes[s], NoRoot}
  BY DEF WithoutRoutes
<1> HIDE DEF S, c, gone
<1> QED
  BY <1>1, <1>2, <1>3 DEF SamePage

\* A client that is closed is all that changes.
LEMMA ClosedPages ==
    ASSUME NEW f \in FleetRec, NEW X
    PROVE  \A x \in Handle : SamePage(WithClosed(f, X).handle[x], f.handle[x])
<1>1. \A x \in Handle : WithClosed(f, X).handle[x] =
                           IF x \in X THEN [f.handle[x] EXCEPT !.client = "closed"] ELSE f.handle[x]
  BY DEF WithClosed, FleetRec
<1>2. ASSUME NEW q \in HandleRecord PROVE SamePage([q EXCEPT !.client = "closed"], q)
  BY DEF SamePage, HandleRecord
<1> QED
  BY <1>1, <1>2, FleetFields DEF SamePage

\* A commit writes the tree and the name of its target, and the routes of its tree only.
LEMMA CommittedPages ==
    ASSUME fleet \in FleetRec, RootsInv, NEW h \in Handle, NEW a \in Snapshot, a.gen \in Gen,
           NEW actionable \in BOOLEAN, NEW names \in SUBSET Name
    PROVE  LET f == Committed(h, a, actionable, names)
               t == Target(h) IN
           /\ f.handle[t].tree = Tree(a) /\ f.handle[t].actionable = actionable
           /\ \A x \in Handle \ {t} : SamePage(f.handle[x], fleet.handle[x])
           /\ f.handle[t].touched = fleet.handle[t].touched
           /\ fleet.handle[t].touched => f.handle[t].name = fleet.handle[t].name
           /\ \A s \in Tree(a) : f.routes[s] = RootOf[a.gen]
           /\ \A s \in Session \ Tree(a) : /\ f.routes[s] \in {fleet.routes[s], NoRoot}
                                           /\ RootOfHandle(t) \in Root
                                                  => f.routes[s] # RootOfHandle(t)
<1> DEFINE p == fleet.handle[h].path
           t == Target(h)
           base == IF Displaced(h) = {} THEN fleet ELSE Removed({p})
           cleared == WithoutRoutes(base.routes, {RootOfHandle(t)})
           name == IF names = {} \/ base.handle[t].touched THEN base.handle[t].name
                   ELSE CHOOSE n \in names : TRUE
           new == [base.handle[t] EXCEPT !.tree = Tree(a), !.actionable = actionable, !.name = name]
           shut == [base.handle[h] EXCEPT !.client = "closed"]
           S == [s \in Session |-> IF s \in Tree(a) THEN RootOf[a.gen] ELSE cleared[s]]
           T == [x \in Handle |-> IF x = t THEN new ELSE IF x = h THEN shut ELSE base.handle[x]]
<1>1. Committed(h, a, actionable, names).routes = S /\ Committed(h, a, actionable, names).handle = T
  BY DEF Committed
<1>2. t \in Handle
  BY CommittedFields
<1>3. /\ base \in FleetRec
      /\ \A x \in Handle : SamePage(base.handle[x], fleet.handle[x])
      /\ \A s \in Session : base.routes[s] \in {fleet.routes[s], NoRoot}
  <2>1. CASE Displaced(h) = {}
    BY <2>1 DEF SamePage
  <2>2. CASE Displaced(h) # {}
    <3>1. {p} \in SUBSET Path
      BY FleetFields
    <3> HIDE DEF p
    <3> QED
      BY <2>2, <3>1, RemovedFields, RemovedPages
  <2> QED
    BY <2>1, <2>2
<1>4. Tree(a) \in SUBSET Session
  BY DEF Tree, Snapshot, Session
<1>5. \A s \in Session : S[s] = IF s \in Tree(a) THEN RootOf[a.gen] ELSE cleared[s]
  OBVIOUS
<1>7. \A x \in Handle : T[x] = IF x = t THEN new ELSE IF x = h THEN shut ELSE base.handle[x]
  OBVIOUS
<1> HIDE DEF p, t, base
<1>8. \A s \in Session : cleared[s] = IF base.routes[s] = RootOfHandle(t) THEN NoRoot ELSE base.routes[s]
  BY DEF WithoutRoutes
<1> HIDE DEF name, cleared
<1>9. /\ new.tree = Tree(a) /\ new.actionable = actionable /\ new.name = name
      /\ new.touched = base.handle[t].touched
      /\ SamePage(shut, base.handle[h])
  <2>1. base.handle[t] \in HandleRecord /\ base.handle[h] \in HandleRecord
    BY <1>2, <1>3, FleetFields
  <2> QED
    BY <2>1 DEF HandleRecord, SamePage
<1> DEFINE f == Committed(h, a, actionable, names)
<1>10. /\ f.handle[t].tree = Tree(a) /\ f.handle[t].actionable = actionable
       /\ f.handle[t].touched = fleet.handle[t].touched
       /\ fleet.handle[t].touched => f.handle[t].name = fleet.handle[t].name
  <2>1. f.handle[t] = new /\ base.handle[t].touched = fleet.handle[t].touched
           /\ base.handle[t].name = fleet.handle[t].name
    BY <1>1, <1>2, <1>3, <1>7 DEF SamePage
  <2> HIDE DEF new, f
  <2> QED
    BY <1>9, <2>1 DEF name
<1>11. \A x \in Handle \ {t} : SamePage(f.handle[x], fleet.handle[x])
  <2> HIDE DEF new, shut, T
  <2> QED
    BY <1>1, <1>3, <1>7, <1>9 DEF SamePage
<1>12. \A s \in Tree(a) : f.routes[s] = RootOf[a.gen]
  BY <1>1, <1>4, <1>5
<1>13. ASSUME NEW s \in Session \ Tree(a)
       PROVE  /\ f.routes[s] \in {fleet.routes[s], NoRoot}
              /\ RootOfHandle(t) \in Root => f.routes[s] # RootOfHandle(t)
  <2>1. f.routes[s] = cleared[s]
    BY <1>1, <1>5
  <2> QED
    BY <1>3, <1>8, <2>1
<1> HIDE DEF f
<1> QED
  BY <1>10, <1>11, <1>12, <1>13 DEF f, t
-----------------------------------------------------------------------------
(* Paths, and who is to close a client *)

\* A socket is at the path its supervisor binds, a handle is for a generation of its path, and
\* so is the answer that a commit is about to take.
WorldPaths == \A p \in Path : disk[p] # NoGen => PathOf[disk[p]] = p

PathInv ==
    \A x \in Handle : fleet.handle[x].client # "none" =>
        fleet.handle[x].gen \in Gen /\ PathOf[fleet.handle[x].gen] = fleet.handle[x].path

At(a, x) == PathOf[a.gen] = fleet.handle[x].path

AnswerPaths ==
    /\ disc.pc = "probed" => At(disc.snapshot, disc.probe)
    /\ \A g \in Launched : spawn[g].pc = "probed" => At(spawn[g].snapshot, spawn[g].probe)
    /\ \A x \in Handle : loop[x].pc = "got" => At(loop[x].snapshot, x)

\* What a spawn holds is at the path of the root that it launches.
Held(g, x) ==
    x \in Handle /\ fleet.handle[x].client # "none" /\ fleet.handle[x].path = PathOf[g]

SpawnPath ==
    \A g \in Launched : /\ spawn[g].probe # NoHandle => Held(g, spawn[g].probe)
                        /\ spawn[g].pc = "monitor" => Held(g, spawn[g].target)

BookInv == WorldPaths /\ PathInv /\ AnswerPaths /\ SpawnPath

\* A spawn is over, or has not asked for anything yet.
SpawnOver == {"idle", "bootstrap", "term", "kill", "reap", "done"}

\* A request that is over holds nothing.
HoldsInv ==
    /\ disc.pc \notin {"drain", "displaced", "sweep"} => disc.victims = {}
    /\ \A g \in Launched : spawn[g].pc \in SpawnOver => spawn[g].probe = NoHandle
    /\ \A x \in Handle : fleet.handle[x].left = "dropped" => mgr.quiesced

\* The handle of one's own that a discovery, or a spawn, is about to monitor.
DiscOwn(x) == disc.pc \in {"displaced", "monitor"} /\ disc.target = x /\ disc.probe = x
SpawnOwn(x) ==
    \E g \in Launched : spawn[g].pc = "monitor" /\ spawn[g].target = x /\ spawn[g].probe = x

\* Only a spawn may have monitored it before.
OwnInv ==
    \A x \in Handle : (DiscOwn(x) /\ fleet.handle[x].monitoring)
                          => \E l \in Launched : fleet.handle[x].path = PathOf[l]

\* A zombie that nobody will drop.
Haunted == \E z \in Handle : Zombie(z) /\ ~DiscOwn(z) /\ ~SpawnOwn(z)

\* Somebody is going to close an open client, unless a zombie may have displaced its handle.
Owned(x) ==
    \/ x \in InFleet \cup disc.victims \cup stopping
    \/ disc.pc = "probed" /\ disc.probe = x
    \/ \E g \in Launched : spawn[g].pc # "monitor" /\ spawn[g].probe = x

OwnersInv == \A x \in Handle : fleet.handle[x].client = "open" => Owned(x) \/ Haunted

\* Once closed, the manager has no roots and no loops.
ClosedInv ==
    mgr.clientsClosed => InFleet = {} /\ \A x \in Handle : LoopsEnded(x)

LeakInv == HoldsInv /\ OwnInv /\ OwnersInv /\ ClosedInv

FullInv == ManagerInv /\ BookInv /\ LeakInv
-----------------------------------------------------------------------------
(* What a step does to the fleet *)

\* A commit, or a root that ends, takes a generation of the path of the handle.
Offered(h, a) ==
    /\ h \in Handle /\ a \in Snapshot /\ a.gen \in Gen
    /\ At(a, h) /\ fleet.handle[h].client # "none"

Retained(h, a) ==
    [fleet EXCEPT !.handle[h] = [fleet.handle[h] EXCEPT !.tree = Tree(a), !.actionable = FALSE]]

Built == {x \in Handle : fleet.handle[x].client # "none"}

\* The end of some spawn.
Monitors(h) == \E g \in Launched : SpawnMonitor(g) /\ spawn[g].target = h

FleetMoves ==
    \/ fleet' = fleet
    \/ \E P \in SUBSET Path : fleet' = Removed(P)
    \/ \E X \in SUBSET Built : fleet' = WithClosed(fleet, X)
    \/ \E h \in Handle, a \in Snapshot, b \in BOOLEAN, names \in SUBSET Name :
          Offered(h, a) /\ ~Refused(h, a) /\ fleet' = Committed(h, a, b, names)
    \/ \E h \in Handle, p \in Path, g \in Gen :
          /\ PathOf[g] = p /\ fleet.handle[h].client = "none"
          /\ fleet' = [fleet EXCEPT !.handle[h] = Fresh(p, g)]
    \/ \E h \in Handle : Collect(h)
    \/ \E h \in Handle : /\ ~mgr.quiesced /\ (DiscMonitor \/ Monitors(h))
                         /\ fleet' = [fleet EXCEPT !.handle[h].monitoring = TRUE]
    \/ \E h \in InFleet : /\ mgr.quiesced /\ (DiscOwn(h) \/ SpawnOwn(h))
                          /\ fleet' = Dropped(h)
    \/ \E h \in InFleet, a \in Snapshot : Offered(h, a) /\ fleet' = Retained(h, a)
    \/ \E r \in Root, n \in NewName : RenameRoot(r, n)
    \/ Close \/ CloseClients

\* Whoever is referred to has a client.
LEMMA ProbesOpen ==
    ASSUME ManagerInv
    PROVE  /\ disc.pc = "probed" => disc.probe \in Built
           /\ disc.victims \subseteq Built
           /\ \A g \in Launched :
                 /\ spawn[g].pc = "probed" => spawn[g].probe \in Built
                 /\ (spawn[g].pc # "monitor" /\ spawn[g].probe # NoHandle) => spawn[g].probe \in Built
           /\ stopping \subseteq Built
           /\ \A x \in Handle : loop[x].pc = "got" => x \in Built
           /\ InFleet \subseteq Built
<1>1. fleet \in FleetRec /\ RootsInv /\ HandleInv
  BY Typed DEF ManagerInv, FleetInv
<1>2. /\ disc.pc = "probed" => disc.probe \in Built
      /\ \A g \in Launched :
            /\ (spawn[g].pc # "monitor" /\ spawn[g].probe # NoHandle) => spawn[g].probe \in Built
            /\ spawn[g].pc = "probed" => spawn[g].probe # NoHandle
  BY DEF ManagerInv, DiscInv, SpawnInv, SpawnGood, Private, Built
<1>3. \A x \in Handle : loop[x].pc = "got" => x \in Built
  BY <1>1 DEF HandleInv, Built
<1>4. InFleet \subseteq Built
  BY <1>1, InFleetAtPath DEF RootsInv, Built
<1>5. disc.victims \subseteq Built /\ stopping \subseteq Built
  BY DEF ManagerInv, DiscInv, StopInv, Evicted, Built
<1> QED
  BY <1>2, <1>3, <1>4, <1>5

\* The discovery loop.
LEMMA DiscoverMoves ==
    ASSUME ManagerInv, AnswerPaths, Discover
    PROVE  FleetMoves
<1>1. /\ disc \in DiscRec /\ disc.snapshot \in Snapshot /\ Answered(disc.snapshot)
      /\ disc.victims \in SUBSET Handle
  BY Typed DEF ManagerInv, DiscRec, AnsweredInv
<1>2. CASE List \/ TakeKnown \/ \E p \in Path : Skip(p)
  BY <1>2 DEF List, TakeKnown, Skip, FleetMoves
<1>3. ASSUME NEW p \in Path, Inspect(p) PROVE FleetMoves
  <2>1. {p} \in SUBSET Path
    OBVIOUS
  <2> QED
    BY <1>3, <2>1, Zenon DEF Inspect, FleetMoves
<1>4. CASE Sweep
  <2>1. {p \in Path : disc.known[p] # NoHandle} \in SUBSET Path
    OBVIOUS
  <2> QED
    BY <1>4, <2>1, Zenon DEF Sweep, FleetMoves
<1>5. ASSUME NEW h \in Handle, DiscDrain(h) PROVE FleetMoves
  <2>1. {h} \in SUBSET Built
    BY <1>5, ProbesOpen DEF DiscDrain
  <2> QED
    BY <1>5, <2>1, Zenon DEF DiscDrain, FleetMoves
<1>6. ASSUME NEW h \in Handle, Dial(h) PROVE FleetMoves
  <2>1. PICK p \in Path : disc.gen \in Gen /\ p = PathOf[disc.gen]
    BY <1>6 DEF Dial, ManagerInv, DiscInv
  <2>2. fleet.handle[h].client = "none"
    BY <1>6 DEF Dial
  <2>3. fleet' = fleet \/ fleet' = [fleet EXCEPT !.handle[h] = Fresh(p, disc.gen)]
    BY <1>6, <2>1 DEF Dial
  <2> QED
    BY <2>1, <2>2, <2>3, Zenon DEF FleetMoves
<1>7. CASE DiscCommit
  <2>1. PICK h \in Built, a \in Snapshot : h = disc.probe /\ a = disc.snapshot
    BY <1>1, <1>7, ProbesOpen DEF DiscCommit
  <2>2. h \in Handle /\ Offered(h, a)
    BY <1>1, <1>7, <2>1
    DEF DiscCommit, Offered, AnswerPaths, Answered, ManagerInv, DiscInv, Built
  <2>3. {h} \in SUBSET Built /\ {} \in SUBSET Name
    OBVIOUS
  <2>4. PICK b \in BOOLEAN : b = (a.life = "live")
    OBVIOUS
  <2>5. \/ fleet' = WithClosed(fleet, {h})
        \/ ~Refused(h, a) /\ fleet' = Committed(h, a, b, {})
    BY <1>7, <2>1, <2>4 DEF DiscCommit
  <2> QED
    BY <2>2, <2>3, <2>5, Zenon DEF FleetMoves
<1>8. CASE DiscMonitor
  <2>1. disc.target \in Handle
    BY <1>8 DEF DiscMonitor, ManagerInv, DiscInv, Targeted
  <2>2. disc.pc = "monitor" /\ Admit(disc.target, disc.probe)
    BY <1>8 DEF DiscMonitor
  <2>3. \/ fleet' = fleet
        \/ ~mgr.quiesced /\ fleet' = [fleet EXCEPT !.handle[disc.target].monitoring = TRUE]
        \/ /\ mgr.quiesced /\ disc.target = disc.probe /\ disc.target \in InFleet
           /\ fleet' = Dropped(disc.target)
    BY <2>2 DEF Admit, Monitor, ManagerInv, FleetInv, MgrInv
  <2>4. disc.target = disc.probe => DiscOwn(disc.target)
    BY <2>2 DEF DiscOwn
  <2> QED
    BY <1>8, <2>1, <2>3, <2>4, Zenon DEF FleetMoves
<1> QED
  BY <1>2, <1>3, <1>4, <1>5, <1>6, <1>7, <1>8 DEF Discover

\* The spawn of a root.
LEMMA SpawnMoves ==
    ASSUME ManagerInv, WorldPaths, AnswerPaths, NEW g \in Launched, SpawnStep(g)
    PROVE  FleetMoves
<1>1. WorldOK /\ spawn[g].snapshot \in Snapshot /\ Answered(spawn[g].snapshot)
  BY SpawnFields
<1>2. CASE Bootstrap(g) \/ GiveUp(g)
  BY <1>2 DEF Bootstrap, GiveUp, FleetMoves
<1>3. CASE SpawnMonitor(g)
  <2>1. PICK t \in Handle : t = spawn[g].target
    BY <1>3, SpawnFields DEF SpawnMonitor, SpawnGood, Targeted
  <2>2. spawn[g].pc = "monitor" /\ Admit(t, spawn[g].probe)
    BY <1>3, <2>1 DEF SpawnMonitor
  <2>3. \/ fleet' = fleet
        \/ ~mgr.quiesced /\ fleet' = [fleet EXCEPT !.handle[t].monitoring = TRUE]
        \/ mgr.quiesced /\ t = spawn[g].probe /\ t \in InFleet /\ fleet' = Dropped(t)
    BY <2>2 DEF Admit, Monitor, ManagerInv, FleetInv, MgrInv
  <2>4. (t = spawn[g].probe => SpawnOwn(t)) /\ Monitors(t)
    BY <1>3, <2>1, <2>2 DEF SpawnOwn, Monitors
  <2> QED
    BY <2>3, <2>4, Zenon DEF FleetMoves
<1>4. CASE SpawnRetry(g)
  <2>1. {spawn[g].probe} \in SUBSET Built
    BY <1>4, ProbesOpen DEF SpawnRetry
  <2>2. fleet' = fleet \/ fleet' = WithClosed(fleet, {spawn[g].probe})
    BY <1>4 DEF SpawnRetry
  <2> QED
    BY <2>1, <2>2, Zenon DEF FleetMoves
<1>5. CASE SpawnCommit(g)
  <2>1. PICK h \in Built, a \in Snapshot : h = spawn[g].probe /\ a = spawn[g].snapshot
    BY <1>1, <1>5, ProbesOpen DEF SpawnCommit
  <2>2. h \in Handle /\ Offered(h, a)
    BY <1>1, <1>5, <2>1 DEF SpawnCommit, Offered, AnswerPaths, Answered, Built
  <2>3. {"launch"} \in SUBSET Name
    BY DEF Name
  <2>4. fleet' = fleet \/ (~Refused(h, a) /\ fleet' = Committed(h, a, TRUE, {"launch"}))
    BY <1>5, <2>1 DEF SpawnCommit
  <2> QED
    BY <2>2, <2>3, <2>4, Zenon DEF FleetMoves
<1>6. CASE CleanupStop(g)
  <2>1. {spawn[g].probe} \ {NoHandle} \in SUBSET Built
    BY <1>6, ProbesOpen DEF CleanupStop
  <2> QED
    BY <1>6, <2>1, Zenon DEF CleanupStop, FleetMoves
<1>7. CASE CleanupTerm(g) \/ CleanupKill(g) \/ CleanupReap(g) \/ Die(g)
  BY <1>7 DEF CleanupTerm, CleanupKill, CleanupReap, Die, FleetMoves
<1>8. ASSUME NEW h \in Handle, SpawnProbe(g, h) PROVE FleetMoves
  <2>1. PICK p \in Path : p = PathOf[g]
    OBVIOUS
  <2>2. PICK d \in Gen : d = disk[p] /\ PathOf[d] = p
    BY <1>1, <1>8, <2>1 DEF SpawnProbe, WorldOK, WorldPaths
  <2>w. PICK w : w = spawn[g]
    OBVIOUS
  <2>3. w.probe # NoHandle => {h} \in SUBSET Built
    BY <1>8, <2>w, ProbesOpen DEF SpawnProbe
  <2>4. \/ fleet' = fleet \/ (w.probe # NoHandle /\ fleet' = WithClosed(fleet, {h}))
        \/ fleet.handle[h].client = "none" /\ fleet' = [fleet EXCEPT !.handle[h] = Fresh(p, d)]
    BY <1>8, <2>w, <2>1, <2>2, Zenon DEF SpawnProbe
  <2>5. CASE fleet' = fleet \/ (w.probe # NoHandle /\ fleet' = WithClosed(fleet, {h}))
    BY <2>3, <2>5, Zenon DEF FleetMoves
  <2>6. CASE fleet.handle[h].client = "none" /\ fleet' = [fleet EXCEPT !.handle[h] = Fresh(p, d)]
    <3>1. PathOf[d] = p
      BY <2>2
    <3> QED
      BY <2>6, <3>1, Zenon DEF FleetMoves
  <2> QED
    BY <2>4, <2>5, <2>6
<1> QED
  BY <1>2, <1>3, <1>4, <1>5, <1>6, <1>7, <1>8 DEF SpawnStep

\* Every step of the manager.
LEMMA StepMoves ==
    ASSUME ManagerInv, WorldPaths, AnswerPaths, [Next]_vars
    PROVE  FleetMoves
<1>1. CASE UNCHANGED vars
  BY <1>1 DEF vars, FleetMoves
<1>2. CASE World
  BY <1>2 DEF World, Bind, Advance, ChangeKids, Exit, FleetMoves
<1>3. CASE User
  <2>1. CASE (\E g \in Launched : SpawnStart(g)) \/ Quiesce
    BY <2>1 DEF SpawnStart, Quiesce, FleetMoves
  <2>2. ASSUME NEW s \in Session, StopSession(s) PROVE FleetMoves
    <3>1. PICK p \in Path : fleet' = fleet \/ fleet' = Removed({p})
      BY <2>2 DEF StopSession
    <3>2. {p} \in SUBSET Path
      OBVIOUS
    <3> QED
      BY <3>1, <3>2, Zenon DEF FleetMoves
  <2>3. CASE Close
    BY <2>3 DEF FleetMoves
  <2>4. ASSUME NEW r \in Root, NEW n \in NewName, RenameRoot(r, n) PROVE FleetMoves
    BY <2>4 DEF FleetMoves
  <2> QED
    BY <1>3, <2>1, <2>2, <2>3, <2>4 DEF User
<1>4. ASSUME NEW h \in Handle, StopDrain(h) PROVE FleetMoves
  <2>1. {h} \in SUBSET Built
    BY <1>4, ProbesOpen DEF StopDrain
  <2> QED
    BY <1>4, <2>1, Zenon DEF StopDrain, FleetMoves
<1>5. ASSUME NEW h \in Handle, PollTick(h) PROVE FleetMoves
  BY <1>5 DEF PollTick, FleetMoves
<1>6. ASSUME NEW h \in Handle, PollGot(h) PROVE FleetMoves
  <2>1. loop[h] \in LoopRec /\ Answered(loop[h].snapshot)
    BY Typed DEF ManagerInv, AnsweredInv
  <2>2. PICK a \in Snapshot : a = loop[h].snapshot
    BY <2>1 DEF LoopRec
  <2>3. \/ fleet' = fleet
        \/ a.life = "ending" /\ h \in InFleet /\ fleet' = Retained(h, a)
        \/ a.life = "live" /\ ~Refused(h, a) /\ fleet' = Committed(h, a, TRUE, {})
    BY <1>6, <2>2 DEF PollGot, Retained
  <2>4. a.life \in {"ending", "live"} => Offered(h, a)
    BY <1>6, <2>1, <2>2, ProbesOpen DEF PollGot, Offered, AnswerPaths, Answered, Built
  <2>5. {} \in SUBSET Name
    OBVIOUS
  <2> QED
    BY <2>3, <2>4, <2>5, Zenon DEF FleetMoves
<1>7. ASSUME NEW h \in Handle, Collect(h) PROVE FleetMoves
  BY <1>7 DEF FleetMoves
<1>8. CASE CloseClients
  BY <1>8 DEF FleetMoves
<1> QED
  BY <1>1, <1>2, <1>3, <1>4, <1>5, <1>6, <1>7, <1>8, DiscoverMoves, SpawnMoves DEF Next, LoopStep

\* Records that one step changes: the fields that stay, and those that do not.
LEMMA MonitoredRecord ==
    ASSUME NEW q \in HandleRecord, NEW r, r = [q EXCEPT !.monitoring = TRUE]
    PROVE  /\ r \in HandleRecord /\ r.path = q.path /\ r.gen = q.gen
           /\ SamePage(r, q) /\ r.client = q.client /\ r.left = q.left
           /\ r.cancelled = q.cancelled /\ r.monitoring
<1>1. r \in HandleRecord
  BY Zenon DEF HandleRecord
<1> QED
  BY <1>1 DEF HandleRecord, SamePage

LEMMA DroppedRecord ==
    ASSUME NEW q \in HandleRecord, NEW r, r = [q EXCEPT !.client = "closed", !.left = "dropped"]
    PROVE  /\ r \in HandleRecord /\ r.path = q.path /\ r.gen = q.gen
           /\ SamePage(r, q) /\ r.client = "closed" /\ r.left = "dropped"
           /\ r.cancelled = q.cancelled /\ r.monitoring = q.monitoring
<1>1. r \in HandleRecord
  BY Zenon DEF HandleRecord
<1> QED
  BY <1>1 DEF HandleRecord, SamePage

LEMMA CancelledRecord ==
    ASSUME NEW q \in HandleRecord, NEW b \in BOOLEAN, NEW r, r = [q EXCEPT !.cancelled = b]
    PROVE  /\ r \in HandleRecord /\ r.path = q.path /\ r.gen = q.gen
           /\ SamePage(r, q) /\ r.client = q.client /\ r.left = q.left
           /\ r.monitoring = q.monitoring /\ r.cancelled = b
<1>1. r \in HandleRecord
  BY Zenon DEF HandleRecord
<1> QED
  BY <1>1 DEF HandleRecord, SamePage

\* The loops of a handle start.
LEMMA MonitoredFields ==
    ASSUME fleet \in FleetRec, NEW h \in Handle, fleet' = [fleet EXCEPT !.handle[h].monitoring = TRUE]
    PROVE  /\ fleet' \in FleetRec /\ fleet'.roots = fleet.roots /\ fleet'.routes = fleet.routes
           /\ \A x \in Handle \ {h} : fleet'.handle[x] = fleet.handle[x]
           /\ LET r == fleet'.handle[h]
                  q == fleet.handle[h] IN
              /\ SamePage(r, q) /\ r.path = q.path /\ r.gen = q.gen
              /\ r.client = q.client /\ r.left = q.left /\ r.cancelled = q.cancelled
              /\ r.monitoring
<1>1. PICK q \in HandleRecord : q = fleet.handle[h]
  BY FleetFields
<1>2. PICK r \in HandleRecord :
         /\ r = [q EXCEPT !.monitoring = TRUE]
         /\ SamePage(r, q) /\ r.path = q.path /\ r.gen = q.gen
         /\ r.client = q.client /\ r.left = q.left /\ r.cancelled = q.cancelled
         /\ r.monitoring
  BY MonitoredRecord
<1>3. fleet' = [fleet EXCEPT !.handle[h] = r]
  BY <1>1, <1>2
<1>4. /\ fleet' \in FleetRec /\ fleet'.roots = fleet.roots /\ fleet'.routes = fleet.routes
      /\ fleet'.handle[h] = r /\ \A x \in Handle \ {h} : fleet'.handle[x] = fleet.handle[x]
  <2>1. PICK g : g = [fleet EXCEPT !.handle[h] = r]
    OBVIOUS
  <2>2. /\ g \in FleetRec /\ g.roots = fleet.roots /\ g.routes = fleet.routes
        /\ g.handle[h] = r /\ \A x \in Handle \ {h} : g.handle[x] = fleet.handle[x]
    BY <2>1, SetFields
  <2> QED
    BY <1>3, <2>1, <2>2
<1> QED
  BY <1>1, <1>2, <1>4

\* A handle is dropped.
LEMMA DroppedFields ==
    ASSUME fleet \in FleetRec, RootsInv, NEW h \in InFleet, fleet' = Dropped(h)
    PROVE  /\ fleet' \in FleetRec /\ h \in Handle
           /\ \A y \in Path : fleet'.roots[y] = IF y = fleet.handle[h].path THEN NoHandle
                                                ELSE fleet.roots[y]
           /\ \A s \in Session : fleet'.routes[s] \in {fleet.routes[s], NoRoot}
           /\ \A x \in Handle \ {h} : fleet'.handle[x] = fleet.handle[x]
           /\ LET r == fleet'.handle[h]
                  q == fleet.handle[h] IN
              /\ SamePage(r, q) /\ r.path = q.path /\ r.gen = q.gen
              /\ r.client = "closed" /\ r.left = "dropped" /\ r.cancelled = q.cancelled
              /\ r.monitoring = q.monitoring
<1>p. PICK p \in Path : p = fleet.handle[h].path
  BY InFleetAtPath
<1>1. PICK P \in SUBSET Path : p = fleet.handle[h].path /\ P = {p}
  BY <1>p
<1>2. /\ h \in Handle /\ fleet.roots[p] = h
      /\ \A x \in Handle \ {h} : ~(x \in InFleet /\ fleet.handle[x].path \in P)
  BY <1>1, InFleetAtPath
<1>3. PICK R \in FleetRec :
         /\ R = Removed(P)
         /\ \A y \in Path : R.roots[y] = IF y \in P THEN NoHandle ELSE fleet.roots[y]
         /\ \A x \in Handle : ~(x \in InFleet /\ fleet.handle[x].path \in P)
                                 => R.handle[x] = fleet.handle[x]
         /\ \A s \in Session : R.routes[s] \in {fleet.routes[s], NoRoot}
  BY RemovedFields, RemovedPages
<1>4. fleet.handle[h] \in HandleRecord
  BY <1>2, FleetFields
<1>5. PICK r \in HandleRecord : r = [fleet.handle[h] EXCEPT !.client = "closed", !.left = "dropped"]
  BY <1>4, DroppedRecord
<1>6. fleet' = [R EXCEPT !.handle[h] = r]
  BY <1>1, <1>3, <1>5 DEF Dropped
<1>7. /\ fleet' \in FleetRec /\ fleet'.roots = R.roots /\ fleet'.routes = R.routes
      /\ fleet'.handle[h] = r /\ \A x \in Handle \ {h} : fleet'.handle[x] = R.handle[x]
  BY <1>2, <1>6, SetFields
<1>8. \A y \in Path : fleet'.roots[y] = IF y = fleet.handle[h].path THEN NoHandle ELSE fleet.roots[y]
  <2>1. \A y \in Path : y \in P <=> y = p
    BY <1>1
  <2> QED
    BY <1>p, <1>3, <1>7, <2>1
<1>9. \A x \in Handle \ {h} : fleet'.handle[x] = fleet.handle[x]
  BY <1>2, <1>3, <1>7
<1>10. LET q == fleet.handle[h] IN
       /\ SamePage(r, q) /\ r.path = q.path /\ r.gen = q.gen
       /\ r.client = "closed" /\ r.left = "dropped" /\ r.cancelled = q.cancelled
       /\ r.monitoring = q.monitoring
  BY <1>4, <1>5, DroppedRecord
<1> QED
  BY <1>2, <1>3, <1>7, <1>8, <1>9, <1>10

\* A root that ends is retained.
LEMMA RetainedFields ==
    ASSUME fleet \in FleetRec, NEW h, NEW a, Offered(h, a), fleet' = Retained(h, a)
    PROVE  /\ fleet' \in FleetRec /\ fleet'.roots = fleet.roots /\ fleet'.routes = fleet.routes
           /\ \A x \in Handle \ {h} : fleet'.handle[x] = fleet.handle[x]
           /\ LET r == fleet'.handle[h]
                  q == fleet.handle[h] IN
              /\ r.path = q.path /\ r.gen = q.gen
              /\ r.client = q.client /\ r.left = q.left /\ r.monitoring = q.monitoring
              /\ r.cancelled = q.cancelled /\ ~r.actionable
              /\ r.name = q.name /\ r.touched = q.touched
<1>1. h \in Handle /\ fleet.handle[h] \in HandleRecord
  BY FleetFields DEF Offered
<1>2. PICK T \in SUBSET Session : T = Tree(a)
  <2>1. RootOf[a.gen] \in Root /\ a.kids \subseteq Kid
    BY DEF Offered, Snapshot
  <2> QED
    BY <2>1 DEF Tree, Session
<1>3. PICK q \in HandleRecord : q = fleet.handle[h]
  BY <1>1
<1>r. PICK r : r = [q EXCEPT !.tree = T, !.actionable = FALSE]
  OBVIOUS
<1>4. /\ r \in HandleRecord
         /\ r.path = q.path /\ r.gen = q.gen
         /\ r.client = q.client /\ r.left = q.left /\ r.monitoring = q.monitoring
         /\ r.cancelled = q.cancelled /\ ~r.actionable
         /\ r.name = q.name /\ r.touched = q.touched
  <2>1. r \in HandleRecord
    BY <1>r, Zenon DEF HandleRecord
  <2> QED
    BY <1>r, <2>1 DEF HandleRecord
<1>5. fleet' = [fleet EXCEPT !.handle[h] = r]
  BY <1>r, <1>2, <1>3 DEF Retained
<1>6. /\ fleet' \in FleetRec /\ fleet'.roots = fleet.roots /\ fleet'.routes = fleet.routes
      /\ fleet'.handle[h] = r /\ \A x \in Handle \ {h} : fleet'.handle[x] = fleet.handle[x]
  BY <1>1, <1>4, <1>5, SetFields
<1> QED
  BY <1>3, <1>4, <1>6

\* A root is renamed.
LEMMA RenamedFields ==
    ASSUME fleet \in FleetRec, RootsInv, NEW r0 \in Root, NEW n \in NewName, RenameRoot(r0, n)
    PROVE  /\ fleet' \in FleetRec /\ fleet'.roots = fleet.roots /\ fleet'.routes = fleet.routes
           /\ \A x \in Handle :
              LET r == fleet'.handle[x]
                  q == fleet.handle[x] IN
              /\ r.path = q.path /\ r.gen = q.gen
              /\ r.client = q.client /\ r.left = q.left /\ r.monitoring = q.monitoring
              /\ r.cancelled = q.cancelled /\ r.actionable = q.actionable /\ r.tree = q.tree
<1>1. PICK h \in InFleet :
         fleet' = [fleet EXCEPT !.handle[h] = [fleet.handle[h] EXCEPT !.touched = TRUE, !.name = n]]
  BY DEF RenameRoot
<1>2. h \in Handle /\ fleet.handle[h] \in HandleRecord /\ n \in Name
  BY InFleetAtPath, FleetFields DEF Name
<1>3. PICK q \in HandleRecord : q = fleet.handle[h]
  BY <1>2
<1>r. PICK r : r = [q EXCEPT !.touched = TRUE, !.name = n]
  OBVIOUS
<1>4. /\ r \in HandleRecord
         /\ r.path = q.path /\ r.gen = q.gen
         /\ r.client = q.client /\ r.left = q.left /\ r.monitoring = q.monitoring
         /\ r.cancelled = q.cancelled /\ r.actionable = q.actionable /\ r.tree = q.tree
  <2>1. r \in HandleRecord
    BY <1>r, <1>2, Zenon DEF HandleRecord
  <2> QED
    BY <1>r, <2>1 DEF HandleRecord
<1>5. fleet' = [fleet EXCEPT !.handle[h] = r]
  BY <1>r, <1>1, <1>3
<1>6. /\ fleet' \in FleetRec /\ fleet'.roots = fleet.roots /\ fleet'.routes = fleet.routes
      /\ fleet'.handle[h] = r /\ \A x \in Handle \ {h} : fleet'.handle[x] = fleet.handle[x]
  BY <1>2, <1>4, <1>5, SetFields
<1> QED
  BY <1>3, <1>4, <1>6

\* Close cancels the loops.
LEMMA CloseFields ==
    ASSUME fleet \in FleetRec, Close
    PROVE  /\ fleet' \in FleetRec /\ fleet'.roots = fleet.roots /\ fleet'.routes = fleet.routes
           /\ \A x \in Handle :
              LET r == fleet'.handle[x]
                  q == fleet.handle[x] IN
              /\ SamePage(r, q) /\ r.path = q.path /\ r.gen = q.gen
              /\ r.client = q.client /\ r.left = q.left /\ r.monitoring = q.monitoring
              /\ r.cancelled <=> (q.cancelled \/ q.monitoring)
<1> DEFINE c(h) == [fleet.handle[h] EXCEPT !.cancelled = fleet.handle[h].cancelled
                                                            \/ fleet.handle[h].monitoring]
           T == [h \in Handle |-> c(h)]
<1>1. ASSUME NEW x \in Handle
      PROVE  LET q == fleet.handle[x] IN
             /\ c(x) \in HandleRecord /\ SamePage(c(x), q) /\ c(x).path = q.path
             /\ c(x).gen = q.gen /\ c(x).client = q.client /\ c(x).left = q.left
             /\ c(x).monitoring = q.monitoring
             /\ c(x).cancelled <=> (q.cancelled \/ q.monitoring)
  <2>1. PICK b \in BOOLEAN : b = (fleet.handle[x].cancelled \/ fleet.handle[x].monitoring)
    OBVIOUS
  <2>2. PICK q \in HandleRecord : q = fleet.handle[x] /\ c(x) = [q EXCEPT !.cancelled = b]
    BY <2>1, FleetFields
  <2> HIDE DEF c
  <2>3. PICK r : r = c(x)
    OBVIOUS
  <2>4. /\ r \in HandleRecord /\ SamePage(r, q) /\ r.path = q.path
        /\ r.gen = q.gen /\ r.client = q.client /\ r.left = q.left
        /\ r.monitoring = q.monitoring /\ r.cancelled = b
    BY <2>2, <2>3, CancelledRecord
  <2> QED
    BY <2>1, <2>2, <2>3, <2>4
<1>2. fleet' = [fleet EXCEPT !.handle = T]
  BY DEF Close
<1> HIDE DEF c
<1>3. T \in [Handle -> HandleRecord] /\ \A x \in Handle : T[x] = c(x)
  BY <1>1
<1> HIDE DEF T
<1>4. /\ fleet' \in FleetRec /\ fleet'.roots = fleet.roots /\ fleet'.routes = fleet.routes
      /\ fleet'.handle = T
  BY <1>2, <1>3 DEF FleetRec
<1> QED
  BY <1>1, <1>3, <1>4

\* closeClients empties the fleet.
LEMMA EmptiedFields ==
    ASSUME fleet \in FleetRec, CloseClients
    PROVE  /\ fleet' \in FleetRec /\ \A p \in Path : fleet'.roots[p] = NoHandle
           /\ \A x \in Handle :
              LET r == fleet'.handle[x]
                  q == fleet.handle[x] IN
              /\ SamePage(r, q) /\ r.path = q.path /\ r.gen = q.gen
              /\ r.left = q.left /\ r.monitoring = q.monitoring /\ r.cancelled = q.cancelled
              /\ x \in InFleet => r.client = "closed"
              /\ x \notin InFleet => r.client = q.client
<1> DEFINE R == [p \in Path |-> NoHandle]
           S == [s \in Session |-> NoRoot]
<1>1. PICK X : X = InFleet
  OBVIOUS
<1>2. PICK C \in FleetRec :
         /\ C = WithClosed(fleet, X)
         /\ \A x \in Handle :
               /\ x \notin X => C.handle[x] = fleet.handle[x]
               /\ C.handle[x].path = fleet.handle[x].path /\ C.handle[x].gen = fleet.handle[x].gen
               /\ C.handle[x].left = fleet.handle[x].left
               /\ C.handle[x].monitoring = fleet.handle[x].monitoring
               /\ C.handle[x].cancelled = fleet.handle[x].cancelled
               /\ x \in X => C.handle[x].client = "closed"
               /\ SamePage(C.handle[x], fleet.handle[x])
  BY ClosedFields, ClosedPages
<1>3. /\ fleet' = [C EXCEPT !.roots = R, !.routes = S]
      /\ R \in [Path -> AnyHandle] /\ S \in [Session -> Root \cup {NoRoot}]
      /\ \A p \in Path : R[p] = NoHandle
  BY <1>1, <1>2 DEF CloseClients, AnyHandle
<1> HIDE DEF R, S
<1>4. fleet' \in FleetRec /\ fleet'.roots = R /\ fleet'.handle = C.handle
  BY <1>2, <1>3 DEF FleetRec
<1>5. \A p \in Path : fleet'.roots[p] = NoHandle
  BY <1>3, <1>4
<1>6. \A x \in Handle :
         LET r == fleet'.handle[x]
             q == fleet.handle[x] IN
         /\ SamePage(r, q) /\ r.path = q.path /\ r.gen = q.gen
         /\ r.left = q.left /\ r.monitoring = q.monitoring /\ r.cancelled = q.cancelled
         /\ x \in InFleet => r.client = "closed"
         /\ x \notin InFleet => r.client = q.client
  BY <1>1, <1>2, <1>4
<1> QED
  BY <1>4, <1>5, <1>6

\* A handle keeps its socket until it is garbage, and takes one of its path when it is built.
SocketKept(x) ==
    /\ Collect(x) \/ fleet.handle[x].client = "none"
          \/ /\ fleet'.handle[x].client # "none"
             /\ UNCHANGED <<fleet.handle[x].path, fleet.handle[x].gen>>
    /\ (fleet.handle[x].client = "none" /\ fleet'.handle[x].client # "none")
          => /\ fleet'.handle[x].gen \in Gen
             /\ PathOf[fleet'.handle[x].gen] = fleet'.handle[x].path

\* It keeps its name too, once the user has set it.
NameKept(x) ==
    (fleet.handle[x].touched /\ fleet'.handle[x].touched)
        => fleet'.handle[x].name = fleet.handle[x].name

\* Most steps leave the socket of a handle and its client alone, or close the client.
Settled(x) ==
    /\ fleet'.handle[x].path = fleet.handle[x].path /\ fleet'.handle[x].gen = fleet.handle[x].gen
    /\ \/ fleet'.handle[x].client = fleet.handle[x].client
       \/ fleet.handle[x].client # "none" /\ fleet'.handle[x].client = "closed"

LEMMA SettledKept == ASSUME NEW x, Settled(x) PROVE SocketKept(x)
BY DEF Settled, SocketKept

LEMMA RecordsKept ==
    ASSUME ManagerInv, FleetMoves
    PROVE  /\ \A x \in Handle : SocketKept(x)
           /\ (\A x \in Handle : NameKept(x)) \/ \E r \in Root, n \in Name : RenameRoot(r, n)
<1>1. fleet \in FleetRec /\ RootsInv /\ \A x \in InFleet : x \in Built
  BY Typed, ProbesOpen DEF ManagerInv, FleetInv
<1> DEFINE Kept == \A x \in Handle : SocketKept(x) /\ NameKept(x)
<1>2. CASE fleet' = fleet
  BY <1>2 DEF SocketKept, NameKept
<1>3. ASSUME NEW P \in SUBSET Path, fleet' = Removed(P) PROVE Kept
  <2>1. ASSUME NEW x \in Handle
        PROVE  Settled(x) /\ SamePage(fleet'.handle[x], fleet.handle[x])
    BY <1>1, <1>3, RemovedFields, RemovedPages DEF Settled
  <2> QED
    BY <2>1, SettledKept DEF NameKept, SamePage
<1>4. ASSUME NEW X \in SUBSET Built, fleet' = WithClosed(fleet, X) PROVE Kept
  <2>1. ASSUME NEW x \in Handle
        PROVE  Settled(x) /\ SamePage(fleet'.handle[x], fleet.handle[x])
    <3>1. x \in X \/ x \notin X
      OBVIOUS
    <3> QED
      BY <1>1, <1>4, <3>1, ClosedFields, ClosedPages DEF Settled, Built
  <2> QED
    BY <2>1, SettledKept DEF NameKept, SamePage
<1>5. ASSUME NEW h \in Handle, NEW a \in Snapshot, NEW b \in BOOLEAN, NEW names \in SUBSET Name,
             Offered(h, a), fleet' = Committed(h, a, b, names)
      PROVE  Kept
  <2>1. a.gen \in Gen /\ fleet.handle[h].client # "none"
    BY <1>5 DEF Offered
  <2>2. ASSUME NEW x \in Handle
        PROVE  Settled(x) /\ NameKept(x)
    <3>1. Settled(x)
      BY <1>1, <1>5, <2>1, CommittedFields DEF Settled
    <3>2. NameKept(x)
      BY <1>1, <1>5, <2>1, CommittedPages DEF NameKept, SamePage
    <3> QED
      BY <3>1, <3>2
  <2> QED
    BY <2>2, SettledKept
<1>6. ASSUME NEW h \in Handle, NEW p \in Path, NEW g \in Gen, PathOf[g] = p,
             fleet.handle[h].client = "none",
             fleet' = [fleet EXCEPT !.handle[h] = Fresh(p, g)]
      PROVE  Kept
  <2>1. PICK r \in HandleRecord : r = Fresh(p, g)
    BY FreshIsTyped
  <2>2. r.path = p /\ r.gen = g /\ ~r.touched
    BY <2>1, UnbuiltIsTyped DEF Fresh, Unbuilt
  <2>3. fleet'.handle[h] = r /\ \A x \in Handle \ {h} : fleet'.handle[x] = fleet.handle[x]
    BY <1>1, <1>6, <2>1, SetFields
  <2> QED
    BY <1>6, <2>2, <2>3 DEF SocketKept, NameKept
<1>7. ASSUME NEW h \in Handle, Collect(h) PROVE Kept
  <2>1. fleet' = [fleet EXCEPT !.handle[h] = Unbuilt]
    BY <1>7 DEF Collect
  <2>2. Unbuilt \in HandleRecord /\ Unbuilt.client = "none" /\ ~Unbuilt.touched
    BY UnbuiltIsTyped DEF Unbuilt
  <2>3. fleet'.handle[h] = Unbuilt /\ \A x \in Handle \ {h} : fleet'.handle[x] = fleet.handle[x]
    BY <1>1, <2>1, <2>2, SetFields
  <2> QED
    BY <1>7, <2>2, <2>3 DEF SocketKept, NameKept
<1>8. ASSUME NEW h \in Handle, fleet' = [fleet EXCEPT !.handle[h].monitoring = TRUE] PROVE Kept
  <2>1. ASSUME NEW x \in Handle
        PROVE  Settled(x) /\ SamePage(fleet'.handle[x], fleet.handle[x])
    BY <1>1, <1>8, MonitoredFields DEF Settled, SamePage
  <2> QED
    BY <2>1, SettledKept DEF NameKept, SamePage
<1>9. ASSUME NEW h \in InFleet, fleet' = Dropped(h) PROVE Kept
  <2>1. ASSUME NEW x \in Handle
        PROVE  Settled(x) /\ SamePage(fleet'.handle[x], fleet.handle[x])
    BY <1>1, <1>9, DroppedFields DEF Settled, SamePage, Built
  <2> QED
    BY <2>1, SettledKept DEF NameKept, SamePage
<1>10. ASSUME NEW h \in InFleet, NEW a \in Snapshot, Offered(h, a), fleet' = Retained(h, a)
       PROVE  Kept
  <2>1. ASSUME NEW x \in Handle PROVE Settled(x) /\ NameKept(x)
    BY <1>1, <1>10, RetainedFields DEF Settled, NameKept
  <2> QED
    BY <2>1, SettledKept
<1>11. ASSUME NEW r \in Root, NEW n \in NewName, RenameRoot(r, n)
       PROVE  /\ \A x \in Handle : SocketKept(x)
              /\ \E r0 \in Root, n0 \in Name : RenameRoot(r0, n0)
  <2>1. \A x \in Handle : Settled(x)
    BY <1>1, <1>11, RenamedFields DEF Settled
  <2>2. n \in Name
    BY DEF Name
  <2> QED
    BY <1>11, <2>1, <2>2, SettledKept
<1>12. CASE Close
  <2>1. \A x \in Handle : Settled(x) /\ SamePage(fleet'.handle[x], fleet.handle[x])
    BY <1>1, <1>12, CloseFields DEF Settled
  <2> QED
    BY <2>1, SettledKept DEF NameKept, SamePage
<1>13. CASE CloseClients
  <2>1. \A x \in Handle : Settled(x) /\ SamePage(fleet'.handle[x], fleet.handle[x])
    BY <1>1, <1>13, EmptiedFields DEF Settled, Built
  <2> QED
    BY <2>1, SettledKept DEF NameKept, SamePage
<1> QED
  BY <1>2, <1>3, <1>4, <1>5, <1>6, <1>7, <1>8, <1>9, <1>10, <1>11, <1>12, <1>13 DEF FleetMoves
-----------------------------------------------------------------------------
(* The turns of the discovery loop and of a spawn, field by field *)

Draining == {"drain", "displaced", "sweep"}

\* What is left of it after a drain.
LEMMA AfterDrainTurn ==
    ASSUME NEW d \in DiscRec, d.pc \in Draining
    PROVE  LET e == AfterDrain(d) IN
           /\ e \in DiscRec /\ e.pc # "probed" /\ e.victims = d.victims
           /\ e.pc \in {"displaced", "monitor"}
                 => d.pc = "displaced" /\ e.target = d.target /\ e.probe = d.probe
           /\ e.pc \in {"drain", "dial"} => d.pc = "drain"
           /\ e.pc \in {"sweep", "idle"} => d.pc = "sweep"
           /\ e.pc \notin Draining => e.victims = {}
           /\ e.pc \in Draining => e = d
           /\ e.pc \in {"idle", "dial", "monitor"} \cup Draining
<1>1. CASE d.victims # {}
  BY <1>1 DEF AfterDrain, Draining
<1>2. CASE d.victims = {} /\ d.pc = "drain"
  <2> DEFINE e == [d EXCEPT !.pc = "dial"]
  <2>1. AfterDrain(d) = e
    BY <1>2 DEF AfterDrain
  <2>2. e \in DiscRec
    BY Zenon DEF DiscRec
  <2>3. e.pc = "dial" /\ e.victims = d.victims
    BY DEF DiscRec
  <2> QED
    BY <1>2, <2>1, <2>2, <2>3 DEF Draining
<1>3. CASE d.victims = {} /\ d.pc = "displaced"
  <2> DEFINE e == [d EXCEPT !.pc = "monitor"]
  <2>1. AfterDrain(d) = e
    BY <1>3 DEF AfterDrain
  <2>2. e \in DiscRec
    BY Zenon DEF DiscRec
  <2>3. e.pc = "monitor" /\ e.victims = d.victims /\ e.target = d.target /\ e.probe = d.probe
    BY DEF DiscRec
  <2> QED
    BY <1>3, <2>1, <2>2, <2>3 DEF Draining
<1>4. CASE d.victims = {} /\ d.pc = "sweep"
  <2>1. AfterDrain(d) = DiscIdle
    BY <1>4 DEF AfterDrain
  <2> QED
    BY <1>4, <2>1, IdleTyped DEF DiscIdle, Draining
<1> QED
  BY <1>1, <1>2, <1>3, <1>4 DEF Draining

\* It looks on, or gives an entry up, with nothing done to the fleet ...
DiscLooks ==
    /\ disc.pc \in {"idle", "listed", "scan", "dial"} /\ disc'.pc \in {"listed", "scan", "dial"}
    /\ disc'.victims \subseteq disc.victims /\ UNCHANGED <<fleet, loop>>

\* ... it removes roots whose sockets are gone or replaced ...
DiscRemoves ==
    /\ disc.pc = "scan" /\ loop' = loop
    /\ \E P \in SUBSET Path : /\ fleet' = Removed(P)
                              /\ disc'.victims = {fleet.roots[p] : p \in P} \ {NoHandle}
    /\ disc'.pc \in {"drain", "sweep", "idle"}
    /\ disc'.pc \notin Draining => disc'.victims = {}

\* ... closes a victim ...
DiscShuts ==
    /\ disc.pc \in Draining /\ loop' = loop
    /\ \E h \in disc.victims : fleet' = WithClosed(fleet, {h}) /\ disc'.victims = disc.victims \ {h}
    /\ disc'.pc \notin Draining => disc'.victims = {}
    /\ disc'.pc \in {"displaced", "monitor"}
          => disc.pc = "displaced" /\ UNCHANGED <<disc.target, disc.probe>>
    /\ disc'.pc # "probed"

\* ... probes a socket ...
DiscAsks(h) ==
    /\ disc.pc = "dial" /\ disc.gen \in Gen /\ fleet.handle[h].client = "none" /\ loop' = loop
    /\ disc'.pc = "probed" /\ disc'.probe = h /\ disc'.victims = disc.victims
    /\ fleet' = [fleet EXCEPT !.handle[h] = Fresh(PathOf[disc.gen], disc.gen)]
    /\ disc'.snapshot \in Usable(PathOf[disc.gen])

\* ... and is refused ...
DiscLetsGo ==
    /\ disc.pc = "probed" /\ loop' = loop
    /\ fleet' = WithClosed(fleet, {disc.probe}) /\ disc'.pc = "scan" /\ disc'.victims = {}

\* ... or admitted; ...
DiscAdmits(h, a, b) ==
    /\ disc.pc = "probed" /\ disc.probe = h /\ disc.snapshot = a /\ a.gen \in Gen /\ loop' = loop
    /\ ~Refused(h, a) /\ fleet' = Committed(h, a, b, {})
    /\ disc'.pc \in {"displaced", "monitor"} /\ disc'.target = Target(h) /\ disc'.probe = h
    /\ disc'.victims = Displaced(h)
    /\ disc'.pc = "monitor" => disc'.victims = {}

\* ... then the target is monitored.
DiscEnds ==
    /\ disc.pc = "monitor" /\ Admit(disc.target, disc.probe)
    /\ disc'.pc = "scan" /\ disc'.victims = {}

LEMMA DiscTurns ==
    ASSUME ManagerInv, Discover
    PROVE  /\ UNCHANGED <<world, spawn, stopping, mgr>>
           /\ \/ DiscLooks \/ DiscRemoves \/ DiscShuts \/ DiscLetsGo \/ DiscEnds
              \/ \E h \in Handle : DiscAsks(h)
              \/ \E h \in Handle, a \in Snapshot, b \in BOOLEAN : DiscAdmits(h, a, b)
<1>1. /\ disc \in DiscRec /\ disc.snapshot \in Snapshot /\ Answered(disc.snapshot)
      /\ disc.victims \in SUBSET Handle /\ fleet \in FleetRec /\ RootsInv
      /\ NoHandle \notin disc.victims
  BY Typed DEF ManagerInv, DiscRec, AnsweredInv, FleetInv
<1>2. UNCHANGED <<world, spawn, stopping, mgr>>
  BY DEF Discover, List, TakeKnown, Skip, Inspect, Sweep, DiscDrain, Dial, DiscCommit, DiscMonitor
<1>3. ASSUME List \/ TakeKnown \/ \E p \in Path : Skip(p) PROVE DiscLooks
  <2>1. UNCHANGED <<fleet, loop>> /\ disc.pc \in {"idle", "listed", "scan"}
    BY <1>3 DEF List, TakeKnown, Skip
  <2>2. disc'.pc \in {"listed", "scan"} /\ disc'.victims = disc.victims
    <3>1. CASE List
      BY <1>1, <3>1 DEF List, DiscRec
    <3>2. CASE TakeKnown
      BY <1>1, <3>2 DEF TakeKnown, DiscRec
    <3>3. ASSUME NEW p \in Path, Skip(p)
          PROVE  disc'.pc \in {"listed", "scan"} /\ disc'.victims = disc.victims
      BY <1>1, <3>3 DEF Skip, DiscRec
    <3> QED
      BY <1>3, <3>1, <3>2, <3>3
  <2> QED
    BY <2>1, <2>2 DEF DiscLooks
<1>4. ASSUME NEW p \in Path, Inspect(p) PROVE DiscLooks \/ DiscRemoves
  <2>1. disc.pc = "scan" /\ loop' = loop
    BY <1>4 DEF Inspect
  <2>2. \/ /\ fleet' = Removed({p}) /\ fleet.roots[p] # NoHandle
           /\ disc'.pc = "drain" /\ disc'.victims = {fleet.roots[p]}
        \/ fleet' = fleet /\ disc'.pc = "dial" /\ disc'.victims = {}
    BY <1>1, <1>4 DEF Inspect, DiscRec
  <2>3. fleet.roots[p] # NoHandle
           => {fleet.roots[y] : y \in {p}} \ {NoHandle} = {fleet.roots[p]}
    OBVIOUS
  <2>4. {p} \in SUBSET Path
    OBVIOUS
  <2>5. CASE /\ fleet' = Removed({p}) /\ fleet.roots[p] # NoHandle
             /\ disc'.pc = "drain" /\ disc'.victims = {fleet.roots[p]}
    <3>1. \E P \in SUBSET Path : /\ fleet' = Removed(P)
                                 /\ disc'.victims = {fleet.roots[y] : y \in P} \ {NoHandle}
      BY <2>3, <2>4, <2>5, Zenon
    <3> QED
      BY <2>1, <2>5, <3>1 DEF DiscRemoves, Draining
  <2>6. CASE fleet' = fleet /\ disc'.pc = "dial" /\ disc'.victims = {}
    BY <2>1, <2>6 DEF DiscLooks
  <2> QED
    BY <2>2, <2>5, <2>6
<1>5. ASSUME Sweep PROVE DiscRemoves
  <2> DEFINE P == {p \in Path : disc.known[p] # NoHandle}
             V == {fleet.roots[p] : p \in P} \ {NoHandle}
             K == [p \in Path |-> NoHandle]
             d == [disc EXCEPT !.pc = "sweep", !.known = K, !.victims = V]
  <2>1. disc.pc = "scan" /\ loop' = loop /\ fleet' = Removed(P) /\ disc' = AfterDrain(d)
    BY <1>5 DEF Sweep
  <2>2. V \in SUBSET Handle /\ K \in [Path -> AnyHandle] /\ P \in SUBSET Path
    BY <1>1, FleetFields DEF AnyHandle
  <2>3. d.pc = "sweep" /\ d.victims = V
    BY <1>1 DEF DiscRec
  <2> HIDE DEF V, K
  <2>4. d \in DiscRec
    BY <1>1, <2>2, Zenon DEF DiscRec
  <2> HIDE DEF d, P
  <2>5. PICK e : e = AfterDrain(d)
    OBVIOUS
  <2>6. /\ e.pc \in {"sweep", "idle"} /\ e.victims = V
        /\ e.pc \notin Draining => e.victims = {}
    BY <2>3, <2>4, <2>5, AfterDrainTurn DEF Draining
  <2>7. \E Q \in SUBSET Path : /\ fleet' = Removed(Q)
                               /\ disc'.victims = {fleet.roots[p] : p \in Q} \ {NoHandle}
    BY <2>1, <2>2, <2>5, <2>6 DEF V
  <2> QED
    BY <2>1, <2>5, <2>6, <2>7 DEF DiscRemoves
<1>6. ASSUME NEW h \in Handle, DiscDrain(h) PROVE DiscShuts
  <2> DEFINE V == disc.victims \ {h}
             d == [disc EXCEPT !.victims = V]
  <2>1. /\ disc.pc \in Draining /\ h \in disc.victims /\ loop' = loop
        /\ fleet' = WithClosed(fleet, {h}) /\ disc' = AfterDrain(d)
    BY <1>6 DEF DiscDrain, Draining
  <2>2. V \in SUBSET Handle
    BY <1>1
  <2>3. d.pc = disc.pc /\ d.victims = V /\ d.target = disc.target /\ d.probe = disc.probe
    BY <1>1 DEF DiscRec
  <2> HIDE DEF V
  <2>4. d \in DiscRec
    BY <1>1, <2>2, Zenon DEF DiscRec
  <2> HIDE DEF d
  <2>5. PICK e : e = AfterDrain(d)
    OBVIOUS
  <2>6. /\ e.pc # "probed" /\ e.victims = V
        /\ e.pc \in {"displaced", "monitor"}
              => disc.pc = "displaced" /\ e.target = disc.target /\ e.probe = disc.probe
        /\ e.pc \notin Draining => e.victims = {}
    BY <2>1, <2>3, <2>4, <2>5, AfterDrainTurn
  <2> QED
    BY <2>1, <2>5, <2>6 DEF DiscShuts, V
<1>7. ASSUME NEW h \in Handle, Dial(h) PROVE DiscLooks \/ DiscAsks(h)
  <2>1. disc.pc = "dial" /\ fleet.handle[h].client = "none" /\ loop' = loop /\ disc.gen \in Gen
    BY <1>7 DEF Dial, ManagerInv, DiscInv
  <2>2. CASE disc' = NextEntry /\ UNCHANGED fleet
    BY <1>1, <2>1, <2>2, NextEntryFields DEF DiscLooks
  <2>3. ASSUME NEW a \in Usable(PathOf[disc.gen]),
               fleet' = [fleet EXCEPT !.handle[h] = Fresh(PathOf[disc.gen], disc.gen)],
               disc' = [disc EXCEPT !.pc = "probed", !.probe = h, !.snapshot = a]
        PROVE  DiscAsks(h)
    BY <1>1, <2>1, <2>3 DEF DiscAsks, DiscRec
  <2> QED
    BY <1>7, <2>2, <2>3 DEF Dial
<1>8. ASSUME DiscCommit
      PROVE  \/ DiscLetsGo
             \/ \E h \in Handle, a \in Snapshot, b \in BOOLEAN : DiscAdmits(h, a, b)
  <2>1. /\ disc.pc = "probed" /\ loop' = loop /\ disc.snapshot.gen \in Gen
    BY <1>8 DEF DiscCommit, ManagerInv, DiscInv, AnsweredInv, Answered
  <2>2. PICK h \in Handle, a \in Snapshot, b \in BOOLEAN :
           h = disc.probe /\ a = disc.snapshot /\ b = (a.life = "live") /\ a.gen \in Gen
    BY <1>1, <2>1 DEF ManagerInv, DiscInv, Private
  <2>3. \/ disc' = NextEntry /\ fleet' = WithClosed(fleet, {h})
        \/ /\ ~Refused(h, a) /\ fleet' = Committed(h, a, b, {})
           /\ disc' = AfterDrain([disc EXCEPT !.pc = "displaced", !.target = Target(h),
                                              !.snapshot = Failed, !.victims = Displaced(h)])
    BY <1>8, <2>2 DEF DiscCommit
  <2>4. CASE disc' = NextEntry /\ fleet' = WithClosed(fleet, {h})
    BY <1>1, <2>1, <2>2, <2>4, NextEntryFields DEF DiscLetsGo
  <2>5. CASE /\ ~Refused(h, a) /\ fleet' = Committed(h, a, b, {})
             /\ disc' = AfterDrain([disc EXCEPT !.pc = "displaced", !.target = Target(h),
                                                !.snapshot = Failed, !.victims = Displaced(h)])
    <3>1. {} \in SUBSET Name
      OBVIOUS
    <3>2. PICK t \in AnyHandle, D \in SUBSET Handle : t = Target(h) /\ D = Displaced(h)
      <4>1. Target(h) \in Handle
        BY <1>1, <2>2, <3>1, CommittedFields
      <4>2. Displaced(h) \in SUBSET Handle
        <5>1. fleet.roots[fleet.handle[h].path] \in AnyHandle
          BY <1>1, FleetFields
        <5> QED
          BY <5>1 DEF Displaced, Rival, AnyHandle
      <4> QED
        BY <4>1, <4>2 DEF AnyHandle
    <3> DEFINE d == [disc EXCEPT !.pc = "displaced", !.target = t, !.snapshot = Failed,
                                 !.victims = D]
    <3>3. d.pc = "displaced" /\ d.target = t /\ d.probe = h /\ d.victims = D
      BY <1>1, <2>2 DEF DiscRec
    <3>4. d \in DiscRec
      BY <1>1, <3>2, FailedTyped, Zenon DEF DiscRec
    <3>5. disc' = AfterDrain(d)
      BY <2>5, <3>2
    <3> HIDE DEF d
    <3>6. PICK e : e = AfterDrain(d)
      OBVIOUS
    <3>7. /\ e.pc \in {"displaced", "monitor"} /\ e.victims = D /\ e.target = t /\ e.probe = h
          /\ e.pc \notin Draining => e.victims = {}
      BY <3>3, <3>4, <3>6, AfterDrainTurn DEF Draining
    <3>8. DiscAdmits(h, a, b)
      BY <2>1, <2>2, <2>5, <3>2, <3>5, <3>6, <3>7 DEF DiscAdmits, Draining
    <3> QED
      BY <3>8
  <2> QED
    BY <2>3, <2>4, <2>5
<1>9. ASSUME DiscMonitor PROVE DiscEnds
  BY <1>1, <1>9, NextEntryFields DEF DiscMonitor, DiscEnds
<1> QED
  BY <1>2, <1>3, <1>4, <1>5, <1>6, <1>7, <1>8, <1>9 DEF Discover

\* A spawn goes on with what it holds ...
SpawnGoesOn(g) ==
    /\ spawn[g].pc # "monitor" /\ spawn'[g].pc \notin {"probed", "monitor"}
    /\ spawn'[g].probe = spawn[g].probe /\ UNCHANGED <<fleet, loop>>
    /\ spawn'[g].pc \in SpawnOver => spawn[g].pc \in SpawnOver

\* ... or forgets it, if anything, and has closed the client; ...
SpawnForgets(g) ==
    /\ spawn[g].pc # "monitor" /\ spawn'[g].pc \notin {"probed", "monitor"}
    /\ spawn'[g].probe = NoHandle
    /\ fleet' = WithClosed(fleet, {spawn[g].probe} \ {NoHandle}) /\ loop' = loop

\* ... it probes the root that it has launched ...
SpawnAsks(g, h) ==
    /\ spawn[g].pc = "poll" /\ disk[PathOf[g]] # NoGen /\ loop' = loop
    /\ spawn'[g].pc = "probed" /\ spawn'[g].probe = h
    /\ spawn'[g].snapshot \in Answers(PathOf[g]) \ {Failed}
    /\ \/ spawn[g].probe = h /\ fleet' = fleet
       \/ /\ spawn[g].probe = NoHandle /\ fleet.handle[h].client = "none"
          /\ fleet' = [fleet EXCEPT !.handle[h] = Fresh(PathOf[g], disk[PathOf[g]])]

\* ... which is admitted, ...
SpawnAdmits(g, h, a) ==
    /\ spawn[g].pc = "probed" /\ spawn[g].probe = h /\ spawn[g].snapshot = a /\ a.gen \in Gen
    /\ loop' = loop /\ ~Refused(h, a) /\ fleet' = Committed(h, a, TRUE, {"launch"})
    /\ spawn'[g].pc = "monitor" /\ spawn'[g].target = Target(h) /\ spawn'[g].probe = h

\* ... and its target is monitored.
SpawnEnds(g) ==
    /\ spawn[g].pc = "monitor" /\ Admit(spawn[g].target, spawn[g].probe)
    /\ spawn'[g].pc \notin {"probed", "monitor"} /\ spawn'[g].probe = NoHandle

LEMMA SpawnTurns ==
    ASSUME ManagerInv, NEW g \in Launched, SpawnStep(g) \/ SpawnStart(g)
    PROVE  /\ UNCHANGED <<disc, stopping, mgr>>
           /\ \A l \in Launched \ {g} : spawn'[l] = spawn[l]
           /\ \/ spawn' = spawn /\ UNCHANGED <<fleet, loop>>
              \/ SpawnGoesOn(g) \/ SpawnForgets(g) \/ SpawnEnds(g)
              \/ \E h \in Handle : SpawnAsks(g, h)
              \/ \E h \in Handle, a \in Snapshot : SpawnAdmits(g, h, a)
<1>1. /\ spawn \in [Launched -> SpawnRec] /\ spawn[g].snapshot \in Snapshot
      /\ Answered(spawn[g].snapshot) /\ spawn[g].probe \in AnyHandle /\ WorldOK
  BY SpawnFields
<1>w. PICK w \in SpawnRec : w = spawn[g]
  BY <1>1
<1>2. UNCHANGED <<disc, stopping, mgr>> /\ \A l \in Launched \ {g} : spawn'[l] = spawn[l]
  <2>1. UNCHANGED <<disc, stopping, mgr>>
    BY DEF SpawnStep, SpawnStart, Bootstrap, GiveUp, SpawnMonitor, SpawnRetry, SpawnCommit,
           CleanupStop, CleanupTerm, CleanupKill, CleanupReap, Die, SpawnProbe
  <2>2. spawn' = spawn \/ \E n : Spawned(g, n)
    BY Zenon
    DEF SpawnStep, SpawnStart, Bootstrap, GiveUp, SpawnMonitor, SpawnRetry, SpawnCommit,
        CleanupStop, CleanupTerm, CleanupKill, CleanupReap, Die, SpawnProbe
  <2> QED
    BY <1>1, <2>1, <2>2 DEF Spawned
<1>3. CASE SpawnStart(g)
  <2>1. PICK n : n = [w EXCEPT !.pc = "bootstrap"] /\ Spawned(g, n)
    BY <1>3, <1>w, Zenon DEF SpawnStart
  <2>2. n.pc = "bootstrap" /\ n.probe = w.probe /\ spawn'[g] = n
    BY <1>1, <1>w, <2>1 DEF SpawnRec, Spawned
  <2> QED
    BY <1>2, <1>3, <1>w, <2>2 DEF SpawnStart, SpawnGoesOn, SpawnOver
<1>4. CASE Bootstrap(g)
  <2>1. PICK n : /\ Spawned(g, n)
                 /\ \/ n = [w EXCEPT !.pc = "poll"]
                    \/ n = [w EXCEPT !.pc = "done", !.result = "error", !.killed = TRUE]
    BY <1>4, <1>w, Zenon DEF Bootstrap
  <2>2. n.pc \in {"poll", "done"} /\ n.probe = w.probe /\ spawn'[g] = n
    BY <1>1, <1>w, <2>1 DEF SpawnRec, Spawned
  <2> QED
    BY <1>2, <1>4, <1>w, <2>2 DEF Bootstrap, SpawnGoesOn, SpawnOver
<1>5. CASE GiveUp(g)
  <2>1. PICK n : n = [w EXCEPT !.pc = "stop", !.result = "error", !.snapshot = Failed] /\ Spawned(g, n)
    BY <1>5, <1>w, Zenon DEF GiveUp, SpawnFails
  <2>2. n.pc = "stop" /\ n.probe = w.probe /\ spawn'[g] = n
    BY <1>1, <1>w, <2>1 DEF SpawnRec, Spawned
  <2> QED
    BY <1>2, <1>5, <1>w, <2>2 DEF GiveUp, SpawnGoesOn, SpawnOver
<1>6. CASE SpawnMonitor(g)
  <2>1. spawn[g].pc = "monitor" /\ Admit(spawn[g].target, spawn[g].probe)
    BY <1>6 DEF SpawnMonitor
  <2>2. PICK n : /\ Spawned(g, n)
                 /\ \/ n = [[w EXCEPT !.pc = "stop", !.result = "error", !.snapshot = Failed]
                                EXCEPT !.probe = NoHandle, !.target = NoHandle]
                    \/ n = [SpawnIdle EXCEPT !.pc = "done", !.result = "ok"]
    <3>1. PICK n : /\ Spawned(g, n)
                   /\ n = IF mgr.quiesced \/ mgr.closed
                          THEN [SpawnFails(g) EXCEPT !.probe = NoHandle, !.target = NoHandle]
                          ELSE [SpawnIdle EXCEPT !.pc = "done", !.result = "ok"]
      BY <1>6, Zenon DEF SpawnMonitor
    <3> QED
      BY <1>w, <3>1 DEF SpawnFails
  <2>3. n.pc \in {"stop", "done"} /\ n.probe = NoHandle
    <3>1. CASE n = [[w EXCEPT !.pc = "stop", !.result = "error", !.snapshot = Failed]
                                EXCEPT !.probe = NoHandle, !.target = NoHandle]
      BY <1>w, <3>1 DEF SpawnRec
    <3>2. CASE n = [SpawnIdle EXCEPT !.pc = "done", !.result = "ok"]
      BY <3>2 DEF SpawnIdle
    <3> QED
      BY <2>2, <3>1, <3>2
  <2>4. spawn'[g] = n
    BY <1>1, <2>2 DEF Spawned
  <2> QED
    BY <1>2, <2>1, <2>3, <2>4 DEF SpawnEnds
<1>7. CASE SpawnRetry(g)
  <2>1. PICK same \in BOOLEAN : same = (disk[PathOf[g]] = spawn[g].gen)
    OBVIOUS
  <2>k. PICK k \in BOOLEAN : k = (w.known \/ same)
    OBVIOUS
  <2>q. PICK q : q = IF same THEN w.probe ELSE NoHandle
    OBVIOUS
  <2>2. /\ w.pc = "probed" /\ loop' = loop
        /\ fleet' = IF same THEN fleet ELSE WithClosed(fleet, {w.probe})
        /\ Spawned(g, [w EXCEPT !.pc = "poll", !.snapshot = Failed, !.known = k, !.probe = q])
    BY <1>7, <1>w, <2>k, <2>q, <2>1 DEF SpawnRetry
  <2>n. PICK n : /\ n = [w EXCEPT !.pc = "poll", !.snapshot = Failed, !.known = k, !.probe = q]
                 /\ Spawned(g, n)
    BY <2>2, Zenon
  <2>3. n.pc = "poll" /\ n.probe = q /\ spawn'[g] = n
    BY <1>1, <1>w, <2>n DEF SpawnRec, Spawned
  <2>4. {w.probe} \ {NoHandle} = {w.probe}
    BY <1>w, <2>2, SpawnFields DEF SpawnGood
  <2> QED
    BY <1>2, <1>w, <2>q, <2>2, <2>3, <2>4 DEF SpawnGoesOn, SpawnForgets, SpawnOver
<1>8. CASE SpawnCommit(g)
  <2>1. PICK h \in Handle, a \in Snapshot : h = w.probe /\ a = w.snapshot /\ a.gen \in Gen
    <3>1. spawn[g].probe \in Handle
      BY <1>8, ProbesOpen DEF SpawnCommit, Built
    <3>2. spawn[g].snapshot.gen \in Gen
      BY <1>1, <1>8 DEF SpawnCommit, Answered
    <3> QED
      BY <1>1, <1>w, <3>1, <3>2
  <2>2. PICK known : known = [w EXCEPT !.known = TRUE, !.snapshot = Failed]
    OBVIOUS
  <2>3. known \in SpawnRec /\ known.probe = h
    <3>1. known \in SpawnRec
      BY <1>w, <2>2, FailedTyped, Zenon DEF SpawnRec
    <3> QED
      BY <1>w, <2>1, <2>2, <3>1 DEF SpawnRec
  <2>4. /\ w.pc = "probed" /\ loop' = loop
        /\ \/ Spawned(g, [known EXCEPT !.pc = "stop", !.result = "error"]) /\ fleet' = fleet
           \/ /\ ~Refused(h, a) /\ fleet' = Committed(h, a, TRUE, {"launch"})
              /\ Spawned(g, [known EXCEPT !.pc = "monitor", !.target = Target(h)])
    BY <1>8, <1>w, <2>1, <2>2 DEF SpawnCommit
  <2>5. CASE Spawned(g, [known EXCEPT !.pc = "stop", !.result = "error"]) /\ fleet' = fleet
    <3>1. PICK n : n = [known EXCEPT !.pc = "stop", !.result = "error"] /\ Spawned(g, n)
      BY <2>5, Zenon
    <3>2. n.pc = "stop" /\ n.probe = h /\ spawn'[g] = n
      BY <1>1, <2>3, <3>1 DEF SpawnRec, Spawned
    <3> QED
      BY <1>2, <1>w, <2>1, <2>4, <2>5, <3>2 DEF SpawnGoesOn, SpawnOver
  <2>6. CASE /\ ~Refused(h, a) /\ fleet' = Committed(h, a, TRUE, {"launch"})
             /\ Spawned(g, [known EXCEPT !.pc = "monitor", !.target = Target(h)])
    <3>1. PICK n : n = [known EXCEPT !.pc = "monitor", !.target = Target(h)] /\ Spawned(g, n)
      BY <2>6, Zenon
    <3>2. n.pc = "monitor" /\ n.target = Target(h) /\ n.probe = h /\ spawn'[g] = n
      BY <1>1, <2>3, <3>1 DEF SpawnRec, Spawned
    <3>3. SpawnAdmits(g, h, a)
      BY <1>w, <2>1, <2>4, <2>6, <3>2 DEF SpawnAdmits
    <3> QED
      BY <1>2, <3>3
  <2> QED
    BY <2>4, <2>5, <2>6
<1>9. CASE CleanupStop(g)
  <2>1. PICK n : n = [w EXCEPT !.pc = "term", !.probe = NoHandle, !.known = FALSE] /\ Spawned(g, n)
    BY <1>9, <1>w, Zenon DEF CleanupStop
  <2>2. n.pc = "term" /\ n.probe = NoHandle /\ spawn'[g] = n
    BY <1>1, <1>w, <2>1 DEF SpawnRec, Spawned
  <2>3. /\ spawn[g].pc = "stop" /\ loop' = loop
        /\ fleet' = WithClosed(fleet, {spawn[g].probe} \ {NoHandle})
    BY <1>9 DEF CleanupStop
  <2> QED
    BY <1>2, <2>2, <2>3 DEF SpawnForgets
<1>10. CASE CleanupTerm(g) \/ CleanupKill(g) \/ CleanupReap(g)
  <2>1. w.pc \in {"term", "kill", "reap"} /\ UNCHANGED <<fleet, loop>>
    BY <1>10, <1>w DEF CleanupTerm, CleanupKill, CleanupReap
  <2>k. PICK k \in BOOLEAN : k = (life[g] # "dead")
    OBVIOUS
  <2>2. PICK n : /\ Spawned(g, n)
                 /\ \/ n = [w EXCEPT !.pc = "kill"]
                    \/ n = [w EXCEPT !.pc = "reap", !.killed = k]
                    \/ n = [w EXCEPT !.pc = "done", !.gen = NoGen, !.known = FALSE]
    BY <1>10, <1>w, <2>k, Zenon DEF CleanupTerm, CleanupKill, CleanupReap
  <2>3. n.pc \in {"kill", "reap", "done"} /\ n.probe = w.probe /\ spawn'[g] = n
    BY <1>1, <1>w, <2>2 DEF SpawnRec, Spawned
  <2> QED
    BY <1>2, <1>w, <2>1, <2>3 DEF SpawnGoesOn, SpawnOver
<1>11. CASE Die(g)
  BY <1>2, <1>11 DEF Die
<1>12. ASSUME NEW h \in Handle, SpawnProbe(g, h)
       PROVE  SpawnGoesOn(g) \/ SpawnForgets(g) \/ SpawnAsks(g, h)
  <2>p. PICK p, d : p = PathOf[g] /\ d = disk[p]
    OBVIOUS
  <2>1. /\ w.pc = "poll" /\ d # NoGen /\ loop' = loop /\ h # NoHandle
        /\ IF w.probe = NoHandle THEN fleet.handle[h].client = "none" ELSE h = w.probe
    BY <1>12, <1>w, <2>p DEF SpawnProbe
  <2>2. PICK a \in Answers(p) :
          IF a = Failed
          THEN /\ fleet' = IF w.probe = NoHandle THEN fleet ELSE WithClosed(fleet, {h})
               /\ Spawned(g, [w EXCEPT !.gen = d, !.probe = NoHandle])
          ELSE /\ fleet' = IF w.probe = NoHandle
                           THEN [fleet EXCEPT !.handle[h] = Fresh(p, d)] ELSE fleet
               /\ Spawned(g, [w EXCEPT !.pc = "probed", !.gen = d, !.probe = h, !.snapshot = a])
    BY <1>12, <1>w, <2>p, Zenon DEF SpawnProbe
  <2>3. CASE a = Failed
    <3>1. PICK n : n = [w EXCEPT !.gen = d, !.probe = NoHandle] /\ Spawned(g, n)
      BY <2>2, <2>3, Zenon
    <3>2. n.pc = "poll" /\ n.probe = NoHandle /\ spawn'[g] = n
      BY <1>1, <1>w, <2>1, <3>1 DEF SpawnRec, Spawned
    <3>3. w.probe # NoHandle => {w.probe} \ {NoHandle} = {h}
      BY <2>1
    <3> QED
      BY <1>w, <2>1, <2>2, <2>3, <3>2, <3>3 DEF SpawnGoesOn, SpawnForgets, SpawnOver
  <2>4. CASE a # Failed
    <3>1. PICK n : /\ n = [w EXCEPT !.pc = "probed", !.gen = d, !.probe = h, !.snapshot = a]
                   /\ Spawned(g, n)
      BY <2>2, <2>4, Zenon
    <3>2. n.pc = "probed" /\ n.probe = h /\ n.snapshot = a /\ spawn'[g] = n
      BY <1>1, <1>w, <3>1 DEF SpawnRec, Spawned
    <3> QED
      BY <1>w, <2>p, <2>1, <2>2, <2>4, <3>2 DEF SpawnAsks
  <2> QED
    BY <2>3, <2>4
<1> QED
  BY <1>2, <1>3, <1>4, <1>5, <1>6, <1>7, <1>8, <1>9, <1>10, <1>11, <1>12 DEF SpawnStep

\* Who moves.
LEMMA Movers ==
    ASSUME [Next]_vars
    PROVE  /\ Discover \/ disc' = disc
           /\ (\E g \in Launched : SpawnStep(g) \/ SpawnStart(g)) \/ spawn' = spawn
           /\ \/ Discover \/ (\E g \in Launched : SpawnStep(g)) \/ loop' = loop
              \/ \E h \in Handle : PollTick(h) \/ PollGot(h) \/ Collect(h)
<1>1. CASE UNCHANGED vars
  BY <1>1 DEF vars
<1>2. CASE World
  BY <1>2 DEF World, Bind, Advance, ChangeKids, Exit
<1>3. CASE Discover
  BY <1>3
  DEF Discover, List, TakeKnown, Skip, Inspect, Sweep, DiscDrain, Dial, DiscCommit, DiscMonitor
<1>4. ASSUME NEW g \in Launched, SpawnStep(g) PROVE disc' = disc
  BY <1>4
  DEF SpawnStep, Bootstrap, GiveUp, SpawnMonitor, SpawnRetry, SpawnCommit, CleanupStop,
      CleanupTerm, CleanupKill, CleanupReap, Die, SpawnProbe
<1>5. CASE User
  BY <1>5 DEF User, SpawnStart, StopSession, RenameRoot, Quiesce, Close
<1>6. CASE CloseClients \/ \E h \in Handle : StopDrain(h)
  BY <1>6 DEF StopDrain, CloseClients
<1>7. ASSUME NEW h \in Handle, PollTick(h) \/ PollGot(h) \/ Collect(h)
      PROVE  disc' = disc /\ spawn' = spawn
  BY <1>7 DEF PollTick, PollGot, Collect
<1> QED
  BY <1>1, <1>2, <1>3, <1>4, <1>5, <1>6, <1>7 DEF Next, LoopStep

\* An answer comes from the generation at the path.
LEMMA AnswersAt ==
    ASSUME WorldPaths, NEW p \in Path, NEW a \in Answers(p) \ {Failed}
    PROVE  PathOf[a.gen] = p
<1>1. PICK g \in Gen : g = disk[p] /\ a = [gen |-> g, life |-> life[g], kids |-> kids[g]]
  BY DEF Answers
<1> QED
  BY <1>1 DEF WorldPaths

LEMMA UsableAt ==
    ASSUME WorldPaths, NEW p \in Path, NEW a \in Usable(p)
    PROVE  PathOf[a.gen] = p
<1>1. a \in Answers(p) \ {Failed}
  BY DEF Usable, Failed
<1> QED
  BY <1>1, AnswersAt

\* The sockets stay where their supervisors bind them.
LEMMA WorldPathsKept == ASSUME ManagerInv, WorldPaths, [Next]_vars PROVE WorldPaths'
<1>1. disk \in [Path -> Gen \cup {NoGen}]
  BY Typed DEF ManagerInv, WorldOK
<1>2. \/ disk' = disk
      \/ \E p \in Path, g \in Gen : PathOf[g] = p /\ disk' = [disk EXCEPT ![p] = g]
      \/ \E p \in Path : disk' = [disk EXCEPT ![p] = NoGen]
  <2>1. CASE UNCHANGED vars
    BY <2>1 DEF vars, world
  <2>2. ASSUME NEW g \in Gen, Bind(g) \/ Advance(g) \/ ChangeKids(g) \/ Exit(g)
        PROVE  <1>2!:
    <3>1. PathOf[g] \in Path
      OBVIOUS
    <3> QED
      BY <2>2, <3>1 DEF Bind, Advance, ChangeKids, Exit
  <2>3. ASSUME NEW g \in Launched, CleanupReap(g) PROVE <1>2!:
    <3>1. PathOf[g] \in Path
      OBVIOUS
    <3> QED
      BY <2>3, <3>1 DEF CleanupReap
  <2>4. CASE Discover
    BY <2>4, DiscTurns DEF world
  <2>5. CASE User \/ CloseClients
    BY <2>5 DEF User, SpawnStart, StopSession, RenameRoot, Quiesce, Close, CloseClients, world
  <2>6. ASSUME NEW h \in Handle, LoopStep(h) \/ StopDrain(h) \/ Collect(h) PROVE disk' = disk
    BY <2>6 DEF LoopStep, PollTick, PollGot, StopDrain, Collect, world
  <2>7. ASSUME NEW g \in Launched, SpawnStep(g) PROVE <1>2!:
    BY <2>3, <2>7
    DEF SpawnStep, Bootstrap, GiveUp, SpawnMonitor, SpawnRetry, SpawnCommit, CleanupStop,
        CleanupTerm, CleanupKill, Die, SpawnProbe, world
  <2> QED
    BY <2>1, <2>2, <2>4, <2>5, <2>6, <2>7 DEF Next, World
<1> QED
  BY <1>1, <1>2 DEF WorldPaths

\* A handle that somebody refers to stays what it is.
LEMMA SocketStays ==
    ASSUME NEW x \in Handle, SocketKept(x), fleet.handle[x].client # "none", ~Collect(x)
    PROVE  /\ fleet'.handle[x].client # "none"
           /\ UNCHANGED <<fleet.handle[x].path, fleet.handle[x].gen>>
BY DEF SocketKept

LEMMA CollectedIs ==
    ASSUME fleet \in FleetRec, NEW x \in Handle, Collect(x)
    PROVE  /\ fleet'.handle[x].client = "none" /\ loop' = [loop EXCEPT ![x] = [pc |-> "off", snapshot |-> Failed]]
           /\ UNCHANGED <<world, disc, spawn, stopping, mgr>>
<1>1. Unbuilt \in HandleRecord /\ Unbuilt.client = "none"
  BY UnbuiltIsTyped
<1>2. fleet' = [fleet EXCEPT !.handle[x] = Unbuilt]
  BY DEF Collect
<1>3. fleet'.handle[x] = Unbuilt
  BY <1>1, <1>2, SetFields
<1> QED
  BY <1>1, <1>3 DEF Collect

\* A new client is for the path it dials.
LEMMA FreshFields ==
    ASSUME fleet \in FleetRec, NEW h \in Handle, NEW p \in Path, NEW g \in Gen,
           fleet' = [fleet EXCEPT !.handle[h] = Fresh(p, g)]
    PROVE  /\ fleet' \in FleetRec /\ fleet'.roots = fleet.roots /\ fleet'.routes = fleet.routes
           /\ \A x \in Handle \ {h} : fleet'.handle[x] = fleet.handle[x]
           /\ LET r == fleet'.handle[h] IN
              /\ r.path = p /\ r.gen = g /\ r.client = "open" /\ r.left = "no" /\ ~r.monitoring
              /\ ~r.cancelled /\ ~r.actionable /\ ~r.touched
<1>1. PICK r \in HandleRecord : /\ r = Fresh(p, g) /\ r.left = "no" /\ ~r.monitoring
                                /\ ~r.cancelled /\ r.client = "open"
  BY FreshIsTyped
<1>2. r.path = p /\ r.gen = g /\ ~r.actionable /\ ~r.touched
  BY <1>1, UnbuiltIsTyped DEF Fresh, Unbuilt
<1>3. fleet' = [fleet EXCEPT !.handle[h] = r]
  BY <1>1
<1>4. PICK f : f = [fleet EXCEPT !.handle[h] = r]
  OBVIOUS
<1>5. /\ f \in FleetRec /\ f.roots = fleet.roots /\ f.routes = fleet.routes
      /\ f.handle[h] = r /\ \A x \in Handle \ {h} : f.handle[x] = fleet.handle[x]
  BY <1>1, <1>4, SetFields
<1> QED
  BY <1>1, <1>2, <1>3, <1>4, <1>5

\* Admission starts loops or none.
LEMMA AdmitLoops ==
    ASSUME loop \in [Handle -> LoopRec], NEW h \in Handle, NEW own, Admit(h, own)
    PROVE  \A x \in Handle : loop'[x].pc = "got" => loop'[x] = loop[x]
<1>1. \/ loop' = loop
      \/ loop' = [loop EXCEPT ![h].pc = "wait"]
  BY DEF Admit, Monitor
<1> QED
  BY <1>1 DEF LoopRec

\* An answer of a snapshot loop has just come, or is kept.
LEMMA GotFrom ==
    ASSUME ManagerInv, [Next]_vars, NEW x \in Handle, loop'[x].pc = "got"
    PROVE  loop'[x] = loop[x] \/ PollTick(x)
<1>1. loop \in [Handle -> LoopRec] /\ fleet \in FleetRec
  BY Typed DEF ManagerInv
<1>2. CASE Discover
  <2>1. loop' = loop \/ DiscEnds
    BY <1>2, DiscTurns
    DEF DiscLooks, DiscRemoves, DiscShuts, DiscLetsGo, DiscAsks, DiscAdmits
  <2>2. ASSUME DiscEnds PROVE loop'[x] = loop[x]
    <3>1. disc.target \in Handle /\ Admit(disc.target, disc.probe)
      BY <2>2 DEF DiscEnds, ManagerInv, DiscInv, Targeted
    <3> QED
      BY <1>1, <3>1, AdmitLoops
  <2> QED
    BY <2>1, <2>2
<1>3. ASSUME NEW g \in Launched, SpawnStep(g) PROVE loop'[x] = loop[x]
  <2>1. loop' = loop \/ SpawnEnds(g)
    BY <1>3, SpawnTurns DEF SpawnGoesOn, SpawnForgets, SpawnAsks, SpawnAdmits
  <2>2. ASSUME SpawnEnds(g) PROVE loop'[x] = loop[x]
    <3>1. spawn[g].target \in Handle /\ Admit(spawn[g].target, spawn[g].probe)
      BY <2>2, SpawnFields DEF SpawnEnds, SpawnGood, Targeted
    <3> QED
      BY <1>1, <3>1, AdmitLoops
  <2> QED
    BY <2>1, <2>2
<1>4. ASSUME NEW h \in Handle, PollTick(h), h # x PROVE loop'[x] = loop[x]
  <2>1. loop'[x] = loop[x]
    BY <1>1, <1>4 DEF PollTick
  <2> QED
    BY <2>1
<1>5. ASSUME NEW h \in Handle, PollGot(h) PROVE loop'[x] = loop[x]
  <2>1. \/ loop' = [loop EXCEPT ![h] = [pc |-> "wait", snapshot |-> Failed]]
        \/ loop' = [loop EXCEPT ![h] = [pc |-> "done", snapshot |-> Failed]]
    BY <1>5 DEF PollGot
  <2> QED
    BY <1>1, <2>1
<1>6. ASSUME NEW h \in Handle, Collect(h) PROVE loop'[x] = loop[x]
  <2>1. loop' = [loop EXCEPT ![h] = [pc |-> "off", snapshot |-> Failed]]
    BY <1>6 DEF Collect
  <2> QED
    BY <1>1, <2>1
<1> QED
  BY <1>2, <1>3, <1>4, <1>5, <1>6, Movers

\* A handle is for a generation of its path.
LEMMA PathsKept ==
    ASSUME ManagerInv, PathInv, FleetMoves
    PROVE  PathInv'
<1> SUFFICES ASSUME NEW x \in Handle, fleet'.handle[x].client # "none"
             PROVE  fleet'.handle[x].gen \in Gen /\ PathOf[fleet'.handle[x].gen] = fleet'.handle[x].path
  BY DEF PathInv
<1>1. SocketKept(x)
  BY RecordsKept
<1>2. ~Collect(x)
  BY CollectedIs, Typed DEF ManagerInv
<1>3. CASE fleet.handle[x].client = "none"
  BY <1>1, <1>3 DEF SocketKept
<1>4. CASE fleet.handle[x].client # "none"
  BY <1>1, <1>2, <1>4, SocketStays DEF PathInv
<1> QED
  BY <1>3, <1>4

\* An answer is of the path of the handle it was asked for.
LEMMA AnswersKept ==
    ASSUME ManagerInv, BookInv, [Next]_vars
    PROVE  AnswerPaths'
<1>1. fleet \in FleetRec /\ loop \in [Handle -> LoopRec] /\ disc.gen \in Gen \cup {NoGen} /\ WorldOK
      /\ HandleInv
  BY Typed DEF ManagerInv, DiscRec, FleetInv
<1>2. FleetMoves /\ \A x \in Handle : SocketKept(x)
  BY StepMoves, RecordsKept DEF BookInv
<1>3. ASSUME disc'.pc = "probed" PROVE At(disc.snapshot, disc.probe)'
  <2>1. CASE disc' = disc
    <3>1. disc.probe \in Handle /\ fleet.handle[disc.probe].client # "none" /\ ~Collect(disc.probe)
      BY <1>3, <2>1 DEF ManagerInv, DiscInv, Private, Collect
    <3>2. fleet'.handle[disc.probe].path = fleet.handle[disc.probe].path
      BY <1>2, <3>1, SocketStays
    <3> QED
      BY <1>3, <2>1, <3>2 DEF BookInv, AnswerPaths, At
  <2>2. CASE Discover
    <3>1. PICK h \in Handle : DiscAsks(h)
      BY <1>3, <2>2, DiscTurns
      DEF DiscLooks, DiscRemoves, DiscShuts, DiscLetsGo, DiscAdmits, DiscEnds, Draining
    <3>2. PICK p \in Path : p = PathOf[disc.gen]
      BY <3>1 DEF DiscAsks
    <3>3. fleet' = [fleet EXCEPT !.handle[h] = Fresh(p, disc.gen)] /\ disc.gen \in Gen
      BY <3>1, <3>2 DEF DiscAsks
    <3>4. fleet'.handle[h].path = p
      BY <1>1, <3>3, FreshFields
    <3>5. PathOf[disc'.snapshot.gen] = p
      BY <3>1, <3>2, UsableAt DEF DiscAsks, BookInv
    <3> QED
      BY <3>1, <3>4, <3>5 DEF DiscAsks, At
  <2> QED
    BY <2>1, <2>2, Movers
<1>4. ASSUME NEW g \in Launched, spawn'[g].pc = "probed"
      PROVE  At(spawn[g].snapshot, spawn[g].probe)'
  <2>1. CASE spawn'[g] = spawn[g]
    <3>w. PICK w : w = spawn[g] /\ w = spawn'[g]
      BY <2>1
    <3>1. w.pc = "probed" /\ w.probe \in Handle /\ fleet.handle[w.probe].client # "none"
      BY <1>4, <3>w, SpawnFields DEF SpawnGood, Private
    <3>2. ~Collect(w.probe)
      BY <3>w DEF Collect
    <3>3. fleet'.handle[w.probe].path = fleet.handle[w.probe].path
      BY <1>2, <3>1, <3>2, SocketStays
    <3>4. At(w.snapshot, w.probe)
      BY <3>w, <3>1 DEF BookInv, AnswerPaths
    <3> QED
      BY <3>w, <3>3, <3>4 DEF At
  <2>2. CASE spawn'[g] # spawn[g]
    <3>1. PICK h \in Handle : SpawnAsks(g, h)
      <4>1. PICK l \in Launched : SpawnStep(l) \/ SpawnStart(l)
        BY <2>2, Movers
      <4>2. l = g
        BY <2>2, <4>1, SpawnTurns
      <4> QED
        BY <1>4, <2>2, <4>1, <4>2, SpawnTurns
        DEF SpawnGoesOn, SpawnForgets, SpawnEnds, SpawnAdmits
    <3>2. PICK p \in Path : p = PathOf[g]
      OBVIOUS
    <3>3. PathOf[spawn'[g].snapshot.gen] = p
      BY <3>1, <3>2, AnswersAt DEF SpawnAsks, BookInv
    <3>4. CASE spawn[g].probe = h /\ fleet' = fleet
      <4>1. fleet.handle[h].path = p
        BY <3>2, <3>4 DEF BookInv, SpawnPath, Held
      <4> QED
        BY <3>1, <3>3, <3>4, <4>1 DEF SpawnAsks, At
    <3>5. CASE fleet' = [fleet EXCEPT !.handle[h] = Fresh(PathOf[g], disk[PathOf[g]])]
      <4>1. PICK d \in Gen : d = disk[PathOf[g]]
        BY <1>1, <3>1, <3>2 DEF SpawnAsks, WorldOK
      <4>2. fleet' = [fleet EXCEPT !.handle[h] = Fresh(p, d)]
        BY <3>2, <3>5, <4>1
      <4>3. fleet'.handle[h].path = p
        BY <1>1, <4>2, FreshFields
      <4> QED
        BY <3>1, <3>3, <4>3 DEF SpawnAsks, At
    <3> QED
      BY <3>1, <3>4, <3>5 DEF SpawnAsks
  <2> QED
    BY <2>1, <2>2
<1>5. ASSUME NEW x \in Handle, loop'[x].pc = "got" PROVE At(loop[x].snapshot, x)'
  <2>1. CASE loop'[x] = loop[x]
    <3>1. fleet.handle[x].client # "none" /\ ~Collect(x)
      BY <1>1, <1>5, <2>1 DEF HandleInv, Collect, LoopsEnded
    <3>2. fleet'.handle[x].path = fleet.handle[x].path
      BY <1>2, <3>1, SocketStays
    <3> QED
      BY <1>5, <2>1, <3>2 DEF BookInv, AnswerPaths, At
  <2>2. CASE PollTick(x)
    <3>1. PICK p \in Path : p = fleet.handle[x].path
      BY <1>1, FleetFields
    <3>2. fleet' = fleet
      BY <2>2 DEF PollTick
    <3>3. \/ loop' = [loop EXCEPT ![x].pc = "done"]
          \/ \E a \in Usable(p) : loop' = [loop EXCEPT ![x] = [pc |-> "got", snapshot |-> a]]
      BY <2>2, <3>1 DEF PollTick
    <3>4. loop' # [loop EXCEPT ![x].pc = "done"]
      BY <1>1, <1>5 DEF LoopRec
    <3>5. PICK a \in Usable(p) : loop' = [loop EXCEPT ![x] = [pc |-> "got", snapshot |-> a]]
      BY <3>3, <3>4
    <3>6. loop'[x].snapshot = a
      BY <1>1, <3>5
    <3>7. PathOf[a.gen] = p
      BY UsableAt DEF BookInv
    <3> QED
      BY <3>1, <3>2, <3>6, <3>7 DEF At
  <2> QED
    BY <1>5, <2>1, <2>2, GotFrom
<1> QED
  BY <1>3, <1>4, <1>5 DEF AnswerPaths

\* A spawn holds handles at the path of the root it has launched.
LEMMA SpawnPathKept ==
    ASSUME ManagerInv, BookInv, [Next]_vars
    PROVE  SpawnPath'
<1>1. fleet \in FleetRec /\ WorldOK /\ RootsInv
  BY Typed DEF ManagerInv, FleetInv
<1>2. FleetMoves /\ \A x \in Handle : SocketKept(x)
  BY StepMoves, RecordsKept DEF BookInv
<1> DEFINE Goal(g) == /\ spawn'[g].probe # NoHandle => Held(g, spawn[g].probe)'
                      /\ spawn'[g].pc = "monitor" => Held(g, spawn[g].target)'
<1> SUFFICES ASSUME NEW g \in Launched PROVE Goal(g)
  BY DEF SpawnPath, Held
<1>w. PICK w, v : w = spawn[g] /\ v = spawn'[g]
  OBVIOUS
<1>g. /\ w.probe # NoHandle => Held(g, w.probe)
      /\ w.pc = "monitor" => Held(g, w.target)
  BY <1>w DEF BookInv, SpawnPath
<1>3. ASSUME NEW x, Held(g, x), ~Collect(x) PROVE Held(g, x)'
  BY <1>2, <1>3, SocketStays DEF Held
<1>4. CASE v = w
  <2>1. ~Collect(w.probe) /\ ~Collect(w.target)
    BY <1>w DEF Collect
  <2>2. w.probe # NoHandle => Held(g, w.probe)'
    BY <1>g, <1>3, <2>1 DEF Held
  <2>3. w.pc = "monitor" => Held(g, w.target)'
    BY <1>g, <1>3, <2>1 DEF Held
  <2> QED
    BY <1>w, <1>4, <2>2, <2>3 DEF Held
<1>5. CASE v # w
  <2>1. \A x \in Handle : ~Collect(x)
    BY <1>5, <1>w DEF Collect
  <2>t. SpawnStep(g) \/ SpawnStart(g)
    <3>1. PICK l \in Launched : SpawnStep(l) \/ SpawnStart(l)
      BY <1>w, <1>5, Movers
    <3>2. l = g
      BY <1>w, <1>5, <3>1, SpawnTurns
    <3> QED
      BY <3>1, <3>2
  <2>2. CASE SpawnGoesOn(g)
    <3>1. v.probe = w.probe /\ v.pc # "monitor"
      BY <1>w, <2>2 DEF SpawnGoesOn
    <3>2. w.probe # NoHandle => Held(g, w.probe)'
      BY <1>g, <1>3, <2>1 DEF Held
    <3> QED
      BY <1>w, <3>1, <3>2 DEF Held
  <2>3. CASE SpawnForgets(g) \/ SpawnEnds(g)
    BY <1>w, <2>3 DEF SpawnForgets, SpawnEnds
  <2>4. ASSUME NEW h \in Handle, SpawnAsks(g, h) PROVE Goal(g)
    <3>v. v.pc # "monitor" /\ v.probe = h
      BY <1>w, <2>4 DEF SpawnAsks
    <3>1. CASE spawn[g].probe = h /\ fleet' = fleet
      <4>1. Held(g, h)
        BY <1>w, <1>g, <3>1
      <4>2. Held(g, h)'
        BY <3>1, <4>1 DEF Held
      <4> QED
        BY <1>w, <3>v, <4>2 DEF Held
    <3>2. CASE fleet' = [fleet EXCEPT !.handle[h] = Fresh(PathOf[g], disk[PathOf[g]])]
      <4>1. PICK p \in Path, d \in Gen : p = PathOf[g] /\ d = disk[PathOf[g]]
        BY <1>1, <2>4 DEF SpawnAsks, WorldOK
      <4>2. fleet' = [fleet EXCEPT !.handle[h] = Fresh(p, d)]
        BY <3>2, <4>1
      <4>3. fleet'.handle[h].path = PathOf[g] /\ fleet'.handle[h].client # "none"
        BY <1>1, <4>1, <4>2, FreshFields
      <4> QED
        BY <1>w, <3>v, <4>3 DEF Held
    <3> QED
      BY <2>4, <3>1, <3>2 DEF SpawnAsks
  <2>5. ASSUME NEW h \in Handle, NEW a \in Snapshot, SpawnAdmits(g, h, a) PROVE Goal(g)
    <3>1. PICK t : t = Target(h)
      OBVIOUS
    <3>2. Held(g, h)
      BY <1>w, <1>g, <2>5 DEF SpawnAdmits
    <3>3. Held(g, t)
      <4>1. CASE t = h
        BY <3>2, <4>1
      <4>2. CASE t # h
        <5>1. PICK p \in Path : p = fleet.handle[h].path
          BY <1>1, FleetFields
        <5>2. t = fleet.roots[p] /\ t # NoHandle
          BY <3>1, <4>2, <5>1 DEF Target, SameSocket, Rival
        <5>3. t \in Handle /\ fleet.handle[t].path = p /\ fleet.handle[t].client # "none"
          BY <1>1, <5>2, InFleetAtPath DEF RootsInv
        <5> QED
          BY <3>2, <5>1, <5>3 DEF Held
      <4> QED
        BY <4>1, <4>2
    <3>4. Held(g, h)' /\ Held(g, t)'
      BY <1>3, <2>1, <3>2, <3>3 DEF Held
    <3>5. v.probe = h /\ v.target = t
      BY <1>w, <2>5, <3>1 DEF SpawnAdmits
    <3> QED
      BY <1>w, <3>4, <3>5 DEF Held
  <2> QED
    BY <1>w, <1>5, <2>t, <2>2, <2>3, <2>4, <2>5, SpawnTurns
<1> QED
  BY <1>4, <1>5

LEMMA BookKeeps ==
    ASSUME ManagerInv, BookInv, [Next]_vars
    PROVE  BookInv'
<1>1. FleetMoves
  BY StepMoves DEF BookInv
<1>2. PathInv'
  BY <1>1, PathsKept DEF BookInv
<1> QED
  BY <1>2, WorldPathsKept, AnswersKept, SpawnPathKept DEF BookInv

LEMMA BookInit == Init => BookInv
<1> SUFFICES ASSUME Init PROVE BookInv
  OBVIOUS
<1>1. WorldPaths
  BY DEF Init, WorldPaths
<1>2. \A x \in Handle : fleet.handle[x].client = "none" /\ loop[x].pc = "off"
  BY UnbuiltIsTyped DEF Init
<1>3. /\ disc.pc = "idle"
      /\ \A g \in Launched : spawn[g].pc = "idle" /\ spawn[g].probe = NoHandle
  BY DEF Init, DiscIdle, SpawnIdle
<1> QED
  BY <1>1, <1>2, <1>3 DEF BookInv, PathInv, AnswerPaths, SpawnPath

\* Sockets, clients, answers and what a spawn holds agree about paths.
THEOREM BookInvariant == Spec => [](ManagerInv /\ BookInv)
<1>1. Init => ManagerInv /\ BookInv
  BY InitHolds, BookInit
<1>2. (ManagerInv /\ BookInv) /\ [Next]_vars => (ManagerInv /\ BookInv)'
  BY NextKeeps, BookKeeps
<1> QED
  BY <1>1, <1>2, PTL DEF Spec

\* A name the user has set, or cleared, is changed by the user alone: the launch, a discovery
\* and the snapshot loop commit over it and leave it.
THEOREM NamesStick == Spec => RenameSticks
<1> DEFINE Sticks ==
      \A h \in Handle :
          (fleet.handle[h].touched /\ fleet'.handle[h].touched
             /\ fleet'.handle[h].name # fleet.handle[h].name)
               => \E r \in Root, n \in Name : RenameRoot(r, n)
<1>1. ManagerInv /\ BookInv /\ [Next]_vars => [Sticks]_vars
  <2> SUFFICES ASSUME ManagerInv, BookInv, [Next]_vars PROVE Sticks
    OBVIOUS
  <2>1. FleetMoves
    BY StepMoves DEF BookInv
  <2>2. (\A x \in Handle : NameKept(x)) \/ \E r \in Root, n \in Name : RenameRoot(r, n)
    BY <2>1, RecordsKept
  <2> QED
    BY <2>2 DEF NameKept
<1>2. [][Sticks]_vars => RenameSticks
  BY PTL DEF RenameSticks
<1> QED
  BY <1>1, <1>2, BookInvariant, PTL DEF Spec
-----------------------------------------------------------------------------
(* Routes *)

\* Routes and roots that go, and trees that stay, change nothing for the roots that are left.
RoutesShrink ==
    /\ \A p \in Path : fleet'.roots[p] \in {fleet.roots[p], NoHandle}
    /\ \A s \in Session : fleet'.routes[s] \in {fleet.routes[s], NoRoot}
    /\ \A x \in InFleet : /\ fleet'.handle[x].gen = fleet.handle[x].gen
                          /\ fleet'.handle[x].actionable
                                => /\ fleet.handle[x].actionable
                                   /\ fleet'.handle[x].tree = fleet.handle[x].tree

LEMMA ShrinkKeepsRoutes ==
    ASSUME RoutesFollowTree, RoutesShrink, PathInv', ManagerInv'
    PROVE  RoutesFollowTree'
<1> SUFFICES ASSUME NEW x \in InFleet', NEW s \in Session, fleet'.handle[x].actionable,
                    fleet'.routes[s] = RootOfHandle(x)'
             PROVE  s \in fleet'.handle[x].tree
  BY DEF RoutesFollowTree
<1>1. x \in InFleet
  BY InFleetNext DEF RoutesShrink, InFleet
<1>2. fleet'.handle[x].gen \in Gen
  <2>1. fleet' \in FleetRec /\ RootsInv'
    BY DEF ManagerInv, FleetInv, TypeOK, FleetRec
  <2>2. x \in Handle /\ fleet'.handle[x].client # "none"
    <3>1. PICK p \in Path : fleet'.roots[p] = x /\ x # NoHandle
      BY InFleetNext
    <3> QED
      BY <2>1, <3>1 DEF RootsInv, FleetRec, AnyHandle
  <2> QED
    BY <2>2 DEF PathInv
<1>3. fleet'.routes[s] # NoRoot
  BY <1>2 DEF RootOfHandle
<1>4. fleet.routes[s] = RootOfHandle(x) /\ fleet.handle[x].actionable
  BY <1>1, <1>3 DEF RoutesShrink, RootOfHandle
<1> QED
  BY <1>1, <1>4 DEF RoutesFollowTree, RoutesShrink

\* A commit routes the tree that it writes.
LEMMA CommitKeepsRoutes ==
    ASSUME \A g, k \in Gen : RootOf[g] = RootOf[k] => g = k,
           ManagerInv, PathInv, RoutesFollowTree, ManagerInv', PathInv',
           NEW h \in Handle, NEW a \in Snapshot, NEW b \in BOOLEAN, NEW names \in SUBSET Name,
           Offered(h, a), fleet' = Committed(h, a, b, names)
    PROVE  RoutesFollowTree'
<1>1. fleet \in FleetRec /\ RootsInv /\ a.gen \in Gen /\ fleet.handle[h].client # "none"
  BY Typed DEF ManagerInv, FleetInv, Offered
<1>2. PICK t \in Handle, p \in Path : t = Target(h) /\ p = fleet.handle[h].path
  BY <1>1, CommittedFields, FleetFields
<1>3. /\ fleet'.roots[p] = t
      /\ \A y \in Path \ {p} : fleet'.roots[y] = fleet.roots[y]
      /\ \A x \in Handle : /\ fleet'.handle[x].path = fleet.handle[x].path
                           /\ fleet'.handle[x].gen = fleet.handle[x].gen
      /\ t = h \/ (t = fleet.roots[p] /\ t # NoHandle)
  BY <1>1, <1>2, CommittedFields
<1>4. /\ fleet'.handle[t].tree = Tree(a)
      /\ \A x \in Handle \ {t} : SamePage(fleet'.handle[x], fleet.handle[x])
      /\ \A s \in Tree(a) : fleet'.routes[s] = RootOf[a.gen]
      /\ \A s \in Session \ Tree(a) : /\ fleet'.routes[s] \in {fleet.routes[s], NoRoot}
                                      /\ RootOfHandle(t) \in Root
                                                  => fleet'.routes[s] # RootOfHandle(t)
  BY <1>1, <1>2, CommittedPages
<1>5. fleet.handle[t].gen \in Gen /\ PathOf[a.gen] = p
  <2>1. fleet.handle[t].client # "none" /\ fleet.handle[t].path = p
    BY <1>1, <1>2, <1>3 DEF RootsInv
  <2> QED
    BY <1>2, <2>1 DEF PathInv, Offered, At
<1> SUFFICES ASSUME NEW x \in InFleet', NEW s \in Session, fleet'.handle[x].actionable,
                    fleet'.routes[s] = RootOfHandle(x)'
             PROVE  s \in fleet'.handle[x].tree
  BY DEF RoutesFollowTree
<1>6. PICK y \in Path : fleet'.roots[y] = x /\ x # NoHandle
  BY InFleetNext
<1>7. CASE y = p
  <2>1. x = t /\ RootOfHandle(x)' = RootOfHandle(t)
    BY <1>3, <1>6, <1>7 DEF RootOfHandle
  <2>2. RootOfHandle(t) \in Root
    BY <1>5 DEF RootOfHandle
  <2> QED
    BY <1>4, <2>1, <2>2
<1>8. CASE y # p
  <2>1. fleet.roots[y] = x /\ x \in Handle /\ x \in InFleet
    BY <1>1, <1>3, <1>6, <1>8, InFleetAtPath
  <2>2. fleet.handle[x].gen \in Gen /\ PathOf[fleet.handle[x].gen] = y
    BY <1>1, <2>1 DEF PathInv, RootsInv
  <2>3. RootOfHandle(x)' = RootOfHandle(x)
    BY <1>3, <2>1 DEF RootOfHandle
  <2>4. s \notin Tree(a)
    <3>1. fleet.handle[x].gen # a.gen
      BY <1>5, <1>8, <2>2
    <3>2. RootOfHandle(x) # RootOf[a.gen]
      BY <1>1, <2>2, <3>1 DEF RootOfHandle
    <3> QED
      BY <1>4, <2>3, <3>2
  <2>5. RootOfHandle(x) # NoRoot
    <3>1. fleet.handle[x].gen \in Gen
      BY <2>1, <1>1 DEF PathInv, RootsInv
    <3> QED
      BY <3>1 DEF RootOfHandle
  <2>6. fleet.routes[s] = RootOfHandle(x)
    BY <1>4, <2>3, <2>4, <2>5
  <2>7. x # t
    <3>1. fleet.handle[x].path = y
      BY <1>1, <2>1 DEF RootsInv
    <3>2. fleet.handle[t].path = p
      BY <1>1, <1>2, <1>3 DEF RootsInv
    <3> QED
      BY <1>8, <3>1, <3>2
  <2> QED
    BY <1>4, <2>1, <2>6, <2>7 DEF RoutesFollowTree, SamePage
<1> QED
  BY <1>7, <1>8

LEMMA RoutesKept ==
    ASSUME \A g, k \in Gen : RootOf[g] = RootOf[k] => g = k,
           ManagerInv, BookInv, RoutesFollowTree, [Next]_vars
    PROVE  RoutesFollowTree'
<1>1. /\ fleet \in FleetRec /\ RootsInv /\ ManagerInv' /\ BookInv' /\ FleetMoves
      /\ \A x \in InFleet : x \in Handle
      /\ \A x \in InFleet : fleet.handle[x].client # "none"
  BY Typed, NextKeeps, BookKeeps, StepMoves, InFleetAtPath DEF ManagerInv, FleetInv, BookInv, RootsInv
<1>2. PathInv /\ PathInv'
  BY <1>1 DEF BookInv
<1>3. CASE fleet' = fleet
  BY <1>3 DEF RoutesFollowTree, InFleet, RootOfHandle
<1>4. ASSUME NEW P \in SUBSET Path, fleet' = Removed(P) PROVE RoutesShrink
  BY <1>1, <1>4, RemovedFields, RemovedPages DEF RoutesShrink, SamePage
<1>5. ASSUME NEW X \in SUBSET Built, fleet' = WithClosed(fleet, X) PROVE RoutesShrink
  BY <1>1, <1>5, ClosedFields, ClosedPages DEF RoutesShrink, SamePage
<1>6. ASSUME NEW h \in Handle, NEW a \in Snapshot, NEW b \in BOOLEAN, NEW names \in SUBSET Name,
             Offered(h, a), fleet' = Committed(h, a, b, names)
      PROVE  RoutesFollowTree'
  BY <1>1, <1>2, <1>6, CommitKeepsRoutes
<1>7. ASSUME NEW h \in Handle, NEW p \in Path, NEW g \in Gen, PathOf[g] = p,
             fleet.handle[h].client = "none",
             fleet' = [fleet EXCEPT !.handle[h] = Fresh(p, g)]
      PROVE  RoutesShrink
  BY <1>1, <1>7, FreshFields DEF RoutesShrink
<1>8. ASSUME NEW h \in Handle, Collect(h) PROVE RoutesShrink
  <2>1. fleet' = [fleet EXCEPT !.handle[h] = Unbuilt] /\ h \notin InFleet
    BY <1>8 DEF Collect
  <2>2. /\ fleet'.roots = fleet.roots /\ fleet'.routes = fleet.routes
        /\ \A x \in Handle \ {h} : fleet'.handle[x] = fleet.handle[x]
    BY <1>1, <2>1, SetFields, UnbuiltIsTyped
  <2> QED
    BY <1>1, <2>1, <2>2 DEF RoutesShrink
<1>9. ASSUME NEW h \in Handle, fleet' = [fleet EXCEPT !.handle[h].monitoring = TRUE]
      PROVE  RoutesShrink
  BY <1>1, <1>9, MonitoredFields DEF RoutesShrink, SamePage
<1>10. ASSUME NEW h \in InFleet, fleet' = Dropped(h) PROVE RoutesShrink
  BY <1>1, <1>10, DroppedFields DEF RoutesShrink, SamePage
<1>11. ASSUME NEW h \in InFleet, NEW a \in Snapshot, Offered(h, a), fleet' = Retained(h, a)
       PROVE  RoutesShrink
  BY <1>1, <1>11, RetainedFields DEF RoutesShrink
<1>12. ASSUME NEW r \in Root, NEW n \in NewName, RenameRoot(r, n) PROVE RoutesShrink
  BY <1>1, <1>12, RenamedFields DEF RoutesShrink
<1>13. CASE Close
  <2>1. RoutesShrink
    BY <1>1, <1>13, CloseFields DEF RoutesShrink, SamePage
  <2> QED
    BY <1>1, <1>2, <2>1, ShrinkKeepsRoutes
<1>14. CASE CloseClients
  <2>1. InFleet' = {}
    BY <1>1, <1>14, EmptiedFields, InFleetNext
  <2> QED
    BY <2>1 DEF RoutesFollowTree
<1>15. RoutesShrink => RoutesFollowTree'
  BY <1>1, <1>2, ShrinkKeepsRoutes
<1> QED
  BY <1>1, <1>3, <1>4, <1>5, <1>6, <1>7, <1>8, <1>9, <1>10, <1>11, <1>12, <1>13, <1>14, <1>15
  DEF FleetMoves

\* When every supervisor has a session ID of its own, an action on a routed session of an
\* actionable root finds its node, whoever has replaced whom at a path: the tree of a root and
\* its routes are written together, and a root is found at one path.
THEOREM RoutesFollow ==
    ASSUME \A g, k \in Gen : RootOf[g] = RootOf[k] => g = k
    PROVE  Spec => []RoutesFollowTree
<1>1. Init => ManagerInv /\ BookInv /\ RoutesFollowTree
  <2>1. ASSUME Init PROVE RoutesFollowTree
    <3>1. InFleet = {}
      BY <2>1 DEF Init, InFleet
    <3> QED
      BY <3>1 DEF RoutesFollowTree
  <2> QED
    BY <2>1, InitHolds, BookInit
<1>2. (ManagerInv /\ BookInv /\ RoutesFollowTree) /\ [Next]_vars
         => (ManagerInv /\ BookInv /\ RoutesFollowTree)'
  BY NextKeeps, BookKeeps, RoutesKept
<1> QED
  BY <1>1, <1>2, PTL DEF Spec
-----------------------------------------------------------------------------
(* Who closes what *)

\* Nothing but the launched root is at its path: to commit it displaces nobody.
LEMMA LaunchedAlone ==
    ASSUME ManagerInv, PathInv, NEW l \in Launched, NEW h, Held(l, h)
    PROVE  Displaced(h) = {}
<1>1. fleet \in FleetRec /\ RootsInv /\ l \in Gen
  BY Typed DEF ManagerInv, FleetInv
<1>3. PICK p \in Path : p = fleet.handle[h].path /\ p = PathOf[l]
  BY <1>1, FleetFields DEF Held
<1>4. fleet.handle[h].gen = l
  BY <1>3 DEF PathInv, Held
<1>5. CASE Rival(h) = NoHandle
  BY <1>5 DEF Displaced
<1>6. CASE Rival(h) # NoHandle
  <2>1. Rival(h) = fleet.roots[p] /\ fleet.roots[p] # NoHandle
    BY <1>3, <1>6 DEF Rival
  <2>2. PICK x \in Handle : x = Rival(h) /\ fleet.handle[x].path = p /\ fleet.handle[x].client # "none"
    BY <1>1, <2>1, InFleetAtPath DEF RootsInv
  <2>3. fleet.handle[x].gen = l
    BY <1>3, <2>2 DEF PathInv
  <2> QED
    BY <1>4, <1>6, <2>2, <2>3 DEF Displaced, SameSocket
<1> QED
  BY <1>5, <1>6

\* A commit opens nothing, admits its handle or closes it, and displaces a handle at most.
LEMMA CommitOwners ==
    ASSUME fleet \in FleetRec, RootsInv, NEW h \in Handle, NEW a \in Snapshot, a.gen \in Gen,
           NEW b \in BOOLEAN, NEW names \in SUBSET Name, fleet' = Committed(h, a, b, names),
           NEW x \in Handle, fleet'.handle[x].client = "open"
    PROVE  /\ fleet.handle[x].client = "open"
           /\ x = h => x \in InFleet'
           /\ x \in InFleet => x \in InFleet' \/ x \in Displaced(h)
<1>1. PICK p \in Path : p = fleet.handle[h].path
  BY FleetFields
<1>2. /\ SameSocket(h) => fleet'.roots = fleet.roots /\ Displaced(h) = {}
      /\ ~SameSocket(h) =>
            /\ Displaced(h) = {fleet.roots[p]} \ {h, NoHandle}
            /\ \A y \in Path : fleet'.roots[y] = IF y = p THEN h ELSE fleet.roots[y]
      /\ x \in Displaced(h) => fleet'.handle[x].client = fleet.handle[x].client
      /\ x \notin Displaced(h) => fleet'.handle[x].client = IF SameSocket(h) /\ x = h THEN "closed"
                                                            ELSE fleet.handle[x].client
  BY <1>1, CommittedFields
<1>3. fleet.handle[x].client = "open" /\ ~(SameSocket(h) /\ x = h)
  BY <1>2
<1>4. CASE SameSocket(h)
  <2>1. x \in InFleet => x \in InFleet'
    BY <1>2, <1>4 DEF InFleet
  <2> QED
    BY <1>3, <1>4, <2>1
<1>5. CASE ~SameSocket(h)
  <2>1. h \in InFleet'
    BY <1>2, <1>5, InFleetNext
  <2>2. ASSUME x \in InFleet PROVE x \in InFleet' \/ x \in Displaced(h)
    <3>1. PICK y \in Path : fleet.roots[y] = x /\ x # NoHandle
      BY <2>2, InFleetAtPath
    <3>2. CASE y = p
      BY <1>2, <1>5, <2>1, <3>1, <3>2
    <3>3. CASE y # p
      BY <1>2, <1>5, <3>1, <3>3, InFleetNext
    <3> QED
      BY <3>2, <3>3
  <2> QED
    BY <1>3, <2>1, <2>2
<1> QED
  BY <1>4, <1>5

\* A zombie stays one, unless it is dropped by whoever committed it.
LEMMA ZombieStays ==
    ASSUME ManagerInv, FleetMoves, NEW z \in Handle, Zombie(z), ~DiscOwn(z), ~SpawnOwn(z)
    PROVE  Zombie(z)'
<1>1. /\ fleet \in FleetRec /\ RootsInv /\ HandleInv
      /\ fleet.handle[z].left = "unwatched" /\ fleet.handle[z].monitoring
      /\ fleet.handle[z].client # "none"
  BY Typed DEF ManagerInv, FleetInv, Zombie, HandleInv
<1> SUFFICES fleet'.handle[z].left = "unwatched" /\ fleet'.handle[z].monitoring
  BY DEF Zombie
<1>2. CASE fleet' = fleet
  BY <1>1, <1>2
<1>3. ASSUME NEW P \in SUBSET Path, fleet' = Removed(P) PROVE Zombie(z)'
  BY <1>1, <1>3, RemovedFields DEF Zombie
<1>4. ASSUME NEW X \in SUBSET Built, fleet' = WithClosed(fleet, X) PROVE Zombie(z)'
  BY <1>1, <1>4, ClosedFields DEF Zombie
<1>5. ASSUME NEW h \in Handle, NEW a \in Snapshot, NEW b \in BOOLEAN, NEW names \in SUBSET Name,
             Offered(h, a), fleet' = Committed(h, a, b, names)
      PROVE  Zombie(z)'
  <2>1. a.gen \in Gen
    BY <1>5 DEF Offered
  <2> QED
    BY <1>1, <1>5, <2>1, CommittedFields DEF Zombie
<1>6. ASSUME NEW h \in Handle, NEW p \in Path, NEW g \in Gen,
             fleet.handle[h].client = "none",
             fleet' = [fleet EXCEPT !.handle[h] = Fresh(p, g)]
      PROVE  Zombie(z)'
  BY <1>1, <1>6, FreshFields DEF Zombie
<1>7. ASSUME NEW h \in Handle, Collect(h) PROVE Zombie(z)'
  <2>1. fleet' = [fleet EXCEPT !.handle[h] = Unbuilt] /\ h # z
    BY <1>7 DEF Collect
  <2>2. \A x \in Handle \ {h} : fleet'.handle[x] = fleet.handle[x]
    BY <1>1, <2>1, SetFields, UnbuiltIsTyped
  <2> QED
    BY <1>1, <2>1, <2>2 DEF Zombie
<1>8. ASSUME NEW h \in Handle, fleet' = [fleet EXCEPT !.handle[h].monitoring = TRUE]
      PROVE  Zombie(z)'
  BY <1>1, <1>8, MonitoredFields DEF Zombie
<1>9. ASSUME NEW h \in InFleet, DiscOwn(h) \/ SpawnOwn(h), fleet' = Dropped(h) PROVE Zombie(z)'
  BY <1>1, <1>9, DroppedFields DEF Zombie
<1>10. ASSUME NEW h \in InFleet, NEW a \in Snapshot, Offered(h, a), fleet' = Retained(h, a)
       PROVE  Zombie(z)'
  BY <1>1, <1>10, RetainedFields DEF Zombie
<1>11. ASSUME NEW r \in Root, NEW n \in NewName, RenameRoot(r, n) PROVE Zombie(z)'
  BY <1>1, <1>11, RenamedFields DEF Zombie
<1>12. CASE Close
  BY <1>1, <1>12, CloseFields
<1>13. CASE CloseClients
  BY <1>1, <1>13, EmptiedFields
<1> QED
  BY <1>2, <1>3, <1>4, <1>5, <1>6, <1>7, <1>8, <1>9, <1>10, <1>11, <1>12, <1>13
  DEF FleetMoves, Zombie

\* Who becomes one's own was private before.
LEMMA OwnNew ==
    ASSUME ManagerInv, [Next]_vars, NEW z \in Handle
    PROVE  /\ DiscOwn(z)' => DiscOwn(z) \/ \E a \in Snapshot, b \in BOOLEAN : DiscAdmits(z, a, b)
           /\ SpawnOwn(z)' => \/ SpawnOwn(z)
                             \/ \E g \in Launched, a \in Snapshot : SpawnAdmits(g, z, a)
<1>1. ASSUME DiscOwn(z)', disc' # disc
      PROVE  DiscOwn(z) \/ \E a \in Snapshot, b \in BOOLEAN : DiscAdmits(z, a, b)
  <2>1. Discover
    BY <1>1, Movers
  <2>2. disc'.pc \in {"displaced", "monitor"} /\ disc'.target = z /\ disc'.probe = z
    BY <1>1 DEF DiscOwn
  <2>3. DiscShuts \/ \E h \in Handle, a \in Snapshot, b \in BOOLEAN : DiscAdmits(h, a, b)
    BY <2>1, <2>2, DiscTurns
    DEF DiscLooks, DiscRemoves, DiscLetsGo, DiscEnds, DiscAsks
  <2>4. CASE DiscShuts
    BY <2>2, <2>4 DEF DiscShuts, DiscOwn
  <2>5. ASSUME NEW h \in Handle, NEW a \in Snapshot, NEW b \in BOOLEAN, DiscAdmits(h, a, b)
        PROVE  DiscAdmits(z, a, b)
    BY <2>2, <2>5 DEF DiscAdmits
  <2> QED
    BY <2>3, <2>4, <2>5
<1>2. ASSUME SpawnOwn(z)', ~SpawnOwn(z)
      PROVE  \E g \in Launched, a \in Snapshot : SpawnAdmits(g, z, a)
  <2>1. PICK g \in Launched : spawn'[g].pc = "monitor" /\ spawn'[g].target = z /\ spawn'[g].probe = z
    BY <1>2 DEF SpawnOwn
  <2>2. spawn'[g] # spawn[g]
    BY <1>2, <2>1 DEF SpawnOwn
  <2>3. PICK l \in Launched : SpawnStep(l) \/ SpawnStart(l)
    BY <2>2, Movers
  <2>4. l = g
    BY <2>2, <2>3, SpawnTurns
  <2>5. PICK h \in Handle, a \in Snapshot : SpawnAdmits(g, h, a)
    BY <2>1, <2>2, <2>3, <2>4, SpawnTurns DEF SpawnGoesOn, SpawnForgets, SpawnEnds, SpawnAsks
  <2>6. h = z
    BY <2>1, <2>5 DEF SpawnAdmits
  <2> QED
    BY <2>5, <2>6
<1> QED
  BY <1>1, <1>2 DEF DiscOwn

LEMMA HauntedKept ==
    ASSUME ManagerInv, FleetMoves, [Next]_vars, Haunted
    PROVE  Haunted'
<1>1. PICK z \in Handle : Zombie(z) /\ ~DiscOwn(z) /\ ~SpawnOwn(z)
  BY DEF Haunted
<1>2. Zombie(z)'
  BY <1>1, ZombieStays
<1>3. ~Private(z)
  BY <1>1 DEF Zombie, Private
<1>4. ~DiscOwn(z)'
  BY <1>1, <1>3, OwnNew DEF DiscAdmits, ManagerInv, DiscInv
<1>5. ~SpawnOwn(z)'
  <2>1. ASSUME NEW g \in Launched, NEW a \in Snapshot, SpawnAdmits(g, z, a) PROVE Private(z)
    BY <2>1, SpawnFields DEF SpawnAdmits, SpawnGood
  <2> QED
    BY <1>1, <1>3, <2>1, OwnNew
<1> QED
  BY <1>2, <1>4, <1>5 DEF Haunted

\* A handle is dropped, or its loops are started, by the step that FleetMoves names.
LEMMA MarksMove ==
    ASSUME ManagerInv, FleetMoves, NEW x \in Handle
    PROVE  /\ fleet'.handle[x].left = "dropped" => fleet.handle[x].left = "dropped" \/ mgr.quiesced
           /\ (fleet'.handle[x].monitoring /\ ~fleet.handle[x].monitoring)
                 => DiscMonitor \/ Monitors(x)
<1> DEFINE Goal == /\ fleet'.handle[x].left = "dropped" => fleet.handle[x].left = "dropped" \/ mgr.quiesced
                   /\ (fleet'.handle[x].monitoring /\ ~fleet.handle[x].monitoring)
                         => DiscMonitor \/ Monitors(x)
<1>1. fleet \in FleetRec /\ RootsInv
  BY Typed DEF ManagerInv, FleetInv
<1>2. CASE fleet' = fleet
  BY <1>1, <1>2
<1>3. ASSUME NEW P \in SUBSET Path, fleet' = Removed(P) PROVE Goal
  BY <1>1, <1>3, RemovedFields
<1>4. ASSUME NEW X \in SUBSET Built, fleet' = WithClosed(fleet, X) PROVE Goal
  BY <1>1, <1>4, ClosedFields
<1>5. ASSUME NEW h \in Handle, NEW a \in Snapshot, NEW b \in BOOLEAN, NEW names \in SUBSET Name,
             Offered(h, a), fleet' = Committed(h, a, b, names)
      PROVE  Goal
  <2>1. a.gen \in Gen
    BY <1>5 DEF Offered
  <2> QED
    BY <1>1, <1>5, <2>1, CommittedFields
<1>6. ASSUME NEW h \in Handle, NEW p \in Path, NEW g \in Gen,
             fleet' = [fleet EXCEPT !.handle[h] = Fresh(p, g)]
      PROVE  Goal
  BY <1>1, <1>6, FreshFields
<1>7. ASSUME NEW h \in Handle, Collect(h) PROVE Goal
  <2>1. fleet' = [fleet EXCEPT !.handle[h] = Unbuilt]
    BY <1>7 DEF Collect
  <2>2. fleet'.handle[h] = Unbuilt /\ \A y \in Handle \ {h} : fleet'.handle[y] = fleet.handle[y]
    BY <1>1, <2>1, SetFields, UnbuiltIsTyped
  <2> QED
    BY <1>1, <2>1, <2>2, UnbuiltIsTyped
<1>8. ASSUME NEW h \in Handle, DiscMonitor \/ Monitors(h),
             fleet' = [fleet EXCEPT !.handle[h].monitoring = TRUE]
      PROVE  Goal
  BY <1>1, <1>8, MonitoredFields
<1>9. ASSUME NEW h \in InFleet, mgr.quiesced, fleet' = Dropped(h) PROVE Goal
  BY <1>1, <1>9, DroppedFields
<1>10. ASSUME NEW h \in InFleet, NEW a \in Snapshot, Offered(h, a), fleet' = Retained(h, a)
       PROVE  Goal
  BY <1>1, <1>10, RetainedFields
<1>11. ASSUME NEW r \in Root, NEW n \in NewName, RenameRoot(r, n) PROVE Goal
  BY <1>1, <1>11, RenamedFields
<1>12. CASE Close
  BY <1>1, <1>12, CloseFields
<1>13. CASE CloseClients
  BY <1>1, <1>13, EmptiedFields
<1> QED
  BY <1>2, <1>3, <1>4, <1>5, <1>6, <1>7, <1>8, <1>9, <1>10, <1>11, <1>12, <1>13
  DEF FleetMoves

\* The manager never goes back.
LEMMA MgrGoesOn ==
    ASSUME ManagerInv, [Next]_vars
    PROVE  /\ mgr.quiesced => mgr'.quiesced
           /\ mgr'.clientsClosed => mgr.clientsClosed \/ CloseClients
<1>1. mgr \in MgrRec
  BY Typed DEF ManagerInv
<1>2. \/ mgr' = mgr \/ CloseClients
      \/ mgr' = [mgr EXCEPT !.evictions = @ + 1] \/ mgr' = [mgr EXCEPT !.quiesced = TRUE]
      \/ mgr' = [mgr EXCEPT !.closed = TRUE]
  <2>1. CASE Discover
    BY <2>1, DiscTurns
  <2>2. ASSUME NEW g \in Launched, SpawnStep(g) PROVE mgr' = mgr
    BY <2>2, SpawnTurns
  <2>3. CASE User
    BY <2>3 DEF User, SpawnStart, StopSession, RenameRoot, Quiesce, Close
  <2>4. CASE World \/ UNCHANGED vars
    BY <2>4 DEF World, Bind, Advance, ChangeKids, Exit, vars
  <2>5. CASE \E h \in Handle : LoopStep(h) \/ StopDrain(h) \/ Collect(h)
    BY <2>5 DEF LoopStep, PollTick, PollGot, StopDrain, Collect
  <2> QED
    BY <2>1, <2>2, <2>3, <2>4, <2>5 DEF Next
<1>3. CloseClients => mgr' = [mgr EXCEPT !.clientsClosed = TRUE]
  BY DEF CloseClients
<1> QED
  BY <1>1, <1>2, <1>3 DEF MgrRec

LEMMA HoldsKept ==
    ASSUME ManagerInv, FleetMoves, HoldsInv, [Next]_vars
    PROVE  HoldsInv'
<1>1. disc'.pc \notin Draining => disc'.victims = {}
  <2>1. disc.pc \notin Draining => disc.victims = {}
    BY DEF HoldsInv, Draining
  <2>2. CASE disc' = disc
    BY <2>1, <2>2
  <2>3. CASE Discover
    <3>1. CASE DiscLooks
      BY <2>1, <3>1 DEF DiscLooks, Draining
    <3>2. CASE DiscRemoves \/ DiscShuts \/ DiscLetsGo \/ DiscEnds
      BY <3>2 DEF DiscRemoves, DiscShuts, DiscLetsGo, DiscEnds
    <3>3. ASSUME NEW h \in Handle, DiscAsks(h) PROVE disc'.victims = {}
      BY <2>1, <3>3 DEF DiscAsks, Draining
    <3>4. ASSUME NEW h \in Handle, NEW a \in Snapshot, NEW b \in BOOLEAN, DiscAdmits(h, a, b)
          PROVE  <1>1!:
      BY <3>4 DEF DiscAdmits, Draining
    <3> QED
      BY <2>3, <3>1, <3>2, <3>3, <3>4, DiscTurns
  <2> QED
    BY <2>2, <2>3, Movers
<1>2. ASSUME NEW g \in Launched PROVE spawn'[g].pc \in SpawnOver => spawn'[g].probe = NoHandle
  <2>1. spawn[g].pc \in SpawnOver => spawn[g].probe = NoHandle
    BY DEF HoldsInv
  <2>2. CASE spawn'[g] = spawn[g]
    BY <2>1, <2>2
  <2>3. CASE spawn'[g] # spawn[g]
    <3>1. PICK l \in Launched : SpawnStep(l) \/ SpawnStart(l)
      BY <2>3, Movers
    <3>2. l = g
      BY <2>3, <3>1, SpawnTurns
    <3>3. CASE SpawnGoesOn(g)
      BY <2>1, <3>3 DEF SpawnGoesOn
    <3>4. CASE SpawnForgets(g) \/ SpawnEnds(g)
      BY <3>4 DEF SpawnForgets, SpawnEnds
    <3>5. ASSUME NEW h \in Handle, SpawnAsks(g, h) PROVE spawn'[g].pc \notin SpawnOver
      BY <3>5 DEF SpawnAsks, SpawnOver
    <3>6. ASSUME NEW h \in Handle, NEW a \in Snapshot, SpawnAdmits(g, h, a)
          PROVE  spawn'[g].pc \notin SpawnOver
      BY <3>6 DEF SpawnAdmits, SpawnOver
    <3> QED
      BY <2>3, <3>1, <3>2, <3>3, <3>4, <3>5, <3>6, SpawnTurns
  <2> QED
    BY <2>2, <2>3
<1>3. \A x \in Handle : fleet'.handle[x].left = "dropped" => mgr'.quiesced
  BY MarksMove, MgrGoesOn DEF HoldsInv
<1> QED
  BY <1>1, <1>2, <1>3 DEF HoldsInv, Draining, SpawnOver

\* The handle that a discovery has admitted is watched early by the spawn of its root alone.
LEMMA OwnKept ==
    ASSUME ManagerInv, BookInv, FleetMoves, OwnInv, [Next]_vars
    PROVE  OwnInv'
<1> SUFFICES ASSUME NEW x \in Handle, DiscOwn(x)', fleet'.handle[x].monitoring
             PROVE  \E l \in Launched : fleet'.handle[x].path = PathOf[l]
  BY DEF OwnInv
<1>1. fleet \in FleetRec /\ RootsInv /\ HandleInv
  BY Typed DEF ManagerInv, FleetInv
<1>2. ~DiscMonitor
  <2>1. DiscMonitor => disc'.pc = "scan"
    BY Typed, NextEntryFields DEF DiscMonitor, ManagerInv
  <2> QED
    BY <2>1 DEF DiscOwn
<1>3. ASSUME NEW a \in Snapshot, NEW b \in BOOLEAN, DiscAdmits(x, a, b) PROVE FALSE
  <2>1. ~fleet.handle[x].monitoring
    BY <1>3 DEF DiscAdmits, ManagerInv, DiscInv, Private
  <2>2. PICK N \in SUBSET Name : N = {}
    OBVIOUS
  <2>3. fleet' = Committed(x, a, b, N) /\ a.gen \in Gen
    BY <1>3, <2>2 DEF DiscAdmits
  <2>4. PICK h \in Handle : h = x
    OBVIOUS
  <2>5. \A y \in Handle : Committed(h, a, b, N).handle[y].monitoring = fleet.handle[y].monitoring
    BY <1>1, <1>3, <2>3, CommittedFields
  <2> QED
    BY <2>1, <2>3, <2>4, <2>5
<1>4. DiscOwn(x)
  BY <1>3, OwnNew
<1>5. fleet.handle[x].client # "none" /\ ~Collect(x)
  BY <1>4 DEF DiscOwn, ManagerInv, DiscInv, Targeted, Collect
<1>6. fleet'.handle[x].path = fleet.handle[x].path
  BY <1>5, RecordsKept, SocketStays
<1>7. CASE fleet.handle[x].monitoring
  BY <1>4, <1>6, <1>7 DEF OwnInv
<1>8. CASE ~fleet.handle[x].monitoring
  <2>1. PICK g \in Launched : SpawnMonitor(g) /\ spawn[g].target = x
    BY <1>2, <1>8, MarksMove DEF Monitors
  <2> QED
    BY <1>6, <2>1 DEF SpawnMonitor, BookInv, SpawnPath, Held
<1> QED
  BY <1>7, <1>8

\* Once closed, the manager admits nobody and starts no loop.
LEMMA ClosedKept ==
    ASSUME ManagerInv, FleetMoves, ClosedInv, [Next]_vars
    PROVE  ClosedInv'
<1> SUFFICES ASSUME mgr'.clientsClosed
             PROVE  InFleet' = {} /\ \A x \in Handle : LoopsEnded(x)'
  BY DEF ClosedInv
<1>1. /\ fleet \in FleetRec /\ RootsInv /\ HandleInv /\ loop \in [Handle -> LoopRec]
      /\ mgr.clientsClosed => mgr.closed /\ mgr.quiesced
  BY Typed DEF ManagerInv, FleetInv, MgrInv
<1>2. CASE CloseClients
  <2>1. InFleet' = {}
    BY <1>1, <1>2, EmptiedFields, InFleetNext
  <2>2. \A x \in Handle : LoopsEnded(x)'
    <3>1. \A x \in Handle : LoopsEnded(x) /\ loop' = loop
      BY <1>2 DEF CloseClients
    <3>2. \A x \in Handle : fleet'.handle[x].cancelled = fleet.handle[x].cancelled
      BY <1>1, <1>2, EmptiedFields
    <3> QED
      BY <3>1, <3>2 DEF LoopsEnded
  <2> QED
    BY <2>1, <2>2
<1>3. CASE ~CloseClients
  <2>1. mgr.clientsClosed /\ mgr.closed /\ mgr.quiesced
    BY <1>1, <1>3, MgrGoesOn
  <2>2. InFleet = {} /\ \A x \in Handle : LoopsEnded(x)
    BY <2>1 DEF ClosedInv
  <2>3. \A p \in Path : fleet.roots[p] = NoHandle
    BY <2>2, InFleetAtPath, <1>1
  <2> DEFINE Kept == /\ \A p \in Path : fleet'.roots[p] = NoHandle
                     /\ \A x \in Handle : fleet.handle[x].cancelled => \/ fleet'.handle[x].cancelled
                                                                     \/ loop'[x].pc = "off"
  <2>4. ASSUME fleet' = fleet PROVE Kept
    BY <2>3, <2>4
  <2>5. ASSUME NEW P \in SUBSET Path, fleet' = Removed(P) PROVE Kept
    BY <1>1, <2>2, <2>3, <2>5, RemovedFields
  <2>6. ASSUME NEW X \in SUBSET Built, fleet' = WithClosed(fleet, X) PROVE Kept
    BY <1>1, <2>3, <2>6, ClosedFields
  <2>7. ASSUME NEW h \in Handle, NEW p \in Path, NEW g \in Gen, fleet.handle[h].client = "none",
               fleet' = [fleet EXCEPT !.handle[h] = Fresh(p, g)]
        PROVE  Kept
    <3>1. ~fleet.handle[h].cancelled
      BY <1>1, <2>7 DEF HandleInv
    <3> QED
      BY <1>1, <2>3, <2>7, <3>1, FreshFields
  <2>8. ASSUME NEW h \in Handle, Collect(h) PROVE Kept
    <3>1. /\ fleet' = [fleet EXCEPT !.handle[h] = Unbuilt]
          /\ loop' = [loop EXCEPT ![h] = [pc |-> "off", snapshot |-> Failed]]
      BY <2>8 DEF Collect
    <3>2. fleet'.roots = fleet.roots /\ \A y \in Handle \ {h} : fleet'.handle[y] = fleet.handle[y]
      BY <1>1, <3>1, SetFields, UnbuiltIsTyped
    <3>3. loop'[h].pc = "off"
      BY <1>1, <3>1
    <3> QED
      BY <2>3, <3>2, <3>3
  <2>9. ASSUME NEW r \in Root, NEW n \in NewName, RenameRoot(r, n) PROVE Kept
    BY <1>1, <2>3, <2>9, RenamedFields
  <2>10. Kept
    <3>1. ~Close
      BY <2>1 DEF Close
    <3>2. \A h, a : Refused(h, a)
      BY <2>1 DEF Refused
    <3> QED
      BY <1>3, <2>1, <2>2, <2>4, <2>5, <2>6, <2>7, <2>8, <2>9, <3>1, <3>2 DEF FleetMoves
  <2>11. ASSUME NEW x \in Handle PROVE loop'[x] = loop[x] \/ loop'[x].pc = "off"
    <3>1. loop[x].pc \in {"off", "done"}
      BY <2>2 DEF LoopsEnded
    <3>2. ASSUME NEW h \in Handle, NEW own, Admit(h, own) PROVE loop' = loop
      BY <2>1, <3>2 DEF Admit, Monitor
    <3>3. CASE Discover
      <4>1. DiscMonitor => disc.target \in Handle
        BY DEF DiscMonitor, ManagerInv, DiscInv, Targeted
      <4> QED
        BY <3>2, <3>3, <4>1
        DEF Discover, List, TakeKnown, Skip, Inspect, Sweep, DiscDrain, Dial, DiscCommit, DiscMonitor
    <3>4. ASSUME NEW g \in Launched, SpawnStep(g) PROVE loop' = loop
      <4>1. SpawnMonitor(g) => spawn[g].target \in Handle
        BY SpawnFields DEF SpawnMonitor, SpawnGood, Targeted
      <4> QED
        BY <3>2, <3>4, <4>1
        DEF SpawnStep, Bootstrap, GiveUp, SpawnMonitor, SpawnRetry, SpawnCommit, CleanupStop,
            CleanupTerm, CleanupKill, CleanupReap, Die, SpawnProbe
    <3>5. ASSUME NEW h \in Handle, PollTick(h) \/ PollGot(h) PROVE FALSE
      <4>1. loop[h].pc \in {"off", "done"}
        BY <2>2 DEF LoopsEnded
      <4> QED
        BY <3>5, <4>1 DEF PollTick, PollGot
    <3>6. ASSUME NEW h \in Handle, Collect(h) PROVE loop'[x] = loop[x] \/ loop'[x].pc = "off"
      <4>1. loop' = [loop EXCEPT ![h] = [pc |-> "off", snapshot |-> Failed]]
        BY <3>6 DEF Collect
      <4> QED
        BY <1>1, <4>1
    <3> QED
      BY <3>3, <3>4, <3>5, <3>6, Movers
  <2>12. InFleet' = {}
    BY <2>10, InFleetNext
  <2>13. ASSUME NEW x \in Handle PROVE LoopsEnded(x)'
    <3>1. LoopsEnded(x)
      BY <2>2
    <3> QED
      BY <2>10, <2>11, <3>1 DEF LoopsEnded
  <2> QED
    BY <2>12, <2>13
<1> QED
  BY <1>2, <1>3

\* Who loses an owner gets another, or is closed.
LEMMA RemovedOwners ==
    ASSUME fleet \in FleetRec, RootsInv, NEW P \in SUBSET Path, fleet' = Removed(P), NEW x \in Handle
    PROVE  /\ fleet'.handle[x].client = fleet.handle[x].client
           /\ x \in InFleet => x \in InFleet' \/ x \in {fleet.roots[p] : p \in P} \ {NoHandle}
<1>1. /\ fleet'.handle[x].client = fleet.handle[x].client
      /\ \A p \in Path : fleet'.roots[p] = IF p \in P THEN NoHandle ELSE fleet.roots[p]
  BY RemovedFields
<1>2. ASSUME x \in InFleet PROVE x \in InFleet' \/ x \in {fleet.roots[p] : p \in P} \ {NoHandle}
  <2>1. PICK p \in Path : fleet.roots[p] = x /\ x # NoHandle
    BY <1>2, InFleetAtPath
  <2>2. CASE p \in P
    BY <2>1, <2>2
  <2>3. CASE p \notin P
    BY <1>1, <2>1, <2>3, InFleetNext
  <2> QED
    BY <2>2, <2>3
<1> QED
  BY <1>1, <1>2

LEMMA ShutOwners ==
    ASSUME fleet \in FleetRec, NEW X, fleet' = WithClosed(fleet, X), NEW x \in Handle,
           fleet'.handle[x].client = "open"
    PROVE  /\ fleet.handle[x].client = "open" /\ x \notin X
           /\ x \in InFleet => x \in InFleet'
<1>1. /\ fleet'.roots = fleet.roots
      /\ x \notin X => fleet'.handle[x] = fleet.handle[x]
      /\ x \in X => fleet'.handle[x].client = "closed"
  BY ClosedFields
<1> QED
  BY <1>1 DEF InFleet

LEMMA AdmitOwners ==
    ASSUME fleet \in FleetRec, RootsInv, NEW h \in Handle, NEW own, Admit(h, own),
           NEW x \in Handle, fleet'.handle[x].client = "open"
    PROVE  /\ fleet.handle[x].client = "open"
           /\ x \in InFleet => x \in InFleet'
<1>1. \/ fleet' = fleet
      \/ fleet' = [fleet EXCEPT !.handle[h].monitoring = TRUE]
      \/ h \in InFleet /\ fleet' = Dropped(h)
  BY DEF Admit, Monitor
<1>2. CASE fleet' = fleet
  BY <1>2 DEF InFleet
<1>3. CASE fleet' = [fleet EXCEPT !.handle[h].monitoring = TRUE]
  <2>1. fleet'.roots = fleet.roots /\ fleet'.handle[x].client = fleet.handle[x].client
    BY <1>3, MonitoredFields
  <2> QED
    BY <2>1 DEF InFleet
<1>4. CASE h \in InFleet /\ fleet' = Dropped(h)
  <2>1. /\ \A y \in Path : fleet'.roots[y] = IF y = fleet.handle[h].path THEN NoHandle
                                                ELSE fleet.roots[y]
        /\ x # h => fleet'.handle[x] = fleet.handle[x]
        /\ x = h => fleet'.handle[x].client = "closed"
    BY <1>4, DroppedFields
  <2>2. x # h /\ fleet.handle[x].client = "open"
    BY <2>1
  <2>3. ASSUME x \in InFleet PROVE x \in InFleet'
    <3>1. PICK y \in Path : fleet.roots[y] = x /\ x # NoHandle
      BY <2>3, InFleetAtPath
    <3>2. y # fleet.handle[h].path
      BY <1>4, <2>2, <3>1, InFleetAtPath
    <3> QED
      BY <2>1, <3>1, <3>2, InFleetNext
  <2> QED
    BY <2>2, <2>3
<1> QED
  BY <1>1, <1>2, <1>3, <1>4

\* The discovery loop drains what it removes, and closes a probe that is not admitted.
LEMMA DiscOwners ==
    ASSUME ManagerInv, HoldsInv, Discover, NEW x \in Handle, fleet'.handle[x].client = "open",
           fleet.handle[x].client = "open" => Owned(x)
    PROVE  Owned(x)'
<1>1. /\ fleet \in FleetRec /\ RootsInv /\ UNCHANGED <<spawn, stopping>>
      /\ disc.pc \notin Draining => disc.victims = {}
  BY Typed, DiscTurns DEF ManagerInv, FleetInv, HoldsInv, Draining
<1> DEFINE Others == \/ x \in stopping
                     \/ \E g \in Launched : spawn[g].pc # "monitor" /\ spawn[g].probe = x
<1>2. Others => Owned(x)'
  BY <1>1 DEF Owned
<1>3. CASE DiscLooks
  <2>1. fleet' = fleet /\ disc.victims = {} /\ disc.pc # "probed"
    BY <1>1, <1>3 DEF DiscLooks, Draining
  <2>2. x \in InFleet \/ Others
    BY <2>1 DEF Owned
  <2> QED
    BY <1>2, <2>1, <2>2 DEF Owned, InFleet
<1>4. CASE DiscRemoves
  <2>1. PICK P \in SUBSET Path : /\ fleet' = Removed(P)
                                 /\ disc'.victims = {fleet.roots[p] : p \in P} \ {NoHandle}
    BY <1>4 DEF DiscRemoves
  <2>2. /\ fleet'.handle[x].client = fleet.handle[x].client
        /\ x \in InFleet => x \in InFleet' \/ x \in disc'.victims
    BY <1>1, <2>1, RemovedOwners
  <2>3. disc.victims = {} /\ disc.pc # "probed"
    BY <1>1, <1>4 DEF DiscRemoves, Draining
  <2>4. x \in InFleet \/ Others
    BY <2>2, <2>3 DEF Owned
  <2> QED
    BY <1>2, <2>2, <2>4 DEF Owned
<1>5. CASE DiscShuts
  <2>1. PICK h \in disc.victims : /\ fleet' = WithClosed(fleet, {h})
                                  /\ disc'.victims = disc.victims \ {h} /\ disc.pc \in Draining
    BY <1>5 DEF DiscShuts
  <2>2. fleet.handle[x].client = "open" /\ x # h /\ (x \in InFleet => x \in InFleet')
    BY <1>1, <2>1, ShutOwners
  <2>3. x \in InFleet \/ x \in disc'.victims \/ Others
    BY <2>1, <2>2 DEF Owned, Draining
  <2> QED
    BY <1>2, <2>2, <2>3 DEF Owned
<1>6. CASE DiscLetsGo
  <2>1. fleet' = WithClosed(fleet, {disc.probe}) /\ disc.victims = {}
    BY <1>1, <1>6 DEF DiscLetsGo, Draining
  <2>2. fleet.handle[x].client = "open" /\ x # disc.probe /\ (x \in InFleet => x \in InFleet')
    BY <1>1, <2>1, ShutOwners
  <2>3. x \in InFleet \/ Others
    BY <2>1, <2>2 DEF Owned
  <2> QED
    BY <1>2, <2>2, <2>3 DEF Owned
<1>7. CASE DiscEnds
  <2>1. disc.target \in Handle /\ Admit(disc.target, disc.probe) /\ disc.victims = {}
        /\ disc.pc # "probed"
    BY <1>1, <1>7 DEF DiscEnds, Draining, ManagerInv, DiscInv, Targeted
  <2>2. fleet.handle[x].client = "open" /\ (x \in InFleet => x \in InFleet')
    BY <1>1, <2>1, AdmitOwners
  <2>3. x \in InFleet \/ Others
    BY <2>1, <2>2 DEF Owned
  <2> QED
    BY <1>2, <2>2, <2>3 DEF Owned
<1>8. ASSUME NEW h \in Handle, DiscAsks(h) PROVE Owned(x)'
  <2>1. PICK p \in Path : p = PathOf[disc.gen] /\ disc.gen \in Gen
    BY <1>8 DEF DiscAsks
  <2>2. fleet' = [fleet EXCEPT !.handle[h] = Fresh(p, disc.gen)] /\ disc'.pc = "probed"
        /\ disc'.probe = h /\ disc.victims = {} /\ disc.pc # "probed"
    BY <1>1, <1>8, <2>1 DEF DiscAsks, Draining
  <2>3. /\ fleet'.roots = fleet.roots
        /\ x # h => fleet'.handle[x] = fleet.handle[x]
    BY <1>1, <2>1, <2>2, FreshFields
  <2>4. x = h \/ x \in InFleet \/ Others
    BY <2>2, <2>3 DEF Owned
  <2> QED
    BY <1>2, <2>2, <2>3, <2>4 DEF Owned, InFleet
<1>9. ASSUME NEW h \in Handle, NEW a \in Snapshot, NEW b \in BOOLEAN, DiscAdmits(h, a, b)
      PROVE  Owned(x)'
  <2>1. PICK N \in SUBSET Name : N = {}
    OBVIOUS
  <2>2. fleet' = Committed(h, a, b, N) /\ a.gen \in Gen /\ disc.probe = h /\ disc.victims = {}
        /\ disc'.victims = Displaced(h)
    BY <1>1, <1>9, <2>1 DEF DiscAdmits, Draining
  <2>3. /\ fleet.handle[x].client = "open" /\ (x = h => x \in InFleet')
        /\ x \in InFleet => x \in InFleet' \/ x \in Displaced(h)
    BY <1>1, <1>9, <2>2, CommitOwners
  <2>4. x = h \/ x \in InFleet \/ Others
    BY <2>2, <2>3 DEF Owned
  <2> QED
    BY <1>2, <2>2, <2>3, <2>4 DEF Owned
<1> QED
  BY <1>3, <1>4, <1>5, <1>6, <1>7, <1>8, <1>9, DiscTurns

\* A spawn closes what it holds, or admits it, and displaces nobody.
LEMMA SpawnOwners ==
    ASSUME ManagerInv, BookInv, NEW g \in Launched, SpawnStep(g) \/ SpawnStart(g),
           NEW x \in Handle, fleet'.handle[x].client = "open",
           fleet.handle[x].client = "open" => Owned(x)
    PROVE  Owned(x)'
<1>1. /\ fleet \in FleetRec /\ RootsInv /\ UNCHANGED <<disc, stopping>> /\ PathInv /\ SpawnPath /\ WorldOK
      /\ \A l \in Launched \ {g} : spawn'[l] = spawn[l]
  BY Typed, SpawnTurns DEF ManagerInv, FleetInv, BookInv
<1> DEFINE Others == \/ x \in disc.victims \cup stopping \/ (disc.pc = "probed" /\ disc.probe = x)
                     \/ \E l \in Launched \ {g} : spawn[l].pc # "monitor" /\ spawn[l].probe = x
           Mine == spawn[g].pc # "monitor" /\ spawn[g].probe = x
<1>2. Others => Owned(x)'
  BY <1>1 DEF Owned
<1>o. Owned(x) => x \in InFleet \/ Others \/ Mine
  BY DEF Owned
<1>m. Mine' => Owned(x)'
  BY DEF Owned
<1>3. CASE UNCHANGED <<fleet, loop>> /\ spawn' = spawn
  <2>1. x \in InFleet \/ Others \/ Mine
    BY <1>3, <1>o
  <2> QED
    BY <1>2, <1>3, <1>m, <2>1 DEF Owned, InFleet
<1>4. CASE SpawnGoesOn(g)
  <2>1. x \in InFleet \/ Others \/ spawn[g].probe = x
    BY <1>4, <1>o DEF SpawnGoesOn
  <2>2. spawn'[g].pc # "monitor" /\ spawn'[g].probe = spawn[g].probe /\ fleet' = fleet
    BY <1>4 DEF SpawnGoesOn
  <2> QED
    BY <1>2, <1>m, <2>1, <2>2 DEF Owned, InFleet
<1>5. CASE SpawnForgets(g)
  <2>1. PICK X : X = {spawn[g].probe} \ {NoHandle} /\ fleet' = WithClosed(fleet, X)
    BY <1>5 DEF SpawnForgets
  <2>2. fleet.handle[x].client = "open" /\ x \notin X /\ (x \in InFleet => x \in InFleet')
    BY <1>1, <2>1, ShutOwners
  <2>3. x \in InFleet \/ Others
    BY <1>o, <2>1, <2>2
  <2> QED
    BY <1>2, <2>2, <2>3 DEF Owned
<1>6. CASE SpawnEnds(g)
  <2>1. /\ spawn[g].target \in Handle /\ Admit(spawn[g].target, spawn[g].probe)
        /\ spawn[g].pc = "monitor"
    BY <1>6, SpawnFields DEF SpawnEnds, SpawnGood, Targeted
  <2>2. fleet.handle[x].client = "open" /\ (x \in InFleet => x \in InFleet')
    BY <1>1, <2>1, AdmitOwners
  <2>3. x \in InFleet \/ Others
    BY <1>o, <2>1, <2>2
  <2> QED
    BY <1>2, <2>2, <2>3 DEF Owned
<1>7. ASSUME NEW h \in Handle, SpawnAsks(g, h) PROVE Owned(x)'
  <2>1. spawn'[g].pc # "monitor" /\ spawn'[g].probe = h /\ spawn[g].probe \in {h, NoHandle}
    BY <1>7 DEF SpawnAsks
  <2>2. fleet'.roots = fleet.roots /\ (x # h => fleet'.handle[x] = fleet.handle[x])
    <3>1. CASE fleet' = fleet
      BY <3>1
    <3>2. CASE fleet' # fleet
      <4>1. PICK p \in Path, d \in Gen : p = PathOf[g] /\ d = disk[p]
        BY <1>1, <1>7 DEF SpawnAsks, WorldOK
      <4>2. fleet' = [fleet EXCEPT !.handle[h] = Fresh(p, d)]
        BY <1>7, <3>2, <4>1 DEF SpawnAsks
      <4> QED
        BY <1>1, <4>2, FreshFields
    <3> QED
      BY <3>1, <3>2
  <2>3. x = h \/ x \in InFleet \/ Others
    BY <1>o, <2>1, <2>2
  <2> QED
    BY <1>2, <1>m, <2>1, <2>2, <2>3 DEF Owned, InFleet
<1>8. ASSUME NEW h \in Handle, NEW a \in Snapshot, SpawnAdmits(g, h, a) PROVE Owned(x)'
  <2>1. PICK N \in SUBSET Name, b \in BOOLEAN : N = {"launch"} /\ b = TRUE
    BY DEF Name
  <2>2. fleet' = Committed(h, a, b, N) /\ a.gen \in Gen /\ spawn[g].probe = h
    BY <1>8, <2>1 DEF SpawnAdmits
  <2>3. /\ fleet.handle[x].client = "open" /\ (x = h => x \in InFleet')
        /\ x \in InFleet => x \in InFleet' \/ x \in Displaced(h)
    BY <1>1, <1>8, <2>2, CommitOwners
  <2>4. Displaced(h) = {}
    BY <1>1, <2>2, LaunchedAlone DEF SpawnPath
  <2>5. x = h \/ x \in InFleet \/ Others
    BY <1>o, <2>2, <2>3
  <2> QED
    BY <1>2, <2>3, <2>4, <2>5 DEF Owned
<1> QED
  BY <1>3, <1>4, <1>5, <1>6, <1>7, <1>8, SpawnTurns

\* snapshotLoop forgets whom its commit displaces; but only a zombie displaces anybody.
LEMMA GotOwners ==
    ASSUME ManagerInv, BookInv, HoldsInv, OwnInv, ~Haunted, NEW h \in Handle, PollGot(h),
           NEW x \in Handle, fleet'.handle[x].client = "open",
           fleet.handle[x].client = "open" => Owned(x)
    PROVE  Owned(x)'
<1>1. /\ fleet \in FleetRec /\ RootsInv /\ UNCHANGED <<disc, spawn, stopping>> /\ HandleInv /\ MgrInv
      /\ loop[h] \in LoopRec /\ Answered(loop[h].snapshot) /\ PathInv /\ SpawnPath
  BY Typed DEF ManagerInv, FleetInv, BookInv, AnsweredInv, PollGot
<1>2. PICK a \in Snapshot : a = loop[h].snapshot
  BY <1>1 DEF LoopRec
<1>3. \/ fleet' = fleet
      \/ a.life = "ending" /\ fleet' = Retained(h, a)
      \/ a.life = "live" /\ ~Refused(h, a) /\ fleet' = Committed(h, a, TRUE, {})
  BY <1>2 DEF PollGot, Retained
<1>4. a.life \in {"ending", "live"} => Offered(h, a)
  BY <1>1, <1>2, ProbesOpen DEF PollGot, Offered, BookInv, AnswerPaths, Answered, Built
<1>5. ASSUME fleet.handle[x].client = "open", x \in InFleet => x \in InFleet' PROVE Owned(x)'
  BY <1>1, <1>5 DEF Owned
<1>6. CASE fleet' = fleet
  BY <1>5, <1>6 DEF InFleet
<1>7. CASE a.life = "ending" /\ fleet' = Retained(h, a)
  <2>1. fleet'.roots = fleet.roots /\ fleet'.handle[x].client = fleet.handle[x].client
    BY <1>1, <1>4, <1>7, RetainedFields
  <2> QED
    BY <1>5, <2>1 DEF InFleet
<1>8. CASE a.life = "live" /\ ~Refused(h, a) /\ fleet' = Committed(h, a, TRUE, {})
  <2>1. PICK N \in SUBSET Name, b \in BOOLEAN : N = {} /\ b = TRUE
    OBVIOUS
  <2>2. fleet' = Committed(h, a, b, N) /\ a.gen \in Gen
    BY <1>4, <1>8, <2>1 DEF Offered
  <2>3. /\ fleet.handle[x].client = "open" /\ (x = h => x \in InFleet')
        /\ x \in InFleet => x \in InFleet' \/ x \in Displaced(h)
    BY <1>1, <2>2, CommitOwners
  <2>4. ~mgr.quiesced /\ ~mgr.clientsClosed /\ ~fleet.handle[h].cancelled
    BY <1>1, <1>8 DEF Refused, MgrInv
  <2>5. fleet.handle[h].monitoring /\ fleet.handle[h].client # "none"
    BY <1>1 DEF PollGot, HandleInv
  <2>6. ASSUME Displaced(h) # {} PROVE FALSE
    <3>1. \A l \in Launched : ~Held(l, h)
      BY <1>1, <2>6, LaunchedAlone
    <3>2. h \notin InFleet
      <4>1. h \in InFleet => fleet.roots[fleet.handle[h].path] = h
        BY <1>1, InFleetAtPath
      <4>2. h \in InFleet => Rival(h) = NoHandle
        BY <4>1 DEF Rival
      <4> QED
        BY <2>6, <4>2 DEF Displaced
    <3>3. Zombie(h)
      <4>1. fleet.handle[h].left \notin {"no", "watched", "dropped"}
        BY <1>1, <2>4, <2>5, <3>2 DEF HandleInv, HoldsInv
      <4>2. fleet.handle[h].left \in {"no", "watched", "unwatched", "dropped"}
        BY <1>1, FleetFields DEF HandleRecord
      <4> QED
        BY <2>5, <4>1, <4>2 DEF Zombie
    <3>4. ~DiscOwn(h)
      BY <2>5, <3>1 DEF OwnInv, Held
    <3>5. ~SpawnOwn(h)
      BY <1>1, <3>1 DEF SpawnOwn, SpawnPath
    <3> QED
      BY <3>3, <3>4, <3>5 DEF Haunted
  <2> QED
    BY <1>5, <2>3, <2>6
<1> QED
  BY <1>3, <1>6, <1>7, <1>8

\* The other steps close what they let go.
LEMMA OtherOwners ==
    ASSUME ManagerInv, NEW x \in Handle, fleet'.handle[x].client = "open",
           fleet.handle[x].client = "open" => Owned(x),
           \/ World \/ User \/ CloseClients \/ UNCHANGED vars
           \/ \E h \in Handle : PollTick(h) \/ StopDrain(h) \/ Collect(h)
    PROVE  Owned(x)' \/ \E g \in Launched : SpawnStart(g)
<1>1. fleet \in FleetRec /\ RootsInv
  BY Typed DEF ManagerInv, FleetInv
<1>2. ASSUME fleet.handle[x].client = "open", UNCHANGED <<disc, spawn, stopping>>,
             x \in InFleet => x \in InFleet'
      PROVE  Owned(x)'
  BY <1>2 DEF Owned
<1>3. CASE World \/ UNCHANGED vars
  <2>1. UNCHANGED <<fleet, disc, spawn, stopping>>
    BY <1>3 DEF World, Bind, Advance, ChangeKids, Exit, vars
  <2> QED
    BY <1>2, <2>1 DEF InFleet
<1>4. ASSUME NEW h \in Handle, PollTick(h) PROVE Owned(x)'
  <2>1. UNCHANGED <<fleet, disc, spawn, stopping>>
    BY <1>4 DEF PollTick
  <2> QED
    BY <1>2, <2>1 DEF InFleet
<1>5. ASSUME NEW h \in Handle, Collect(h) PROVE Owned(x)'
  <2>1. fleet' = [fleet EXCEPT !.handle[h] = Unbuilt] /\ UNCHANGED <<disc, spawn, stopping>>
    BY <1>5 DEF Collect
  <2>2. /\ fleet'.roots = fleet.roots /\ fleet'.handle[h] = Unbuilt
        /\ \A y \in Handle \ {h} : fleet'.handle[y] = fleet.handle[y]
    BY <1>1, <2>1, SetFields, UnbuiltIsTyped
  <2>3. x # h
    BY <2>2, UnbuiltIsTyped
  <2> QED
    BY <1>2, <2>1, <2>2, <2>3 DEF InFleet
<1>6. ASSUME NEW h \in Handle, StopDrain(h) PROVE Owned(x)'
  <2>1. /\ fleet' = WithClosed(fleet, {h}) /\ stopping' = stopping \ {h}
        /\ UNCHANGED <<disc, spawn>>
    BY <1>6 DEF StopDrain
  <2>2. fleet.handle[x].client = "open" /\ x # h /\ (x \in InFleet => x \in InFleet')
    BY <1>1, <2>1, ShutOwners
  <2> QED
    BY <2>1, <2>2 DEF Owned
<1>7. CASE CloseClients
  <2>1. UNCHANGED <<disc, spawn, stopping>>
    BY <1>7 DEF CloseClients
  <2>2. x \notin InFleet /\ fleet.handle[x].client = "open"
    BY <1>1, <1>7, EmptiedFields
  <2> QED
    BY <1>2, <2>1, <2>2
<1>8. ASSUME NEW s \in Session, StopSession(s) PROVE Owned(x)'
  <2>1. UNCHANGED <<disc, spawn>>
    BY <1>8 DEF StopSession
  <2>2. PICK p \in Path : \/ UNCHANGED <<fleet, stopping>>
                          \/ /\ fleet' = Removed({p})
                             /\ stopping' = stopping \cup {fleet.roots[p]}
    BY <1>8 DEF StopSession
  <2>3. CASE UNCHANGED <<fleet, stopping>>
    BY <1>2, <2>1, <2>3 DEF InFleet
  <2>4. CASE fleet' = Removed({p}) /\ stopping' = stopping \cup {fleet.roots[p]}
    <3>1. PICK P \in SUBSET Path : P = {p}
      OBVIOUS
    <3>2. /\ fleet'.handle[x].client = fleet.handle[x].client
          /\ x \in InFleet => x \in InFleet' \/ x \in {fleet.roots[q] : q \in P} \ {NoHandle}
      BY <1>1, <2>4, <3>1, RemovedOwners
    <3>3. x \in InFleet => x \in InFleet' \/ x \in stopping'
      BY <2>4, <3>1, <3>2
    <3> QED
      BY <2>1, <2>4, <3>2, <3>3 DEF Owned
  <2> QED
    BY <2>2, <2>3, <2>4
<1>9. ASSUME NEW r \in Root, NEW n \in NewName, RenameRoot(r, n) PROVE Owned(x)'
  <2>1. fleet'.roots = fleet.roots /\ fleet'.handle[x].client = fleet.handle[x].client
    BY <1>1, <1>9, RenamedFields
  <2>2. UNCHANGED <<disc, spawn, stopping>>
    BY <1>9 DEF RenameRoot
  <2> QED
    BY <1>2, <2>1, <2>2 DEF InFleet
<1>10. CASE Quiesce
  BY <1>2, <1>10 DEF Quiesce, InFleet
<1>11. CASE Close
  <2>1. fleet'.roots = fleet.roots /\ fleet'.handle[x].client = fleet.handle[x].client
    BY <1>1, <1>11, CloseFields
  <2>2. UNCHANGED <<disc, spawn, stopping>>
    BY <1>11 DEF Close
  <2> QED
    BY <1>2, <2>1, <2>2 DEF InFleet
<1> QED
  BY <1>3, <1>4, <1>5, <1>6, <1>7, <1>8, <1>9, <1>10, <1>11 DEF User

LEMMA OwnersKept ==
    ASSUME ManagerInv, BookInv, LeakInv, FleetMoves, [Next]_vars
    PROVE  OwnersInv'
<1> SUFFICES ASSUME NEW x \in Handle, fleet'.handle[x].client = "open", ~Haunted'
             PROVE  Owned(x)'
  BY DEF OwnersInv
<1>1. ~Haunted
  BY HauntedKept
<1>2. /\ fleet.handle[x].client = "open" => Owned(x)
      /\ HoldsInv /\ OwnInv
  BY <1>1 DEF LeakInv, OwnersInv
<1>3. CASE Discover
  BY <1>2, <1>3, DiscOwners
<1>4. ASSUME NEW g \in Launched, SpawnStep(g) \/ SpawnStart(g) PROVE Owned(x)'
  BY <1>2, <1>4, SpawnOwners
<1>5. ASSUME NEW h \in Handle, PollGot(h) PROVE Owned(x)'
  BY <1>1, <1>2, <1>5, GotOwners
<1>6. CASE \/ World \/ User \/ CloseClients \/ UNCHANGED vars
           \/ \E h \in Handle : PollTick(h) \/ StopDrain(h) \/ Collect(h)
  BY <1>2, <1>4, <1>6, OtherOwners
<1> QED
  BY <1>3, <1>4, <1>5, <1>6 DEF Next, LoopStep

LEMMA LeakKeeps ==
    ASSUME ManagerInv, BookInv, LeakInv, [Next]_vars
    PROVE  LeakInv'
<1>1. FleetMoves
  BY StepMoves DEF BookInv
<1> QED
  BY <1>1, HoldsKept, OwnKept, OwnersKept, ClosedKept DEF LeakInv

LEMMA LeakInit == Init => LeakInv
<1> SUFFICES ASSUME Init PROVE LeakInv
  OBVIOUS
<1>1. \A x \in Handle : fleet.handle[x].client = "none" /\ fleet.handle[x].left = "no"
  BY UnbuiltIsTyped DEF Init
<1>2. /\ disc.pc = "idle" /\ disc.victims = {} /\ ~mgr.clientsClosed
      /\ \A g \in Launched : spawn[g].pc = "idle" /\ spawn[g].probe = NoHandle
  BY DEF Init, DiscIdle, SpawnIdle
<1> QED
  BY <1>1, <1>2 DEF LeakInv, HoldsInv, OwnInv, OwnersInv, ClosedInv, DiscOwn

\* A client that is open has somebody who will close it.
THEOREM LeakInvariant == Spec => []FullInv
<1>1. Init => FullInv
  BY InitHolds, BookInit, LeakInit DEF FullInv
<1>2. FullInv /\ [Next]_vars => FullInv'
  BY NextKeeps, BookKeeps, LeakKeeps DEF FullInv
<1> QED
  BY <1>1, <1>2, PTL DEF Spec

\* Once Close has closed the clients and every request has ended, no client is open and no loop
\* runs, unless a zombie is left that may have displaced a handle.
THEOREM NoLeak == Spec => []NothingLeaks
<1>1. FullInv => NothingLeaks
  <2> SUFFICES ASSUME FullInv, mgr.clientsClosed, disc.pc = "idle", stopping = {},
                      \A g \in Launched : spawn[g].pc \in {"idle", "done"},
                      ~\E h \in Handle : Zombie(h)
               PROVE  /\ InFleet = {}
                      /\ \A h \in Handle : fleet.handle[h].client # "open" /\ LoopsEnded(h)
    BY DEF NothingLeaks
  <2>1. InFleet = {} /\ \A h \in Handle : LoopsEnded(h)
    BY DEF FullInv, LeakInv, ClosedInv
  <2>2. disc.victims = {} /\ \A g \in Launched : spawn[g].probe = NoHandle
    BY DEF FullInv, LeakInv, HoldsInv, SpawnOver
  <2>3. \A h \in Handle : ~Owned(h)
    BY <2>1, <2>2 DEF Owned
  <2>4. ~Haunted
    BY DEF Haunted
  <2> QED
    BY <2>1, <2>3, <2>4 DEF FullInv, LeakInv, OwnersInv
<1> QED
  BY <1>1, LeakInvariant, PTL
=============================================================================
