------------------------- MODULE ProvisioningProofs -------------------------
(***************************************************************************)
(* Proofs about Provisioning, for the sessions of either role: type        *)
(* correctness, an inductive invariant, and that a provision or a Destroy  *)
(* that leaves something has said so, that an instance runs under its own  *)
(* identity only and that a recovery without an error has left nothing.    *)
(***************************************************************************)
EXTENDS Provisioning, TLAPS

USE RoleAssumption

-----------------------------------------------------------------------------
(* The inductive invariant *)

\* The places of the plan where the volume is labelled, the instance made and started.
LabelAt == IF role = "root" THEN 2 ELSE 4
MakeAt == IF role = "root" THEN 3 ELSE 2
StartAt == IF role = "root" THEN 4 ELSE 6
LastAt == IF role = "root" THEN 6 ELSE 8

\* What Incus has when the steps before n have succeeded, and nothing more, ...
ServerAt(n) ==
    /\ server.volume = IF n <= 1 THEN "none" ELSE IF n <= LabelAt THEN "copied" ELSE "own"
    /\ server.instance = IF n <= MakeAt THEN "none"
                         ELSE IF role = "child" /\ n = 3 THEN "copied" ELSE "own"
    /\ server.running <=> n > StartAt

\* ... and what the provisioner knows to be its own.
OwnedAt(n) ==
    /\ prov.volumeOwned <=> n > 1
    /\ prov.instanceOwned <=> n > MakeAt

\* A provision makes its steps in order, and the server is behind by one operation at most.
ProgressInv ==
    /\ prov.pc = "check" => prov.at = 1
    /\ prov.pc \in {"check", "step"} => /\ prov.at \in 1..LastAt /\ server.op = "none"
                                        /\ ServerAt(prov.at) /\ OwnedAt(prov.at)
    /\ prov.pc = "wait" =>
          /\ prov.at \in 1..LastAt /\ Step \in Operation /\ OwnedAt(prov.at)
          /\ \/ server.op = Step /\ server.outcome = "none" /\ ServerAt(prov.at)
             \/ server.op = "none" /\ server.outcome = "ok" /\ ServerAt(prov.at + 1)
             \/ server.op = "none" /\ server.outcome = "error" /\ ServerAt(prov.at)
    /\ prov.pc = "ready" =>
          /\ server.op = "none" /\ server.running
          /\ server.instance = "own" /\ server.volume = "own"
          /\ prov.instanceOwned /\ prov.volumeOwned

\* What runs, or is about to, is the session's own; what the server still copies or makes is not
\* there yet.
ServerInv ==
    /\ (server.running \/ server.op = "start") => server.instance = "own" /\ server.volume = "own"
    /\ server.op \in {"copyVolume", "makeInstance"} => server.instance = "none"

\* Nothing has gone wrong that the provisioner noted, or could not.
Clean == ~prov.awaitErr /\ ~prov.cleanupErr /\ ~server.lost

\* A cleanup without an error waited for the server, and knows what there is to delete until it
\* is gone.
CleanupInv ==
    /\ prov.pc \in {"check", "step", "wait", "ready", "await"} => ~prov.awaitErr
    /\ (prov.pc = "await" /\ Clean /\ prov.submitted = "none") => server.op = "none"
    /\ (prov.pc \in {"probe", "stop", "delete", "probeVolume", "deleteVolume", "failed", "destroyed"}
          /\ Clean) => server.op = "none"
    /\ (prov.pc \in {"await", "probe", "stop", "delete"} /\ Clean /\ ~prov.instanceOwned)
          => server.instance = "none" /\ server.op \notin {"makeInstance", "labelInstance"}
    /\ (prov.pc \in {"await", "probe", "stop", "delete", "probeVolume", "deleteVolume"} /\ Clean
          /\ ~prov.volumeOwned) => server.volume = "none" /\ server.op # "copyVolume"
    /\ (prov.pc \in {"probeVolume", "deleteVolume", "failed", "destroyed"} /\ Clean)
          => server.instance = "none"
    /\ (prov.pc \in {"failed", "destroyed"} /\ Clean) => server.volume = "none"

\* A child whose resources were published has nothing under way but its own deletion.
TicketInv ==
    prov.ticket => /\ server.op \in {"none", "delete"}
                   /\ prov.pc \notin {"check", "step", "wait"}

\* What the parent has not seen is not there, and what it deleted without an error is gone.
ParentInv ==
    /\ parent.pc # "idle" => prov.ticket /\ prov.pc \in {"crashed", "destroyed"}
    /\ (parent.pc \in {"stop", "delete"} /\ ~parent.instance) => server.instance = "none"
    /\ (parent.pc \in {"stop", "delete", "deleteVolume"} /\ ~parent.volume) => server.volume = "none"
    /\ (parent.pc \in {"deleteVolume", "socket", "done"} /\ ~parent.err) => server.instance = "none"
    /\ (parent.pc \in {"socket", "done"} /\ ~parent.err) => server.volume = "none"

ProvisionInv ==
    TypeOK /\ ProgressInv /\ ServerInv /\ CleanupInv /\ TicketInv /\ ParentInv
-----------------------------------------------------------------------------
(* Types *)

ServerRec == [instance : Label, volume : Label, running : BOOLEAN,
              op : Operation \cup {"none", "delete"}, outcome : {"none", "ok", "error"},
              lost : BOOLEAN]
ProvRec == [pc : {"check", "step", "wait", "ready", "await", "probe", "stop", "delete",
                  "probeVolume", "deleteVolume", "failed", "destroyed", "crashed"},
            at : 1..8, retried : BOOLEAN, instanceOwned : BOOLEAN, volumeOwned : BOOLEAN,
            instanceAmbiguous : BOOLEAN, volumeAmbiguous : BOOLEAN, running : BOOLEAN,
            startAmbiguous : BOOLEAN, submitted : {"none", "last", "first"},
            destroying : BOOLEAN, ticket : BOOLEAN, late : BOOLEAN, awaitErr : BOOLEAN,
            cleanupErr : BOOLEAN]
ParentRec == [pc : {"idle", "stop", "delete", "deleteVolume", "socket", "done"},
              instance : BOOLEAN, volume : BOOLEAN, err : BOOLEAN]

LEMMA Typed ==
    TypeOK <=> /\ role \in Role /\ role \in {"root", "child"}
               /\ server \in ServerRec /\ prov \in ProvRec /\ parent \in ParentRec
BY DEF TypeOK, ServerRec, ProvRec, ParentRec

\* The steps of a plan.
LEMMA PlanSteps ==
    /\ role = "root" => /\ Len(Plan) = 6 /\ Plan[1] = "copyVolume" /\ Plan[2] = "labelVolume"
                        /\ Plan[3] = "makeInstance" /\ Plan[4] = "start" /\ Plan[5] = "prepare"
                        /\ Plan[6] = "address"
    /\ role = "child" => /\ Len(Plan) = 8 /\ Plan[1] = "copyVolume" /\ Plan[2] = "makeInstance"
                         /\ Plan[3] = "labelInstance" /\ Plan[4] = "labelVolume"
                         /\ Plan[5] = "verify" /\ Plan[6] = "start" /\ Plan[7] = "prepare"
                         /\ Plan[8] = "address"
<1>1. ASSUME role = "root"
      PROVE  Plan = <<"copyVolume", "labelVolume", "makeInstance", "start", "prepare", "address">>
  BY <1>1 DEF Plan, RootPlan
<1>2. ASSUME role = "child"
      PROVE  Plan = <<"copyVolume", "makeInstance", "labelInstance", "labelVolume", "verify",
                      "start", "prepare", "address">>
  BY <1>2 DEF Plan, ChildPlan
<1> HIDE DEF Plan
<1> QED
  BY <1>1, <1>2

\* Where each step is.
LEMMA StepPlaces ==
    ASSUME TypeOK, prov.at \in 1..LastAt
    PROVE  /\ Len(Plan) = LastAt
           /\ Step = "copyVolume" <=> prov.at = 1
           /\ Step = "labelVolume" <=> prov.at = LabelAt
           /\ Step = "makeInstance" <=> prov.at = MakeAt
           /\ Step = "labelInstance" <=> (role = "child" /\ prov.at = 3)
           /\ Step = "start" <=> prov.at = StartAt
<1>1. CASE role = "root"
  <2>1. prov.at \in 1..6
    BY <1>1 DEF LastAt
  <2>2. prov.at \in {1, 2, 3, 4, 5, 6}
    BY <2>1
  <2> QED
    BY <1>1, <2>2, PlanSteps DEF Step, LabelAt, MakeAt, StartAt, LastAt
<1>2. CASE role = "child"
  <2>1. prov.at \in 1..8
    BY <1>2 DEF LastAt
  <2>2. prov.at \in {1, 2, 3, 4, 5, 6, 7, 8}
    BY <2>1
  <2> QED
    BY <1>2, <2>2, PlanSteps DEF Step, LabelAt, MakeAt, StartAt, LastAt
<1> QED
  BY <1>1, <1>2, Typed
-----------------------------------------------------------------------------
(* What the operators of the model do to a record *)

\* A step fails.
LEMMA FailingFields ==
    ASSUME NEW p \in ProvRec, NEW q, q = Failing(p)
    PROVE  /\ q \in ProvRec /\ q.pc = "await" /\ q.submitted \in {"none", "first"}
           /\ q.volumeOwned = p.volumeOwned /\ q.instanceOwned = p.instanceOwned
           /\ q.ticket = p.ticket /\ q.awaitErr = p.awaitErr /\ q.cleanupErr = p.cleanupErr
<1>1. PICK s \in {"none", "first"} :
         s = IF p.retried /\ Plan[p.at] = "start" THEN "first" ELSE "none"
  OBVIOUS
<1>2. q = [p EXCEPT !.pc = "await", !.submitted = s]
  BY <1>1 DEF Failing
<1>3. q \in ProvRec
  BY <1>2, Zenon DEF ProvRec
<1> QED
  BY <1>1, <1>2, <1>3 DEF ProvRec

\* It was submitted and did not succeed.
LEMMA SubmittedFields ==
    ASSUME NEW p \in ProvRec, NEW step, NEW q, q = Submitted(p, step)
    PROVE  /\ q \in ProvRec /\ q.pc = "await" /\ q.submitted # "none"
           /\ q.volumeOwned <=> (p.volumeOwned \/ step = "copyVolume")
           /\ q.instanceOwned <=> (p.instanceOwned \/ step = "makeInstance")
           /\ q.ticket = p.ticket /\ q.awaitErr = p.awaitErr /\ q.cleanupErr = p.cleanupErr
<1>1. PICK s \in {"none", "last", "first"} : s = (IF p.retried THEN "first" ELSE "last") /\ s # "none"
  OBVIOUS
<1>2. PICK vo \in BOOLEAN, io \in BOOLEAN :
         vo = (p.volumeOwned \/ step = "copyVolume") /\ io = (p.instanceOwned \/ step = "makeInstance")
  OBVIOUS
<1>3. PICK va \in BOOLEAN, ia \in BOOLEAN, sa \in BOOLEAN :
         va = (step = "copyVolume") /\ ia = (step = "makeInstance") /\ sa = (step = "start")
  OBVIOUS
<1>4. q = [p EXCEPT !.pc = "await", !.submitted = s, !.volumeOwned = vo, !.volumeAmbiguous = va,
                    !.instanceOwned = io, !.instanceAmbiguous = ia, !.startAmbiguous = sa]
  BY <1>1, <1>2, <1>3 DEF Submitted
<1>5. q \in ProvRec
  BY <1>4, Zenon DEF ProvRec
<1>6. /\ q.pc = "await" /\ q.submitted = s /\ q.volumeOwned = vo /\ q.instanceOwned = io
      /\ q.ticket = p.ticket /\ q.awaitErr = p.awaitErr /\ q.cleanupErr = p.cleanupErr
  BY <1>4, <1>5 DEF ProvRec
<1> QED
  BY <1>1, <1>2, <1>5, <1>6, Zenon

\* It succeeded.
LEMMA SucceededFields ==
    ASSUME NEW p \in ProvRec, NEW step, NEW q, q = Succeeded(p, step), Len(Plan) \in 1..8,
           p.at \in 1..Len(Plan)
    PROVE  /\ q \in ProvRec
           /\ p.at = Len(Plan) => q.pc = "ready"
           /\ p.at # Len(Plan) => q.pc = "step" /\ q.at = p.at + 1
           /\ q.volumeOwned <=> (p.volumeOwned \/ step = "copyVolume")
           /\ q.instanceOwned <=> (p.instanceOwned \/ step = "makeInstance")
           /\ q.ticket = p.ticket /\ q.awaitErr = p.awaitErr /\ q.cleanupErr = p.cleanupErr
<1>len. PICK n \in 1..8 : n = Len(Plan)
  OBVIOUS
<1>8. p.at \in 1..n
  BY <1>len
<1>9. (IF p.at = n THEN p.at ELSE p.at + 1) \in 1..8
  BY <1>8
<1>1. PICK at \in 1..8 : at = IF p.at = Len(Plan) THEN p.at ELSE p.at + 1
  BY <1>len, <1>9
<1>5. PICK pc \in {"ready", "step"} : pc = IF p.at = Len(Plan) THEN "ready" ELSE "step"
  OBVIOUS
<1>2. PICK vo \in BOOLEAN, io \in BOOLEAN, r \in BOOLEAN :
         /\ vo = (p.volumeOwned \/ step = "copyVolume") /\ io = (p.instanceOwned \/ step = "makeInstance")
         /\ r = (p.running \/ step = "start")
  OBVIOUS
<1>3. q = [p EXCEPT !.pc = pc, !.at = at, !.volumeOwned = vo, !.instanceOwned = io, !.running = r]
  BY <1>1, <1>2, <1>5 DEF Succeeded
<1>4. q \in ProvRec
  BY <1>3, <1>5, Zenon DEF ProvRec
<1>6. /\ q.pc = pc /\ q.at = at /\ q.volumeOwned = vo /\ q.instanceOwned = io
      /\ q.ticket = p.ticket /\ q.awaitErr = p.awaitErr /\ q.cleanupErr = p.cleanupErr
  BY <1>3, <1>4 DEF ProvRec
<1>7. /\ q.volumeOwned <=> (p.volumeOwned \/ step = "copyVolume")
      /\ q.instanceOwned <=> (p.instanceOwned \/ step = "makeInstance")
  BY <1>2, <1>6, Zenon
<1> QED
  BY <1>1, <1>4, <1>5, <1>6, <1>7

\* An operation has ended.
LEMMA CompleteFields ==
    ASSUME TypeOK, Complete
    PROVE  /\ server' \in ServerRec /\ server'.op = "none" /\ server'.lost = server.lost
           /\ UNCHANGED <<role, prov, parent>>
           /\ \/ /\ server'.outcome = "error"
                 /\ UNCHANGED <<server.instance, server.volume, server.running>>
              \/ /\ server'.outcome = "ok"
                 /\ server'.volume = IF server.op = "copyVolume" THEN "copied" ELSE server.volume
                 /\ server'.running <=> (server.running \/ server.op = "start")
                 /\ server'.instance =
                       IF server.op = "makeInstance" THEN IF role = "root" THEN "own" ELSE "copied"
                       ELSE IF server.op = "labelInstance" THEN "own"
                       ELSE IF server.op = "delete" /\ ~server.running THEN "none"
                       ELSE server.instance
<1>1. PICK s \in ServerRec : s = server
  BY Typed
<1>2. UNCHANGED <<role, prov, parent>> /\ s.op \in Operation \cup {"delete"}
  BY <1>1 DEF Complete, ServerRec
<1>3. CASE server' = [s EXCEPT !.op = "none", !.outcome = "error"]
  <2>1. server' \in ServerRec
    BY <1>3, Zenon DEF ServerRec
  <2> QED
    BY <1>1, <1>2, <1>3, <2>1 DEF ServerRec
<1>4. CASE server' = [Effect(s.op) EXCEPT !.op = "none", !.outcome = "ok"]
  <2>1. PICK i \in Label, v \in Label, r \in BOOLEAN :
           /\ v = IF s.op = "copyVolume" THEN "copied" ELSE s.volume
           /\ r <=> (s.running \/ s.op = "start")
           /\ i = IF s.op = "makeInstance" THEN IF role = "root" THEN "own" ELSE "copied"
                  ELSE IF s.op = "labelInstance" THEN "own"
                  ELSE IF s.op = "delete" /\ ~s.running THEN "none"
                  ELSE s.instance
    BY DEF ServerRec, Label
  <2>2. PICK e : e = Effect(s.op)
    OBVIOUS
  <2>3. /\ e \in ServerRec /\ e.instance = i /\ e.volume = v /\ e.running = r /\ e.lost = s.lost
    <3>1. CASE s.op = "copyVolume"
      BY <1>1, <2>1, <2>2, <3>1 DEF Effect, ServerRec, Label
    <3>2. CASE s.op = "makeInstance"
      BY <1>1, <2>1, <2>2, <3>2 DEF Effect, ServerRec, Label
    <3>3. CASE s.op = "labelInstance"
      BY <1>1, <2>1, <2>2, <3>3 DEF Effect, ServerRec, Label
    <3>4. CASE s.op = "start"
      BY <1>1, <2>1, <2>2, <3>4 DEF Effect, ServerRec, Label
    <3>5. CASE s.op = "delete"
      BY <1>1, <2>1, <2>2, <3>5 DEF Effect, ServerRec, Label
    <3> QED
      BY <1>2, <3>1, <3>2, <3>3, <3>4, <3>5 DEF Operation
  <2>4. server' = [e EXCEPT !.op = "none", !.outcome = "ok"]
    BY <1>4, <2>2
  <2>5. server' \in ServerRec
    BY <2>3, <2>4, Zenon DEF ServerRec
  <2>6. /\ server'.op = "none" /\ server'.outcome = "ok" /\ server'.lost = e.lost
        /\ server'.instance = e.instance /\ server'.volume = e.volume /\ server'.running = e.running
    BY <2>3, <2>4 DEF ServerRec
  <2> QED
    BY <1>1, <1>2, <2>1, <2>3, <2>5, <2>6
<1> QED
  BY <1>1, <1>3, <1>4 DEF Complete
-----------------------------------------------------------------------------
(* The server ends an operation *)

LEMMA Places ==
    ASSUME TypeOK
    PROVE  \/ role = "root" /\ LabelAt = 2 /\ MakeAt = 3 /\ StartAt = 4 /\ LastAt = 6
           \/ role = "child" /\ LabelAt = 4 /\ MakeAt = 2 /\ StartAt = 6 /\ LastAt = 8
BY Typed DEF LabelAt, MakeAt, StartAt, LastAt

\* Nothing that the provisioner of a live session does is seen by its parent.
LEMMA ParentIdle ==
    ASSUME ParentInv, UNCHANGED parent, prov.pc \notin {"crashed", "destroyed"}
    PROVE  ParentInv'
BY DEF ParentInv

LEMMA CompleteProgress ==
    ASSUME TypeOK, ProgressInv, Complete
    PROVE  ProgressInv'
<1>1. /\ server'.op = "none" /\ UNCHANGED <<role, prov>> /\ server.op # "none"
      /\ \/ server'.outcome = "error" /\ UNCHANGED <<server.instance, server.volume, server.running>>
         \/ /\ server'.outcome = "ok"
            /\ server'.volume = IF server.op = "copyVolume" THEN "copied" ELSE server.volume
            /\ server'.running <=> (server.running \/ server.op = "start")
            /\ server'.instance =
                  IF server.op = "makeInstance" THEN IF role = "root" THEN "own" ELSE "copied"
                  ELSE IF server.op = "labelInstance" THEN "own"
                  ELSE IF server.op = "delete" /\ ~server.running THEN "none"
                  ELSE server.instance
  BY CompleteFields DEF Complete
<1>2. /\ LabelAt' = LabelAt /\ MakeAt' = MakeAt /\ StartAt' = StartAt /\ LastAt' = LastAt
      /\ Step' = Step
  BY <1>1 DEF LabelAt, MakeAt, StartAt, LastAt, Step, Plan
<1>3. prov.pc \notin {"check", "step", "ready"}
  BY <1>1 DEF ProgressInv
<1>4. ASSUME prov.pc = "wait"
      PROVE  /\ prov'.at \in 1..LastAt' /\ Step' \in Operation /\ OwnedAt(prov.at)'
             /\ \/ server'.op = Step' /\ server'.outcome = "none" /\ ServerAt(prov.at)'
                \/ server'.op = "none" /\ server'.outcome = "ok" /\ ServerAt(prov.at + 1)'
                \/ server'.op = "none" /\ server'.outcome = "error" /\ ServerAt(prov.at)'
  <2>1. /\ prov.at \in 1..LastAt /\ Step \in Operation /\ OwnedAt(prov.at)
        /\ server.op = Step /\ ServerAt(prov.at)
    BY <1>1, <1>4 DEF ProgressInv
  <2>2. OwnedAt(prov.at)'
    BY <1>1, <1>2, <2>1 DEF OwnedAt
  <2>3. ASSUME server'.outcome = "error", UNCHANGED <<server.instance, server.volume, server.running>>
        PROVE  ServerAt(prov.at)'
    BY <1>1, <1>2, <2>1, <2>3 DEF ServerAt
  <2>4. ASSUME server'.outcome = "ok",
               server'.volume = IF server.op = "copyVolume" THEN "copied" ELSE server.volume,
               server'.running <=> (server.running \/ server.op = "start"),
               server'.instance =
                  IF server.op = "makeInstance" THEN IF role = "root" THEN "own" ELSE "copied"
                  ELSE IF server.op = "labelInstance" THEN "own"
                  ELSE IF server.op = "delete" /\ ~server.running THEN "none"
                  ELSE server.instance
        PROVE  ServerAt(prov.at + 1)'
    <3>1. PICK n \in 1..8 : n = prov.at
      BY <2>1, Places
    <3>2. /\ server'.volume = IF n + 1 <= 1 THEN "none" ELSE IF n + 1 <= LabelAt THEN "copied" ELSE "own"
      BY <2>1, <2>4, <3>1, Places, StepPlaces DEF ServerAt, Operation
    <3>3. server'.running <=> n + 1 > StartAt
      BY <2>1, <2>4, <3>1, Places, StepPlaces DEF ServerAt, Operation
    <3>4. server'.instance = IF n + 1 <= MakeAt THEN "none"
                             ELSE IF role = "child" /\ n + 1 = 3 THEN "copied" ELSE "own"
      BY <2>1, <2>4, <3>1, Places, StepPlaces DEF ServerAt, Operation
    <3> QED
      BY <1>1, <1>2, <3>1, <3>2, <3>3, <3>4 DEF ServerAt
  <2> QED
    BY <1>1, <1>2, <2>1, <2>2, <2>3, <2>4
<1> QED
  BY <1>1, <1>3, <1>4 DEF ProgressInv

LEMMA CompleteKeeps ==
    ASSUME ProvisionInv, Complete
    PROVE  ProvisionInv'
<1>1. TypeOK /\ server.op # "none" /\ server'.op = "none" /\ server'.lost = server.lost
      /\ UNCHANGED <<role, prov, parent>> /\ server' \in ServerRec
  BY CompleteFields DEF Complete, ProvisionInv
<1>2. \/ UNCHANGED <<server.instance, server.volume, server.running>>
      \/ /\ server'.volume = IF server.op = "copyVolume" THEN "copied" ELSE server.volume
         /\ server'.running <=> (server.running \/ server.op = "start")
         /\ server'.instance =
               IF server.op = "makeInstance" THEN IF role = "root" THEN "own" ELSE "copied"
               ELSE IF server.op = "labelInstance" THEN "own"
               ELSE IF server.op = "delete" /\ ~server.running THEN "none"
               ELSE server.instance
  BY <1>1, CompleteFields
<1>3. TypeOK'
  BY <1>1 DEF TypeOK, ServerRec
<1>4. ProgressInv'
  BY CompleteProgress DEF ProvisionInv
<1>5. ServerInv'
  BY <1>1, <1>2 DEF ServerInv, ProvisionInv
<1>6. CleanupInv'
  <2>1. CleanupInv
    BY DEF ProvisionInv
  <2>2. UNCHANGED prov /\ (Clean' <=> Clean)
    BY <1>1 DEF Clean
  <2> QED
    BY <1>1, <1>2, <2>1, <2>2 DEF CleanupInv
<1>7. TicketInv'
  BY <1>1 DEF TicketInv, ProvisionInv
<1>8. ParentInv'
  BY <1>1, <1>2 DEF ParentInv, TicketInv, ProvisionInv
<1> QED
  BY <1>3, <1>4, <1>5, <1>6, <1>7, <1>8 DEF ProvisionInv
-----------------------------------------------------------------------------
(* The steps of a provision *)

\* A step that is refused, or answered with an error that carries no operation: what it may have
\* done is owned already, or the reply is lost.
LEMMA FailingKeeps ==
    ASSUME ProvisionInv, prov.pc \in {"check", "step"}, prov' = Failing(prov),
           UNCHANGED <<role, parent>>, server' \in ServerRec, ServerInv',
           \/ server'.lost
           \/ /\ server'.op = "none" /\ server'.instance = server.instance
              /\ server'.volume = server.volume \/ prov.volumeOwned
    PROVE  ProvisionInv'
<1>1. TypeOK /\ ProgressInv /\ CleanupInv /\ TicketInv /\ ParentInv
  BY DEF ProvisionInv
<1>2. /\ prov' \in ProvRec /\ prov'.pc = "await"
      /\ prov'.volumeOwned = prov.volumeOwned /\ prov'.instanceOwned = prov.instanceOwned
      /\ prov'.ticket = prov.ticket /\ prov'.awaitErr = prov.awaitErr
  BY <1>1, Typed, FailingFields
<1>3. prov.at \in 1..LastAt /\ ServerAt(prov.at) /\ OwnedAt(prov.at)
  BY <1>1 DEF ProgressInv
<1>4. /\ ~prov.instanceOwned => server.instance = "none"
      /\ ~prov.volumeOwned => server.volume = "none"
  BY <1>1, <1>3, Places DEF ServerAt, OwnedAt
<1>5. TypeOK'
  BY <1>1, <1>2 DEF TypeOK, ServerRec, ProvRec
<1>6. ProgressInv'
  BY <1>2 DEF ProgressInv
<1>7. CleanupInv'
  BY <1>1, <1>2, <1>4 DEF CleanupInv, Clean
<1>8. TicketInv'
  BY <1>1, <1>2 DEF TicketInv
<1>9. ParentInv'
  BY <1>1, ParentIdle
<1> QED
  BY <1>5, <1>6, <1>7, <1>8, <1>9 DEF ProvisionInv

\* An operation that ended without its effect, or that is no longer waited for.
LEMMA SubmittedKeeps ==
    ASSUME ProvisionInv, prov.pc = "wait", server.outcome # "ok", NEW p \in ProvRec,
           p.volumeOwned = prov.volumeOwned, p.instanceOwned = prov.instanceOwned,
           p.ticket = prov.ticket, p.awaitErr = prov.awaitErr, prov' = Submitted(p, Step), UNCHANGED <<role, server, parent>>
    PROVE  ProvisionInv'
<1>1. TypeOK /\ ProgressInv /\ ServerInv /\ CleanupInv /\ TicketInv /\ ParentInv
  BY DEF ProvisionInv
<1>2. /\ prov' \in ProvRec /\ prov'.pc = "await" /\ prov'.submitted # "none"
      /\ prov'.volumeOwned <=> (prov.volumeOwned \/ Step = "copyVolume")
      /\ prov'.instanceOwned <=> (prov.instanceOwned \/ Step = "makeInstance")
      /\ prov'.ticket = prov.ticket /\ prov'.awaitErr = prov.awaitErr
  BY SubmittedFields
<1>3. /\ prov.at \in 1..LastAt /\ ServerAt(prov.at) /\ OwnedAt(prov.at)
      /\ server.op \in {"none", Step}
  BY <1>1 DEF ProgressInv
<1>4. PICK n \in 1..8 : n = prov.at
  BY <1>1, <1>3, Places
<1>5. ASSUME ~prov'.instanceOwned
      PROVE  server.instance = "none" /\ server.op \notin {"makeInstance", "labelInstance"}
  <2>1. n <= MakeAt /\ n # MakeAt /\ Step # "labelInstance" /\ Step # "makeInstance"
    BY <1>1, <1>2, <1>3, <1>4, <1>5, Places, StepPlaces DEF OwnedAt
  <2> QED
    BY <1>3, <1>4, <2>1 DEF ServerAt
<1>6. prov'.volumeOwned
  BY <1>1, <1>2, <1>3, <1>4, StepPlaces DEF OwnedAt
<1>7. TypeOK'
  BY <1>1, <1>2 DEF TypeOK, ProvRec
<1>8. ProgressInv'
  BY <1>2 DEF ProgressInv
<1>9. ServerInv'
  BY <1>1 DEF ServerInv
<1>10. CleanupInv'
  BY <1>1, <1>2, <1>5, <1>6 DEF CleanupInv
<1>11. TicketInv'
  BY <1>1, <1>2 DEF TicketInv
<1>12. ParentInv'
  BY <1>1, ParentIdle
<1> QED
  BY <1>7, <1>8, <1>9, <1>10, <1>11, <1>12 DEF ProvisionInv

\* A step that succeeded, on the server too.
LEMMA SucceededKeeps ==
    ASSUME ProvisionInv, prov.pc \in {"step", "wait"}, prov' = Succeeded(prov, Step),
           UNCHANGED <<role, parent>>, server' \in ServerRec, server'.op = "none", ServerInv',
           NEW n \in 1..LastAt, n = prov.at, ServerAt(n + 1)'
    PROVE  ProvisionInv'
<1>1. TypeOK /\ ProgressInv /\ CleanupInv /\ TicketInv /\ ParentInv
  BY DEF ProvisionInv
<1>2. /\ n \in 1..8 /\ OwnedAt(n) /\ Len(Plan) = LastAt /\ LastAt \in {6, 8} /\ LastAt' = LastAt
      /\ MakeAt' = MakeAt /\ MakeAt \in 2..3 /\ StartAt' = StartAt /\ StartAt \in {4, 6} /\ LabelAt' = LabelAt
      /\ StartAt < LastAt /\ MakeAt < LastAt /\ LabelAt < LastAt /\ LabelAt \in {2, 4}
  BY <1>1, Places, StepPlaces DEF ProgressInv, LastAt, MakeAt, StartAt, LabelAt
<1>3. /\ Step = "copyVolume" <=> n = 1
      /\ Step = "makeInstance" <=> n = MakeAt
  BY <1>1, StepPlaces
<1>4. /\ prov' \in ProvRec
      /\ n = LastAt => prov'.pc = "ready"
      /\ n # LastAt => prov'.pc = "step" /\ prov'.at = n + 1
      /\ prov'.volumeOwned <=> (prov.volumeOwned \/ Step = "copyVolume")
      /\ prov'.instanceOwned <=> (prov.instanceOwned \/ Step = "makeInstance")
      /\ prov'.ticket = prov.ticket /\ prov'.awaitErr = prov.awaitErr
  BY <1>1, <1>2, Typed, SucceededFields
<1>5. OwnedAt(n + 1)'
  BY <1>2, <1>3, <1>4 DEF OwnedAt
<1>6. TypeOK'
  BY <1>1, <1>4 DEF TypeOK, ProvRec, ServerRec
<1>7. ProgressInv'
  <2>1. CASE n = LastAt
    <3>1. prov'.volumeOwned /\ prov'.instanceOwned
      BY <1>2, <1>5, <2>1 DEF OwnedAt
    <3>2. server'.running /\ server'.volume = "own" /\ server'.instance = "own"
      BY <1>2, <2>1 DEF ServerAt
    <3> QED
      BY <1>4, <2>1, <3>1, <3>2 DEF ProgressInv
  <2>2. CASE n # LastAt
    <3>1. prov'.pc = "step" /\ prov'.at = n + 1 /\ n + 1 \in 1..LastAt'
      BY <1>2, <1>4, <2>2
    <3> QED
      BY <1>5, <3>1 DEF ProgressInv, ServerAt, OwnedAt
  <2> QED
    BY <2>1, <2>2
<1>8. CleanupInv'
  BY <1>1, <1>4 DEF CleanupInv
<1>9. TicketInv'
  BY <1>1, <1>4 DEF TicketInv
<1>10. ParentInv'
  BY <1>1, ParentIdle
<1> QED
  BY <1>6, <1>7, <1>8, <1>9, <1>10 DEF ProvisionInv
LEMMA CheckRootKeeps ==
    ASSUME ProvisionInv, CheckRoot
    PROVE  ProvisionInv'
<1>1. TypeOK /\ ProgressInv /\ ServerInv /\ CleanupInv /\ TicketInv /\ ParentInv
  BY DEF ProvisionInv
<1>2. PICK next \in {"step", "failed"} : prov' = [prov EXCEPT !.pc = next]
  BY DEF CheckRoot
<1>3. prov.pc = "check" /\ UNCHANGED <<role, server, parent>>
  BY DEF CheckRoot
<1>4. prov \in ProvRec
  BY <1>1, Typed
<1>5. /\ prov' \in ProvRec /\ prov'.pc = next /\ prov'.at = prov.at /\ prov'.ticket = prov.ticket /\ prov'.awaitErr = prov.awaitErr
      /\ prov'.volumeOwned = prov.volumeOwned /\ prov'.instanceOwned = prov.instanceOwned
  BY <1>2, <1>4 DEF ProvRec
<1>6. prov.at = 1 /\ 1 \in 1..LastAt /\ server.op = "none" /\ ServerAt(1) /\ OwnedAt(1)
  BY <1>1, <1>3, Places DEF ProgressInv
<1>7. server.instance = "none" /\ server.volume = "none"
  BY <1>1, <1>6, Places DEF ServerAt
<1>8. TypeOK'
  BY <1>1, <1>3, <1>5 DEF TypeOK, ProvRec
<1>9. ProgressInv'
  <2>1. ServerAt(1)' /\ OwnedAt(1)' /\ LastAt' = LastAt
    BY <1>3, <1>5, <1>6 DEF ServerAt, OwnedAt, LabelAt, MakeAt, StartAt, LastAt
  <2> QED
    BY <1>3, <1>5, <1>6, <2>1 DEF ProgressInv, ServerAt, OwnedAt
<1>10. ServerInv'
  BY <1>1, <1>3 DEF ServerInv
<1>11. CleanupInv'
  BY <1>1, <1>3, <1>5, <1>6, <1>7 DEF CleanupInv
<1>12. TicketInv'
  BY <1>1, <1>3, <1>5 DEF TicketInv
<1>13. ParentInv'
  BY <1>1, <1>3, ParentIdle
<1> QED
  BY <1>8, <1>9, <1>10, <1>11, <1>12, <1>13 DEF ProvisionInv

LEMMA CheckChildKeeps ==
    ASSUME ProvisionInv, CheckChild
    PROVE  ProvisionInv'
<1>1. TypeOK /\ ProgressInv /\ ServerInv /\ CleanupInv /\ TicketInv /\ ParentInv
  BY DEF ProvisionInv
<1>2. prov.pc = "check" /\ UNCHANGED <<role, server, parent>>
  BY DEF CheckChild
<1>3. prov \in ProvRec /\ server' \in ServerRec
  BY <1>1, <1>2, Typed
<1>4. ServerInv'
  BY <1>1, <1>2 DEF ServerInv
<1>5. CASE prov' = Failing(prov)
  <2>1. server'.op = "none" /\ server'.instance = server.instance /\ server'.volume = server.volume
    BY <1>1, <1>2 DEF ProgressInv
  <2> QED
    BY <1>2, <1>3, <1>4, <1>5, <2>1, FailingKeeps
<1>6. CASE prov' = [prov EXCEPT !.pc = "step"]
  <2>1. /\ prov' \in ProvRec /\ prov'.pc = "step" /\ prov'.at = prov.at /\ prov'.ticket = prov.ticket /\ prov'.awaitErr = prov.awaitErr
        /\ prov'.volumeOwned = prov.volumeOwned /\ prov'.instanceOwned = prov.instanceOwned
    BY <1>3, <1>6 DEF ProvRec
  <2>2. TypeOK'
    BY <1>1, <1>2, <2>1 DEF TypeOK, ProvRec
  <2>3. ProgressInv'
    <3>1. /\ prov.at \in 1..LastAt /\ server.op = "none"
          /\ ServerAt(prov.at) /\ OwnedAt(prov.at)
      BY <1>1, <1>2 DEF ProgressInv
    <3>2. ServerAt(prov.at)' /\ OwnedAt(prov.at)' /\ LastAt' = LastAt
      BY <1>2, <2>1, <3>1 DEF ServerAt, OwnedAt, LabelAt, MakeAt, StartAt, LastAt
    <3> QED
      BY <1>2, <2>1, <3>1, <3>2 DEF ProgressInv
  <2>4. CleanupInv'
    BY <1>1, <1>2, <2>1 DEF CleanupInv
  <2>5. TicketInv'
    BY <1>1, <1>2, <2>1 DEF TicketInv
  <2>6. ParentInv'
    BY <1>1, <1>2, ParentIdle
  <2> QED
    BY <1>4, <2>2, <2>3, <2>4, <2>5, <2>6 DEF ProvisionInv
<1> QED
  BY <1>5, <1>6 DEF CheckChild

\* An operation that the server accepts may be what the plan has next: the clone is labelled before
\* it starts, and made before it is labelled.
LEMMA AcceptedInv ==
    ASSUME ProvisionInv, prov.pc = "step", Step \in Operation, UNCHANGED role,
           NEW lost \in BOOLEAN,
           server' = [server EXCEPT !.op = Step, !.outcome = "none", !.lost = lost]
    PROVE  /\ server' \in ServerRec /\ ServerInv' /\ server'.lost = lost
           /\ server'.op = Step /\ server'.outcome = "none"
           /\ UNCHANGED <<server.instance, server.volume, server.running>>
<1>1. TypeOK /\ ProgressInv /\ ServerInv
  BY DEF ProvisionInv
<1>2. PICK s \in ServerRec : s = server
  BY <1>1, Typed
<1>3. PICK op \in Operation \cup {"none", "delete"} : op = Step
  OBVIOUS
<1>4. server' = [s EXCEPT !.op = op, !.outcome = "none", !.lost = lost]
  BY <1>2, <1>3
<1>5. server' \in ServerRec
  BY <1>4, Zenon DEF ServerRec
<1>6. /\ server'.op = Step /\ server'.outcome = "none" /\ server'.lost = lost
      /\ UNCHANGED <<server.instance, server.volume, server.running>>
  BY <1>2, <1>3, <1>4, <1>5 DEF ServerRec
<1>7. prov.at \in 1..LastAt /\ ServerAt(prov.at)
  BY <1>1 DEF ProgressInv
<1>8. PICK n \in 1..8 : n = prov.at
  BY <1>1, <1>7, Places
<1>9. /\ Step = "start" => server.instance = "own" /\ server.volume = "own"
      /\ Step \in {"copyVolume", "makeInstance"} => server.instance = "none"
  BY <1>1, <1>7, <1>8, Places, StepPlaces DEF ServerAt
<1>10. ServerInv'
  BY <1>1, <1>6, <1>9 DEF ServerInv
<1> QED
  BY <1>5, <1>6, <1>10

LEMMA SubmitKeeps ==
    ASSUME ProvisionInv, Submit
    PROVE  ProvisionInv'
<1>1. TypeOK /\ ProgressInv /\ ServerInv /\ CleanupInv /\ TicketInv /\ ParentInv
  BY DEF ProvisionInv
<1>2. prov.pc = "step" /\ Step \in Operation /\ UNCHANGED <<role, parent>>
  BY DEF Submit
<1>3. prov \in ProvRec /\ server \in ServerRec /\ server.op = "none"
  BY <1>1, <1>2, Typed DEF ProgressInv
<1>4. CASE prov' = Failing(prov) /\ UNCHANGED server
  <2>1. ServerInv'
    BY <1>1, <1>4 DEF ServerInv
  <2> QED
    BY <1>2, <1>3, <1>4, <2>1, FailingKeeps
<1>5. CASE /\ server' = [server EXCEPT !.op = Step, !.outcome = "none"]
           /\ prov' = [prov EXCEPT !.pc = "wait"]
  <2>1. PICK lost \in BOOLEAN : lost = server.lost
    BY <1>3 DEF ServerRec
  <2>2. server' = [server EXCEPT !.op = Step, !.outcome = "none", !.lost = lost]
    <3>1. PICK s \in ServerRec : s = server
      BY <1>3
    <3> QED
      BY <1>5, <2>1, <3>1 DEF ServerRec
  <2>3. /\ server' \in ServerRec /\ ServerInv'
        /\ server'.op = Step /\ server'.outcome = "none"
        /\ UNCHANGED <<server.instance, server.volume, server.running>>
    BY <1>2, <2>2, AcceptedInv
  <2>4. /\ prov' \in ProvRec /\ prov'.pc = "wait" /\ prov'.at = prov.at /\ prov'.ticket = prov.ticket /\ prov'.awaitErr = prov.awaitErr
        /\ prov'.volumeOwned = prov.volumeOwned /\ prov'.instanceOwned = prov.instanceOwned
    BY <1>3, <1>5 DEF ProvRec
  <2>5. TypeOK'
    BY <1>1, <1>2, <2>3, <2>4 DEF TypeOK, ProvRec, ServerRec
  <2>6. ProgressInv'
    <3>1. prov.at \in 1..LastAt /\ ServerAt(prov.at) /\ OwnedAt(prov.at)
      BY <1>1, <1>2 DEF ProgressInv
    <3>2. ServerAt(prov.at)' /\ OwnedAt(prov.at)' /\ LastAt' = LastAt /\ Step' = Step
      BY <1>2, <2>3, <2>4, <3>1 DEF ServerAt, OwnedAt, LabelAt, MakeAt, StartAt, LastAt, Step, Plan
    <3> QED
      BY <1>2, <2>3, <2>4, <3>1, <3>2 DEF ProgressInv
  <2>7. CleanupInv'
    BY <1>1, <1>2, <2>4 DEF CleanupInv
  <2>8. TicketInv'
    BY <1>1, <1>2, <2>4 DEF TicketInv
  <2>9. ParentInv'
    BY <1>1, <1>2, ParentIdle
  <2> QED
    BY <2>3, <2>5, <2>6, <2>7, <2>8, <2>9 DEF ProvisionInv
<1>6. CASE /\ server' = [server EXCEPT !.op = Step, !.outcome = "none", !.lost = TRUE]
           /\ prov' = Failing(prov)
  <2>1. server' \in ServerRec /\ ServerInv' /\ server'.lost
    BY <1>2, <1>6, AcceptedInv
  <2> QED
    BY <1>2, <1>6, <2>1, FailingKeeps
<1> QED
  BY <1>4, <1>5, <1>6 DEF Submit

LEMMA WaitedKeeps ==
    ASSUME ProvisionInv, Waited
    PROVE  ProvisionInv'
<1>1. TypeOK /\ ProgressInv /\ ServerInv /\ CleanupInv /\ TicketInv /\ ParentInv
  BY DEF ProvisionInv
<1>2. prov.pc = "wait" /\ UNCHANGED <<role, server, parent>>
  BY DEF Waited
<1>3. prov \in ProvRec /\ server \in ServerRec
  BY <1>1, Typed
<1>4. /\ prov.at \in 1..LastAt /\ OwnedAt(prov.at)
      /\ \/ server.op = Step /\ server.outcome = "none" /\ ServerAt(prov.at)
         \/ server.op = "none" /\ server.outcome = "ok" /\ ServerAt(prov.at + 1)
         \/ server.op = "none" /\ server.outcome = "error" /\ ServerAt(prov.at)
  BY <1>1, <1>2 DEF ProgressInv
<1>5. ServerInv' /\ server' \in ServerRec
  BY <1>1, <1>2, <1>3 DEF ServerInv
<1>6. CASE server.outcome = "ok" /\ prov' = Succeeded(prov, Step)
  <2>1. PICK n \in 1..LastAt : n = prov.at
    BY <1>4
  <2>2. ServerAt(n + 1)' /\ server'.op = "none"
    BY <1>2, <1>4, <1>6, <2>1 DEF ServerAt, LabelAt, MakeAt, StartAt
  <2> QED
    BY <1>2, <1>5, <1>6, <2>1, <2>2, SucceededKeeps
<1>7. CASE server.outcome # "ok" /\ prov' = Submitted(prov, Step)
  BY <1>2, <1>3, <1>7, SubmittedKeeps
<1>8. CASE server.outcome = "error" /\ RetryStart
  <2>1. PICK p : p = [prov EXCEPT !.retried = TRUE]
    OBVIOUS
  <2>2. /\ p \in ProvRec /\ p.volumeOwned = prov.volumeOwned /\ p.instanceOwned = prov.instanceOwned
        /\ p.ticket = prov.ticket /\ p.awaitErr = prov.awaitErr /\ p.at = prov.at
    BY <1>3, <2>1 DEF ProvRec
  <2>3. CASE prov' = Submitted(p, Step)
    BY <1>2, <1>8, <2>2, <2>3, SubmittedKeeps
  <2>4. CASE prov' = [prov EXCEPT !.pc = "step", !.retried = TRUE]
    <3>1. /\ prov' \in ProvRec /\ prov'.pc = "step" /\ prov'.at = prov.at /\ prov'.ticket = prov.ticket /\ prov'.awaitErr = prov.awaitErr
          /\ prov'.volumeOwned = prov.volumeOwned /\ prov'.instanceOwned = prov.instanceOwned
      BY <1>3, <2>4 DEF ProvRec
    <3>2. TypeOK'
      BY <1>1, <1>2, <3>1 DEF TypeOK, ProvRec
    <3>3. ProgressInv'
      <4>1. server.op = "none" /\ ServerAt(prov.at)
        BY <1>4, <1>8
      <4>2. ServerAt(prov.at)' /\ OwnedAt(prov.at)' /\ LastAt' = LastAt
        BY <1>2, <1>4, <3>1, <4>1 DEF ServerAt, OwnedAt, LabelAt, MakeAt, StartAt, LastAt
      <4> QED
        BY <1>2, <1>4, <3>1, <4>1, <4>2 DEF ProgressInv
    <3>4. CleanupInv'
      BY <1>1, <1>2, <3>1 DEF CleanupInv
    <3>5. TicketInv'
      BY <1>1, <1>2, <3>1 DEF TicketInv
    <3>6. ParentInv'
      BY <1>1, <1>2, ParentIdle
    <3> QED
      BY <1>5, <3>2, <3>3, <3>4, <3>5, <3>6 DEF ProvisionInv
  <2> QED
    BY <1>8, <2>1, <2>3, <2>4 DEF RetryStart
<1> QED
  BY <1>6, <1>7, <1>8 DEF Waited

\* The server labels the volume at once.
LEMMA LabelVolumeKeeps ==
    ASSUME ProvisionInv, LabelVolume
    PROVE  ProvisionInv'
<1>1. TypeOK /\ ProgressInv /\ ServerInv /\ CleanupInv /\ TicketInv /\ ParentInv
  BY DEF ProvisionInv
<1>2. prov.pc = "step" /\ Step = "labelVolume" /\ UNCHANGED <<role, parent>>
  BY DEF LabelVolume
<1>3. PICK s \in ServerRec : s = server
  BY <1>1, Typed
<1>4. /\ prov.at \in 1..LastAt /\ server.op = "none"
      /\ ServerAt(prov.at) /\ OwnedAt(prov.at)
  BY <1>1, <1>2 DEF ProgressInv
<1>5. PICK n \in 1..LastAt : n = prov.at
  BY <1>4
<1>6. n = LabelAt /\ n \in 1..8 /\ prov.volumeOwned
  BY <1>1, <1>2, <1>4, <1>5, Places, StepPlaces DEF OwnedAt
<1>7. ASSUME server' = [server EXCEPT !.volume = "own"]
      PROVE  /\ server' \in ServerRec /\ server'.op = "none" /\ server'.volume = "own"
             /\ server'.instance = server.instance /\ server'.running = server.running
  BY <1>3, <1>4, <1>7 DEF ServerRec, Label
<1>8. ASSUME server' = [server EXCEPT !.volume = "own"]
      PROVE  ServerInv'
  BY <1>1, <1>4, <1>7, <1>8 DEF ServerInv
<1>9. CASE prov' = Succeeded(prov, Step) /\ server' = [server EXCEPT !.volume = "own"]
  <2>1. ServerAt(n + 1)'
    <3>1. ServerAt(n)
      BY <1>4, <1>5
    <3>2. LabelAt' = LabelAt /\ MakeAt' = MakeAt /\ StartAt' = StartAt /\ role' = role
      BY <1>2 DEF LabelAt, MakeAt, StartAt
    <3>3. /\ LabelAt \in {2, 4} /\ LabelAt # MakeAt /\ n + 1 # 2 /\ ~(n + 1 <= LabelAt)
          /\ (n + 1 > StartAt <=> n > StartAt) /\ (n + 1 <= MakeAt <=> n <= MakeAt)
          /\ ~(role = "child" /\ n + 1 = 3) /\ ~(role = "child" /\ n = 3) /\ ~(n + 1 <= 1)
      BY <1>1, <1>6, Places
    <3>4. /\ server.instance = IF n + 1 <= MakeAt THEN "none" ELSE "own"
          /\ server.running <=> n + 1 > StartAt
      BY <3>1, <3>3 DEF ServerAt
    <3> QED
      BY <1>7, <1>9, <3>2, <3>3, <3>4 DEF ServerAt
  <2> QED
    BY <1>2, <1>5, <1>7, <1>8, <1>9, <2>1, SucceededKeeps
<1>10. CASE prov' = Failing(prov) /\ server' = server
  <2>1. ServerInv' /\ server' \in ServerRec /\ server'.op = "none"
        /\ server'.instance = server.instance
    BY <1>1, <1>3, <1>4, <1>10 DEF ServerInv
  <2> QED
    BY <1>2, <1>6, <1>10, <2>1, FailingKeeps
<1>11. CASE prov' = Failing(prov) /\ server' = [server EXCEPT !.volume = "own"]
  BY <1>2, <1>6, <1>7, <1>8, <1>11, FailingKeeps
<1> QED
  BY <1>9, <1>10, <1>11 DEF LabelVolume

\* The other steps change nothing at the server.
LEMMA LookKeeps ==
    ASSUME ProvisionInv, NEW step \in {"verify", "prepare", "address"}, Look(step)
    PROVE  ProvisionInv'
<1>1. TypeOK /\ ProgressInv /\ ServerInv /\ CleanupInv /\ TicketInv /\ ParentInv
  BY DEF ProvisionInv
<1>2. prov.pc = "step" /\ Step = step /\ UNCHANGED <<role, server, parent>>
  BY DEF Look
<1>3. server' \in ServerRec /\ ServerInv'
  BY <1>1, <1>2, Typed DEF ServerInv
<1>4. /\ prov.at \in 1..LastAt /\ server.op = "none" /\ ServerAt(prov.at)
  BY <1>1, <1>2 DEF ProgressInv
<1>5. PICK n \in 1..LastAt : n = prov.at
  BY <1>4
<1>6. n \in 1..8
  BY <1>1, Places
<1>7. CASE prov' = Succeeded(prov, Step)
  <2>1. /\ (n + 1 <= 1 <=> n <= 1) /\ (n + 1 <= LabelAt <=> n <= LabelAt)
        /\ (n + 1 <= MakeAt <=> n <= MakeAt) /\ (n + 1 > StartAt <=> n > StartAt)
        /\ (role = "child" => n # 3 /\ n + 1 # 3)
    BY <1>1, <1>2, <1>4, <1>5, <1>6, Places, StepPlaces
  <2>2. ServerAt(n + 1)
    BY <1>4, <1>5, <2>1 DEF ServerAt
  <2>3. ServerAt(n + 1)'
    BY <1>2, <2>2 DEF ServerAt, LabelAt, MakeAt, StartAt
  <2> QED
    BY <1>2, <1>3, <1>4, <1>5, <1>7, <2>3, SucceededKeeps
<1>8. CASE prov' = Failing(prov)
  BY <1>2, <1>3, <1>4, <1>8, FailingKeeps
<1> QED
  BY <1>7, <1>8 DEF Look

LEMMA PublishKeeps ==
    ASSUME ProvisionInv, Publish
    PROVE  ProvisionInv'
<1>1. TypeOK /\ ProgressInv /\ ServerInv /\ CleanupInv /\ TicketInv /\ ParentInv
  BY DEF ProvisionInv
<1>2. prov.pc = "ready" /\ UNCHANGED <<role, server, parent>>
  BY DEF Publish
<1>3. prov \in ProvRec
  BY <1>1, Typed
<1>4. /\ prov' \in ProvRec /\ prov'.pc = "ready" /\ prov'.volumeOwned = prov.volumeOwned
      /\ prov'.instanceOwned = prov.instanceOwned /\ prov'.awaitErr = prov.awaitErr
  BY <1>2, <1>3 DEF Publish, ProvRec
<1>5. TypeOK'
  BY <1>1, <1>2, <1>4 DEF TypeOK, ProvRec
<1>6. ProgressInv'
  BY <1>1, <1>2, <1>4 DEF ProgressInv
<1>7. ServerInv'
  BY <1>1, <1>2 DEF ServerInv
<1>8. CleanupInv'
  BY <1>1, <1>2, <1>4 DEF CleanupInv
<1>9. TicketInv'
  BY <1>1, <1>2, <1>4 DEF TicketInv, ProgressInv
<1>10. ParentInv'
  BY <1>1, <1>2, ParentIdle
<1> QED
  BY <1>5, <1>6, <1>7, <1>8, <1>9, <1>10 DEF ProvisionInv
-----------------------------------------------------------------------------
(* Cleanup and Destroy *)

Cleaning == {"probe", "stop", "delete", "probeVolume", "deleteVolume", "failed", "destroyed"}

\* A step of a cleanup keeps the rest.
LEMMA CleaningKeeps ==
    ASSUME ProvisionInv, prov.pc \in {"await"} \cup Cleaning, prov.pc \notin {"failed", "destroyed"},
           UNCHANGED <<role, parent>>, prov' \in ProvRec, server' \in ServerRec,
           prov'.pc \in Cleaning, prov'.ticket = prov.ticket, server'.op = server.op,
           ServerInv', CleanupInv'
    PROVE  ProvisionInv'
<1>1. TypeOK /\ TicketInv /\ ParentInv
  BY DEF ProvisionInv
<1>2. TypeOK'
  BY <1>1 DEF TypeOK, ProvRec, ServerRec
<1>3. ProgressInv'
  BY DEF ProgressInv, Cleaning
<1>4. TicketInv'
  BY <1>1 DEF TicketInv, Cleaning
<1>5. ParentInv'
  BY <1>1, ParentIdle DEF Cleaning
<1> QED
  BY <1>2, <1>3, <1>4, <1>5 DEF ProvisionInv

LEMMA AwaitKeeps ==
    ASSUME ProvisionInv, Await
    PROVE  ProvisionInv'
<1>1. TypeOK /\ ServerInv /\ CleanupInv
  BY DEF ProvisionInv
<1>2. prov.pc = "await" /\ UNCHANGED <<role, server, parent>>
  BY DEF Await
<1>3. prov \in ProvRec /\ server' \in ServerRec
  BY <1>1, <1>2, Typed
<1>4. PICK late \in BOOLEAN, err \in BOOLEAN :
         /\ prov' = [prov EXCEPT !.pc = "probe", !.late = late, !.awaitErr = err]
         /\ err \/ (prov.submitted = "none") \/ (server.op = "none")
  <2>1. CASE prov.submitted = "none" /\ prov' = [prov EXCEPT !.pc = "probe"]
    <3>1. prov' = [prov EXCEPT !.pc = "probe", !.late = prov.late, !.awaitErr = prov.awaitErr]
      BY <1>3, <2>1 DEF ProvRec
    <3>2. prov.late \in BOOLEAN /\ prov.awaitErr \in BOOLEAN
      BY <1>3 DEF ProvRec
    <3> QED
      BY <2>1, <3>1, <3>2, Zenon
  <2>2. CASE /\ prov.submitted = "last" /\ server.op = "none"
             /\ prov' = [prov EXCEPT !.pc = "probe", !.awaitErr = server.outcome = "error"]
    <3>1. PICK err \in BOOLEAN : err = (server.outcome = "error")
      OBVIOUS
    <3>2. prov' = [prov EXCEPT !.pc = "probe", !.late = prov.late, !.awaitErr = err]
      BY <1>3, <2>2, <3>1 DEF ProvRec
    <3>3. prov.late \in BOOLEAN
      BY <1>3 DEF ProvRec
    <3> QED
      BY <2>2, <3>2, <3>3, Zenon
  <2>3. CASE prov' = [prov EXCEPT !.pc = "probe", !.awaitErr = TRUE]
    <3>1. prov' = [prov EXCEPT !.pc = "probe", !.late = prov.late, !.awaitErr = TRUE]
      BY <1>3, <2>3 DEF ProvRec
    <3>2. prov.late \in BOOLEAN
      BY <1>3 DEF ProvRec
    <3> QED
      BY <3>1, <3>2, Zenon
  <2>4. CASE prov' = [prov EXCEPT !.pc = "probe", !.late = TRUE, !.awaitErr = TRUE]
    BY <2>4, Zenon
  <2> QED
    BY <2>1, <2>2, <2>3, <2>4 DEF Await
<1>5. /\ prov' \in ProvRec /\ prov'.pc = "probe" /\ prov'.ticket = prov.ticket
      /\ prov'.volumeOwned = prov.volumeOwned /\ prov'.instanceOwned = prov.instanceOwned
      /\ prov'.cleanupErr = prov.cleanupErr /\ prov'.awaitErr = err
  BY <1>3, <1>4 DEF ProvRec
<1>6. ServerInv'
  BY <1>1, <1>2 DEF ServerInv
<1>7. CleanupInv'
  <2>1. ASSUME Clean'
        PROVE  Clean /\ server.op = "none"
    BY <1>1, <1>2, <1>4, <1>5, <2>1 DEF Clean, CleanupInv
  <2> QED
    BY <1>1, <1>2, <1>5, <2>1 DEF CleanupInv
<1> QED
  BY <1>2, <1>3, <1>5, <1>6, <1>7, CleaningKeeps DEF Cleaning

LEMMA ProbeKeeps ==
    ASSUME ProvisionInv, Probe
    PROVE  ProvisionInv'
<1>1. TypeOK /\ ServerInv /\ CleanupInv
  BY DEF ProvisionInv
<1>2. prov.pc = "probe" /\ UNCHANGED <<role, server, parent>>
  BY DEF Probe
<1>3. prov \in ProvRec /\ server \in ServerRec
  BY <1>1, Typed
<1> DEFINE Found(pc, owned, err) ==
              /\ prov' = [prov EXCEPT !.pc = pc, !.instanceOwned = owned, !.cleanupErr = err]
              /\ ~err => ~prov.cleanupErr
              /\ (pc = "probeVolume" /\ ~err) => ~prov.instanceOwned \/ ~Attached
              /\ (pc # "probeVolume") => owned
<1>4. PICK pc \in {"stop", "delete", "probeVolume"}, owned \in BOOLEAN, err \in BOOLEAN :
         Found(pc, owned, err)
  <2>1. prov.instanceOwned \in BOOLEAN /\ prov.cleanupErr \in BOOLEAN
    BY <1>3 DEF ProvRec
  <2>2. CASE ~prov.instanceOwned /\ prov' = [prov EXCEPT !.pc = "probeVolume"]
    <3>1. prov' = [prov EXCEPT !.pc = "probeVolume", !.instanceOwned = prov.instanceOwned,
                               !.cleanupErr = prov.cleanupErr]
      BY <1>3, <2>2 DEF ProvRec
    <3> QED
      BY <2>1, <2>2, <3>1, Zenon
  <2>3. CASE ~Attached /\ prov' = [prov EXCEPT !.pc = "probeVolume", !.instanceOwned = FALSE]
    <3>1. prov' = [prov EXCEPT !.pc = "probeVolume", !.instanceOwned = FALSE,
                               !.cleanupErr = prov.cleanupErr]
      BY <1>3, <2>3 DEF ProvRec
    <3> QED
      BY <2>1, <2>3, <3>1, Zenon
  <2>4. CASE prov' = [Fails(prov) EXCEPT !.pc = "probeVolume"]
    <3>1. prov' = [prov EXCEPT !.pc = "probeVolume", !.instanceOwned = prov.instanceOwned,
                               !.cleanupErr = TRUE]
      BY <1>3, <2>4 DEF ProvRec, Fails
    <3> QED
      BY <2>1, <3>1, Zenon
  <2>5. ASSUME prov.instanceOwned, NEW pc \in {"stop", "delete"},
               \/ prov' = [prov EXCEPT !.pc = pc]
               \/ prov' = [Fails(prov) EXCEPT !.pc = pc]
        PROVE  \E b \in {"stop", "delete", "probeVolume"}, owned \in BOOLEAN, err \in BOOLEAN :
                  Found(b, owned, err)
    <3>1. PICK err \in BOOLEAN :
             /\ prov' = [prov EXCEPT !.pc = pc, !.instanceOwned = TRUE, !.cleanupErr = err]
             /\ ~err => ~prov.cleanupErr
      <4>1. CASE prov' = [prov EXCEPT !.pc = pc]
        <5>1. prov' = [prov EXCEPT !.pc = pc, !.instanceOwned = TRUE, !.cleanupErr = prov.cleanupErr]
          BY <1>3, <2>5, <4>1 DEF ProvRec
        <5> QED
          BY <2>1, <5>1, Zenon
      <4>2. CASE prov' = [Fails(prov) EXCEPT !.pc = pc]
        <5>1. prov' = [prov EXCEPT !.pc = pc, !.instanceOwned = TRUE, !.cleanupErr = TRUE]
          BY <1>3, <2>5, <4>2 DEF ProvRec, Fails
        <5> QED
          BY <5>1, Zenon
      <4> QED
        BY <2>5, <4>1, <4>2
    <3>2. pc # "probeVolume"
      OBVIOUS
    <3> QED
      BY <3>1, <3>2, Zenon
  <2>6. ASSUME prov.instanceOwned, NEW stop,
               \/ prov' = [prov EXCEPT !.pc = IF stop THEN "stop" ELSE "delete"]
               \/ prov' = [Fails(prov) EXCEPT !.pc = IF stop THEN "stop" ELSE "delete"]
        PROVE  \E b \in {"stop", "delete", "probeVolume"}, owned \in BOOLEAN, err \in BOOLEAN :
                  Found(b, owned, err)
    <3>1. PICK pc \in {"stop", "delete"} : pc = IF stop THEN "stop" ELSE "delete"
      OBVIOUS
    <3> QED
      BY <2>5, <2>6, <3>1
  <2> QED
    BY <2>2, <2>3, <2>4, <2>6, Zenon DEF Probe
<1>5. /\ prov' \in ProvRec /\ prov'.pc = pc /\ prov'.ticket = prov.ticket
      /\ prov'.volumeOwned = prov.volumeOwned /\ prov'.instanceOwned = owned
      /\ prov'.cleanupErr = err /\ prov'.awaitErr = prov.awaitErr
  BY <1>3, <1>4 DEF ProvRec
<1>6. ServerInv'
  BY <1>1, <1>2 DEF ServerInv
<1>7. CleanupInv'
  <2>1. ASSUME Clean'
        PROVE  Clean /\ ~err
    BY <1>2, <1>4, <1>5, <2>1 DEF Clean
  <2>2. (pc = "probeVolume" /\ ~err /\ Clean) => server.instance = "none"
    BY <1>1, <1>2, <1>4 DEF CleanupInv, Attached
  <2> QED
    BY <1>1, <1>2, <1>4, <1>5, <2>1, <2>2 DEF CleanupInv
<1> QED
  BY <1>2, <1>3, <1>5, <1>6, <1>7, CleaningKeeps DEF Cleaning

LEMMA StopKeeps ==
    ASSUME ProvisionInv, Stop
    PROVE  ProvisionInv'
<1>1. TypeOK /\ ServerInv /\ CleanupInv
  BY DEF ProvisionInv
<1>2. prov.pc = "stop" /\ UNCHANGED <<role, parent>>
  BY DEF Stop
<1>3. prov \in ProvRec /\ server \in ServerRec
  BY <1>1, Typed
<1>4. /\ server' \in ServerRec /\ server'.op = server.op /\ server'.lost = server.lost
      /\ server'.instance = server.instance /\ server'.volume = server.volume
      /\ server'.running => server.running
  BY <1>3 DEF Stop, Stopped, ServerRec
<1>5. /\ prov' \in ProvRec /\ prov'.ticket = prov.ticket /\ prov'.awaitErr = prov.awaitErr
      /\ prov'.volumeOwned = prov.volumeOwned /\ prov'.instanceOwned = prov.instanceOwned
      /\ \/ prov'.pc = "delete" /\ prov'.cleanupErr = prov.cleanupErr
         \/ prov'.pc \in {"delete", "probeVolume"} /\ prov'.cleanupErr
  <2>1. CASE prov' = [prov EXCEPT !.pc = "delete"]
    BY <1>3, <2>1 DEF ProvRec
  <2>2. ASSUME NEW pc \in {"delete", "probeVolume"}, prov' = [Fails(prov) EXCEPT !.pc = pc]
        PROVE  /\ prov' \in ProvRec /\ prov'.ticket = prov.ticket /\ prov'.awaitErr = prov.awaitErr
               /\ prov'.volumeOwned = prov.volumeOwned /\ prov'.instanceOwned = prov.instanceOwned
               /\ prov'.pc = pc /\ prov'.cleanupErr
    BY <1>3, <2>2 DEF ProvRec, Fails
  <2>3. PICK pc \in {"delete", "probeVolume"} : pc = IF role = "root" THEN "delete" ELSE "probeVolume"
    OBVIOUS
  <2> QED
    BY <2>1, <2>2, <2>3 DEF Stop
<1>6. ServerInv'
  BY <1>1, <1>4 DEF ServerInv
<1>7. CleanupInv'
  BY <1>1, <1>2, <1>4, <1>5 DEF CleanupInv, Clean
<1> QED
  BY <1>2, <1>4, <1>5, <1>6, <1>7, CleaningKeeps DEF Cleaning

\* What a deletion that the server accepts leaves.
LEMMA DeletedFields ==
    ASSUME TypeOK, ServerInv, ~Attached \/ MayDelete, server' = Deleted
    PROVE  /\ server' \in ServerRec /\ server'.op = server.op /\ server'.lost = server.lost
           /\ server'.volume = server.volume /\ server'.instance = "none" /\ ServerInv'
<1>1. server \in ServerRec
  BY Typed
<1>2. /\ server' \in ServerRec /\ server'.op = server.op /\ server'.lost = server.lost
      /\ server'.volume = server.volume /\ server'.instance = "none" /\ server'.running = server.running
  BY <1>1 DEF Deleted, ServerRec, Label
<1> QED
  BY <1>2 DEF ServerInv, Attached, MayDelete

LEMMA DeleteKeeps ==
    ASSUME ProvisionInv, Delete
    PROVE  ProvisionInv'
<1>1. TypeOK /\ ServerInv /\ CleanupInv
  BY DEF ProvisionInv
<1>2. prov.pc = "delete" /\ UNCHANGED <<role, parent>>
  BY DEF Delete
<1>3. prov \in ProvRec /\ server \in ServerRec
  BY <1>1, Typed
<1>4. /\ prov' \in ProvRec /\ prov'.ticket = prov.ticket /\ prov'.awaitErr = prov.awaitErr
      /\ prov'.volumeOwned = prov.volumeOwned /\ prov'.pc = "probeVolume"
      /\ ~prov'.cleanupErr => ~prov.cleanupErr /\ (~Attached \/ MayDelete) /\ server' = Deleted
  BY <1>3 DEF Delete, ProvRec, Fails
<1>5. CASE (~Attached \/ MayDelete) /\ server' = Deleted
  <2>1. /\ server' \in ServerRec /\ server'.op = server.op /\ server'.lost = server.lost
        /\ server'.volume = server.volume /\ server'.instance = "none" /\ ServerInv'
    BY <1>1, <1>5, DeletedFields
  <2>2. CleanupInv'
    BY <1>1, <1>2, <1>4, <2>1 DEF CleanupInv, Clean
  <2> QED
    BY <1>2, <1>4, <2>1, <2>2, CleaningKeeps DEF Cleaning
<1>6. CASE UNCHANGED server /\ prov'.cleanupErr
  <2>1. ServerInv'
    BY <1>1, <1>6 DEF ServerInv
  <2>2. CleanupInv'
    BY <1>4, <1>6 DEF CleanupInv, Clean
  <2> QED
    BY <1>2, <1>3, <1>4, <1>6, <2>1, <2>2, CleaningKeeps DEF Cleaning
<1> QED
  BY <1>4, <1>5, <1>6 DEF Delete

LEMMA ProbeVolumeKeeps ==
    ASSUME ProvisionInv, ProbeVolume
    PROVE  ProvisionInv'
<1>1. TypeOK /\ ServerInv /\ CleanupInv
  BY DEF ProvisionInv
<1>2. prov.pc = "probeVolume" /\ UNCHANGED <<role, server, parent>>
  BY DEF ProbeVolume
<1>3. prov \in ProvRec /\ server' \in ServerRec
  BY <1>1, <1>2, Typed
<1>4. /\ prov' \in ProvRec /\ prov'.ticket = prov.ticket /\ prov'.awaitErr = prov.awaitErr
      /\ prov'.pc = "deleteVolume"
      /\ ~prov'.cleanupErr => /\ ~prov.cleanupErr
                              /\ prov'.volumeOwned = prov.volumeOwned \/ server.volume = "none"
  <2>1. CASE prov' = [prov EXCEPT !.pc = "deleteVolume"]
    BY <1>3, <2>1 DEF ProvRec
  <2>2. CASE server.volume = "none" /\ prov' = [prov EXCEPT !.pc = "deleteVolume", !.volumeOwned = FALSE]
    BY <1>3, <2>2 DEF ProvRec
  <2>3. CASE prov' = [Fails(prov) EXCEPT !.pc = "deleteVolume", !.volumeOwned = role = "root"]
    <3>1. PICK owned \in BOOLEAN : owned = (role = "root")
      OBVIOUS
    <3>2. prov' = [Fails(prov) EXCEPT !.pc = "deleteVolume", !.volumeOwned = owned]
      BY <2>3, <3>1
    <3> QED
      BY <1>3, <3>2 DEF ProvRec, Fails
  <2> QED
    BY <2>1, <2>2, <2>3 DEF ProbeVolume
<1>5. ServerInv'
  BY <1>1, <1>2 DEF ServerInv
<1>6. CleanupInv'
  <2>1. ASSUME Clean'
        PROVE  /\ Clean
               /\ prov'.volumeOwned = prov.volumeOwned \/ server.volume = "none"
    BY <1>2, <1>4, <2>1 DEF Clean
  <2> QED
    BY <1>1, <1>2, <1>4, <2>1 DEF CleanupInv
<1> QED
  BY <1>2, <1>3, <1>4, <1>5, <1>6, CleaningKeeps DEF Cleaning

LEMMA DeleteVolumeKeeps ==
    ASSUME ProvisionInv, DeleteVolume
    PROVE  ProvisionInv'
<1>1. TypeOK /\ ServerInv /\ CleanupInv
  BY DEF ProvisionInv
<1>2. prov.pc = "deleteVolume" /\ UNCHANGED <<role, parent>>
  BY DEF DeleteVolume
<1>3. prov \in ProvRec /\ server \in ServerRec
  BY <1>1, Typed
<1>4. PICK end \in {"destroyed", "failed"} : end = IF prov.destroying THEN "destroyed" ELSE "failed"
  OBVIOUS
<1>5. \/ ~prov.volumeOwned /\ prov' = [prov EXCEPT !.pc = end] /\ UNCHANGED server
      \/ /\ prov.volumeOwned /\ ~Attached
         /\ server' = WithoutVolume /\ prov' = [prov EXCEPT !.pc = end]
      \/ /\ prov.volumeOwned /\ prov' = [Fails(prov) EXCEPT !.pc = end]
         /\ UNCHANGED server \/ (~Attached /\ server' = WithoutVolume)
  BY <1>4 DEF DeleteVolume
<1>6. /\ server' \in ServerRec /\ server'.op = server.op /\ server'.lost = server.lost
      /\ server'.instance = server.instance /\ server'.running = server.running
      /\ server'.volume = server.volume \/ (~Attached /\ server'.volume = "none")
  <2>1. CASE server' = WithoutVolume /\ ~Attached
    BY <1>3, <2>1 DEF WithoutVolume, ServerRec, Label
  <2> QED
    BY <1>3, <1>5, <2>1
<1>7. /\ prov' \in ProvRec /\ prov'.ticket = prov.ticket /\ prov'.awaitErr = prov.awaitErr
      /\ prov'.pc = end
      /\ ~prov'.cleanupErr => /\ ~prov.cleanupErr
                              /\ \/ ~prov.volumeOwned /\ UNCHANGED server
                                 \/ server'.volume = "none"
  <2>1. CASE prov' = [prov EXCEPT !.pc = end]
    <3>1. /\ prov' \in ProvRec /\ prov'.ticket = prov.ticket /\ prov'.awaitErr = prov.awaitErr
          /\ prov'.pc = end /\ prov'.cleanupErr = prov.cleanupErr
      BY <1>3, <2>1 DEF ProvRec
    <3>2. \/ prov'.cleanupErr
          \/ ~prov.volumeOwned /\ UNCHANGED server
          \/ server' = WithoutVolume
      BY <1>3, <1>5 DEF Fails, ProvRec
    <3>3. server' = WithoutVolume => server'.volume = "none"
      BY <1>3 DEF WithoutVolume, ServerRec
    <3> QED
      BY <3>1, <3>2, <3>3
  <2>2. CASE prov' = [Fails(prov) EXCEPT !.pc = end]
    BY <1>3, <2>2 DEF ProvRec, Fails
  <2> QED
    BY <1>5, <2>1, <2>2
<1>8. ServerInv'
  BY <1>1, <1>6 DEF ServerInv, Attached
<1>9. CleanupInv'
  <2>1. ASSUME Clean'
        PROVE  Clean /\ ((~prov.volumeOwned /\ UNCHANGED server) \/ server'.volume = "none")
    BY <1>6, <1>7, <2>1 DEF Clean
  <2>2. ASSUME Clean'
        PROVE  server'.op = "none" /\ server'.instance = "none" /\ server'.volume = "none"
    BY <1>1, <1>2, <1>6, <2>1, <2>2 DEF CleanupInv
  <2> QED
    BY <1>7, <2>2 DEF CleanupInv
<1> QED
  BY <1>2, <1>6, <1>7, <1>8, <1>9, CleaningKeeps DEF Cleaning

LEMMA DestroyKeeps ==
    ASSUME ProvisionInv, Destroy
    PROVE  ProvisionInv'
<1>1. TypeOK /\ ProgressInv /\ ServerInv /\ CleanupInv /\ TicketInv /\ ParentInv
  BY DEF ProvisionInv
<1>2. prov.pc = "ready" /\ UNCHANGED <<role, server, parent>>
  BY DEF Destroy
<1>3. prov \in ProvRec
  BY <1>1, Typed
<1>4. /\ prov' \in ProvRec /\ prov'.pc = "probe" /\ prov'.volumeOwned = prov.volumeOwned
      /\ prov'.instanceOwned = prov.instanceOwned /\ prov'.ticket = prov.ticket
  BY <1>2, <1>3 DEF Destroy, ProvRec
<1>5. /\ server.op = "none" /\ prov.volumeOwned /\ prov.instanceOwned
  BY <1>1, <1>2 DEF ProgressInv
<1>6. TypeOK'
  BY <1>1, <1>2, <1>4 DEF TypeOK, ProvRec
<1>7. ProgressInv'
  BY <1>4 DEF ProgressInv
<1>8. ServerInv'
  BY <1>1, <1>2 DEF ServerInv
<1>9. CleanupInv'
  BY <1>2, <1>4, <1>5 DEF CleanupInv
<1>10. TicketInv'
  BY <1>2, <1>4, <1>5 DEF TicketInv
<1>11. ParentInv'
  BY <1>1, <1>2, ParentIdle
<1> QED
  BY <1>6, <1>7, <1>8, <1>9, <1>10, <1>11 DEF ProvisionInv
-----------------------------------------------------------------------------
(* Crash and recovery *)

LEMMA CrashKeeps ==
    ASSUME ProvisionInv, Crash
    PROVE  ProvisionInv'
<1>1. TypeOK /\ ServerInv /\ TicketInv /\ ParentInv
  BY DEF ProvisionInv
<1>2. prov.pc \notin {"failed", "destroyed", "crashed"} /\ UNCHANGED <<role, parent>>
  BY DEF Crash
<1>3. prov \in ProvRec /\ server \in ServerRec
  BY <1>1, Typed
<1>4. prov' \in ProvRec /\ prov'.pc = "crashed" /\ prov'.ticket = prov.ticket
  BY <1>3 DEF Crash, ProvRec
<1>5. /\ server' \in ServerRec /\ server'.op \in {server.op, "delete"}
      /\ server'.instance = server.instance /\ server'.volume = server.volume
      /\ server'.running = server.running
  BY <1>3 DEF Crash, ServerRec
<1>6. TypeOK'
  BY <1>1, <1>2, <1>4, <1>5 DEF TypeOK, ProvRec, ServerRec
<1>7. ProgressInv'
  BY <1>4 DEF ProgressInv
<1>8. ServerInv'
  BY <1>1, <1>5 DEF ServerInv
<1>9. CleanupInv'
  BY <1>4 DEF CleanupInv
<1>10. TicketInv'
  BY <1>1, <1>4, <1>5 DEF TicketInv
<1>11. ParentInv'
  BY <1>1, <1>2, ParentIdle
<1> QED
  BY <1>6, <1>7, <1>8, <1>9, <1>10, <1>11 DEF ProvisionInv

\* A step of a recovery: the session has ended, and the server has less than before.
LEMMA RecoveringKeeps ==
    ASSUME ProvisionInv, UNCHANGED <<role, prov>>, parent' \in ParentRec, server' \in ServerRec,
           prov.ticket, prov.pc \in {"crashed", "destroyed"},
           server'.op = server.op, server'.lost = server.lost,
           server'.instance \in {server.instance, "none"}, server'.volume \in {server.volume, "none"},
           ServerInv', ParentInv'
    PROVE  ProvisionInv'
<1>1. TypeOK /\ CleanupInv /\ TicketInv
  BY DEF ProvisionInv
<1>2. TypeOK'
  BY <1>1 DEF TypeOK, ParentRec, ServerRec
<1>3. ProgressInv'
  BY DEF ProgressInv
<1>4. CleanupInv'
  BY <1>1 DEF CleanupInv, Clean
<1>5. TicketInv'
  BY <1>1 DEF TicketInv
<1> QED
  BY <1>2, <1>3, <1>4, <1>5 DEF ProvisionInv

LEMMA RecoverKeeps ==
    ASSUME ProvisionInv, Recover
    PROVE  ProvisionInv'
<1>1. TypeOK /\ ServerInv /\ ParentInv
  BY DEF ProvisionInv
<1>2. /\ prov.ticket /\ prov.pc \in {"crashed", "destroyed"}
      /\ UNCHANGED <<role, server, prov>>
  BY DEF Recover
<1>3. parent \in ParentRec /\ server \in ServerRec
  BY <1>1, Typed
<1>4. ServerInv'
  BY <1>1, <1>2 DEF ServerInv
<1>5. parent' \in ParentRec /\ ParentInv'
  <2>1. CASE parent' = [parent EXCEPT !.pc = "done", !.err = TRUE]
    <3>1. parent' \in ParentRec /\ parent'.pc = "done" /\ parent'.err
      BY <1>3, <2>1 DEF ParentRec
    <3> QED
      BY <1>2, <3>1 DEF ParentInv
  <2>2. CASE parent' = [parent EXCEPT
                           !.pc = IF Attached /\ server.running THEN "stop" ELSE "delete",
                           !.instance = Attached, !.volume = server.volume # "none"]
    <3>1. PICK pc \in {"stop", "delete"} : pc = IF Attached /\ server.running THEN "stop" ELSE "delete"
      OBVIOUS
    <3>2. PICK i \in BOOLEAN, v \in BOOLEAN : i = Attached /\ v = (server.volume # "none")
      BY DEF Attached
    <3>3. parent' = [parent EXCEPT !.pc = pc, !.instance = i, !.volume = v]
      BY <2>2, <3>1, <3>2
    <3>4. parent' \in ParentRec /\ parent'.pc = pc /\ parent'.instance = i /\ parent'.volume = v
      BY <1>3, <3>3 DEF ParentRec
    <3>5. (~i => server.instance = "none") /\ (~v => server.volume = "none")
      BY <3>2, Zenon DEF Attached
    <3> QED
      BY <1>2, <3>4, <3>5 DEF ParentInv
  <2> QED
    BY <2>1, <2>2 DEF Recover
<1> QED
  BY <1>2, <1>3, <1>4, <1>5, RecoveringKeeps

LEMMA RecoverStopKeeps ==
    ASSUME ProvisionInv, RecoverStop
    PROVE  ProvisionInv'
<1>1. TypeOK /\ ServerInv /\ ParentInv
  BY DEF ProvisionInv
<1>2. parent.pc = "stop" /\ UNCHANGED <<role, prov>>
  BY DEF RecoverStop
<1>3. parent \in ParentRec /\ server \in ServerRec
  BY <1>1, Typed
<1>4. /\ server' \in ServerRec /\ server'.op = server.op /\ server'.lost = server.lost
      /\ server'.instance = server.instance /\ server'.volume = server.volume
      /\ server'.running => server.running
  BY <1>3 DEF RecoverStop, Stopped, ServerRec
<1>5. /\ parent' \in ParentRec
      /\ \/ parent'.pc = "delete" /\ parent'.instance = parent.instance
                                  /\ parent'.volume = parent.volume
         \/ parent'.pc = "done" /\ parent'.err
  BY <1>3 DEF RecoverStop, ParentRec
<1>6. prov.ticket /\ prov.pc \in {"crashed", "destroyed"}
  BY <1>1, <1>2 DEF ParentInv
<1>7. ServerInv'
  BY <1>1, <1>4 DEF ServerInv
<1>8. ParentInv'
  BY <1>1, <1>2, <1>4, <1>5, <1>6 DEF ParentInv
<1> QED
  BY <1>2, <1>4, <1>5, <1>6, <1>7, <1>8, RecoveringKeeps

LEMMA RecoverDeleteKeeps ==
    ASSUME ProvisionInv, RecoverDelete
    PROVE  ProvisionInv'
<1>1. TypeOK /\ ServerInv /\ ParentInv
  BY DEF ProvisionInv
<1>2. parent.pc = "delete" /\ UNCHANGED <<role, prov>>
  BY DEF RecoverDelete
<1>3. parent \in ParentRec /\ server \in ServerRec
  BY <1>1, Typed
<1>4. /\ parent' \in ParentRec /\ parent'.pc = "deleteVolume" /\ parent'.volume = parent.volume
      /\ \/ parent'.err
         \/ ~parent.instance /\ UNCHANGED server
         \/ (~Attached \/ MayDelete) /\ server' = Deleted
  BY <1>3 DEF RecoverDelete, ParentRec
<1>5. prov.ticket /\ prov.pc \in {"crashed", "destroyed"}
  BY <1>1, <1>2 DEF ParentInv
<1>6. CASE (~Attached \/ MayDelete) /\ server' = Deleted
  <2>1. /\ server' \in ServerRec /\ server'.op = server.op /\ server'.lost = server.lost
        /\ server'.volume = server.volume /\ server'.instance = "none" /\ ServerInv'
    BY <1>1, <1>6, DeletedFields
  <2>2. ParentInv'
    BY <1>1, <1>2, <1>4, <1>5, <2>1 DEF ParentInv
  <2> QED
    BY <1>2, <1>4, <1>5, <2>1, <2>2, RecoveringKeeps
<1>7. CASE UNCHANGED server /\ (parent'.err \/ ~parent.instance)
  <2>1. ServerInv'
    BY <1>1, <1>7 DEF ServerInv
  <2>2. ParentInv'
    BY <1>1, <1>2, <1>4, <1>5, <1>7 DEF ParentInv
  <2> QED
    BY <1>2, <1>3, <1>4, <1>5, <1>7, <2>1, <2>2, RecoveringKeeps
<1> QED
  BY <1>4, <1>6, <1>7 DEF RecoverDelete

LEMMA RecoverVolumeKeeps ==
    ASSUME ProvisionInv, RecoverVolume
    PROVE  ProvisionInv'
<1>1. TypeOK /\ ServerInv /\ ParentInv
  BY DEF ProvisionInv
<1>2. parent.pc = "deleteVolume" /\ UNCHANGED <<role, prov>>
  BY DEF RecoverVolume
<1>3. parent \in ParentRec /\ server \in ServerRec
  BY <1>1, Typed
<1>4. /\ parent' \in ParentRec /\ parent'.pc = "socket"
      /\ ~parent'.err => ~parent.err /\ (~parent.volume \/ server' = WithoutVolume)
  BY <1>3 DEF RecoverVolume, ParentRec
<1>5. /\ server' \in ServerRec /\ server'.op = server.op /\ server'.lost = server.lost
      /\ server'.instance = server.instance /\ server'.running = server.running
      /\ server'.volume = server.volume \/ (~Attached /\ server'.volume = "none")
  <2>1. CASE server' = WithoutVolume /\ ~Attached
    BY <1>3, <2>1 DEF WithoutVolume, ServerRec, Label
  <2> QED
    BY <1>3, <2>1 DEF RecoverVolume
<1>6. server' = WithoutVolume => server'.volume = "none"
  BY <1>3 DEF WithoutVolume, ServerRec
<1>7. prov.ticket /\ prov.pc \in {"crashed", "destroyed"}
  BY <1>1, <1>2 DEF ParentInv
<1>8. ServerInv'
  BY <1>1, <1>5 DEF ServerInv, Attached
<1>9. ParentInv'
  BY <1>1, <1>2, <1>4, <1>5, <1>6, <1>7 DEF ParentInv
<1> QED
  BY <1>2, <1>4, <1>5, <1>7, <1>8, <1>9, RecoveringKeeps

LEMMA RecoverSocketKeeps ==
    ASSUME ProvisionInv, RecoverSocket
    PROVE  ProvisionInv'
<1>1. TypeOK /\ ServerInv /\ ParentInv
  BY DEF ProvisionInv
<1>2. parent.pc = "socket" /\ UNCHANGED <<role, server, prov>>
  BY DEF RecoverSocket
<1>3. parent \in ParentRec /\ server \in ServerRec
  BY <1>1, Typed
<1>4. PICK e \in BOOLEAN :
         parent' = [parent EXCEPT !.pc = "done", !.err = e] /\ (parent.err => e)
  <2>1. PICK refused \in BOOLEAN : parent' = [parent EXCEPT !.pc = "done", !.err = @ \/ refused]
    BY DEF RecoverSocket
  <2>2. PICK e \in BOOLEAN : e = (parent.err \/ refused)
    OBVIOUS
  <2>3. parent' = [parent EXCEPT !.pc = "done", !.err = e]
    BY <2>1, <2>2
  <2> QED
    BY <2>2, <2>3, Zenon
<1>5. parent' \in ParentRec /\ parent'.pc = "done" /\ (~parent'.err => ~parent.err)
  BY <1>3, <1>4 DEF ParentRec
<1>6. prov.ticket /\ prov.pc \in {"crashed", "destroyed"}
  BY <1>1, <1>2 DEF ParentInv
<1>7. ServerInv'
  BY <1>1, <1>2 DEF ServerInv
<1>8. ParentInv'
  BY <1>1, <1>2, <1>5, <1>6 DEF ParentInv
<1> QED
  BY <1>2, <1>3, <1>5, <1>6, <1>7, <1>8, RecoveringKeeps
-----------------------------------------------------------------------------
(* The theorems *)

LEMMA InitHolds == Init => ProvisionInv
<1> SUFFICES ASSUME Init
             PROVE  ProvisionInv
  OBVIOUS
<1>1. TypeOK
  BY DEF Init, TypeOK, Label
<1>2. /\ prov.pc = "check" /\ prov.at = 1 /\ ~prov.volumeOwned /\ ~prov.instanceOwned /\ ~prov.ticket
      /\ ~prov.awaitErr /\ parent.pc = "idle"
      /\ server.op = "none" /\ server.instance = "none" /\ server.volume = "none" /\ ~server.running
  BY DEF Init
<1>3. ServerAt(1) /\ OwnedAt(1) /\ 1 \in 1..LastAt
  BY <1>1, <1>2, Places DEF ServerAt, OwnedAt
<1>4. ProgressInv
  BY <1>2, <1>3 DEF ProgressInv
<1> QED
  BY <1>1, <1>2, <1>4 DEF ProvisionInv, ServerInv, CleanupInv, TicketInv, ParentInv

LEMMA StepKeeps == ProvisionInv /\ [Next]_vars => ProvisionInv'
<1> SUFFICES ASSUME ProvisionInv, [Next]_vars
             PROVE  ProvisionInv'
  OBVIOUS
<1>1. CASE Complete
  BY <1>1, CompleteKeeps
<1>2. CASE Provision
  BY <1>2, CheckRootKeeps, CheckChildKeeps, SubmitKeeps, WaitedKeeps, LabelVolumeKeeps, LookKeeps
     DEF Provision, VerifyDevices, PrepareWorkspace, WaitAddress
<1>3. CASE Publish
  BY <1>3, PublishKeeps
<1>4. CASE Cleanup
  BY <1>4, AwaitKeeps, ProbeKeeps, StopKeeps, DeleteKeeps, ProbeVolumeKeeps, DeleteVolumeKeeps
     DEF Cleanup
<1>5. CASE Destroy
  BY <1>5, DestroyKeeps
<1>6. CASE Crash
  BY <1>6, CrashKeeps
<1>7. CASE Recover \/ Recovery
  BY <1>7, RecoverKeeps, RecoverStopKeeps, RecoverDeleteKeeps, RecoverVolumeKeeps,
     RecoverSocketKeeps DEF Recovery
<1>8. CASE UNCHANGED vars
  BY <1>8 DEF vars, ProvisionInv, TypeOK, ProgressInv, ServerInv, CleanupInv, TicketInv, ParentInv,
     ServerAt, OwnedAt, Clean, LabelAt, MakeAt, StartAt, LastAt, Step, Plan
<1> QED
  BY <1>1, <1>2, <1>3, <1>4, <1>5, <1>6, <1>7, <1>8 DEF Next

\* The steps of a provision, its cleanup and the recovery by the parent keep the invariant: the
\* server is never more than one operation ahead of the plan, a cleanup that noted no error knows
\* of everything that there is (provision/root.go, provision/child.go, provision/recovery.go).
THEOREM ProvisionInvariant == Spec => []ProvisionInv
<1>1. Init => ProvisionInv
  BY InitHolds
<1>2. ProvisionInv /\ [Next]_vars => ProvisionInv'
  BY StepKeeps
<1> QED
  BY <1>1, <1>2, PTL DEF Spec

\* Every variable has its type, for a session of either role.
THEOREM ProvisionTypes == Spec => []TypeOK
<1>1. ProvisionInv => TypeOK
  BY DEF ProvisionInv
<1> QED
  BY <1>1, ProvisionInvariant, PTL

\* A provision that fails and a Destroy that ends with something of the session at Incus, or with
\* an operation that still makes it, say so (the errors that the cleanups of ProvisionRoot and
\* ProvisionChild, and Destroy, join).
THEOREM SaysWhatIsLeft == Spec => []NothingLeftUnsaid
<1>1. ProvisionInv => NothingLeftUnsaid
  BY DEF ProvisionInv, CleanupInv, NothingLeftUnsaid, Left, Clean
<1> QED
  BY <1>1, ProvisionInvariant, PTL

\* No instance runs under the labels it was copied with, and a provision that succeeds has one
\* that runs (ProvisionChild labels the clone before it starts it).
THEOREM RunsItsOwn == Spec => []RunsOnlyItsOwn
<1>1. ProvisionInv => RunsOnlyItsOwn
  BY DEF ProvisionInv, ServerInv, ProgressInv, RunsOnlyItsOwn
<1> QED
  BY <1>1, ProvisionInvariant, PTL

\* A recovery that reports no error left nothing of the child at Incus, nor an operation that
\* still makes some of it (RecoverDirectChild).
THEOREM RecoversClean == Spec => []RecoveredClean
<1>1. ProvisionInv => RecoveredClean
  BY DEF ProvisionInv, ParentInv, TicketInv, RecoveredClean, Left
<1> QED
  BY <1>1, ProvisionInvariant, PTL
=============================================================================
