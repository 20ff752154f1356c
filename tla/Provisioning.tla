---------------------------- MODULE Provisioning ----------------------------
(***************************************************************************)
(* How a supervisor makes and removes the Incus instance and volume of its *)
(* session (internal/supervisor/provision, internal/incusclient): the      *)
(* steps of ProvisionRoot and ProvisionChild, the cleanup of a provision   *)
(* that fails, Destroy, and the recovery by the direct parent of what a    *)
(* dead child left.                                                        *)
(*                                                                         *)
(* A request to Incus is refused, or accepted as an operation that the     *)
(* server ends in its own time; the client waits for it or, when its       *)
(* context ends, no longer does.  A reply may also be lost: the request    *)
(* was accepted and the client has an error that does not say so.          *)
(***************************************************************************)
EXTENDS Naturals, Sequences

CONSTANT Role \* of the sessions provisioned: "root", "child" or both

ASSUME RoleAssumption == Role \subseteq {"root", "child"}

VARIABLES
    role,   \* of this session
    server, \* what Incus has: instance, volume, the operation it works on
    prov,   \* the provisioner
    parent  \* RecoverDirectChild in the parent of a child

vars == <<role, server, prov, parent>>

\* The steps after the checks.
RootPlan == <<"copyVolume", "labelVolume", "makeInstance", "start", "prepare", "address">>

\* Mutant: the clone runs before it is labelled.
ChildPlanStartsEarly ==
    <<"copyVolume", "makeInstance", "start", "labelInstance", "labelVolume", "verify", "prepare", "address">>

ChildPlan ==
    <<"copyVolume", "makeInstance", "labelInstance", "labelVolume", "verify", "start", "prepare", "address">>

Plan == IF role = "root" THEN RootPlan ELSE ChildPlan

\* The steps that are operations of the server.
Operation == {"copyVolume", "makeInstance", "labelInstance", "start"}

Label == {"none", "copied", "own"}

TypeOK ==
    /\ role \in Role
    /\ server \in [instance : Label, volume : Label, running : BOOLEAN,
                   op : Operation \cup {"none", "delete"}, outcome : {"none", "ok", "error"},
                   lost : BOOLEAN]
    /\ prov \in [pc : {"check", "step", "wait", "ready", "await", "probe", "stop", "delete",
                       "probeVolume", "deleteVolume", "failed", "destroyed", "crashed"},
                 at : 1..8, retried : BOOLEAN, instanceOwned : BOOLEAN, volumeOwned : BOOLEAN,
                 instanceAmbiguous : BOOLEAN, volumeAmbiguous : BOOLEAN, running : BOOLEAN,
                 startAmbiguous : BOOLEAN, submitted : {"none", "last", "first"},
                 destroying : BOOLEAN, ticket : BOOLEAN, late : BOOLEAN, awaitErr : BOOLEAN,
                 cleanupErr : BOOLEAN]
    /\ parent \in [pc : {"idle", "stop", "delete", "deleteVolume", "socket", "done"},
                   instance : BOOLEAN, volume : BOOLEAN, err : BOOLEAN]

Init ==
    /\ role \in Role
    /\ server = [instance |-> "none", volume |-> "none", running |-> FALSE, op |-> "none",
                 outcome |-> "none", lost |-> FALSE]
    /\ prov = [pc |-> "check", at |-> 1, retried |-> FALSE, instanceOwned |-> FALSE,
               volumeOwned |-> FALSE, instanceAmbiguous |-> FALSE, volumeAmbiguous |-> FALSE,
               running |-> FALSE, startAmbiguous |-> FALSE, submitted |-> "none",
               destroying |-> FALSE, ticket |-> FALSE, late |-> FALSE, awaitErr |-> FALSE,
               cleanupErr |-> FALSE]
    /\ parent = [pc |-> "idle", instance |-> FALSE, volume |-> FALSE, err |-> FALSE]
-----------------------------------------------------------------------------
(* The server *)

Attached == server.instance # "none"

\* What an operation does.  A copied instance carries the metadata and the devices of its source.
Effect(op) ==
    CASE op = "copyVolume"    -> [server EXCEPT !.volume = "copied"]
      [] op = "makeInstance"  -> [server EXCEPT !.instance = IF role = "root" THEN "own" ELSE "copied"]
      [] op = "labelInstance" -> [server EXCEPT !.instance = "own"]
      [] op = "start"         -> [server EXCEPT !.running = TRUE]
      [] op = "delete"        -> IF server.running THEN server
                                 ELSE [server EXCEPT !.instance = "none"]

\* An operation ends, with its effect or without.
Complete ==
    /\ server.op # "none"
    /\ \/ server' = [Effect(server.op) EXCEPT !.op = "none", !.outcome = "ok"]
       \/ server' = [server EXCEPT !.op = "none", !.outcome = "error"]
    /\ UNCHANGED <<role, prov, parent>>

\* What a request to stop, to delete the instance or to delete the volume leaves.
Stopped == [server EXCEPT !.running = FALSE]
MayDelete == ~server.running /\ server.op \in {"none", "copyVolume"}
Deleted == [server EXCEPT !.instance = "none"]
WithoutVolume == [server EXCEPT !.volume = "none"]
-----------------------------------------------------------------------------
(* ProvisionRoot and ProvisionChild *)

Step == Plan[prov.at]

\* A step fails: the deferred cleanup begins.  The error of a retried start joins that of the
\* first, which carries its operation; one of a later step carries none.
Failing(p) ==
    [p EXCEPT !.pc = "await",
              !.submitted = IF p.retried /\ Plan[p.at] = "start" THEN "first" ELSE "none"]

\* What the provisioner notes of a step that was submitted and did not succeed.
Submitted(p, step) ==
    [p EXCEPT
        !.pc = "await",
        !.submitted = IF p.retried THEN "first" ELSE "last",
        !.volumeOwned = @ \/ step = "copyVolume",
        !.volumeAmbiguous = step = "copyVolume",
        !.instanceOwned = @ \/ step = "makeInstance",
        !.instanceAmbiguous = step = "makeInstance",
        !.startAmbiguous = step = "start"]

\* What it notes of a step that succeeded.
Succeeded(p, step) ==
    [p EXCEPT
        !.pc = IF p.at = Len(Plan) THEN "ready" ELSE "step",
        !.at = IF p.at = Len(Plan) THEN @ ELSE @ + 1,
        !.volumeOwned = @ \/ step = "copyVolume",
        !.instanceOwned = @ \/ step = "makeInstance",
        !.running = @ \/ step = "start"]

\* Proxy, pool, network, profiles, image and seed: nothing of the session is created, and the
\* cleanup is not deferred yet.
CheckRoot ==
    /\ role = "root" /\ prov.pc = "check"
    /\ \E next \in {"step", "failed"} : prov' = [prov EXCEPT !.pc = next]
    /\ UNCHANGED <<role, server, parent>>

\* Proxy, pool, and the instance and volume of the parent.
CheckChild ==
    /\ role = "child" /\ prov.pc = "check"
    /\ prov' \in {[prov EXCEPT !.pc = "step"], Failing(prov)}
    /\ UNCHANGED <<role, server, parent>>

\* An operation is refused, accepted, or accepted with its reply lost.
Submit ==
    /\ prov.pc = "step" /\ Step \in Operation
    /\ \/ prov' = Failing(prov) /\ UNCHANGED server
       \/ /\ server' = [server EXCEPT !.op = Step, !.outcome = "none"]
          /\ prov' = [prov EXCEPT !.pc = "wait"]
       \/ /\ server' = [server EXCEPT !.op = Step, !.outcome = "none", !.lost = TRUE]
          /\ prov' = Failing(prov)
    /\ UNCHANGED <<role, parent>>

\* regenerateNICMACAndRetryStart: the start of a clone collided with the address of its source.
\* The error it returns joins that of the first start and that of the second.
RetryStart ==
    /\ role = "child" /\ Step = "start" /\ ~prov.retried
    /\ prov' \in {[prov EXCEPT !.pc = "step", !.retried = TRUE],
                 Submitted([prov EXCEPT !.retried = TRUE], Step)}

\* The operation has ended, or the context has.
Waited ==
    /\ prov.pc = "wait"
    /\ \/ server.outcome = "ok" /\ prov' = Succeeded(prov, Step)
       \/ server.outcome = "error" /\ (RetryStart \/ prov' = Submitted(prov, Step))
       \/ server.outcome = "none" /\ prov' = Submitted(prov, Step)
    /\ UNCHANGED <<role, server, parent>>

\* UpdateStorageVolume answers at once.  It may have done its work and fail.
LabelVolume ==
    /\ prov.pc = "step" /\ Step = "labelVolume"
    /\ \/ prov' = Succeeded(prov, Step) /\ server' = [server EXCEPT !.volume = "own"]
       \/ prov' = Failing(prov) /\ server' \in {server, [server EXCEPT !.volume = "own"]}
    /\ UNCHANGED <<role, parent>>

\* A step that changes nothing at the server.
Look(step) ==
    /\ prov.pc = "step" /\ Step = step
    /\ prov' \in {Succeeded(prov, Step), Failing(prov)}
    /\ UNCHANGED <<role, server, parent>>

VerifyDevices == Look("verify")

PrepareWorkspace == Look("prepare")

WaitAddress == Look("address")

\* ResourcePublished: the parent of a child gets the recovery ticket.
Publish ==
    /\ prov.pc = "ready" /\ role = "child" /\ ~prov.ticket
    /\ prov' = [prov EXCEPT !.ticket = TRUE]
    /\ UNCHANGED <<role, server, parent>>
-----------------------------------------------------------------------------
(* Cleanup and Destroy *)

\* A call of a client whose context may have ended may fail.
Fails(p) == [p EXCEPT !.cleanupErr = TRUE]

\* Mutant: a submitted operation is left to itself.
AwaitNothing ==
    /\ prov.pc = "await"
    /\ prov' = [prov EXCEPT !.pc = "probe"]
    /\ UNCHANGED <<role, server, parent>>

\* AwaitSubmittedOperation: of two submitted operations that an error joins it finds the first,
\* which has failed.
Await ==
    /\ prov.pc = "await"
    /\ \/ prov.submitted = "none" /\ prov' = [prov EXCEPT !.pc = "probe"]
       \/ prov.submitted = "last" /\ server.op = "none"
          /\ prov' = [prov EXCEPT !.pc = "probe", !.awaitErr = server.outcome = "error"]
       \/ prov.submitted = "first" /\ prov' = [prov EXCEPT !.pc = "probe", !.awaitErr = TRUE]
       \/ prov.submitted # "none"  \* the context of the cleanup ends
          /\ prov' = [prov EXCEPT !.pc = "probe", !.late = TRUE, !.awaitErr = TRUE]
    /\ UNCHANGED <<role, server, parent>>

\* Is the instance there, does it run?  A root asks only when it is not sure.
Probe ==
    LET after(p, stop) == [p EXCEPT !.pc = IF stop THEN "stop" ELSE "delete"]
        unsure == prov.instanceAmbiguous \/ prov.startAmbiguous
        none == [prov EXCEPT !.pc = "probeVolume", !.instanceOwned = FALSE] IN
    /\ prov.pc = "probe"
    /\ \/ ~prov.instanceOwned /\ prov' = [prov EXCEPT !.pc = "probeVolume"]
       \/ prov.instanceOwned /\ role = "root" /\ ~unsure /\ prov' = after(prov, prov.running)
       \/ /\ prov.instanceOwned /\ (role = "root" => unsure)
          /\ \/ Attached /\ prov' = after(prov, server.running)
             \/ ~Attached /\ prov' = none
             \/ role = "root" /\ prov' = after(Fails(prov), prov.running)
             \/ role = "child" /\ prov' = [Fails(prov) EXCEPT !.pc = "probeVolume"]
    /\ UNCHANGED <<role, server, parent>>

\* StopInstance.  A child that cannot be stopped is not deleted.
Stop ==
    /\ prov.pc = "stop"
    /\ \/ server' = Stopped /\ prov' = [prov EXCEPT !.pc = "delete"]
       \/ /\ UNCHANGED server
          /\ prov' = [Fails(prov) EXCEPT !.pc = IF role = "root" THEN "delete" ELSE "probeVolume"]
    /\ UNCHANGED <<role, parent>>

\* DeleteInstance: one that runs, or on which the server works, is refused.
Delete ==
    /\ prov.pc = "delete"
    /\ \/ (~Attached \/ MayDelete) /\ server' = Deleted /\ prov' = [prov EXCEPT !.pc = "probeVolume"]
       \/ /\ UNCHANGED server \/ (MayDelete /\ server' = Deleted)
          /\ prov' = [Fails(prov) EXCEPT !.pc = "probeVolume"]
    /\ UNCHANGED <<role, parent>>

\* Is a volume there whose copy was submitted only?
ProbeVolume ==
    /\ prov.pc = "probeVolume"
    /\ \/ /\ prov.volumeAmbiguous
          /\ \/ server.volume # "none" /\ prov' = [prov EXCEPT !.pc = "deleteVolume"]
             \/ server.volume = "none" /\ prov' = [prov EXCEPT !.pc = "deleteVolume", !.volumeOwned = FALSE]
             \/ prov' = [Fails(prov) EXCEPT !.pc = "deleteVolume", !.volumeOwned = role = "root"]
       \/ ~prov.volumeAmbiguous /\ prov' = [prov EXCEPT !.pc = "deleteVolume"]
    /\ UNCHANGED <<role, server, parent>>

\* DeleteStorageVolume: one in use is refused.
DeleteVolume ==
    LET end == IF prov.destroying THEN "destroyed" ELSE "failed" IN
    /\ prov.pc = "deleteVolume"
    /\ \/ ~prov.volumeOwned /\ prov' = [prov EXCEPT !.pc = end] /\ UNCHANGED server
       \/ /\ prov.volumeOwned /\ ~Attached
          /\ server' = WithoutVolume /\ prov' = [prov EXCEPT !.pc = end]
       \/ /\ prov.volumeOwned /\ prov' = [Fails(prov) EXCEPT !.pc = end]
          /\ UNCHANGED server \/ (~Attached /\ server' = WithoutVolume)
    /\ UNCHANGED <<role, parent>>

\* Destroy of what the session has used: the instance is probed, whatever it does.
Destroy ==
    /\ prov.pc = "ready"
    /\ prov' = [prov EXCEPT !.pc = "probe", !.destroying = TRUE, !.startAmbiguous = TRUE,
                           !.running = FALSE]
    /\ UNCHANGED <<role, server, parent>>

\* The process dies; the server still works on what it has accepted.
Crash ==
    /\ prov.pc \notin {"failed", "destroyed", "crashed"}
    /\ prov' = [prov EXCEPT !.pc = "crashed"]
    /\ \/ UNCHANGED server
       \/ prov.pc = "delete" /\ Attached /\ MayDelete /\ server' = [server EXCEPT !.op = "delete"]
    /\ UNCHANGED <<role, parent>>
-----------------------------------------------------------------------------
(* RecoverDirectChild, once the process of the child has gone *)

\* The metadata is that of the ticket.
Verified == server.instance \in {"none", "own"} /\ server.volume \in {"none", "own"}

\* Both are probed, and they and the socket verified against the ticket, before any is touched.
Recover ==
    /\ prov.ticket /\ prov.pc \in {"crashed", "destroyed"} /\ parent.pc = "idle"
    /\ \/ /\ Verified
          /\ parent' = [parent EXCEPT
                           !.pc = IF Attached /\ server.running THEN "stop" ELSE "delete",
                           !.instance = Attached, !.volume = server.volume # "none"]
       \/ parent' = [parent EXCEPT !.pc = "done", !.err = TRUE]
    /\ UNCHANGED <<role, server, prov>>

RecoverStop ==
    /\ parent.pc = "stop"
    /\ \/ server' = Stopped /\ parent' = [parent EXCEPT !.pc = "delete"]
       \/ UNCHANGED server /\ parent' = [parent EXCEPT !.pc = "done", !.err = TRUE]
    /\ UNCHANGED <<role, prov>>

RecoverDelete ==
    /\ parent.pc = "delete"
    /\ \/ ~parent.instance /\ UNCHANGED server /\ parent' = [parent EXCEPT !.pc = "deleteVolume"]
       \/ /\ parent.instance /\ (~Attached \/ MayDelete)
          /\ server' = Deleted /\ parent' = [parent EXCEPT !.pc = "deleteVolume"]
       \/ /\ parent.instance
          /\ UNCHANGED server /\ parent' = [parent EXCEPT !.pc = "deleteVolume", !.err = TRUE]
    /\ UNCHANGED <<role, prov>>

\* Mutant: the error of the deletion is dropped.
RecoverVolumeSilently ==
    /\ parent.pc = "deleteVolume"
    /\ parent' = [parent EXCEPT !.pc = "socket"]
    /\ server' \in {server, IF Attached THEN server ELSE WithoutVolume}
    /\ UNCHANGED <<role, prov>>

RecoverVolume ==
    /\ parent.pc = "deleteVolume"
    /\ \/ ~parent.volume /\ UNCHANGED server /\ parent' = [parent EXCEPT !.pc = "socket"]
       \/ /\ parent.volume /\ ~Attached
          /\ server' = WithoutVolume /\ parent' = [parent EXCEPT !.pc = "socket"]
       \/ /\ parent.volume
          /\ UNCHANGED server /\ parent' = [parent EXCEPT !.pc = "socket", !.err = TRUE]
    /\ UNCHANGED <<role, prov>>

\* unlinkRecoverySocket: refused when the socket is another than that of the ticket.
RecoverSocket ==
    /\ parent.pc = "socket"
    /\ \E refused \in BOOLEAN : parent' = [parent EXCEPT !.pc = "done", !.err = @ \/ refused]
    /\ UNCHANGED <<role, server, prov>>
-----------------------------------------------------------------------------
Provision ==
    \/ CheckRoot \/ CheckChild \/ Submit \/ Waited \/ LabelVolume
    \/ VerifyDevices \/ PrepareWorkspace \/ WaitAddress
Cleanup == Await \/ Probe \/ Stop \/ Delete \/ ProbeVolume \/ DeleteVolume
Recovery == RecoverStop \/ RecoverDelete \/ RecoverVolume \/ RecoverSocket

Next == Complete \/ Provision \/ Publish \/ Cleanup \/ Destroy \/ Crash \/ Recover \/ Recovery

Spec == Init /\ [][Next]_vars

-----------------------------------------------------------------------------
(* Properties *)

Left == server.instance # "none" \/ server.volume # "none" \/ server.op \in {"copyVolume", "makeInstance"}

\* A provision, or a Destroy, that ends with something of the session left, or on its way, has
\* said so: the error of a cleanup or of an await is part of its own.  A lost reply is beyond it.
NothingLeftUnsaid ==
    (prov.pc \in {"failed", "destroyed"} /\ Left)
        => prov.awaitErr \/ prov.cleanupErr \/ server.lost

\* An instance never runs under the identity, or with the workspace, of the one it was copied
\* from; and a provision that succeeds has one that runs (the order of ProvisionChild's steps).
RunsOnlyItsOwn ==
    /\ server.running => server.instance = "own" /\ server.volume = "own"
    /\ prov.pc = "ready" => server.running

\* A recovery that reports no error has left nothing.
RecoveredClean == (parent.pc = "done" /\ ~parent.err) => ~Left

\* The comment of AwaitSubmittedOperation (incusclient/client.go): it waits for a submitted
\* create, start or copy to reach its terminal state, on a bounded context.  So the cleanup goes
\* on only when the operation has ended or the context has.
AwaitedOrTimedOut ==
    (prov.pc = "probe" /\ ~prov.destroying /\ prov.submitted # "none" /\ ~prov.late
        /\ ~server.lost) => server.op = "none"
=============================================================================
