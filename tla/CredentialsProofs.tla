------------------------- MODULE CredentialsProofs -------------------------
(***************************************************************************)
(* Proofs about Credentials for any processes, number of locks, of         *)
(* credentials and of faults, with pauses and rotation or without: type    *)
(* correctness, an inductive invariant, that a refresh token is used once  *)
(* and that no update is lost while the lock is held.                      *)
(***************************************************************************)
EXTENDS Credentials, FiniteSetTheorems, TLAPS

USE CredentialsAssumption

-----------------------------------------------------------------------------
(* The inductive invariant *)

Pc == {"idle", "lock", "stat", "unmake", "steal", "read", "ask", "check", "write", "release",
       "rmdir"}

\* A refresh token is numbered like the credential that first had it.
TokensNumbered == \A n \in 1..Issued : endpoint.refresh[n] \in 1..Issued

\* A directory has been made by one process.
OneMaker == \A i \in Depth : \A p, q \in dir[i].by : p = q

\* What is in hand in each phase.
PhaseAt(p) ==
    /\ proc[p].pc \in {"idle", "release", "rmdir"} => proc[p].seen = 0 /\ proc[p].got = 0
    /\ proc[p].pc \in {"lock", "stat", "unmake", "steal"} => proc[p].seen = 0 \/ proc[p].got = 0
    /\ proc[p].pc = "read" => proc[p].got = 0
    /\ proc[p].pc = "ask" => proc[p].got = 0 /\ proc[p].seen # 0
    /\ proc[p].pc \in {"check", "write"} => proc[p].got # 0

\* Who writes has the directories it made, unless one was removed after the check or was not its own.
WriterAt(p) == proc[p].pc = "write" => (p \in faults.robbed \/ Keeper(p))

\* What was read under the locks is still what is saved.
SeenAt(p) ==
    (proc[p].pc \in {"ask", "check", "write"} /\ proc[p].seen # 0
        /\ p \notin faults.robbed /\ Keeper(p)) => file = proc[p].seen

\* A refresh token that is not accepted was lost, or is in the hands of a process of Q.
Accounted(token, Q) ==
    token \in endpoint.valid \cup endpoint.dropped \/ \E q \in Q : token \in Used(q)

\* So it is with the credential that is saved, and with the one that an owner is about to save.
SavedAccounted == Accounted(endpoint.refresh[file], Proc)
GotAt(p) ==
    (proc[p].pc \in {"check", "write"} /\ p \notin faults.robbed /\ Keeper(p))
        => Accounted(endpoint.refresh[proc[p].got], Proc \ {p})

\* Nobody else has the credential of a login before it is saved.
LoginAt(p) ==
    (proc[p].seen = 0 /\ proc[p].got # 0) =>
        /\ proc[p].got \in endpoint.valid
        /\ endpoint.refresh[proc[p].got] = proc[p].got /\ file # proc[p].got
        /\ \A m \in 1..Issued : m # proc[p].got => endpoint.refresh[m] # proc[p].got
        /\ \A q \in Proc \ {p} : proc[q].seen # proc[p].got /\ proc[q].got # proc[p].got

LockInv == OneMaker /\ \A p \in Proc : PhaseAt(p) /\ WriterAt(p) /\ SeenAt(p)
TokenInv == TokensNumbered /\ SavedAccounted /\ \A p \in Proc : GotAt(p) /\ LoginAt(p)
CredentialInv == TypeOK /\ LockInv /\ TokenInv

-----------------------------------------------------------------------------
(* Types *)

ProcRecord == [pc : Pc, seen : 0..Issued, got : 0..Issued,
               held : [Depth -> Inode \cup {NoInode}], lost : SUBSET Depth, paused : BOOLEAN]

\* The bounds of the model, and what a typed state has.
LEMMA Fields ==
    ASSUME TypeOK
    PROVE  /\ Issued \in Nat /\ file \in 1..Issued
           /\ endpoint.expired \in 0..Issued
           /\ \A n \in 1..Issued : endpoint.refresh[n] \in 1..MaxIssued
           /\ proc \in [Proc -> ProcRecord]
           /\ LockCount \in Nat /\ 1 \in Depth /\ Depth \subseteq Nat
           /\ 0 \notin Inode /\ Inode \subseteq Nat
<1>1. Cardinality(Proc) \in Nat
  BY FS_CardinalityType
<1>2. /\ endpoint.refresh \in Seq(1..MaxIssued) /\ endpoint.expired \in 0..Issued
  BY DEF TypeOK
<1> QED
  BY <1>1, <1>2 DEF TypeOK, Issued, ProcRecord, Pc, Inode, Depth

\* The field of a process that a step writes keeps it typed.
LEMMA RecordMoves ==
    ASSUME NEW r \in ProcRecord
    PROVE  /\ \A pc \in Pc : [r EXCEPT !.pc = pc] \in ProcRecord
           /\ \A b \in BOOLEAN : [r EXCEPT !.paused = b] \in ProcRecord
           /\ \A pc \in Pc, n \in 0..Issued :
                 /\ [r EXCEPT !.pc = pc, !.seen = n] \in ProcRecord
                 /\ [r EXCEPT !.seen = n, !.pc = pc] \in ProcRecord
           /\ \A pc \in Pc, n, m \in 0..Issued :
                 /\ [r EXCEPT !.pc = pc, !.seen = n, !.got = m] \in ProcRecord
                 /\ [r EXCEPT !.seen = n, !.got = m, !.pc = pc] \in ProcRecord
           /\ \A i \in Depth, ino \in Inode \cup {NoInode} :
                 [r EXCEPT !.held[i] = ino] \in ProcRecord
           /\ \A pc \in Pc, i \in Depth, ino \in Inode \cup {NoInode} :
                 [r EXCEPT !.held[i] = ino, !.pc = pc] \in ProcRecord
BY Zenon DEF ProcRecord

\* Nothing has been issued that is numbered 0.
LEMMA IdleIsTyped == Issued \in Nat => Idle \in ProcRecord
<1> SUFFICES ASSUME Issued \in Nat PROVE Idle \in ProcRecord
  OBVIOUS
<1>1. 0 \in 0..Issued
  OBVIOUS
<1>2. [i \in Depth |-> NoInode] \in [Depth -> Inode \cup {NoInode}]
  OBVIOUS
<1> QED
  BY <1>1, <1>2, Zenon DEF Idle, ProcRecord, Pc

\* What the processes do to themselves keeps them typed.
LEMMA ProcMoves ==
    ASSUME TypeOK, NEW p \in Proc
    PROVE  /\ \A pc \in Pc : [proc EXCEPT ![p].pc = pc] \in [Proc -> ProcRecord]
           /\ \A pc \in Pc, n, m \in 0..Issued :
                 /\ [proc EXCEPT ![p].pc = pc, ![p].seen = n, ![p].got = m] \in [Proc -> ProcRecord]
                 /\ [proc EXCEPT ![p].seen = n, ![p].got = m, ![p].pc = pc] \in [Proc -> ProcRecord]
           /\ \A pc \in Pc, n \in 0..Issued :
                 /\ [proc EXCEPT ![p].pc = pc, ![p].seen = n] \in [Proc -> ProcRecord]
                 /\ [proc EXCEPT ![p].seen = n, ![p].pc = pc] \in [Proc -> ProcRecord]
           /\ \A b \in BOOLEAN : [proc EXCEPT ![p].paused = b] \in [Proc -> ProcRecord]
           /\ [proc EXCEPT ![p] = Idle] \in [Proc -> ProcRecord]
           /\ \A pc \in Pc, i \in Depth, ino \in Inode \cup {NoInode} :
                 /\ [proc EXCEPT ![p].held[i] = ino] \in [Proc -> ProcRecord]
                 /\ [proc EXCEPT ![p].held[i] = ino, ![p].pc = pc] \in [Proc -> ProcRecord]
<1> DEFINE S == [Proc -> ProcRecord]
<1>1. proc \in S /\ proc[p] \in ProcRecord /\ Issued \in Nat
  BY Fields
<1>2. \A r \in ProcRecord : [proc EXCEPT ![p] = r] \in S
  BY <1>1, Zenon
<1>3. \A pc \in Pc : [proc EXCEPT ![p].pc = pc] \in S
  BY <1>1, RecordMoves, Zenon
<1>4. \A pc \in Pc, n, m \in 0..Issued :
         /\ [proc EXCEPT ![p].pc = pc, ![p].seen = n, ![p].got = m] \in S
         /\ [proc EXCEPT ![p].seen = n, ![p].got = m, ![p].pc = pc] \in S
  BY <1>1, RecordMoves, Zenon
<1>5. \A pc \in Pc, n \in 0..Issued :
         /\ [proc EXCEPT ![p].pc = pc, ![p].seen = n] \in S
         /\ [proc EXCEPT ![p].seen = n, ![p].pc = pc] \in S
  BY <1>1, RecordMoves, Zenon
<1>6. \A b \in BOOLEAN : [proc EXCEPT ![p].paused = b] \in S
  BY <1>1, RecordMoves, Zenon
<1>7. \A pc \in Pc, i \in Depth, ino \in Inode \cup {NoInode} :
         /\ [proc EXCEPT ![p].held[i] = ino] \in S
         /\ [proc EXCEPT ![p].held[i] = ino, ![p].pc = pc] \in S
  BY <1>1, RecordMoves, Zenon
<1> QED
  BY <1>1, <1>2, <1>3, <1>4, <1>5, <1>6, <1>7, IdleIsTyped, Zenon
-----------------------------------------------------------------------------
(* The locks *)

-----------------------------------------------------------------------------
(* Every step keeps the types *)

DirType == [Depth -> [ino : Inode \cup {NoInode}, stale : BOOLEAN, by : SUBSET Proc]]
EndpointType == [refresh : Seq(1..MaxIssued), valid : SUBSET (1..MaxIssued),
                 expired : 0..Issued, dropped : SUBSET (1..MaxIssued)]
FaultsType == [count : 0..MaxFaults, robbed : SUBSET Proc]

\* The parts of the type invariant.
LEMMA Typed ==
    TypeOK <=> /\ file \in 1..Issued /\ endpoint \in EndpointType /\ dir \in DirType
               /\ proc \in [Proc -> ProcRecord] /\ faults \in FaultsType
BY DEF TypeOK, ProcRecord, Pc, DirType, EndpointType, FaultsType

\* A state is typed when its parts are and nothing issued is forgotten.
LEMMA TypedNext ==
    ASSUME file' \in 1..Issued', endpoint' \in EndpointType', dir' \in DirType,
           proc' \in [Proc -> ProcRecord'], faults' \in FaultsType
    PROVE  TypeOK'
BY DEF TypeOK, ProcRecord, Pc, DirType, EndpointType, FaultsType

\* A directory that is made, touched, aged or removed is typed.
LEMMA DirMoves ==
    ASSUME dir \in DirType
    PROVE  /\ \A i : \A ino \in Inode, B \in SUBSET Proc :
                 [dir EXCEPT ![i] = [ino |-> ino, stale |-> FALSE, by |-> B]] \in DirType
           /\ \A P \in SUBSET Proc :
                 [i \in Depth |-> [dir[i] EXCEPT !.by = @ \ P]] \in DirType
           /\ \A i : [dir EXCEPT ![i] = NoDir] \in DirType
           /\ \A i : \A b \in BOOLEAN : [dir EXCEPT ![i].stale = b] \in DirType
<1> DEFINE D == [ino : Inode \cup {NoInode}, stale : BOOLEAN, by : SUBSET Proc]
<1>1. NoDir \in D /\ \A ino \in Inode, B \in SUBSET Proc : [ino |-> ino, stale |-> FALSE, by |-> B] \in D
  <2>1. {} \in SUBSET Proc
    OBVIOUS
  <2> QED
    BY <2>1, Zenon DEF NoDir
<1>2. \A r \in D, b \in BOOLEAN : [r EXCEPT !.stale = b] \in D
  BY Zenon
<1>3. ASSUME NEW r \in D, NEW P \in SUBSET Proc PROVE [r EXCEPT !.by = @ \ P] \in D
  <2>1. r.by \ P \in SUBSET Proc
    OBVIOUS
  <2> QED
    BY <2>1, Zenon
<1>4. dir \in [Depth -> D]
  BY DEF DirType
<1> HIDE DEF D
<1>5. \A P \in SUBSET Proc : [i \in Depth |-> [dir[i] EXCEPT !.by = @ \ P]] \in [Depth -> D]
  BY <1>3, <1>4, Zenon
<1>6. /\ \A i : \A ino \in Inode, B \in SUBSET Proc :
            [dir EXCEPT ![i] = [ino |-> ino, stale |-> FALSE, by |-> B]] \in [Depth -> D]
      /\ \A i : [dir EXCEPT ![i] = NoDir] \in [Depth -> D]
      /\ \A i : \A b \in BOOLEAN : [dir EXCEPT ![i].stale = b] \in [Depth -> D]
  BY <1>1, <1>2, <1>4, Zenon
<1> QED
  BY <1>5, <1>6 DEF DirType, D

\* Crashes are counted and the robbed forgotten, typed.
LEMMA FaultsMove ==
    ASSUME faults \in FaultsType
    PROVE  /\ \A R \in SUBSET Proc : [faults EXCEPT !.robbed = R] \in FaultsType
           /\ faults.count < MaxFaults =>
                \A R \in SUBSET Proc :
                   /\ [faults EXCEPT !.count = @ + 1] \in FaultsType
                   /\ [faults EXCEPT !.count = @ + 1, !.robbed = R] \in FaultsType
<1>1. faults.count < MaxFaults => faults.count + 1 \in 0..MaxFaults
  BY DEF FaultsType
<1> QED
  BY <1>1, Zenon DEF FaultsType

\* What the provider forgets or has dropped keeps it typed.
LEMMA EndpointMoves ==
    ASSUME endpoint \in EndpointType
    PROVE  /\ \A D \in SUBSET (1..MaxIssued) : [endpoint EXCEPT !.dropped = D] \in EndpointType
           /\ \A n \in 0..Issued : [endpoint EXCEPT !.expired = n] \in EndpointType
BY Zenon DEF EndpointType

\* The steps of the locks.
LEMMA LockStepsTyped ==
    ASSUME TypeOK, NEW p \in Proc, NEW i \in Depth,
           \/ Mkdir(p) \/ Stat(p) \/ Unmake(p) \/ SeeStale(p) \/ Steal(p) \/ GiveUp(p)
           \/ Beat(p, i) \/ BeatFails(p, i) \/ Age(i) \/ Unlock(p) \/ Rmdir(p)
    PROVE  TypeOK'
<1>1. /\ file \in 1..Issued /\ endpoint \in EndpointType /\ dir \in DirType
      /\ proc \in [Proc -> ProcRecord] /\ faults \in FaultsType /\ 0 \in 0..Issued
  BY Typed, Fields
<1>2. UNCHANGED <<file, endpoint>>
  BY DEF Mkdir, Stat, Unmake, SeeStale, Steal, GiveUp, Beat, BeatFails, Age, Unlock, Rmdir
<1>3. dir' \in DirType
  <2>1. CASE Mkdir(p)
    <3>1. PICK ino \in Inode :
             dir' = [dir EXCEPT ![Next1(p)] = [ino |-> ino, stale |-> FALSE, by |-> {p}]]
      BY <2>1, Zenon DEF Mkdir
    <3>2. {p} \in SUBSET Proc
      OBVIOUS
    <3> QED
      BY <1>1, <3>1, <3>2, DirMoves, Zenon
  <2>2. CASE Stat(p) \/ SeeStale(p) \/ GiveUp(p) \/ Unlock(p) \/ BeatFails(p, i)
    BY <1>1, <2>2 DEF Stat, SeeStale, GiveUp, Unlock, BeatFails
  <2>3. CASE Unmake(p) \/ Steal(p) \/ Rmdir(p)
    <3>1. \E j : dir' = [dir EXCEPT ![j] = NoDir]
      BY <2>3, Zenon DEF Unmake, Steal, Rmdir, Removed
    <3> QED
      BY <1>1, <3>1, DirMoves, Zenon
  <2>4. CASE Beat(p, i) \/ Age(i)
    <3>1. dir' = dir \/ \E b \in BOOLEAN : dir' = [dir EXCEPT ![i].stale = b]
      BY <2>4 DEF Beat, Age
    <3>2. \A b \in BOOLEAN : [dir EXCEPT ![i].stale = b] \in DirType
      BY <1>1, DirMoves, Zenon
    <3> QED
      BY <1>1, <3>1, <3>2, Zenon
  <2> QED
    BY <2>1, <2>2, <2>3, <2>4
<1>4. proc' \in [Proc -> ProcRecord]
  <2>1. CASE Mkdir(p) \/ SeeStale(p) \/ Steal(p)
    <3>1. \E c \in Pc : proc' = [proc EXCEPT ![p].pc = c]
      BY <2>1 DEF Mkdir, SeeStale, Steal, Goto, Pc
    <3>2. \A c \in Pc : [proc EXCEPT ![p].pc = c] \in [Proc -> ProcRecord]
      BY ProcMoves, Zenon
    <3> QED
      BY <3>1, <3>2, Zenon
  <2>2. CASE Stat(p)
    <3>1. \/ proc' = [proc EXCEPT ![p].pc = "unmake"]
          \/ \E c \in Pc : proc' = [proc EXCEPT ![p].held[Next1(p)] = dir[Next1(p)].ino, ![p].pc = c]
      BY <2>2 DEF Stat, Goto, Pc
    <3> DEFINE j == Next1(p)
    <3> HIDE DEF j
    <3>2. CASE proc' = [proc EXCEPT ![p].pc = "unmake"]
      BY <3>2, ProcMoves, Zenon DEF Pc
    <3>3. CASE \E c \in Pc : proc' = [proc EXCEPT ![p].held[j] = dir[j].ino, ![p].pc = c]
      <4>1. PICK c \in Pc : proc' = [proc EXCEPT ![p].held[j] = dir[j].ino, ![p].pc = c]
        BY <3>3
      <4>2. CASE j \in Depth
        <5>1. dir[j].ino \in Inode \cup {NoInode}
          BY <1>1, <4>2 DEF DirType
        <5> QED
          BY <4>1, <4>2, <5>1, ProcMoves, Zenon
      <4>3. CASE j \notin Depth
        <5>1. PICK ino : ino = dir[j].ino
          OBVIOUS
        <5>2. [proc[p].held EXCEPT ![j] = ino] \in [Depth -> Inode \cup {NoInode}]
          <6>1. PICK hd : hd = proc[p].held /\ hd \in [Depth -> Inode \cup {NoInode}]
            BY <1>1 DEF ProcRecord
          <6>2. [hd EXCEPT ![j] = ino] = [k \in Depth |-> hd[k]]
            BY <4>3, <6>1
          <6> QED
            BY <6>1, <6>2
        <5>3. [proc[p] EXCEPT !.held[j] = ino] \in ProcRecord
          BY <1>1, <5>2, Zenon DEF ProcRecord
        <5>4. proc' = [proc EXCEPT ![p].held[j] = ino, ![p].pc = c]
          BY <4>1, <5>1
        <5> QED
          BY <1>1, <5>3, <5>4, RecordMoves, Zenon
      <4> QED
        BY <4>2, <4>3
    <3> QED
      BY <3>1, <3>2, <3>3 DEF j
  <2>3. CASE GiveUp(p) \/ Unmake(p)
    <3>1. Done(p) /\ "release" \in Pc
      BY <2>3 DEF GiveUp, Unmake, Pc
    <3> QED
      BY <1>1, <3>1, ProcMoves, Zenon DEF Done
  <2>4. CASE Beat(p, i) \/ BeatFails(p, i) \/ Age(i)
    <3>1. proc' = proc \/ proc' = [proc EXCEPT ![p].lost = @ \cup {i}]
      BY <2>4 DEF Beat, BeatFails, Age, Lose
    <3>2. proc[p].lost \cup {i} \in SUBSET Depth
      BY <1>1 DEF ProcRecord
    <3>3. [proc[p] EXCEPT !.lost = @ \cup {i}] \in ProcRecord
      BY <1>1, <3>2, Zenon DEF ProcRecord
    <3> QED
      BY <1>1, <3>1, <3>3, Zenon
  <2>5. CASE Unlock(p) \/ Rmdir(p)
    <3>1. \A j : \A c \in Pc : /\ [proc EXCEPT ![p].held[j] = NoInode] \in [Proc -> ProcRecord]
                               /\ [proc EXCEPT ![p].held[j] = NoInode, ![p].pc = c] \in [Proc -> ProcRecord]
      <4>1. \A j : [proc[p] EXCEPT !.held[j] = NoInode] \in ProcRecord
        BY <1>1, Zenon DEF ProcRecord
      <4> QED
        BY <1>1, <4>1, RecordMoves, Zenon
    <3>2. \/ proc' = [proc EXCEPT ![p] = Idle]
          \/ \E c \in Pc : proc' = [proc EXCEPT ![p].pc = c]
          \/ \E j : proc' = [proc EXCEPT ![p].held[j] = NoInode]
          \/ \E j : \E c \in Pc : proc' = [proc EXCEPT ![p].held[j] = NoInode, ![p].pc = c]
      BY <2>5 DEF Unlock, Rmdir, Pc
    <3>3. \A c \in Pc : [proc EXCEPT ![p].pc = c] \in [Proc -> ProcRecord]
      BY ProcMoves, Zenon
    <3>4. [proc EXCEPT ![p] = Idle] \in [Proc -> ProcRecord]
      BY ProcMoves, Zenon
    <3>5. CASE \E j : \E c \in Pc : proc' = [proc EXCEPT ![p].held[j] = NoInode, ![p].pc = c]
      <4>1. PICK j : \E c \in Pc : proc' = [proc EXCEPT ![p].held[j] = NoInode, ![p].pc = c]
        BY <3>5, Zenon
      <4>2. PICK c \in Pc : proc' = [proc EXCEPT ![p].held[j] = NoInode, ![p].pc = c]
        BY <4>1, Zenon
      <4>3. [proc EXCEPT ![p].held[j] = NoInode, ![p].pc = c] \in [Proc -> ProcRecord]
        BY <3>1, Zenon
      <4> QED
        BY <4>2, <4>3, Zenon
    <3>6. CASE \E j : proc' = [proc EXCEPT ![p].held[j] = NoInode]
      <4>1. PICK j : proc' = [proc EXCEPT ![p].held[j] = NoInode]
        BY <3>6, Zenon
      <4>2. "idle" \in Pc
        BY DEF Pc
      <4>3. [proc EXCEPT ![p].held[j] = NoInode] \in [Proc -> ProcRecord]
        BY <3>1, <4>2, Zenon
      <4> QED
        BY <4>1, <4>3, Zenon
    <3>7. CASE \E c \in Pc : proc' = [proc EXCEPT ![p].pc = c]
      BY <3>3, <3>7, Zenon
    <3> QED
      BY <3>2, <3>4, <3>5, <3>6, <3>7, Zenon
  <2> QED
    BY <2>1, <2>2, <2>3, <2>4, <2>5
<1>5. faults' \in FaultsType
  <2>1. CASE Mkdir(p) \/ Stat(p) \/ SeeStale(p) \/ GiveUp(p) \/ Beat(p, i) \/ Age(i)
    BY <1>1, <2>1 DEF Mkdir, Stat, SeeStale, GiveUp, Beat, Age
  <2>2. CASE Unmake(p) \/ Steal(p) \/ Rmdir(p)
    <3>1. faults.robbed \subseteq Proc
      BY <1>1 DEF FaultsType
    <3>2. \E R \in SUBSET Proc : faults' = [faults EXCEPT !.robbed = R]
      BY <2>2, <3>1 DEF Unmake, Steal, Rmdir, Removed
    <3> QED
      BY <1>1, <3>2, FaultsMove, Zenon
  <2>3. CASE Unlock(p)
    <3>1. faults.robbed \subseteq Proc
      BY <1>1 DEF FaultsType
    <3>2. faults' = faults \/ \E R \in SUBSET Proc : faults' = [faults EXCEPT !.robbed = R]
      BY <2>3, <3>1 DEF Unlock
    <3> QED
      BY <1>1, <3>2, FaultsMove, Zenon
  <2>4. CASE BeatFails(p, i)
    BY <1>1, <2>4, FaultsMove DEF BeatFails, FaultsType
  <2> QED
    BY <2>1, <2>2, <2>3, <2>4
<1> QED
  <2>1. Issued' = Issued
    BY <1>2 DEF Issued
  <2>2. EndpointType' = EndpointType /\ ProcRecord' = ProcRecord
    BY <2>1 DEF EndpointType, ProcRecord
  <2> QED
    BY <1>1, <1>2, <1>3, <1>4, <1>5, <2>1, <2>2, TypedNext

\* The steps of Token and Login that neither ask the provider nor save.
LEMMA PlainStepsTyped ==
    ASSUME TypeOK, NEW p \in Proc,
           \/ Request(p) \/ Read(p) \/ AskInVain(p) \/ Check(p) \/ WriteFails(p) \/ Crash(p)
           \/ Pause(p) \/ Resume(p)
    PROVE  TypeOK'
<1>1. /\ file \in 1..Issued /\ endpoint \in EndpointType /\ dir \in DirType
      /\ proc \in [Proc -> ProcRecord] /\ faults \in FaultsType /\ 0 \in 0..Issued
      /\ file \in 0..Issued
  BY Typed, Fields
<1>2. file' = file /\ dir' \in DirType
  <2>1. CASE Crash(p)
    <3>1. dir' = [i \in Depth |-> [dir[i] EXCEPT !.by = @ \ {p}]] /\ file' = file
      BY <2>1 DEF Crash
    <3>2. {p} \in SUBSET Proc
      OBVIOUS
    <3> QED
      BY <1>1, <3>1, <3>2, DirMoves, Zenon
  <2> QED
    BY <1>1, <2>1 DEF Request, Read, AskInVain, Check, WriteFails, Pause, Resume
<1>3. Used(p) \subseteq 1..MaxIssued /\ endpoint.dropped \subseteq 1..MaxIssued
  <2>1. proc[p].seen \in 0..Issued
    BY <1>1 DEF ProcRecord
  <2>2. proc[p].seen # 0 => endpoint.refresh[proc[p].seen] \in 1..MaxIssued
    BY <2>1, Fields
  <2> QED
    BY <1>1, <2>2 DEF Used, Refreshing, EndpointType
<1>4. endpoint' \in EndpointType /\ Issued' = Issued
  <2>1. CASE Request(p) \/ Read(p) \/ AskInVain(p) \/ Pause(p) \/ Resume(p)
    BY <1>1, <2>1 DEF Request, Read, AskInVain, Pause, Resume, Issued
  <2>2. CASE Check(p) \/ WriteFails(p) \/ Crash(p)
    <3>1. PICK D \in SUBSET (1..MaxIssued) : endpoint' = [endpoint EXCEPT !.dropped = D]
      BY <1>3, <2>2 DEF Check, WriteFails, Crash
    <3> QED
      BY <1>1, <3>1, EndpointMoves DEF EndpointType, Issued
  <2> QED
    BY <2>1, <2>2
<1>5. proc' \in [Proc -> ProcRecord]
  <2>1. CASE Request(p)
    <3>1. "lock" \in Pc
      BY DEF Pc
    <3> QED
      BY <1>1, <2>1, <3>1, ProcMoves, Zenon DEF Request
  <2>2. CASE Read(p)
    <3>1. {"ask", "check", "release"} \subseteq Pc
      BY DEF Pc
    <3>2. CASE proc' = [proc EXCEPT ![p].seen = file, ![p].pc = "ask"]
      BY <1>1, <3>1, <3>2, ProcMoves, Zenon
    <3>3. CASE Done(p)
      BY <1>1, <3>1, <3>3, ProcMoves, Zenon DEF Done
    <3>4. CASE proc' = [proc EXCEPT ![p].seen = file, ![p].got = file, ![p].pc = "check"]
      BY <1>1, <3>1, <3>4, ProcMoves, Zenon
    <3> QED
      BY <2>2, <3>2, <3>3, <3>4 DEF Read
  <2>3. CASE AskInVain(p) \/ Check(p) \/ WriteFails(p)
    <3>1. {"write", "release"} \subseteq Pc
      BY DEF Pc
    <3>2. CASE Done(p)
      BY <1>1, <3>1, <3>2, ProcMoves, Zenon DEF Done
    <3>3. CASE Goto(p, "write")
      BY <3>1, <3>3, ProcMoves, Zenon DEF Goto
    <3> QED
      BY <2>3, <3>2, <3>3 DEF AskInVain, Check, WriteFails
  <2>4. CASE Crash(p)
    BY <2>4, ProcMoves, Zenon DEF Crash
  <2>5. CASE Pause(p)
    BY <2>5, ProcMoves, Zenon DEF Pause
  <2>6. CASE Resume(p)
    BY <2>6, ProcMoves, Zenon DEF Resume
  <2> QED
    BY <2>1, <2>2, <2>3, <2>4, <2>5, <2>6
<1>6. faults' \in FaultsType
  <2>1. CASE Crash(p)
    <3>1. PICK R \in SUBSET Proc : faults' = [faults EXCEPT !.count = @ + 1, !.robbed = R]
      BY <1>1, <2>1 DEF Crash, FaultsType
    <3>2. faults.count < MaxFaults
      BY <2>1 DEF Crash
    <3> QED
      BY <1>1, <3>1, <3>2, FaultsMove, Zenon
  <2>2. CASE Pause(p) \/ WriteFails(p)
    <3>1. faults.count < MaxFaults /\ faults' = [faults EXCEPT !.count = @ + 1]
      BY <2>2 DEF Pause, WriteFails
    <3>2. {} \in SUBSET Proc
      OBVIOUS
    <3> QED
      BY <1>1, <3>1, <3>2, FaultsMove, Zenon
  <2>3. CASE Check(p)
    <3>1. PICK R \in SUBSET Proc : faults' = [faults EXCEPT !.robbed = R]
      <4>1. faults.robbed \cup (IF Owner(p) /\ ~Keeper(p) THEN {p} ELSE {}) \in SUBSET Proc
        BY <1>1 DEF FaultsType
      <4>2. faults' = [faults EXCEPT !.robbed = faults.robbed \cup (IF Owner(p) /\ ~Keeper(p) THEN {p} ELSE {})]
        BY <2>3, Zenon DEF Check
      <4> QED
        BY <4>1, <4>2, Zenon
    <3> QED
      BY <1>1, <3>1, FaultsMove, Zenon
  <2> QED
    BY <1>1, <2>1, <2>2, <2>3 DEF Request, Read, AskInVain, Resume
<1> QED
  <2>1. EndpointType' = EndpointType /\ ProcRecord' = ProcRecord
    BY <1>4 DEF EndpointType, ProcRecord
  <2> QED
    BY <1>1, <1>2, <1>4, <1>5, <1>6, <2>1, TypedNext

\* What is issued is the next number; everything known before stays.
LEMMA IssuedTyped ==
    ASSUME TypeOK, NEW p \in Proc, NEW token \in 1..MaxIssued, Issued < MaxIssued,
           endpoint'.refresh = Append(endpoint.refresh, token)
    PROVE  /\ Issued' = Issued + 1
           /\ \A n \in 1..Issued : endpoint'.refresh[n] = endpoint.refresh[n]
           /\ endpoint'.refresh[Issued + 1] = token
           /\ endpoint'.refresh \in Seq(1..MaxIssued)
           /\ ProcRecord \subseteq ProcRecord'
           /\ proc \in [Proc -> ProcRecord'] /\ proc[p] \in ProcRecord'
<1>1. endpoint.refresh \in Seq(1..MaxIssued)
  BY DEF TypeOK
<1>2. /\ Issued' = Issued + 1 /\ Issued \in Nat
      /\ \A n \in 1..Issued : endpoint'.refresh[n] = endpoint.refresh[n]
      /\ endpoint'.refresh[Issued + 1] = token
      /\ endpoint'.refresh \in Seq(1..MaxIssued)
  BY <1>1 DEF Issued
<1>3. 0..Issued \subseteq 0..Issued'
  BY <1>2
<1>4. ProcRecord \subseteq ProcRecord'
  BY <1>3 DEF ProcRecord
<1> QED
  BY <1>2, <1>4, Fields

\* The provider stays typed when it issues.
LEMMA EndpointNext ==
    ASSUME endpoint \in EndpointType, endpoint'.refresh \in Seq(1..MaxIssued),
           Issued \in Nat, Issued' = Issued + 1,
           NEW V \in SUBSET (1..MaxIssued), NEW D \in SUBSET (1..MaxIssued),
           endpoint' = [endpoint EXCEPT !.refresh = endpoint'.refresh, !.valid = V, !.dropped = D]
    PROVE  endpoint' \in EndpointType'
<1> DEFINE S == endpoint'.refresh
<1>1. S \in Seq(1..MaxIssued)
  OBVIOUS
<1>2. endpoint' = [endpoint EXCEPT !.refresh = S, !.valid = V, !.dropped = D]
  OBVIOUS
<1> HIDE DEF S
<1>3. endpoint.expired \in 0..Issued'
  BY DEF EndpointType
<1>4. endpoint' = [refresh |-> S, valid |-> V, expired |-> endpoint.expired, dropped |-> D]
  BY <1>2, Zenon DEF EndpointType
<1> QED
  BY <1>1, <1>3, <1>4, Zenon DEF EndpointType

\* The steps that the provider takes part in, the save, and time.
LEMMA ProviderStepsTyped ==
    ASSUME CredentialInv, NEW p \in Proc,
           Ask(p) \/ Authorized(p) \/ Write(p) \/ Expire
    PROVE  TypeOK'
<1>1. /\ file \in 1..Issued /\ endpoint \in EndpointType /\ dir \in DirType
      /\ proc \in [Proc -> ProcRecord] /\ faults \in FaultsType /\ Issued \in Nat
  BY Typed, Fields DEF CredentialInv
<1>2. /\ proc[p].seen \in 0..Issued /\ proc[p].got \in 0..Issued
      /\ PhaseAt(p)
  BY <1>1 DEF CredentialInv, LockInv, ProcRecord
<1>3. TypeOK /\ 0 \in 0..Issued
  BY <1>1 DEF CredentialInv
<1>4. {"check", "release", "lock"} \subseteq Pc
  BY DEF Pc
<1>5. CASE Ask(p)
  <2> DEFINE token == endpoint.refresh[proc[p].seen]
             n == Issued + 1
  <2>0. proc[p].pc = "ask" /\ n <= MaxIssued /\ UNCHANGED <<file, dir, faults>>
    BY <1>5, Zenon DEF Ask, At
  <2>1. token \in 1..MaxIssued /\ n \in 1..MaxIssued /\ Issued < MaxIssued
    <3>1. proc[p].seen \in 1..Issued
      BY <1>2, <1>1, <2>0 DEF PhaseAt
    <3>2. token \in 1..MaxIssued
      BY <1>3, <3>1, Fields
    <3>3. MaxIssued \in Nat
      OBVIOUS
    <3> QED
      BY <1>1, <2>0, <3>2, <3>3
  <2>2. PICK rotated \in Rotation, replied \in BOOLEAN :
          /\ endpoint' = [endpoint EXCEPT
                 !.refresh = Append(@, IF rotated THEN n ELSE token),
                 !.valid = IF rotated THEN (@ \ {token}) \cup {n} ELSE @,
                 !.dropped = IF replied THEN @ ELSE @ \cup {token}]
          /\ IF replied THEN proc' = [proc EXCEPT ![p].got = n, ![p].pc = "check"] ELSE Done(p)
    BY <1>5, RotationAssumption DEF Ask
  <2> DEFINE t == IF rotated THEN n ELSE token
  <2>3. t \in 1..MaxIssued
    BY <2>1
  <2> HIDE DEF token, n
  <2>4. endpoint'.refresh = Append(endpoint.refresh, t)
    BY <1>1, <2>2 DEF EndpointType
  <2> HIDE DEF t
  <2>5. /\ Issued' = Issued + 1 /\ endpoint'.refresh \in Seq(1..MaxIssued)
        /\ proc \in [Proc -> ProcRecord'] /\ proc[p] \in ProcRecord'
    BY <1>3, <2>1, <2>3, <2>4, IssuedTyped
  <2>6. endpoint' \in EndpointType'
    <3>1. PICK V, D : /\ V \in SUBSET (1..MaxIssued) /\ D \in SUBSET (1..MaxIssued)
                      /\ endpoint' = [endpoint EXCEPT !.refresh = endpoint'.refresh, !.valid = V, !.dropped = D]
      <4> DEFINE V == IF rotated THEN (endpoint.valid \ {token}) \cup {n} ELSE endpoint.valid
                 D == IF replied THEN endpoint.dropped ELSE endpoint.dropped \cup {token}
      <4>1. V \in SUBSET (1..MaxIssued) /\ D \in SUBSET (1..MaxIssued)
        BY <1>1, <2>1 DEF EndpointType
      <4>2. endpoint' = [endpoint EXCEPT !.refresh = endpoint'.refresh, !.valid = V, !.dropped = D]
        BY <1>1, <2>2 DEF EndpointType
      <4> HIDE DEF V, D
      <4> QED
        BY <4>1, <4>2
    <3> QED
      BY <1>1, <2>5, <3>1, EndpointNext, Zenon
  <2>7. proc' \in [Proc -> ProcRecord']
    <3>1. n \in 0..Issued' /\ 0 \in 0..Issued'
      BY <1>1, <2>5 DEF n
    <3>2. /\ [proc[p] EXCEPT !.got = n, !.pc = "check"] \in ProcRecord'
          /\ [proc[p] EXCEPT !.pc = "release", !.seen = 0, !.got = 0] \in ProcRecord'
      BY <1>4, <2>5, <3>1, Zenon DEF ProcRecord
    <3>3. CASE replied
      BY <2>2, <2>5, <3>2, <3>3, Zenon
    <3>4. CASE ~replied
      BY <2>2, <2>5, <3>2, <3>4, Zenon DEF Done
    <3> QED
      BY <3>3, <3>4
  <2>8. UNCHANGED <<file, dir, faults>> /\ file \in 1..Issued'
    BY <1>1, <2>0, <2>5
  <2>9. FaultsType' = FaultsType /\ DirType' = DirType
    BY DEF FaultsType, DirType
  <2> QED
    BY <1>1, <2>6, <2>7, <2>8, <2>9, TypedNext
<1>6. CASE Authorized(p)
  <2> DEFINE n == Issued + 1
  <2>1. n \in 1..MaxIssued /\ Issued < MaxIssued
    BY <1>1, <1>6 DEF Authorized
  <2>2. /\ endpoint' = [endpoint EXCEPT !.refresh = Append(@, n), !.valid = @ \cup {n}]
        /\ proc' = [proc EXCEPT ![p].pc = "lock", ![p].got = n]
        /\ UNCHANGED <<file, dir, faults>>
    BY <1>6 DEF Authorized
  <2> HIDE DEF n
  <2>4. endpoint'.refresh = Append(endpoint.refresh, n)
    BY <1>1, <2>2 DEF EndpointType
  <2>5. /\ Issued' = Issued + 1 /\ endpoint'.refresh \in Seq(1..MaxIssued)
        /\ proc \in [Proc -> ProcRecord'] /\ proc[p] \in ProcRecord'
    BY <1>3, <2>1, <2>4, IssuedTyped
  <2>6. endpoint' \in EndpointType'
    <3> DEFINE V == endpoint.valid \cup {n}
    <3>1. V \in SUBSET (1..MaxIssued) /\ endpoint.dropped \in SUBSET (1..MaxIssued)
      BY <1>1, <2>1 DEF EndpointType
    <3>2. endpoint' = [endpoint EXCEPT !.refresh = endpoint'.refresh, !.valid = V,
                                       !.dropped = endpoint.dropped]
      BY <1>1, <2>2 DEF EndpointType
    <3> HIDE DEF V
    <3> QED
      BY <1>1, <2>5, <3>1, <3>2, EndpointNext, Zenon
  <2>7. proc' \in [Proc -> ProcRecord']
    <3>1. n \in 0..Issued'
      BY <1>1, <2>5 DEF n
    <3>2. [proc[p] EXCEPT !.pc = "lock", !.got = n] \in ProcRecord'
      BY <1>4, <2>5, <3>1, Zenon DEF ProcRecord
    <3> QED
      BY <2>2, <2>5, <3>2, Zenon
  <2>8. file \in 1..Issued'
    BY <1>1, <2>5
  <2>9. FaultsType' = FaultsType /\ DirType' = DirType
    BY DEF FaultsType, DirType
  <2> QED
    BY <1>1, <2>2, <2>6, <2>7, <2>8, <2>9, TypedNext
<1>7. CASE Write(p)
  <2>1. proc[p].got \in 1..Issued /\ file' = proc[p].got /\ UNCHANGED dir
    BY <1>2, <1>1, <1>7 DEF Write, PhaseAt, At
  <2>2. proc' \in [Proc -> ProcRecord]
    BY <1>3, <1>4, <1>7, ProcMoves, Zenon DEF Write, Done
  <2>3. \E D \in SUBSET (1..MaxIssued) : endpoint' = [endpoint EXCEPT !.dropped = D]
    <3>1. endpoint.refresh[proc[p].got] \in 1..MaxIssued /\ endpoint.dropped \subseteq 1..MaxIssued
      BY <1>1, <1>3, <2>1, Fields DEF EndpointType
    <3> QED
      BY <1>7, <3>1 DEF Write
  <2>4. endpoint' \in EndpointType /\ Issued' = Issued
    <3>1. PICK D \in SUBSET (1..MaxIssued) : endpoint' = [endpoint EXCEPT !.dropped = D]
      BY <2>3
    <3> QED
      BY <1>1, <3>1, EndpointMoves DEF EndpointType, Issued
  <2>5. faults' \in FaultsType
    <3>1. PICK R \in SUBSET Proc : faults' = [faults EXCEPT !.robbed = R]
      BY <1>1, <1>7 DEF Write, FaultsType
    <3> QED
      BY <1>1, <3>1, FaultsMove
  <2>6. EndpointType' = EndpointType /\ ProcRecord' = ProcRecord
    BY <2>4 DEF EndpointType, ProcRecord
  <2> QED
    BY <1>1, <2>1, <2>2, <2>4, <2>5, <2>6, TypedNext
<1>8. CASE Expire
  <2>1. endpoint' = [endpoint EXCEPT !.expired = Issued] /\ UNCHANGED <<file, dir, proc, faults>>
    BY <1>8 DEF Expire
  <2>2. endpoint' \in EndpointType /\ Issued' = Issued
    BY <1>1, <2>1, EndpointMoves DEF EndpointType, Issued
  <2>3. EndpointType' = EndpointType /\ ProcRecord' = ProcRecord
    BY <2>2 DEF EndpointType, ProcRecord
  <2> QED
    BY <1>1, <2>1, <2>2, <2>3, TypedNext
<1> QED
  BY <1>5, <1>6, <1>7, <1>8

-----------------------------------------------------------------------------
(* Steps that neither issue nor save *)

\* A step of p after which the others own no more than before, with the same in hand, and are in
\* the set of the robbed when they lose a lock that they were about to write under.
Frame(p) ==
    /\ file' = file /\ UNCHANGED <<endpoint.refresh, endpoint.valid>>
    /\ endpoint.dropped \subseteq endpoint'.dropped
    /\ Used(p) \subseteq Used(p)' \cup endpoint'.dropped
    /\ \A q \in Proc \ {p} :
          /\ proc'[q] = proc[q]
          /\ q \in faults.robbed => q \in faults'.robbed
          /\ Keeper(q)' => Keeper(q)
          /\ (proc[q].pc = "write" /\ Keeper(q)) => (q \in faults'.robbed \/ Keeper(q)')
    /\ OneMaker'
    /\ proc'[p].seen \in {0, file, proc[p].seen} /\ proc'[p].got \in {0, file, proc[p].got}
    /\ PhaseAt(p)' /\ WriterAt(p)' /\ SeenAt(p)' /\ GotAt(p)' /\ LoginAt(p)'

\* What is accounted for stays so.
LEMMA FrameAccounts ==
    ASSUME NEW p \in Proc, Frame(p), NEW token, NEW Q \in SUBSET Proc, Accounted(token, Q)
    PROVE  Accounted(token, Q)'
<1>1. CASE token \in endpoint.valid \cup endpoint.dropped
  BY <1>1 DEF Frame, Accounted
<1>2. CASE \E q \in Q : token \in Used(q)
  <2>1. PICK q \in Q : token \in Used(q)
    BY <1>2
  <2>2. CASE q = p
    BY <2>1, <2>2 DEF Frame, Accounted
  <2>3. CASE q # p
    <3>1. Used(q)' = Used(q)
      BY <2>3 DEF Frame, Used, Refreshing
    <3> QED
      BY <2>1, <3>1 DEF Accounted
  <2> QED
    BY <2>2, <2>3
<1> QED
  BY <1>1, <1>2 DEF Accounted

\* Such a step keeps the invariant.
LEMMA FrameKeeps ==
    ASSUME CredentialInv, NEW p \in Proc, Frame(p)
    PROVE  LockInv' /\ TokenInv'
<1>1. /\ file \in 1..Issued /\ proc \in [Proc -> ProcRecord] /\ Issued \in Nat
  BY Fields DEF CredentialInv
<1>2. /\ file' = file /\ endpoint'.refresh = endpoint.refresh /\ endpoint'.valid = endpoint.valid
      /\ Issued' = Issued
  BY DEF Frame, Issued
<1>3. OneMaker'
  BY DEF Frame
<1>4. ASSUME NEW q \in Proc PROVE PhaseAt(q)' /\ WriterAt(q)' /\ SeenAt(q)'
  <2>1. PhaseAt(q) /\ WriterAt(q) /\ SeenAt(q)
    BY DEF CredentialInv, LockInv
  <2>2. CASE q = p
    BY <2>2 DEF Frame
  <2>3. CASE q # p
    <3>1. /\ proc'[q] = proc[q] /\ (q \in faults.robbed => q \in faults'.robbed)
          /\ Keeper(q)' => Keeper(q)
          /\ (proc[q].pc = "write" /\ Keeper(q)) => (q \in faults'.robbed \/ Keeper(q)')
      BY <2>3 DEF Frame
    <3>2. PhaseAt(q)'
      BY <2>1, <3>1 DEF PhaseAt
    <3>3. WriterAt(q)'
      BY <2>1, <3>1 DEF WriterAt
    <3>4. SeenAt(q)'
      BY <1>2, <2>1, <3>1 DEF SeenAt
    <3> QED
      BY <3>2, <3>3, <3>4
  <2> QED
    BY <2>2, <2>3
<1>5. TokensNumbered'
  BY <1>2 DEF TokensNumbered, CredentialInv, TokenInv
<1>6. SavedAccounted'
  <2>1. Accounted(endpoint.refresh[file], Proc)
    BY DEF CredentialInv, TokenInv, SavedAccounted
  <2>2. Accounted(endpoint.refresh[file], Proc)'
    <3> DEFINE t == endpoint.refresh[file]
    <3>1. t' = t
      BY <1>2
    <3> HIDE DEF t
    <3>2. Accounted(t, Proc)
      BY <2>1 DEF t
    <3>3. /\ Accounted(t, Proc)
          => (t' \in endpoint'.valid \cup endpoint'.dropped \/ \E q \in Proc : t' \in Used(q)')
      BY <3>1, FrameAccounts DEF Accounted
    <3> QED
      BY <3>2, <3>3 DEF Accounted, t
  <2> QED
    BY <2>2 DEF SavedAccounted
<1>7. ASSUME NEW q \in Proc PROVE GotAt(q)'
  <2>1. CASE q = p
    BY <2>1 DEF Frame
  <2>2. CASE q # p
    <3>1. /\ proc'[q] = proc[q] /\ (q \in faults.robbed => q \in faults'.robbed)
          /\ Keeper(q)' => Keeper(q)
      BY <2>2 DEF Frame
    <3> DEFINE t == endpoint.refresh[proc[q].got]
    <3>2. t' = t
      BY <1>2, <3>1
    <3> HIDE DEF t
    <3> SUFFICES ASSUME proc'[q].pc \in {"check", "write"}, q \notin faults'.robbed, Keeper(q)'
                 PROVE  t' \in endpoint'.valid \cup endpoint'.dropped
                        \/ \E r \in Proc \ {q} : t' \in Used(r)'
      BY DEF GotAt, Accounted, t
    <3>3. Accounted(t, Proc \ {q})
      BY <3>1 DEF GotAt, CredentialInv, TokenInv, t
    <3>4. Accounted(t, Proc \ {q}) => (t \in endpoint'.valid \cup endpoint'.dropped
                        \/ \E r \in Proc \ {q} : t \in Used(r)')
      BY FrameAccounts DEF Accounted
    <3> QED
      BY <3>2, <3>3, <3>4
  <2> QED
    BY <2>1, <2>2
<1>8. ASSUME NEW q \in Proc PROVE LoginAt(q)'
  <2>1. CASE q = p
    BY <2>1 DEF Frame
  <2>2. CASE q # p
    <3>1. LoginAt(q)
      BY DEF CredentialInv, TokenInv
    <3>2. /\ proc'[q] = proc[q] /\ \A r \in Proc \ {p} : proc'[r] = proc[r]
          /\ proc'[p].seen \in {0, file, proc[p].seen} /\ proc'[p].got \in {0, file, proc[p].got}
      BY <2>2 DEF Frame
    <3> SUFFICES ASSUME proc'[q].seen = 0, proc'[q].got # 0
                 PROVE  /\ proc'[q].got \in endpoint'.valid
                        /\ endpoint'.refresh[proc'[q].got] = proc'[q].got /\ file' # proc'[q].got
                        /\ \A m \in 1..Issued' : m # proc'[q].got => endpoint'.refresh[m] # proc'[q].got
                        /\ \A r \in Proc \ {q} : proc'[r].seen # proc'[q].got /\ proc'[r].got # proc'[q].got
      BY DEF LoginAt
    <3> DEFINE n == proc[q].got
    <3>3. /\ n # 0 /\ n \in endpoint.valid /\ endpoint.refresh[n] = n /\ file # n
          /\ \A m \in 1..Issued : m # n => endpoint.refresh[m] # n
          /\ \A r \in Proc \ {q} : proc[r].seen # n /\ proc[r].got # n
      BY <3>1, <3>2 DEF LoginAt
    <3>4. \A r \in Proc \ {q} : proc'[r].seen # n /\ proc'[r].got # n
      BY <2>2, <3>2, <3>3
    <3>5. proc'[q].got = n
      BY <3>2
    <3> HIDE DEF n
    <3> QED
      BY <1>2, <3>3, <3>4, <3>5
  <2> QED
    BY <2>1, <2>2
<1> QED
  BY <1>3, <1>4, <1>5, <1>6, <1>7, <1>8 DEF LockInv, TokenInv

\* Time, and touching a lock, change nothing that the invariant speaks of.
LEMMA StillKeeps ==
    ASSUME CredentialInv, UNCHANGED <<file, proc>>,
           UNCHANGED <<endpoint.refresh, endpoint.valid, endpoint.dropped, faults.robbed>>,
           \A i \in Depth : dir'[i].by = dir[i].by
    PROVE  LockInv' /\ TokenInv'
<1>1. \A q \in Proc : Keeper(q)' <=> Keeper(q)
  BY DEF Keeper
<1>2. Issued' = Issued /\ \A q \in Proc : Used(q)' = Used(q)
  BY DEF Issued, Used, Refreshing
<1>3. LockInv'
  BY <1>1 DEF CredentialInv, LockInv, OneMaker, PhaseAt, WriterAt, SeenAt
<1>4. TokensNumbered' /\ SavedAccounted'
  BY <1>2 DEF CredentialInv, TokenInv, TokensNumbered, SavedAccounted, Accounted
<1>5. ASSUME NEW q \in Proc PROVE GotAt(q)' /\ LoginAt(q)'
  <2>1. GotAt(q) /\ LoginAt(q)
    BY DEF CredentialInv, TokenInv
  <2> QED
    BY <1>1, <1>2, <2>1 DEF GotAt, LoginAt, Accounted
<1> QED
  BY <1>3, <1>4, <1>5 DEF TokenInv

\* A path that loses its directory takes the lock from whoever had it.
LEMMA RemovedFrame ==
    ASSUME TypeOK, NEW p \in Proc, NEW i, Removed(i),
           NEW q \in Proc, proc'[q] = proc[q]
    PROVE  /\ q \in faults.robbed => q \in faults'.robbed
           /\ Keeper(q)' => Keeper(q)
           /\ (proc[q].pc = "write" /\ Keeper(q)) => (q \in faults'.robbed \/ Keeper(q)')
<1>1. dir \in DirType /\ faults \in FaultsType
  BY Typed
<1>2. /\ dir' = [dir EXCEPT ![i] = NoDir]
      /\ faults'.robbed = faults.robbed \cup {r \in Proc : proc[r].pc = "write" /\ r \in dir[i].by}
  BY <1>1 DEF Removed, FaultsType
<1>3. CASE i \in Depth
  <2>1. dir'[i].by = {}
    BY <1>1, <1>2, <1>3 DEF DirType, NoDir
  <2>2. ~Keeper(q)'
    BY <1>3, <2>1 DEF Keeper
  <2>3. Keeper(q) => q \in dir[i].by
    BY <1>3 DEF Keeper
  <2> QED
    BY <1>2, <2>2, <2>3
<1>4. CASE i \notin Depth
  <2>1. dir' = dir
    BY <1>1, <1>2, <1>4 DEF DirType
  <2>2. Keeper(q)' <=> Keeper(q)
    BY <2>1 DEF Keeper
  <2> QED
    BY <1>2, <2>2
<1> QED
  BY <1>3, <1>4

\* The other paths keep theirs.
LEMMA RemovedMakers ==
    ASSUME TypeOK, OneMaker, NEW i, Removed(i)
    PROVE  OneMaker'
<1>1. dir \in DirType /\ dir' = [dir EXCEPT ![i] = NoDir] /\ NoDir.by = {}
  BY Typed DEF Removed, NoDir
<1>2. \A j \in Depth : dir'[j].by = {} \/ dir'[j].by = dir[j].by
  BY <1>1 DEF DirType
<1> QED
  BY <1>2 DEF OneMaker

\* Nothing happens to the directories.
LEMMA KeepersStay ==
    ASSUME UNCHANGED dir, NEW q \in Proc
    PROVE  /\ Keeper(q)' <=> Keeper(q)
           /\ OneMaker => OneMaker'
BY DEF Keeper, OneMaker

\* What a step does to the process that takes it, and to the others.
LEMMA StepEffects ==
    ASSUME TypeOK, NEW p \in Proc
    PROVE  /\ \A c : proc' = [proc EXCEPT ![p].pc = c] =>
                 /\ \A q \in Proc \ {p} : proc'[q] = proc[q]
                 /\ proc'[p].pc = c /\ proc'[p].held = proc[p].held
                 /\ proc'[p].seen = proc[p].seen /\ proc'[p].got = proc[p].got
           /\ Done(p) =>
                 /\ \A q \in Proc \ {p} : proc'[q] = proc[q]
                 /\ proc'[p].pc = "release" /\ proc'[p].held = proc[p].held
                 /\ proc'[p].seen = 0 /\ proc'[p].got = 0
           /\ proc' = [proc EXCEPT ![p] = Idle] =>
                 /\ \A q \in Proc \ {p} : proc'[q] = proc[q]
                 /\ proc'[p].pc = "idle" /\ \A i \in Depth : proc'[p].held[i] = NoInode
                 /\ proc'[p].seen = 0 /\ proc'[p].got = 0
<1>1. proc \in [Proc -> ProcRecord] /\ proc[p] \in ProcRecord
  BY Fields
<1>2. ASSUME NEW c, proc' = [proc EXCEPT ![p].pc = c]
      PROVE  /\ \A q \in Proc \ {p} : proc'[q] = proc[q]
             /\ proc'[p] = [proc[p] EXCEPT !.pc = c]
  BY <1>1, <1>2
<1>3. ASSUME Done(p)
      PROVE  /\ \A q \in Proc \ {p} : proc'[q] = proc[q]
             /\ proc'[p] = [proc[p] EXCEPT !.pc = "release", !.seen = 0, !.got = 0]
  BY <1>1, <1>3 DEF Done
<1>4. ASSUME proc' = [proc EXCEPT ![p] = Idle]
      PROVE  (\A q \in Proc \ {p} : proc'[q] = proc[q]) /\ proc'[p] = Idle
  BY <1>1, <1>4
<1>6. LET r == [proc[p] EXCEPT !.pc = "release", !.seen = 0, !.got = 0]
      IN r.pc = "release" /\ r.held = proc[p].held /\ r.seen = 0 /\ r.got = 0
  BY <1>1 DEF ProcRecord
<1>7. Idle.pc = "idle" /\ Idle.seen = 0 /\ Idle.got = 0 /\ \A i \in Depth : Idle.held[i] = NoInode
  BY DEF Idle
<1>8. ASSUME NEW c, proc' = [proc EXCEPT ![p].pc = c]
      PROVE  /\ proc'[p].pc = c /\ proc'[p].held = proc[p].held
             /\ proc'[p].seen = proc[p].seen /\ proc'[p].got = proc[p].got
  <2>1. proc'[p] = [proc[p] EXCEPT !.pc = c]
    BY <1>2, <1>8
  <2> QED
    BY <1>1, <2>1 DEF ProcRecord
<1>9. ASSUME Done(p)
      PROVE  /\ proc'[p].pc = "release" /\ proc'[p].held = proc[p].held
             /\ proc'[p].seen = 0 /\ proc'[p].got = 0
  BY <1>3, <1>6, <1>9, Zenon
<1>10. ASSUME proc' = [proc EXCEPT ![p] = Idle]
       PROVE  /\ proc'[p].pc = "idle" /\ \A i \in Depth : proc'[p].held[i] = NoInode
              /\ proc'[p].seen = 0 /\ proc'[p].got = 0
  BY <1>4, <1>7, <1>10, Zenon
<1> QED
  BY <1>2, <1>3, <1>4, <1>8, <1>9, <1>10

\* A process that is not about to write, and has nothing in hand that was not there, needs no more
\* than that the others keep their locks.
LEMMA BareFrame ==
    ASSUME CredentialInv, NEW p \in Proc,
           file' = file, UNCHANGED <<endpoint.refresh, endpoint.valid>>,
           endpoint.dropped \subseteq endpoint'.dropped,
           Used(p) \subseteq Used(p)' \cup endpoint'.dropped,
           \A q \in Proc \ {p} :
              /\ proc'[q] = proc[q]
              /\ q \in faults.robbed => q \in faults'.robbed
              /\ Keeper(q)' => Keeper(q)
              /\ (proc[q].pc = "write" /\ Keeper(q)) => (q \in faults'.robbed \/ Keeper(q)'),
           OneMaker',
           proc'[p].seen \in {0, file, proc[p].seen}, proc'[p].got \in {0, proc[p].got},
           PhaseAt(p)', proc'[p].pc \notin {"ask", "check", "write"},
           proc'[p].seen = 0 => proc'[p].got = 0 \/ proc[p].seen = 0
    PROVE  Frame(p)
<1>2. WriterAt(p)' /\ SeenAt(p)' /\ GotAt(p)'
  BY DEF WriterAt, SeenAt, GotAt
<1>3. LoginAt(p)'
  <2>1. LoginAt(p) /\ Issued' = Issued
    BY DEF CredentialInv, TokenInv, Issued
  <2> SUFFICES ASSUME proc'[p].seen = 0, proc'[p].got # 0 PROVE LoginAt(p)'
    BY DEF LoginAt
  <2>2. proc[p].seen = 0 /\ proc'[p].got = proc[p].got
    OBVIOUS
  <2> QED
    BY <2>1, <2>2 DEF LoginAt
<1> QED
  BY <1>2, <1>3 DEF Frame

\* The steps of the locks.
LEMMA LockStepsFrame ==
    ASSUME CredentialInv, NEW p \in Proc,
           \/ Mkdir(p) \/ Stat(p) \/ Unmake(p) \/ SeeStale(p) \/ Steal(p) \/ GiveUp(p)
           \/ Unlock(p) \/ Rmdir(p) \/ \E i \in Depth : BeatFails(p, i) \/ Beat(p, i)
    PROVE  Frame(p)
<1>1. /\ TypeOK /\ proc \in [Proc -> ProcRecord] /\ proc[p] \in ProcRecord
      /\ dir \in DirType /\ faults \in FaultsType
  BY Typed DEF CredentialInv
<1>2. UNCHANGED <<file, endpoint>>
  BY DEF Mkdir, Stat, Unmake, SeeStale, Steal, GiveUp, Unlock, Rmdir, BeatFails, Beat
<1>3. PhaseAt(p) /\ WriterAt(p) /\ SeenAt(p) /\ GotAt(p) /\ LoginAt(p) /\ OneMaker
  BY DEF CredentialInv, LockInv, TokenInv
<1>4. /\ UNCHANGED <<endpoint.refresh, endpoint.valid>> /\ endpoint.dropped \subseteq endpoint'.dropped
  BY <1>2
<1>5. CASE Mkdir(p)
  <2>1. PICK i, ino : /\ dir[i] = NoDir
                      /\ dir' = [dir EXCEPT ![i] = [ino |-> ino, stale |-> FALSE, by |-> {p}]]
    BY <1>5, Zenon DEF Mkdir
  <2>2. proc[p].pc = "lock" /\ proc' = [proc EXCEPT ![p].pc = "stat"] /\ faults' = faults
    BY <1>5 DEF Mkdir, At, Goto
  <2>3. /\ \A q \in Proc \ {p} : proc'[q] = proc[q]
        /\ proc'[p].pc = "stat" /\ proc'[p].seen = proc[p].seen /\ proc'[p].got = proc[p].got
    BY <1>1, <2>2, StepEffects
  <2>4. PhaseAt(p)' /\ Used(p)' = Used(p)
    BY <1>2, <1>3, <2>2, <2>3 DEF PhaseAt, Used, Refreshing
  <2>5. \A j \in Depth : dir'[j].by = IF j = i THEN {p} ELSE dir[j].by
    BY <1>1, <2>1 DEF DirType
  <2>6. dir[i].by = {}
    BY <2>1 DEF NoDir
  <2>7. OneMaker' /\ \A q \in Proc \ {p} : Keeper(q)' <=> Keeper(q)
    BY <1>3, <2>5, <2>6 DEF OneMaker, Keeper
  <2> QED
    BY <1>2, <1>4, <2>2, <2>3, <2>4, <2>7, BareFrame
<1>10. CASE Stat(p)
  <2>1. /\ proc[p].pc = "stat" /\ UNCHANGED <<dir, faults>>
        /\ \/ proc' = [proc EXCEPT ![p].pc = "unmake"]
           \/ \E i, ino, c : /\ proc' = [proc EXCEPT ![p].held[i] = ino, ![p].pc = c]
                             /\ c \in {"lock", "read", "check"} /\ (c = "read" => proc[p].got = 0)
                             /\ (c = "check" => proc[p].got # 0)
    <3> DEFINE i == Next1(p)
               ino == dir[i].ino
               c == IF i < LockCount THEN "lock" ELSE IF proc[p].got = 0 THEN "read" ELSE "check"
    <3>1. /\ proc[p].pc = "stat" /\ UNCHANGED <<dir, faults>>
          /\ \/ proc' = [proc EXCEPT ![p].pc = "unmake"]
             \/ proc' = [proc EXCEPT ![p].held[i] = ino, ![p].pc = c]
      BY <1>10, Zenon DEF Stat, At, Goto
    <3>2. c \in {"lock", "read", "check"} /\ (c = "read" => proc[p].got = 0)
          /\ (c = "check" => proc[p].got # 0)
      OBVIOUS
    <3> HIDE DEF i, ino, c
    <3> QED
      BY <3>1, <3>2
  <2>2. PICK c : /\ \A q \in Proc \ {p} : proc'[q] = proc[q]
                 /\ proc'[p].pc = c /\ proc'[p].seen = proc[p].seen /\ proc'[p].got = proc[p].got
                 /\ c \in {"unmake", "lock", "read", "check"} /\ (c = "read" => proc[p].got = 0)
                 /\ (c = "check" => proc[p].got # 0)
    <3>1. CASE proc' = [proc EXCEPT ![p].pc = "unmake"]
      BY <1>1, <3>1, StepEffects
    <3>2. CASE \E i, ino, c : /\ proc' = [proc EXCEPT ![p].held[i] = ino, ![p].pc = c]
                              /\ c \in {"lock", "read", "check"} /\ (c = "read" => proc[p].got = 0)
                              /\ (c = "check" => proc[p].got # 0)
      <4>1. PICK i, ino, c : /\ proc' = [proc EXCEPT ![p].held[i] = ino, ![p].pc = c]
                             /\ c \in {"lock", "read", "check"} /\ (c = "read" => proc[p].got = 0)
                             /\ (c = "check" => proc[p].got # 0)
        BY <3>2
      <4>2. /\ \A q \in Proc \ {p} : proc'[q] = proc[q]
            /\ proc'[p] = [proc[p] EXCEPT !.held[i] = ino, !.pc = c]
        BY <1>1, <4>1
      <4>3. proc'[p].pc = c /\ proc'[p].seen = proc[p].seen /\ proc'[p].got = proc[p].got
        BY <1>1, <4>2 DEF ProcRecord
      <4> QED
        BY <4>1, <4>2, <4>3
    <3> QED
      BY <2>1, <3>1, <3>2
  <2>3. proc[p].seen = 0 \/ proc[p].got = 0
    BY <1>3, <2>1 DEF PhaseAt
  <2>4. OneMaker' /\ \A q \in Proc : Keeper(q)' <=> Keeper(q)
    BY <1>3, <2>1, KeepersStay
  <2>5. PhaseAt(p)' /\ WriterAt(p)' /\ SeenAt(p)'
    BY <2>1, <2>2, <2>3 DEF PhaseAt, WriterAt, SeenAt
  <2>6. GotAt(p)'
    <3> SUFFICES ASSUME c = "check" PROVE GotAt(p)'
      BY <2>1, <2>2 DEF GotAt
    <3>1. proc[p].got \in endpoint.valid /\ endpoint.refresh[proc[p].got] = proc[p].got
      BY <1>3, <2>2, <2>3 DEF LoginAt
    <3>2. endpoint'.refresh[proc'[p].got] \in endpoint'.valid
      BY <1>2, <2>2, <3>1
    <3> QED
      BY <3>2 DEF GotAt, Accounted
  <2>7. LoginAt(p)'
    BY <1>2, <1>3, <2>2 DEF LoginAt, Issued
  <2>8. Used(p)' = Used(p)
    BY <1>2, <2>2 DEF Used, Refreshing
  <2> QED
    BY <1>2, <1>4, <2>1, <2>2, <2>4, <2>5, <2>6, <2>7, <2>8 DEF Frame
<1>11. CASE \E i \in Depth : BeatFails(p, i) \/ Beat(p, i)
  <2>1. PICK i \in Depth : BeatFails(p, i) \/ Beat(p, i)
    BY <1>11
  <2>2. faults'.robbed = faults.robbed
    BY <1>1, <2>1 DEF BeatFails, Beat, FaultsType
  <2>3. \A j \in Depth : dir'[j].by = dir[j].by
    <3>1. dir' = dir \/ dir' = [dir EXCEPT ![i].stale = FALSE]
      BY <2>1 DEF BeatFails, Beat
    <3> QED
      BY <1>1, <3>1 DEF DirType
  <2>4. /\ \A q \in Proc \ {p} : proc'[q] = proc[q]
        /\ proc'[p].pc = proc[p].pc /\ proc'[p].seen = proc[p].seen /\ proc'[p].got = proc[p].got
    <3>1. proc' = proc \/ proc' = [proc EXCEPT ![p].lost = @ \cup {i}]
      BY <2>1 DEF BeatFails, Beat, Lose
    <3>2. CASE proc' = [proc EXCEPT ![p].lost = @ \cup {i}]
      <4>1. /\ \A q \in Proc \ {p} : proc'[q] = proc[q]
            /\ proc'[p] = [proc[p] EXCEPT !.lost = @ \cup {i}]
        BY <1>1, <3>2
      <4> QED
        BY <1>1, <4>1 DEF ProcRecord
    <3> QED
      BY <3>1, <3>2
  <2>5. OneMaker' /\ \A q \in Proc : Keeper(q)' <=> Keeper(q)
    BY <1>3, <2>3 DEF OneMaker, Keeper
  <2>6. \A q \in Proc : Used(q)' = Used(q)
    BY <1>2, <2>4 DEF Used, Refreshing
  <2>7. PhaseAt(p)' /\ WriterAt(p)' /\ SeenAt(p)'
    BY <1>2, <1>3, <2>2, <2>4, <2>5 DEF PhaseAt, WriterAt, SeenAt
  <2>8. GotAt(p)'
    BY <1>2, <1>3, <2>2, <2>4, <2>5, <2>6 DEF GotAt, Accounted
  <2>9. LoginAt(p)'
    BY <1>2, <1>3, <2>4 DEF LoginAt, Issued
  <2> QED
    BY <1>2, <1>4, <2>2, <2>4, <2>5, <2>6, <2>7, <2>8, <2>9 DEF Frame
<1>6. CASE SeeStale(p) \/ Steal(p)
  <2>1. \E c \in {"lock", "steal"} : proc' = [proc EXCEPT ![p].pc = c]
    BY <1>6 DEF SeeStale, Steal, Goto
  <2>2. /\ \A q \in Proc \ {p} : proc'[q] = proc[q]
        /\ proc'[p].pc \in {"lock", "steal"}
        /\ proc'[p].seen = proc[p].seen /\ proc'[p].got = proc[p].got
    BY <1>1, <2>1, StepEffects
  <2>3. proc[p].pc \in {"lock", "steal"}
    BY <1>6 DEF SeeStale, Steal, At
  <2>4. PhaseAt(p)' /\ Used(p)' = Used(p)
    BY <1>2, <1>3, <2>2, <2>3 DEF PhaseAt, Used, Refreshing
  <2>5. ASSUME NEW q \in Proc \ {p}
        PROVE  /\ q \in faults.robbed => q \in faults'.robbed
               /\ Keeper(q)' => Keeper(q)
               /\ (proc[q].pc = "write" /\ Keeper(q)) => (q \in faults'.robbed \/ Keeper(q)')
    <3>1. CASE SeeStale(p)
      BY <2>2, <3>1, KeepersStay DEF SeeStale
    <3>2. CASE Steal(p)
      <4>1. Removed(Next1(p))
        BY <3>2 DEF Steal
      <4> QED
        BY <1>1, <2>2, <4>1, RemovedFrame
    <3> QED
      BY <1>6, <3>1, <3>2
  <2>6. OneMaker'
    <3>1. CASE SeeStale(p)
      BY <1>3, <3>1, KeepersStay DEF SeeStale
    <3>2. CASE Steal(p)
      <4>1. Removed(Next1(p))
        BY <3>2 DEF Steal
      <4> QED
        BY <1>1, <1>3, <4>1, RemovedMakers
    <3> QED
      BY <1>6, <3>1, <3>2
  <2> QED
    BY <1>2, <1>4, <2>2, <2>4, <2>5, <2>6, BareFrame
<1>7. CASE GiveUp(p)
  <2>1. /\ \A q \in Proc \ {p} : proc'[q] = proc[q]
        /\ proc'[p].pc = "release" /\ proc'[p].held = proc[p].held
        /\ proc'[p].seen = 0 /\ proc'[p].got = 0
    BY <1>1, <1>7, StepEffects DEF GiveUp
  <2>2. UNCHANGED <<dir, faults>> /\ proc[p].pc = "lock"
    BY <1>7 DEF GiveUp, At
  <2>3. PhaseAt(p)' /\ Used(p) = {}
    BY <1>3, <2>1, <2>2 DEF PhaseAt, Used, Refreshing
  <2>4. OneMaker' /\ \A q \in Proc \ {p} : Keeper(q)' <=> Keeper(q)
    BY <1>3, <2>2, KeepersStay
  <2> QED
    BY <1>2, <1>4, <2>1, <2>2, <2>3, <2>4, BareFrame
<1>9. CASE Unmake(p)
  <2>1. /\ \A q \in Proc \ {p} : proc'[q] = proc[q]
        /\ proc'[p].pc = "release" /\ proc'[p].seen = 0 /\ proc'[p].got = 0
    BY <1>1, <1>9, StepEffects DEF Unmake
  <2>2. proc[p].pc = "unmake" /\ Removed(Next1(p))
    BY <1>9 DEF Unmake, At
  <2>3. PhaseAt(p)' /\ Used(p) = {}
    BY <1>3, <2>1, <2>2 DEF PhaseAt, Used, Refreshing
  <2>4. OneMaker'
    BY <1>1, <1>3, <2>2, RemovedMakers
  <2>5. ASSUME NEW q \in Proc \ {p}
        PROVE  /\ q \in faults.robbed => q \in faults'.robbed
               /\ Keeper(q)' => Keeper(q)
               /\ (proc[q].pc = "write" /\ Keeper(q)) => (q \in faults'.robbed \/ Keeper(q)')
    BY <1>1, <2>1, <2>2, RemovedFrame
  <2> QED
    BY <1>2, <1>4, <2>1, <2>3, <2>4, <2>5, BareFrame
<1>8. CASE Unlock(p) \/ Rmdir(p)
  <2>1. proc[p].pc \in {"release", "rmdir"} /\ proc[p].seen = 0 /\ proc[p].got = 0
    BY <1>3, <1>8 DEF Unlock, Rmdir, At, PhaseAt
  <2>2. /\ \A q \in Proc \ {p} : proc'[q] = proc[q]
        /\ proc'[p].pc \in {"release", "rmdir", "idle"}
        /\ proc'[p].seen = 0 /\ proc'[p].got = 0
    <3>1. \/ proc' = [proc EXCEPT ![p] = Idle]
          \/ proc' = [proc EXCEPT ![p].pc = "rmdir"]
          \/ proc' = [proc EXCEPT ![p].held[Last(p)] = NoInode]
          \/ proc' = [proc EXCEPT ![p].held[Last(p)] = NoInode, ![p].pc = "release"]
      BY <1>8 DEF Unlock, Rmdir
    <3> DEFINE i == Last(p)
    <3> HIDE DEF i
    <3>2. CASE proc' = [proc EXCEPT ![p] = Idle]
      BY <1>1, <3>2, StepEffects
    <3>3. CASE proc' = [proc EXCEPT ![p].pc = "rmdir"]
      BY <1>1, <2>1, <3>3, StepEffects
    <3>4. CASE proc' = [proc EXCEPT ![p].held[i] = NoInode]
      <4>1. /\ \A q \in Proc \ {p} : proc'[q] = proc[q]
            /\ proc'[p] = [proc[p] EXCEPT !.held[i] = NoInode]
        BY <1>1, <3>4
      <4> QED
        BY <1>1, <2>1, <4>1 DEF ProcRecord
    <3>5. CASE proc' = [proc EXCEPT ![p].held[i] = NoInode, ![p].pc = "release"]
      <4>1. /\ \A q \in Proc \ {p} : proc'[q] = proc[q]
            /\ proc'[p] = [proc[p] EXCEPT !.held[i] = NoInode, !.pc = "release"]
        BY <1>1, <3>5
      <4> QED
        BY <1>1, <2>1, <4>1 DEF ProcRecord
    <3> QED
      BY <3>1, <3>2, <3>3, <3>4, <3>5 DEF i
  <2>3. PhaseAt(p)' /\ Used(p) = {}
    BY <2>1, <2>2 DEF PhaseAt, Used, Refreshing
  <2>4. ASSUME NEW q \in Proc \ {p}
        PROVE  /\ q \in faults.robbed => q \in faults'.robbed
               /\ Keeper(q)' => Keeper(q)
               /\ (proc[q].pc = "write" /\ Keeper(q)) => (q \in faults'.robbed \/ Keeper(q)')
    <3>1. CASE Unlock(p)
      <4>1. dir' = dir /\ (faults' = faults \/ faults' = [faults EXCEPT !.robbed = @ \ {p}])
        BY <3>1 DEF Unlock
      <4>2. q \in faults.robbed => q \in faults'.robbed
        BY <1>1, <4>1 DEF FaultsType
      <4> QED
        BY <2>2, <4>1, <4>2, KeepersStay
    <3>2. CASE Rmdir(p)
      <4>1. Removed(Last(p))
        BY <3>2 DEF Rmdir
      <4> QED
        BY <1>1, <2>2, <4>1, RemovedFrame
    <3> QED
      BY <1>8, <3>1, <3>2
  <2>5. OneMaker'
    <3>1. CASE Unlock(p)
      BY <1>3, <3>1, KeepersStay DEF Unlock
    <3>2. CASE Rmdir(p)
      <4>1. Removed(Last(p))
        BY <3>2 DEF Rmdir
      <4> QED
        BY <1>1, <1>3, <4>1, RemovedMakers
    <3> QED
      BY <1>8, <3>1, <3>2
  <2> QED
    BY <1>2, <1>4, <2>1, <2>2, <2>3, <2>4, <2>5, BareFrame
<1> QED
  BY <1>5, <1>6, <1>7, <1>8, <1>9, <1>10, <1>11

\* The steps of Token and Login that neither ask the provider nor save.
LEMMA PlainStepsFrame ==
    ASSUME CredentialInv, NEW p \in Proc,
           \/ Request(p) \/ Read(p) \/ AskInVain(p) \/ Check(p) \/ WriteFails(p) \/ Crash(p)
           \/ Pause(p) \/ Resume(p)
    PROVE  Frame(p)
<1>1. /\ TypeOK /\ proc \in [Proc -> ProcRecord] /\ proc[p] \in ProcRecord
      /\ faults \in FaultsType /\ endpoint \in EndpointType /\ file \in 1..Issued
  BY Typed DEF CredentialInv
<1>2. /\ file' = file /\ OneMaker'
      /\ \A q \in Proc \ {p} : Keeper(q)' <=> Keeper(q)
      /\ UNCHANGED dir => (Keeper(p)' <=> Keeper(p))
  <2>1. CASE Crash(p)
    <3>1. file' = file /\ dir' = [i \in Depth |-> [dir[i] EXCEPT !.by = @ \ {p}]]
      BY <2>1 DEF Crash
    <3>2. dir \in DirType /\ OneMaker
      BY Typed DEF CredentialInv, LockInv
    <3>3. \A i \in Depth : dir'[i].by = dir[i].by \ {p}
      BY <3>1, <3>2 DEF DirType
    <3> QED
      BY <3>1, <3>2, <3>3 DEF OneMaker, Keeper
  <2>2. CASE ~Crash(p)
    <3>1. UNCHANGED <<file, dir>>
      BY <2>2 DEF Request, Read, AskInVain, Check, WriteFails, Pause, Resume
    <3>2. OneMaker
      BY DEF CredentialInv, LockInv
    <3> QED
      BY <3>1, <3>2, KeepersStay
  <2> QED
    BY <2>1, <2>2
<1>3. /\ PhaseAt(p) /\ GotAt(p) /\ LoginAt(p) /\ OneMaker /\ SavedAccounted
      /\ WriterAt(p) /\ SeenAt(p)
  BY DEF CredentialInv, LockInv, TokenInv
<1>4. CASE Request(p)
  <2>1. proc[p].pc = "idle" /\ UNCHANGED <<endpoint, faults>>
    BY <1>4 DEF Request, At
  <2>2. /\ \A q \in Proc \ {p} : proc'[q] = proc[q]
        /\ proc'[p] = [proc[p] EXCEPT !.pc = "lock", !.seen = file]
    BY <1>1, <1>4 DEF Request
  <2>3. /\ proc'[p].pc = "lock" /\ proc'[p].seen = file /\ proc'[p].got = proc[p].got
        /\ proc'[p].held = proc[p].held
    BY <1>1, <2>2 DEF ProcRecord
  <2>4. PhaseAt(p)' /\ Used(p) = {} /\ proc[p].seen = 0
    BY <1>3, <2>1, <2>3 DEF PhaseAt, Used, Refreshing
  <2> QED
    BY <1>2, <2>1, <2>2, <2>3, <2>4, BareFrame
<1>5. CASE Read(p)
  <2>1. proc[p].pc = "read" /\ UNCHANGED <<endpoint, faults>>
    BY <1>5 DEF Read, At
  <2>2. proc[p].got = 0 /\ Used(p) = {}
    BY <1>3, <2>1 DEF PhaseAt, Used, Refreshing
  <2>3. CASE Done(p)
    <3>1. /\ \A q \in Proc \ {p} : proc'[q] = proc[q]
          /\ proc'[p].pc = "release" /\ proc'[p].held = proc[p].held
          /\ proc'[p].seen = 0 /\ proc'[p].got = 0
      BY <1>1, <2>3, StepEffects
    <3>2. PhaseAt(p)'
      BY <3>1 DEF PhaseAt
    <3> QED
      BY <1>2, <2>1, <2>2, <3>1, <3>2, BareFrame
  <2>4. CASE ~Done(p)
    <3>1. \/ proc' = [proc EXCEPT ![p].seen = file, ![p].pc = "ask"]
          \/ proc' = [proc EXCEPT ![p].seen = file, ![p].got = file, ![p].pc = "check"]
      BY <1>5, <2>4, Zenon DEF Read
    <3>2. /\ \A q \in Proc \ {p} : proc'[q] = proc[q]
          /\ \/ proc'[p] = [proc[p] EXCEPT !.seen = file, !.pc = "ask"]
             \/ proc'[p] = [proc[p] EXCEPT !.seen = file, !.got = file, !.pc = "check"]
      BY <1>1, <3>1
    <3>3. /\ proc'[p].held = proc[p].held /\ proc'[p].seen = file
          /\ \/ proc'[p].pc = "ask" /\ proc'[p].got = 0
             \/ proc'[p].pc = "check" /\ proc'[p].got = file
      BY <1>1, <2>2, <3>2 DEF ProcRecord
    <3>4. file # 0
      BY <1>1
    <3>5. PhaseAt(p)' /\ WriterAt(p)' /\ SeenAt(p)' /\ LoginAt(p)'
      BY <1>2, <3>3, <3>4 DEF PhaseAt, WriterAt, SeenAt, LoginAt
    <3>6. \A q \in Proc \ {p} : Used(q)' = Used(q)
      BY <2>1, <3>2 DEF Used, Refreshing
    <3>7. GotAt(p)'
      <4> SUFFICES ASSUME proc'[p].got = file PROVE Accounted(endpoint.refresh[proc[p].got], Proc \ {p})'
        BY <3>3 DEF GotAt
      <4>1. Accounted(endpoint.refresh[file], Proc \ {p})
        BY <1>3, <2>2 DEF SavedAccounted, Accounted
      <4> QED
        BY <2>1, <3>6, <4>1 DEF Accounted
    <3> QED
      BY <1>2, <2>1, <2>2, <3>2, <3>3, <3>5, <3>6, <3>7 DEF Frame
  <2> QED
    BY <2>3, <2>4
<1>6. CASE AskInVain(p)
  <2>1. proc[p].pc = "ask" /\ UNCHANGED <<endpoint, faults>>
    BY <1>6 DEF AskInVain, At
  <2>2. /\ \A q \in Proc \ {p} : proc'[q] = proc[q]
        /\ proc'[p].pc = "release" /\ proc'[p].held = proc[p].held
        /\ proc'[p].seen = 0 /\ proc'[p].got = 0
    BY <1>1, <1>6, StepEffects DEF AskInVain
  <2>3. PhaseAt(p)' /\ Used(p) = {}
    BY <1>3, <2>1, <2>2 DEF PhaseAt, Used, Refreshing
  <2> QED
    BY <1>2, <2>1, <2>2, <2>3, BareFrame
<1>7. CASE Check(p) /\ Owner(p)
  <2>1. proc[p].pc = "check" /\ Goto(p, "write") /\ UNCHANGED dir
    BY <1>7 DEF Check, At
  <2>10. /\ faults.robbed \subseteq faults'.robbed
         /\ p \in faults'.robbed \/ Keeper(p)
    <3>1. faults' = [faults EXCEPT !.robbed = @ \cup IF Owner(p) /\ ~Keeper(p) THEN {p} ELSE {}]
      BY <1>7, Zenon DEF Check
    <3> QED
      BY <1>1, <1>7, <3>1 DEF FaultsType
  <2>2. /\ endpoint'.refresh = endpoint.refresh /\ endpoint'.valid = endpoint.valid
        /\ endpoint'.dropped = endpoint.dropped
    BY <1>1, <1>7 DEF Check, EndpointType
  <2>3. /\ \A q \in Proc \ {p} : proc'[q] = proc[q]
        /\ proc'[p].pc = "write" /\ proc'[p].held = proc[p].held
        /\ proc'[p].seen = proc[p].seen /\ proc'[p].got = proc[p].got
    BY <1>1, <2>1, StepEffects DEF Goto
  <2>4. \A q \in Proc : (Keeper(q)' <=> Keeper(q)) /\ Used(q)' = Used(q)
    BY <1>2, <2>1, <2>2, <2>3 DEF Used, Refreshing
  <2>5. Issued' = Issued
    BY <2>2 DEF Issued
  <2>6. PhaseAt(p)' /\ WriterAt(p)' /\ SeenAt(p)'
    BY <1>2, <1>3, <2>1, <2>3, <2>4, <2>10 DEF PhaseAt, WriterAt, SeenAt
  <2>7. GotAt(p)'
    BY <1>3, <2>1, <2>2, <2>3, <2>4, <2>10 DEF GotAt, Accounted
  <2>8. LoginAt(p)'
    BY <1>2, <1>3, <2>2, <2>3, <2>5 DEF LoginAt
  <2> QED
    BY <1>2, <2>1, <2>2, <2>3, <2>4, <2>6, <2>7, <2>8, <2>10 DEF Frame
<1>8. CASE WriteFails(p) \/ (Check(p) /\ ~Owner(p))
  <2>1. Done(p) /\ faults'.robbed = faults.robbed
    BY <1>1, <1>8 DEF Check, WriteFails, FaultsType
  <2>2. /\ endpoint'.refresh = endpoint.refresh /\ endpoint'.valid = endpoint.valid
        /\ endpoint'.dropped = endpoint.dropped \cup Used(p)
    BY <1>1, <1>8 DEF Check, WriteFails, EndpointType
  <2>3. /\ \A q \in Proc \ {p} : proc'[q] = proc[q]
        /\ proc'[p].pc = "release" /\ proc'[p].held = proc[p].held
        /\ proc'[p].seen = 0 /\ proc'[p].got = 0
    BY <1>1, <2>1, StepEffects
  <2>4. PhaseAt(p)'
    BY <2>3 DEF PhaseAt
  <2> QED
    BY <1>2, <2>1, <2>2, <2>3, <2>4, BareFrame
<1>9. CASE Crash(p)
  <2>1. /\ endpoint'.refresh = endpoint.refresh /\ endpoint'.valid = endpoint.valid
        /\ endpoint'.dropped = endpoint.dropped \cup Used(p)
        /\ faults'.robbed = faults.robbed \ {p}
    BY <1>1, <1>9 DEF Crash, EndpointType, FaultsType
  <2>2. /\ \A q \in Proc \ {p} : proc'[q] = proc[q]
        /\ proc'[p].pc = "idle" /\ \A i \in Depth : proc'[p].held[i] = NoInode
        /\ proc'[p].seen = 0 /\ proc'[p].got = 0
    BY <1>1, <1>9, StepEffects DEF Crash
  <2>3. PhaseAt(p)'
    BY <2>2 DEF PhaseAt
  <2> QED
    BY <1>2, <2>1, <2>2, <2>3, BareFrame
<1>10. CASE Pause(p) \/ Resume(p)
  <2>1. endpoint' = endpoint /\ faults'.robbed = faults.robbed
    BY <1>1, <1>10 DEF Pause, Resume, FaultsType
  <2>2. \E b \in BOOLEAN : proc' = [proc EXCEPT ![p].paused = b]
    BY <1>10 DEF Pause, Resume
  <2>3. PICK b \in BOOLEAN : /\ \A q \in Proc \ {p} : proc'[q] = proc[q]
                             /\ proc'[p] = [proc[p] EXCEPT !.paused = b]
    BY <1>1, <2>2
  <2>4. /\ proc'[p].pc = proc[p].pc /\ proc'[p].held = proc[p].held
        /\ proc'[p].seen = proc[p].seen /\ proc'[p].got = proc[p].got
    BY <1>1, <2>3 DEF ProcRecord
  <2>5. \A q \in Proc : (Keeper(q)' <=> Keeper(q)) /\ Used(q)' = Used(q)
    <3>1. UNCHANGED dir
      BY <1>10 DEF Pause, Resume
    <3> QED
      BY <2>1, <2>3, <2>4, <3>1, KeepersStay DEF Used, Refreshing
  <2>6. PhaseAt(p)' /\ WriterAt(p)' /\ SeenAt(p)'
    BY <1>2, <1>3, <2>1, <2>4, <2>5 DEF PhaseAt, WriterAt, SeenAt
  <2>7. GotAt(p)'
    BY <1>3, <2>1, <2>4, <2>5 DEF GotAt, Accounted
  <2>8. LoginAt(p)'
    BY <1>2, <1>3, <2>1, <2>3, <2>4 DEF LoginAt, Issued
  <2> QED
    BY <1>2, <2>1, <2>3, <2>4, <2>5, <2>6, <2>7, <2>8 DEF Frame
<1> QED
  BY <1>4, <1>5, <1>6, <1>7, <1>8, <1>9, <1>10

-----------------------------------------------------------------------------
(* Steps that issue or save *)

\* What is issued is numbered next, and nobody has it; what the others know stays as it was.
Issues(p, token, n) ==
    /\ UNCHANGED <<file, dir, faults>> /\ n = Issued + 1 /\ Issued' = n
    /\ \A m \in 1..Issued : endpoint'.refresh[m] = endpoint.refresh[m]
    /\ endpoint'.refresh[n] = token /\ token \in 1..n
    /\ \A q \in Proc \ {p} : proc'[q] = proc[q]
    /\ proc'[p].held = proc[p].held
    /\ proc'[p].seen \in {0, proc[p].seen} /\ proc'[p].got \in {0, n}
    /\ \A m \in endpoint.valid \ endpoint'.valid :
          m = token \/ (proc[p].seen # 0 /\ m = endpoint.refresh[proc[p].seen])
    /\ token = n \/ (proc[p].seen # 0 /\ token = endpoint.refresh[proc[p].seen])
    /\ endpoint.dropped \subseteq endpoint'.dropped
    /\ endpoint.valid \subseteq endpoint'.valid \cup endpoint'.dropped \cup Used(p)'
    /\ Used(p) = {}

\* Every other process keeps its part of the invariant, and what is saved is accounted for.
LEMMA IssuesKeeps ==
    ASSUME CredentialInv, NEW p \in Proc, NEW token, NEW n, Issues(p, token, n),
           PhaseAt(p)', WriterAt(p)', SeenAt(p)', GotAt(p)', LoginAt(p)'
    PROVE  LockInv' /\ TokenInv'
<1>1. /\ file \in 1..Issued /\ proc \in [Proc -> ProcRecord] /\ Issued \in Nat
  BY Fields DEF CredentialInv
<1>2. /\ UNCHANGED <<file, dir, faults>> /\ n = Issued + 1 /\ Issued' = n
      /\ \A m \in 1..Issued : endpoint'.refresh[m] = endpoint.refresh[m]
      /\ endpoint'.refresh[n] = token /\ token \in 1..n
      /\ \A q \in Proc \ {p} : proc'[q] = proc[q]
      /\ proc'[p].held = proc[p].held
      /\ proc'[p].seen \in {0, proc[p].seen} /\ proc'[p].got \in {0, n}
      /\ token = n \/ (proc[p].seen # 0 /\ token = endpoint.refresh[proc[p].seen])
      /\ endpoint.dropped \subseteq endpoint'.dropped
      /\ endpoint.valid \subseteq endpoint'.valid \cup endpoint'.dropped \cup Used(p)'
      /\ Used(p) = {}
  BY DEF Issues
<1>3. \A q \in Proc : proc[q].seen \in 0..Issued /\ proc[q].got \in 0..Issued
  BY <1>1 DEF ProcRecord
<1>4. \A q \in Proc : Keeper(q)' <=> Keeper(q)
  BY <1>2, KeepersStay
<1>5. LockInv'
  <2>1. OneMaker'
    BY <1>2, KeepersStay DEF CredentialInv, LockInv
  <2>2. ASSUME NEW q \in Proc \ {p} PROVE PhaseAt(q)' /\ WriterAt(q)' /\ SeenAt(q)'
    <3>1. PhaseAt(q) /\ WriterAt(q) /\ SeenAt(q) /\ proc'[q] = proc[q]
      BY <1>2 DEF CredentialInv, LockInv
    <3> QED
      BY <1>2, <1>4, <3>1 DEF PhaseAt, WriterAt, SeenAt
  <2> QED
    BY <2>1, <2>2 DEF LockInv
<1>6. TokensNumbered'
  <2> SUFFICES ASSUME NEW m \in 1..n PROVE endpoint'.refresh[m] \in 1..n
    BY <1>2 DEF TokensNumbered
  <2>1. CASE m = n
    BY <1>2, <2>1
  <2>2. CASE m # n
    <3>1. m \in 1..Issued
      BY <1>1, <1>2, <2>2
    <3>2. endpoint.refresh[m] \in 1..Issued
      BY <3>1 DEF CredentialInv, TokenInv, TokensNumbered
    <3> QED
      BY <1>1, <1>2, <3>1, <3>2
  <2> QED
    BY <2>1, <2>2
<1>7. ASSUME NEW q \in Proc \ {p} PROVE Used(q)' = Used(q)
  <2>1. proc'[q] = proc[q] /\ (proc[q].seen = 0 \/ proc[q].seen \in 1..Issued)
    BY <1>1, <1>2, <1>3
  <2>2. Refreshing(q)' <=> Refreshing(q)
    BY <2>1 DEF Refreshing
  <2>3. Refreshing(q) => endpoint'.refresh[proc'[q].seen] = endpoint.refresh[proc[q].seen]
    BY <1>2, <2>1 DEF Refreshing
  <2> QED
    BY <2>2, <2>3 DEF Used
<1>8. ASSUME NEW t, NEW Q \in SUBSET Proc, p \in Q, Accounted(t, Q) PROVE Accounted(t, Q)'
  <2>1. CASE t \in endpoint.valid \cup endpoint.dropped
    BY <1>2, <1>8, <2>1 DEF Accounted
  <2>2. CASE \E q \in Q : t \in Used(q)
    <3>1. PICK q \in Q : t \in Used(q)
      BY <2>2
    <3>2. q # p
      BY <1>2, <3>1
    <3>3. t \in Used(q)'
      BY <1>7, <3>1, <3>2
    <3> QED
      BY <3>3 DEF Accounted
  <2> QED
    BY <1>8, <2>1, <2>2 DEF Accounted
<1>9. SavedAccounted'
  <2> DEFINE t == endpoint.refresh[file]
  <2>1. t' = t
    BY <1>1, <1>2
  <2> HIDE DEF t
  <2>2. Accounted(t, Proc)
    BY DEF CredentialInv, TokenInv, SavedAccounted, t
  <2>3. Accounted(t, Proc)
          => (t \in endpoint'.valid \cup endpoint'.dropped \/ \E q \in Proc : t \in Used(q)')
    BY <1>8 DEF Accounted
  <2> QED
    BY <2>1, <2>2, <2>3 DEF SavedAccounted, Accounted, t
<1>10. ASSUME NEW q \in Proc \ {p} PROVE GotAt(q)'
  <2> DEFINE t == endpoint.refresh[proc[q].got]
  <2> SUFFICES ASSUME proc'[q].pc \in {"check", "write"}, q \notin faults'.robbed, Keeper(q)'
               PROVE  t' \in endpoint'.valid \cup endpoint'.dropped
                      \/ \E r \in Proc \ {q} : t' \in Used(r)'
    BY DEF GotAt, Accounted
  <2>1. proc'[q] = proc[q] /\ PhaseAt(q) /\ GotAt(q)
    BY <1>2 DEF CredentialInv, LockInv, TokenInv
  <2>2. proc[q].got \in 1..Issued
    BY <1>1, <1>3, <2>1 DEF PhaseAt
  <2>3. t' = t
    BY <1>2, <2>1, <2>2
  <2>4. Accounted(t, Proc \ {q})
    BY <1>2, <1>4, <2>1 DEF GotAt
  <2> HIDE DEF t
  <2>5. Accounted(t, Proc \ {q}) => (t \in endpoint'.valid \cup endpoint'.dropped
                      \/ \E r \in Proc \ {q} : t \in Used(r)')
    BY <1>8 DEF Accounted
  <2> QED
    BY <2>3, <2>4, <2>5
<1>11. ASSUME NEW q \in Proc \ {p} PROVE LoginAt(q)'
  <2>1. proc'[q] = proc[q] /\ LoginAt(q)
    BY <1>2 DEF CredentialInv, TokenInv
  <2> SUFFICES ASSUME proc[q].seen = 0, proc[q].got # 0 PROVE LoginAt(q)'
    BY <2>1 DEF LoginAt
  <2> DEFINE g == proc[q].got
  <2>2. /\ g \in 1..Issued /\ g \in endpoint.valid /\ endpoint.refresh[g] = g /\ file # g
        /\ \A m \in 1..Issued : m # g => endpoint.refresh[m] # g
        /\ \A r \in Proc \ {q} : proc[r].seen # g /\ proc[r].got # g
    BY <1>1, <1>3, <2>1 DEF LoginAt
  <2> HIDE DEF g
  <2>3. g # n /\ g # 0
    BY <1>1, <1>2, <2>2
  <2>4. proc[p].seen # 0 => endpoint.refresh[proc[p].seen] # g
    BY <1>1, <1>3, <2>2
  <2>5. token # g
    BY <1>2, <2>3, <2>4
  <2>6. g \in endpoint'.valid
    BY <2>2, <2>4, <2>5 DEF Issues
  <2>7. endpoint'.refresh[g] = g /\ file' # g
    BY <1>2, <2>2
  <2>8. ASSUME NEW m \in 1..Issued', m # g PROVE endpoint'.refresh[m] # g
    <3>1. m = n \/ m \in 1..Issued
      BY <1>1, <1>2
    <3> QED
      BY <1>2, <2>2, <2>5, <2>8, <3>1
  <2>9. \A r \in Proc \ {q} : proc'[r].seen # g /\ proc'[r].got # g
    BY <1>2, <2>2, <2>3
  <2>10. proc'[q].got = g
    BY <2>1 DEF g
  <2> QED
    BY <2>6, <2>7, <2>8, <2>9, <2>10 DEF LoginAt
<1> QED
  BY <1>5, <1>6, <1>9, <1>10, <1>11 DEF TokenInv

\* A refresh at the endpoint.
LEMMA AskKeeps ==
    ASSUME CredentialInv, NEW p \in Proc, Ask(p)
    PROVE  LockInv' /\ TokenInv'
<1>1. /\ TypeOK /\ file \in 1..Issued /\ endpoint \in EndpointType
      /\ proc \in [Proc -> ProcRecord] /\ proc[p] \in ProcRecord /\ Issued \in Nat
  BY Typed, Fields DEF CredentialInv
<1> DEFINE token == endpoint.refresh[proc[p].seen]
           n == Issued + 1
<1>2. proc[p].pc = "ask" /\ n <= MaxIssued /\ token \in endpoint.valid /\ UNCHANGED <<file, dir, faults>>
  BY Zenon DEF Ask, At
<1>3. PhaseAt(p) /\ SeenAt(p)
  BY DEF CredentialInv, LockInv
<1>4. proc[p].got = 0 /\ proc[p].seen # 0 /\ proc[p].seen \in 1..Issued
  BY <1>1, <1>2, <1>3 DEF PhaseAt, ProcRecord
<1>5. token \in 1..Issued /\ token \in 1..MaxIssued
  BY <1>1, <1>4, Fields DEF CredentialInv, TokenInv, TokensNumbered
<1>6. PICK rotated \in Rotation, replied \in BOOLEAN :
          /\ endpoint' = [endpoint EXCEPT
                 !.refresh = Append(@, IF rotated THEN n ELSE token),
                 !.valid = IF rotated THEN (@ \ {token}) \cup {n} ELSE @,
                 !.dropped = IF replied THEN @ ELSE @ \cup {token}]
          /\ IF replied THEN proc' = [proc EXCEPT ![p].got = n, ![p].pc = "check"] ELSE Done(p)
  BY DEF Ask
<1> DEFINE t == IF rotated THEN n ELSE token
<1>7. n \in 1..MaxIssued /\ Issued < MaxIssued /\ t \in 1..MaxIssued
  BY <1>1, <1>2, <1>5
<1>8. t \in 1..n /\ (t = n \/ t = token) /\ n # proc[p].seen /\ n # 0
  BY <1>1, <1>4, <1>5
<1> HIDE DEF token, n
<1>9. /\ endpoint'.refresh = Append(endpoint.refresh, t)
      /\ endpoint'.valid = IF rotated THEN (endpoint.valid \ {token}) \cup {n} ELSE endpoint.valid
      /\ endpoint'.dropped = IF replied THEN endpoint.dropped ELSE endpoint.dropped \cup {token}
  BY <1>1, <1>6 DEF EndpointType
<1>10. t \in endpoint'.valid
  BY <1>2, <1>9
<1> HIDE DEF t
<1>11. /\ Issued' = n /\ endpoint'.refresh[n] = t
       /\ \A m \in 1..Issued : endpoint'.refresh[m] = endpoint.refresh[m]
  BY <1>1, <1>7, <1>9, IssuedTyped DEF n
<1>12. /\ \A q \in Proc \ {p} : proc'[q] = proc[q]
       /\ proc'[p].held = proc[p].held
       /\ replied => proc'[p].pc = "check" /\ proc'[p].seen = proc[p].seen /\ proc'[p].got = n
       /\ ~replied => proc'[p].pc = "release" /\ proc'[p].seen = 0 /\ proc'[p].got = 0
  <2>1. CASE replied
    <3>1. /\ \A q \in Proc \ {p} : proc'[q] = proc[q]
          /\ proc'[p] = [proc[p] EXCEPT !.got = n, !.pc = "check"]
      BY <1>1, <1>6, <2>1
    <3> QED
      BY <1>1, <2>1, <3>1 DEF ProcRecord
  <2>2. CASE ~replied
    BY <1>1, <1>6, <2>2, StepEffects
  <2> QED
    BY <2>1, <2>2
<1>13. Used(p) = {} /\ (replied => Used(p)' = {token})
  BY <1>4, <1>8, <1>11, <1>12 DEF Used, Refreshing, token
<1>14. Keeper(p)' <=> Keeper(p)
  BY <1>2, <1>12, KeepersStay
<1>15. PhaseAt(p)' /\ WriterAt(p)' /\ SeenAt(p)'
  BY <1>2, <1>3, <1>4, <1>8, <1>12, <1>14 DEF PhaseAt, WriterAt, SeenAt
<1>16. GotAt(p)' /\ LoginAt(p)'
  BY <1>4, <1>10, <1>11, <1>12 DEF GotAt, LoginAt, Accounted
<1>17. Issues(p, t, n)
  <2>1. endpoint.valid \subseteq endpoint'.valid \cup endpoint'.dropped \cup Used(p)'
    BY <1>9, <1>13
  <2>2. \A m \in endpoint.valid \ endpoint'.valid : m = endpoint.refresh[proc[p].seen]
    BY <1>9 DEF token
  <2> QED
    BY <1>2, <1>4, <1>8, <1>9, <1>11, <1>12, <1>13, <2>1, <2>2 DEF Issues, n, token
<1> QED
  BY <1>15, <1>16, <1>17, IssuesKeeps

\* A login at the endpoint.
LEMMA AuthorizedKeeps ==
    ASSUME CredentialInv, NEW p \in Proc, Authorized(p)
    PROVE  LockInv' /\ TokenInv'
<1>1. /\ TypeOK /\ file \in 1..Issued /\ endpoint \in EndpointType
      /\ proc \in [Proc -> ProcRecord] /\ proc[p] \in ProcRecord /\ Issued \in Nat
  BY Typed, Fields DEF CredentialInv
<1> DEFINE n == Issued + 1
<1>2. /\ proc[p].pc = "idle" /\ UNCHANGED <<file, dir, faults>> /\ Issued < MaxIssued
      /\ endpoint' = [endpoint EXCEPT !.refresh = Append(@, n), !.valid = @ \cup {n}]
      /\ proc' = [proc EXCEPT ![p].pc = "lock", ![p].got = n]
  BY DEF Authorized, At
<1>3. proc[p].got = 0 /\ proc[p].seen = 0
  BY <1>2 DEF PhaseAt, CredentialInv, LockInv
<1>4. n \in 1..MaxIssued /\ n # 0 /\ n \in 1..n
  BY <1>1, <1>2
<1>5. \A m \in 1..Issued : endpoint.refresh[m] \in 1..Issued
  BY DEF CredentialInv, TokenInv, TokensNumbered
<1>6. \A m \in 0..Issued : m # n
  BY <1>1
<1>7. \A m \in 1..n : m = n \/ m \in 1..Issued
  BY <1>1
<1> HIDE DEF n
<1>8. /\ endpoint'.refresh = Append(endpoint.refresh, n) /\ endpoint'.valid = endpoint.valid \cup {n}
      /\ endpoint'.dropped = endpoint.dropped
  BY <1>1, <1>2 DEF EndpointType
<1>9. /\ Issued' = n /\ endpoint'.refresh[n] = n
      /\ \A m \in 1..Issued : endpoint'.refresh[m] = endpoint.refresh[m]
  BY <1>1, <1>2, <1>4, <1>8, IssuedTyped DEF n
<1>10. /\ \A q \in Proc \ {p} : proc'[q] = proc[q]
       /\ proc'[p].held = proc[p].held /\ proc'[p].pc = "lock"
       /\ proc'[p].seen = 0 /\ proc'[p].got = n
  <2>1. /\ \A q \in Proc \ {p} : proc'[q] = proc[q]
        /\ proc'[p] = [proc[p] EXCEPT !.pc = "lock", !.got = n]
    BY <1>1, <1>2
  <2> QED
    BY <1>1, <1>3, <2>1 DEF ProcRecord
<1>11. PhaseAt(p)' /\ WriterAt(p)' /\ SeenAt(p)' /\ GotAt(p)'
  BY <1>10 DEF PhaseAt, WriterAt, SeenAt, GotAt
<1>12. LoginAt(p)'
  <2>1. \A q \in Proc \ {p} : proc'[q].seen # n /\ proc'[q].got # n
    BY <1>1, <1>6, <1>10 DEF ProcRecord
  <2>2. \A m \in 1..n : m # n => endpoint'.refresh[m] # n
    BY <1>1, <1>5, <1>6, <1>7, <1>9
  <2>3. file' # n
    BY <1>1, <1>2, <1>6
  <2>4. n \in endpoint'.valid
    BY <1>8
  <2> QED
    BY <1>9, <1>10, <2>1, <2>2, <2>3, <2>4 DEF LoginAt
<1>13. Issues(p, n, n)
  <2>1. Used(p) = {}
    BY <1>3 DEF Used, Refreshing
  <2> QED
    BY <1>2, <1>4, <1>8, <1>9, <1>10, <2>1 DEF Issues, n
<1> QED
  BY <1>11, <1>12, <1>13, IssuesKeeps

\* The save.
LEMMA WriteKeeps ==
    ASSUME CredentialInv, NEW p \in Proc, Write(p)
    PROVE  LockInv' /\ TokenInv'
<1>1. /\ TypeOK /\ endpoint \in EndpointType /\ faults \in FaultsType /\ 1 \in Depth
      /\ proc \in [Proc -> ProcRecord] /\ proc[p] \in ProcRecord /\ Issued \in Nat
  BY Typed, Fields DEF CredentialInv
<1>2. /\ proc[p].pc = "write" /\ UNCHANGED dir /\ file' = proc[p].got
      /\ endpoint'.refresh = endpoint.refresh /\ endpoint'.valid = endpoint.valid
      /\ endpoint'.dropped = IF p \in faults.robbed
                             THEN endpoint.dropped \cup {endpoint.refresh[proc[p].got]}
                             ELSE endpoint.dropped
      /\ faults'.robbed = IF p \in faults.robbed
                          THEN {q \in Proc \ {p} : q \in faults.robbed \/ proc[q].pc \in {"ask", "check", "write"}}
                          ELSE faults.robbed
  BY <1>1 DEF Write, At, EndpointType, FaultsType
<1>3. /\ \A q \in Proc \ {p} : proc'[q] = proc[q]
      /\ proc'[p].pc = "release" /\ proc'[p].held = proc[p].held
      /\ proc'[p].seen = 0 /\ proc'[p].got = 0
  BY <1>1, StepEffects DEF Write
<1>4. OneMaker /\ PhaseAt(p) /\ WriterAt(p) /\ GotAt(p)
  BY DEF CredentialInv, LockInv, TokenInv
<1>5. proc[p].got # 0 /\ Issued' = Issued
  BY <1>2, <1>4 DEF PhaseAt, Issued
<1>6. \A q \in Proc : Keeper(q)' <=> Keeper(q)
  BY <1>2, KeepersStay
<1>7. \A q \in Proc \ {p} : Used(q)' = Used(q)
  BY <1>2, <1>3 DEF Used, Refreshing
<1>8. ASSUME p \notin faults.robbed, NEW q \in Proc \ {p} PROVE ~Keeper(q)
  <2>1. p \in dir[1].by
    BY <1>1, <1>2, <1>4, <1>8 DEF WriterAt, Keeper
  <2>2. q \notin dir[1].by
    BY <1>1, <1>4, <2>1 DEF OneMaker
  <2> QED
    BY <1>1, <2>2 DEF Keeper
<1>9. OneMaker' /\ TokensNumbered'
  <2>1. OneMaker'
    BY <1>2, <1>4, KeepersStay
  <2>2. TokensNumbered'
    BY <1>2, <1>5 DEF TokensNumbered, CredentialInv, TokenInv
  <2> QED
    BY <2>1, <2>2
<1>10. PhaseAt(p)' /\ WriterAt(p)' /\ SeenAt(p)' /\ GotAt(p)' /\ LoginAt(p)'
  BY <1>3 DEF PhaseAt, WriterAt, SeenAt, GotAt, LoginAt
<1>11. ASSUME NEW q \in Proc \ {p}
       PROVE  PhaseAt(q)' /\ WriterAt(q)' /\ SeenAt(q)' /\ GotAt(q)'
  <2>1. proc'[q] = proc[q] /\ PhaseAt(q) /\ WriterAt(q)
    BY <1>3 DEF CredentialInv, LockInv
  <2>2. CASE p \in faults.robbed
    <3>1. proc[q].pc \in {"ask", "check", "write"} => q \in faults'.robbed
      BY <1>2, <2>2
    <3> QED
      BY <2>1, <3>1 DEF PhaseAt, WriterAt, SeenAt, GotAt
  <2>3. CASE p \notin faults.robbed
    <3>1. ~Keeper(q)' /\ faults'.robbed = faults.robbed /\ ~Keeper(q)
      BY <1>2, <1>6, <1>8, <2>3
    <3> QED
      BY <2>1, <3>1 DEF PhaseAt, WriterAt, SeenAt, GotAt
  <2> QED
    BY <2>2, <2>3
<1>12. ASSUME NEW q \in Proc \ {p} PROVE LoginAt(q)'
  <2>1. proc'[q] = proc[q] /\ LoginAt(q)
    BY <1>3 DEF CredentialInv, TokenInv
  <2> SUFFICES ASSUME proc[q].seen = 0, proc[q].got # 0 PROVE LoginAt(q)'
    BY <2>1 DEF LoginAt
  <2> DEFINE g == proc[q].got
  <2>2. /\ g # 0 /\ g \in endpoint.valid /\ endpoint.refresh[g] = g
        /\ \A m \in 1..Issued : m # g => endpoint.refresh[m] # g
        /\ \A r \in Proc \ {q} : proc[r].seen # g /\ proc[r].got # g
    BY <2>1 DEF LoginAt
  <2> HIDE DEF g
  <2>3. file' # g /\ \A r \in Proc \ {q} : proc'[r].seen # g /\ proc'[r].got # g
    BY <1>2, <1>3, <2>2
  <2>4. proc'[q].got = g
    BY <2>1 DEF g
  <2> QED
    BY <1>2, <1>5, <2>2, <2>3, <2>4 DEF LoginAt
<1>13. SavedAccounted'
  <2> DEFINE t == endpoint.refresh[proc[p].got]
  <2>1. endpoint'.refresh[file'] = t
    BY <1>2
  <2> SUFFICES t \in endpoint'.valid \cup endpoint'.dropped \/ \E q \in Proc : t \in Used(q)'
    BY <2>1 DEF SavedAccounted, Accounted
  <2>2. CASE p \in faults.robbed
    BY <1>2, <2>2
  <2>3. CASE p \notin faults.robbed
    <3>1. Accounted(t, Proc \ {p})
      BY <1>2, <1>4, <2>3 DEF WriterAt, GotAt
    <3> QED
      BY <1>2, <1>7, <2>3, <3>1 DEF Accounted
  <2> QED
    BY <2>2, <2>3
<1> QED
  BY <1>9, <1>10, <1>11, <1>12, <1>13 DEF LockInv, TokenInv

-----------------------------------------------------------------------------
(* The theorems *)

\* Nothing is held, and one credential, that was accepted, is saved.
LEMMA InitInv == Init => CredentialInv
<1> SUFFICES ASSUME Init PROVE CredentialInv
  OBVIOUS
<1>1. /\ file = 1 /\ endpoint = [refresh |-> <<1>>, valid |-> {1}, expired |-> 0, dropped |-> {}]
      /\ dir = [i \in Depth |-> NoDir] /\ proc = [p \in Proc |-> Idle]
      /\ faults = [count |-> 0, robbed |-> {}]
  BY Zenon DEF Init
<1>2. Issued = 1 /\ endpoint.refresh = <<1>> /\ endpoint.valid = {1}
  BY <1>1 DEF Issued
<1>3. TypeOK
  <2>1. endpoint \in EndpointType
    <3>1. 1 \in 1..MaxIssued /\ 0 \in 0..Issued
      BY <1>2
    <3>2. <<1>> \in Seq(1..MaxIssued)
      BY <3>1
    <3> QED
      BY <1>1, <3>1, <3>2, Zenon DEF EndpointType
  <2>2. dir \in DirType
    BY <1>1 DEF DirType, NoDir
  <2>3. proc \in [Proc -> ProcRecord]
    BY <1>1, <1>2, IdleIsTyped, Zenon
  <2>4. faults \in FaultsType
    BY <1>1 DEF FaultsType
  <2>5. file \in 1..Issued
    BY <1>1, <1>2
  <2> QED
    BY <2>1, <2>2, <2>3, <2>4, <2>5, Typed
<1>4. \A p \in Proc : /\ proc[p].pc = "idle" /\ proc[p].seen = 0 /\ proc[p].got = 0
                      /\ \A i \in Depth : proc[p].held[i] = NoInode
  BY <1>1 DEF Idle
<1>5. LockInv
  <2>1. \A i \in Depth : dir[i].by = {}
    BY <1>1 DEF NoDir
  <2> QED
    BY <1>4, <2>1 DEF LockInv, OneMaker, PhaseAt, WriterAt, SeenAt
<1>6. TokensNumbered /\ SavedAccounted
  BY <1>1, <1>2 DEF TokensNumbered, SavedAccounted, Accounted
<1>7. \A p \in Proc : GotAt(p) /\ LoginAt(p)
  BY <1>4 DEF GotAt, LoginAt
<1> QED
  BY <1>3, <1>5, <1>6, <1>7 DEF CredentialInv, TokenInv

\* Every step keeps the invariant.
LEMMA NextInv == CredentialInv /\ [Next]_vars => CredentialInv'
<1> SUFFICES ASSUME CredentialInv, [Next]_vars PROVE CredentialInv'
  OBVIOUS
<1>1. TypeOK /\ endpoint \in EndpointType /\ faults \in FaultsType /\ dir \in DirType
  BY Typed DEF CredentialInv
<1>2. ASSUME NEW p \in Proc,
             \/ Mkdir(p) \/ Stat(p) \/ Unmake(p) \/ SeeStale(p) \/ Steal(p) \/ GiveUp(p)
             \/ Unlock(p) \/ Rmdir(p) \/ \E i \in Depth : Beat(p, i) \/ BeatFails(p, i)
      PROVE  CredentialInv'
  <2>1. 1 \in Depth
    BY <1>1, Fields
  <2> QED
    BY <1>1, <1>2, <2>1, LockStepsTyped, LockStepsFrame, FrameKeeps DEF CredentialInv
<1>3. ASSUME NEW p \in Proc,
             \/ Request(p) \/ Read(p) \/ AskInVain(p) \/ Check(p) \/ WriteFails(p) \/ Crash(p)
             \/ Pause(p) \/ Resume(p)
      PROVE  CredentialInv'
  BY <1>1, <1>3, PlainStepsTyped, PlainStepsFrame, FrameKeeps DEF CredentialInv
<1>4. ASSUME NEW p \in Proc, Ask(p) PROVE CredentialInv'
  BY <1>4, ProviderStepsTyped, AskKeeps DEF CredentialInv
<1>5. ASSUME NEW p \in Proc, Authorized(p) PROVE CredentialInv'
  BY <1>5, ProviderStepsTyped, AuthorizedKeeps DEF CredentialInv
<1>6. ASSUME NEW p \in Proc, Write(p) PROVE CredentialInv'
  BY <1>6, ProviderStepsTyped, WriteKeeps DEF CredentialInv
<1>7. ASSUME NEW i \in Depth, Age(i) PROVE CredentialInv'
  <2>1. \E b \in BOOLEAN : dir' = [dir EXCEPT ![i].stale = b]
    BY <1>7 DEF Age
  <2>2. \A j \in Depth : dir'[j].by = dir[j].by
    BY <1>1, <2>1 DEF DirType
  <2>3. UNCHANGED <<file, endpoint, proc, faults>>
    BY <1>7 DEF Age
  <2>4. LockInv' /\ TokenInv'
    BY <2>2, <2>3, StillKeeps
  <2>5. TypeOK'
    <3>1. dir' \in DirType
      <4>1. PICK b \in BOOLEAN : dir' = [dir EXCEPT ![i].stale = b]
        BY <2>1
      <4> QED
        BY <1>1, <4>1, DirMoves, Zenon
    <3> QED
      BY <1>1, <2>3, <3>1 DEF TypeOK, DirType, Issued
  <2> QED
    BY <2>4, <2>5 DEF CredentialInv
<1>8. ASSUME Expire PROVE CredentialInv'
  <2>1. endpoint' = [endpoint EXCEPT !.expired = Issued] /\ UNCHANGED <<file, dir, proc, faults>>
    BY <1>8 DEF Expire
  <2>2. UNCHANGED <<endpoint.refresh, endpoint.valid, endpoint.dropped>>
    BY <1>1, <2>1 DEF EndpointType
  <2>3. LockInv' /\ TokenInv'
    BY <2>1, <2>2, StillKeeps
  <2>4. TypeOK'
    <3>1. endpoint' \in EndpointType /\ Issued' = Issued
      <4>1. Issued \in 0..Issued
        BY <1>1, Fields
      <4> QED
        BY <1>1, <2>1, <2>2, <4>1, EndpointMoves DEF Issued
    <3>2. EndpointType' = EndpointType /\ ProcRecord' = ProcRecord
      BY <3>1 DEF EndpointType, ProcRecord
    <3>3. file \in 1..Issued /\ proc \in [Proc -> ProcRecord]
      BY <1>1, Fields
    <3> QED
      BY <1>1, <2>1, <3>1, <3>2, <3>3, TypedNext
  <2> QED
    BY <2>3, <2>4 DEF CredentialInv
<1>9. CASE UNCHANGED vars
  <2>1. UNCHANGED <<file, endpoint, dir, proc, faults>>
    BY <1>9 DEF vars
  <2>2. LockInv' /\ TokenInv'
    BY <2>1, StillKeeps
  <2>3. TypeOK'
    BY <1>1, <2>1 DEF TypeOK, Issued
  <2> QED
    BY <2>2, <2>3 DEF CredentialInv
<1>10. CASE Next
  <2>1. \/ Expire \/ (\E i \in Depth : Age(i))
        \/ \E p \in Proc :
              \/ Mkdir(p) \/ Stat(p) \/ Unmake(p) \/ SeeStale(p) \/ Steal(p) \/ GiveUp(p)
              \/ Unlock(p) \/ Rmdir(p) \/ Request(p) \/ Read(p) \/ AskInVain(p) \/ Check(p)
              \/ WriteFails(p) \/ Crash(p) \/ Pause(p) \/ Resume(p) \/ Ask(p) \/ Authorized(p)
              \/ Write(p) \/ \E i \in Depth : Beat(p, i) \/ BeatFails(p, i)
    BY <1>10, Zenon DEF Next, Run
  <2> QED
    BY <1>2, <1>3, <1>4, <1>5, <1>6, <1>7, <1>8, <2>1
<1> QED
  BY <1>9, <1>10

\* The types, the parts of the lock and what became of each refresh token hold in every state that
\* Token, Login, the locks and the provider reach: while a directory may be made between another's
\* Mkdir and Stat, an inode be used again, and a touch or a save fail.
THEOREM CredentialInvariant == Spec => []CredentialInv
<1> QED
  BY InitInv, NextInv, PTL DEF Spec

\* Type correctness of the credential file, its locks and its users.
THEOREM TypeCorrect == Spec => []TypeOK
<1>1. CredentialInv => TypeOK
  BY DEF CredentialInv
<1> QED
  BY <1>1, CredentialInvariant, PTL

\* A process that asks while its locks are the directories it made has a refresh token that is
\* accepted, or whose successor was lost with a reply, a process or a save, or is with one whose
\* locks are not: openAICodexOAuthSource.Token of two sources does not use one token twice.
THEOREM RefreshedOnce == Spec => []RefreshOnce
<1>1. CredentialInv => RefreshOnce
  <2> SUFFICES ASSUME CredentialInv, NEW p \in Proc, proc[p].pc = "ask", Keeper(p),
                      p \notin faults.robbed
               PROVE  LET token == endpoint.refresh[proc[p].seen] IN
                      \/ token \in endpoint.valid \cup endpoint.dropped
                      \/ \E q \in Proc \ {p} : token \in Used(q)
    BY DEF RefreshOnce
  <2>1. PhaseAt(p) /\ SeenAt(p) /\ SavedAccounted
    BY DEF CredentialInv, LockInv, TokenInv
  <2>2. proc[p].got = 0 /\ file = proc[p].seen
    BY <2>1 DEF PhaseAt, SeenAt
  <2>3. Used(p) = {}
    BY <2>2 DEF Used, Refreshing
  <2> QED
    BY <2>1, <2>2, <2>3 DEF SavedAccounted, Accounted
<1> QED
  BY <1>1, CredentialInvariant, PTL

\* What a refresh saves replaces the credential it has read, unless its lock was removed between
\* directoryLocksError and atomicWriteJSON, was of a directory that another had made, or one in such
\* a case has written under it.
THEOREM NoUpdateIsLost == Spec => NoLostUpdate
<1>1. CredentialInv =>
        \A p \in Proc : (Write(p) /\ proc[p].seen # 0) => (file = proc[p].seen \/ p \in faults.robbed)
  <2> SUFFICES ASSUME CredentialInv, NEW p \in Proc, Write(p), proc[p].seen # 0
               PROVE  file = proc[p].seen \/ p \in faults.robbed
    OBVIOUS
  <2>1. proc[p].pc = "write"
    BY DEF Write, At
  <2>2. WriterAt(p) /\ SeenAt(p)
    BY DEF CredentialInv, LockInv
  <2> QED
    BY <2>1, <2>2 DEF WriterAt, SeenAt
<1> QED
  BY <1>1, CredentialInvariant, PTL DEF NoLostUpdate
=============================================================================
