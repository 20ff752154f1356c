---------------------------- MODULE Credentials ----------------------------
(***************************************************************************)
(* The OAuth credential of a provider, kept in a file that several         *)
(* processes share (internal/proxy/oauth.go): the proxies of one user, a   *)
(* login, and Claude Code.  A process refreshes the access token when it   *)
(* has expired, under a lock that is a directory: made to be taken,        *)
(* touched by a heartbeat, and removed by whoever finds it stale.          *)
(*                                                                         *)
(* Claude's source looks at the file before it takes two locks, Codex's    *)
(* takes one and then looks, and has the login: here every process may do  *)
(* what either does.  A credential is the number of its issue.  A process  *)
(* may crash, and be paused for longer than a lock takes to go stale.      *)
(***************************************************************************)
EXTENDS Naturals, Sequences, FiniteSets

CONSTANTS
    Proc,       \* processes, each with one source and its mutex
    LockCount,  \* locks, taken in the same order by all: one of Codex, two of Claude
    MaxIssued,  \* bound: credentials issued
    MaxFaults,  \* bound: crashes, pauses, and touches and saves that fail
    Rotation,   \* whether the endpoint replaces the refresh token it accepts: always, never, or at will
    Pausing     \* whether a process may be paused for longer than a lock takes to go stale

ASSUME CredentialsAssumption ==
    /\ IsFiniteSet(Proc)
    /\ {LockCount, MaxIssued} \subseteq Nat \ {0} /\ MaxFaults \in Nat
    /\ Pausing \in BOOLEAN
ASSUME RotationAssumption == Rotation \subseteq BOOLEAN

VARIABLES
    file,     \* the credential that is saved
    endpoint, \* what the provider has issued, and the refresh tokens it accepts
    dir,      \* at each path: the inode of the directory, whether it is stale, and who made it
    proc,     \* what each process does
    faults    \* what has failed so far

vars == <<file, endpoint, dir, proc, faults>>

Depth == 1..LockCount
NoInode == 0
Inode == 1..Cardinality(Proc)
NoDir == [ino |-> NoInode, stale |-> FALSE, by |-> {}]

\* held: the inodes of the locks; seen, got: the credential that was read, and the one to be saved;
\* lost: the locks whose heartbeat has ended with an error, which sticks.
Idle == [pc |-> "idle", seen |-> 0, got |-> 0, held |-> [i \in Depth |-> NoInode],
         lost |-> {}, paused |-> FALSE]

\* refresh[n]: the refresh token of credential n.  History: by, who has made a directory and is
\* alive; dropped, the refresh tokens whose successor was not saved, or saved without the lock;
\* robbed, the processes whose lock was removed after they had checked it, those whose check was
\* of a directory another had made, and those that one of these has written under.
Init ==
    /\ file = 1
    /\ endpoint = [refresh |-> <<1>>, valid |-> {1}, expired |-> 0, dropped |-> {}]
    /\ dir = [i \in Depth |-> NoDir]
    /\ proc = [p \in Proc |-> Idle]
    /\ faults = [count |-> 0, robbed |-> {}]

Issued == Len(endpoint.refresh)
Expired(n) == n <= endpoint.expired
\* os.SameFile, of the directory at the path and the one that was recorded.
Mine(p, i) == proc[p].held[i] # NoInode /\ dir[i].ino = proc[p].held[i]
At(p, pc) == proc[p].pc = pc /\ ~proc[p].paused
Goto(p, pc) == proc' = [proc EXCEPT ![p].pc = pc]
\* Token or Login returns: its deferred release of the locks is next.
Done(p) == proc' = [proc EXCEPT ![p].pc = "release", ![p].seen = 0, ![p].got = 0]

\* The lock that is taken next, and the one released next.
Next1(p) == Cardinality({i \in Depth : proc[p].held[i] # NoInode}) + 1
Last(p) == Next1(p) - 1
-----------------------------------------------------------------------------
(* directoryLock *)

\* The directory is made.  An inode that somebody remembers may be used again, and of those that
\* nobody does the first stands for all.
Remembered(n, i) == \E q \in Proc : proc[q].held[i] = n
Mkdir(p) ==
    LET i == Next1(p) IN
    /\ At(p, "lock") /\ dir[i] = NoDir
    /\ \E ino \in Inode :
          /\ Remembered(ino, i) \/ \A n \in 1..(ino - 1) : Remembered(n, i)
          /\ dir' = [dir EXCEPT ![i] = [ino |-> ino, stale |-> FALSE, by |-> {p}]]
    /\ Goto(p, "stat")
    /\ UNCHANGED <<file, endpoint, faults>>

\* Whatever is at the path by now is recorded as the lock, and its heartbeat starts.
Stat(p) ==
    LET i == Next1(p) IN
    /\ At(p, "stat")
    /\ IF dir[i] = NoDir THEN Goto(p, "unmake")
       ELSE proc' = [proc EXCEPT ![p].held[i] = dir[i].ino,
                                 ![p].pc = IF i < LockCount THEN "lock"
                                           ELSE IF proc[p].got = 0 THEN "read" ELSE "check"]
    /\ UNCHANGED <<file, endpoint, dir, faults>>

\* The directory at the path is old.
SeeStale(p) ==
    /\ At(p, "lock") /\ dir[Next1(p)].stale
    /\ Goto(p, "steal")
    /\ UNCHANGED <<file, endpoint, dir, faults>>

\* A path loses its directory, whichever that is by now.
Removed(i) ==
    /\ dir' = [dir EXCEPT ![i] = NoDir]
    /\ faults' = [faults EXCEPT !.robbed = @ \cup {q \in Proc : proc[q].pc = "write" /\ q \in dir[i].by}]

\* Mutant: a stale directory is left to its owner.
StealNothing(p) ==
    /\ At(p, "steal")
    /\ Goto(p, "lock")
    /\ UNCHANGED <<file, endpoint, dir, faults>>

Steal(p) ==
    /\ At(p, "steal")
    /\ Removed(Next1(p))
    /\ Goto(p, "lock")
    /\ UNCHANGED <<file, endpoint>>

\* The context ends while it waits.
GiveUp(p) ==
    /\ At(p, "lock")
    /\ Done(p)
    /\ UNCHANGED <<file, endpoint, dir, faults>>

\* There is nothing to record: the path is removed, and the lock not taken.
Unmake(p) ==
    /\ At(p, "unmake")
    /\ Removed(Next1(p))
    /\ Done(p)
    /\ UNCHANGED <<file, endpoint>>

\* heartbeat, until Release or an error.
Beating(p, i) ==
    /\ ~proc[p].paused /\ proc[p].held[i] # NoInode /\ i \notin proc[p].lost
    /\ ~(proc[p].pc = "rmdir" /\ i = Last(p))
Lose(p, i) == proc' = [proc EXCEPT ![p].lost = @ \cup {i}]

\* The directory is touched, if it is the same; one that is not ends the heartbeat.
Beat(p, i) ==
    /\ Beating(p, i)
    /\ \/ /\ Mine(p, i) /\ dir[i].stale
          /\ dir' = [dir EXCEPT ![i].stale = FALSE]
          /\ UNCHANGED proc
       \/ ~Mine(p, i) /\ Lose(p, i) /\ UNCHANGED dir
    /\ UNCHANGED <<file, endpoint, faults>>

\* The directory cannot be touched.
BeatFails(p, i) ==
    /\ Beating(p, i) /\ Mine(p, i) /\ faults.count < MaxFaults
    /\ Lose(p, i)
    /\ faults' = [faults EXCEPT !.count = @ + 1]
    /\ UNCHANGED <<file, endpoint, dir>>

\* Time passes, and nobody touches the directory.
Age(i) ==
    /\ dir[i] # NoDir /\ ~dir[i].stale
    /\ ~\E p \in Proc : /\ ~proc[p].paused
                       /\ \/ Mine(p, i) /\ i \notin proc[p].lost
                          \/ p \in dir[i].by /\ proc[p].pc = "stat"
    /\ dir' = [dir EXCEPT ![i].stale = TRUE]
    /\ UNCHANGED <<file, endpoint, proc, faults>>

\* Release, the last lock first: the directory is looked at, and then removed if it is the same.
Unlock(p) ==
    LET i == Last(p) IN
    /\ At(p, "release")
    /\ proc' = IF i = 0 THEN [proc EXCEPT ![p] = Idle]
               ELSE IF Mine(p, i) THEN [proc EXCEPT ![p].pc = "rmdir"]
               ELSE [proc EXCEPT ![p].held[i] = NoInode]
    /\ faults' = IF i = 0 THEN [faults EXCEPT !.robbed = @ \ {p}] ELSE faults
    /\ UNCHANGED <<file, endpoint, dir>>

Rmdir(p) ==
    LET i == Last(p) IN
    /\ At(p, "rmdir")
    /\ Removed(i)
    /\ proc' = [proc EXCEPT ![p].held[i] = NoInode, ![p].pc = "release"]
    /\ UNCHANGED <<file, endpoint>>
-----------------------------------------------------------------------------
(* Token and Login *)

\* A request; Claude's looks at the file first, and needs no lock if the token has not expired.
Request(p) ==
    /\ At(p, "idle")
    /\ proc' = [proc EXCEPT ![p].pc = "lock", ![p].seen = file]
    /\ UNCHANGED <<file, endpoint, dir, faults>>

\* Mutant: what was seen before the locks were taken is not looked at again.
ReadBefore(p) ==
    /\ At(p, "read")
    /\ IF Expired(proc[p].seen) THEN Goto(p, "ask") ELSE Done(p)
    /\ UNCHANGED <<file, endpoint, dir, faults>>

\* The file is read under the locks: another process may have refreshed it meanwhile.  A
\* credential whose account is not recorded is saved again with it.
Read(p) ==
    /\ At(p, "read")
    /\ \/ Expired(file) /\ proc' = [proc EXCEPT ![p].seen = file, ![p].pc = "ask"]
       \/ ~Expired(file) /\ Done(p)
       \/ /\ ~Expired(file)
          /\ proc' = [proc EXCEPT ![p].seen = file, ![p].got = file, ![p].pc = "check"]
    /\ UNCHANGED <<file, endpoint, dir, faults>>

\* The request for a token fails, or is refused.
AskInVain(p) ==
    /\ At(p, "ask")
    /\ Done(p)
    /\ UNCHANGED <<file, endpoint, dir, faults>>

\* The endpoint accepts a refresh token, and may replace it (Rotation); the reply may be lost.
Ask(p) ==
    LET token == endpoint.refresh[proc[p].seen]
        n == Issued + 1
    IN
    /\ At(p, "ask") /\ token \in endpoint.valid /\ n <= MaxIssued
    /\ \E rotated \in Rotation, replied \in BOOLEAN :
          /\ endpoint' = [endpoint EXCEPT
                 !.refresh = Append(@, IF rotated THEN n ELSE token),
                 !.valid = IF rotated THEN (@ \ {token}) \cup {n} ELSE @,
                 !.dropped = IF replied THEN @ ELSE @ \cup {token}]
          /\ IF replied THEN proc' = [proc EXCEPT ![p].got = n, ![p].pc = "check"] ELSE Done(p)
    /\ UNCHANGED <<file, dir, faults>>

\* Login: the device is authorized before the lock is taken.
Authorized(p) ==
    /\ At(p, "idle") /\ Issued < MaxIssued
    /\ endpoint' = [endpoint EXCEPT !.refresh = Append(@, Issued + 1),
                                    !.valid = @ \cup {Issued + 1}]
    /\ proc' = [proc EXCEPT ![p].pc = "lock", ![p].got = Issued + 1]
    /\ UNCHANGED <<file, dir, faults>>

\* A refresh whose result is in hand.
Refreshing(p) == proc[p].seen # 0 /\ proc[p].got \notin {0, proc[p].seen}
Used(p) == IF Refreshing(p) THEN {endpoint.refresh[proc[p].seen]} ELSE {}

\* The locks are as they were recorded; and they are the directories that p has made.
Owner(p) == proc[p].lost = {} /\ \A i \in Depth : Mine(p, i)
Keeper(p) == \A i \in Depth : p \in dir[i].by

\* Mutant: the locks are not checked before the file is written.
CheckNothing(p) ==
    /\ At(p, "check")
    /\ Goto(p, "write")
    /\ UNCHANGED <<file, endpoint, dir, faults>>

\* directoryLocksError.
Check(p) ==
    /\ At(p, "check")
    /\ IF Owner(p) THEN Goto(p, "write") ELSE Done(p)
    /\ endpoint' = [endpoint EXCEPT !.dropped = @ \cup IF Owner(p) THEN {} ELSE Used(p)]
    /\ faults' = [faults EXCEPT !.robbed = @ \cup IF Owner(p) /\ ~Keeper(p) THEN {p} ELSE {}]
    /\ UNCHANGED <<file, dir>>

\* atomicWriteJSON: the file is replaced.
Write(p) ==
    /\ At(p, "write")
    /\ file' = proc[p].got
    /\ Done(p)
    /\ endpoint' = [endpoint EXCEPT !.dropped =
                        IF p \in faults.robbed THEN @ \cup {endpoint.refresh[proc[p].got]} ELSE @]
    /\ faults' = [faults EXCEPT !.robbed =
          IF p \in @ THEN {q \in Proc \ {p} : q \in @ \/ proc[q].pc \in {"ask", "check", "write"}} ELSE @]
    /\ UNCHANGED dir

\* The file cannot be replaced: the locks are released over the credential that was there.
WriteFails(p) ==
    /\ At(p, "write") /\ faults.count < MaxFaults
    /\ Done(p)
    /\ endpoint' = [endpoint EXCEPT !.dropped = @ \cup Used(p)]
    /\ faults' = [faults EXCEPT !.count = @ + 1]
    /\ UNCHANGED <<file, dir>>
-----------------------------------------------------------------------------
\* Time passes: what has been issued expires.
Expire ==
    /\ endpoint.expired < Issued
    /\ endpoint' = [endpoint EXCEPT !.expired = Issued]
    /\ UNCHANGED <<file, dir, proc, faults>>

\* The process dies, and another is started.
Crash(p) ==
    /\ proc[p].pc # "idle" /\ faults.count < MaxFaults
    /\ proc' = [proc EXCEPT ![p] = Idle]
    /\ endpoint' = [endpoint EXCEPT !.dropped = @ \cup Used(p)]
    /\ faults' = [faults EXCEPT !.count = @ + 1, !.robbed = @ \ {p}]
    /\ dir' = [i \in Depth |-> [dir[i] EXCEPT !.by = @ \ {p}]]
    /\ UNCHANGED file

Pause(p) ==
    /\ proc[p].pc # "idle" /\ ~proc[p].paused /\ Pausing /\ faults.count < MaxFaults
    /\ proc' = [proc EXCEPT ![p].paused = TRUE]
    /\ faults' = [faults EXCEPT !.count = @ + 1]
    /\ UNCHANGED <<file, endpoint, dir>>

Resume(p) ==
    /\ proc[p].paused
    /\ proc' = [proc EXCEPT ![p].paused = FALSE]
    /\ UNCHANGED <<file, endpoint, dir, faults>>

\* What a process does by itself; waiting ends when the context does.
Run(p) ==
    \/ Mkdir(p) \/ Stat(p) \/ Unmake(p) \/ SeeStale(p) \/ Steal(p) \/ Unlock(p) \/ Rmdir(p)
    \/ Read(p) \/ AskInVain(p) \/ Ask(p) \/ Check(p) \/ Write(p) \/ WriteFails(p)

Next ==
    \/ Expire \/ \E i \in Depth : Age(i)
    \/ \E p \in Proc :
          \/ Run(p) \/ Request(p) \/ Authorized(p) \/ GiveUp(p)
          \/ Crash(p) \/ Pause(p) \/ Resume(p)
          \/ \E i \in Depth : Beat(p, i) \/ BeatFails(p, i)

Spec == Init /\ [][Next]_vars

\* A process runs, unless it is paused, and not for ever; and time passes.  No heartbeat is needed.
Fairness ==
    /\ \A p \in Proc : WF_vars(Run(p)) /\ WF_vars(Resume(p))
    /\ \A i \in Depth : WF_vars(Age(i))

FairSpec == Spec /\ Fairness
-----------------------------------------------------------------------------
(* Properties *)

TypeOK ==
    /\ file \in 1..Issued
    /\ endpoint \in [refresh : Seq(1..MaxIssued), valid : SUBSET (1..MaxIssued),
                     expired : 0..Issued, dropped : SUBSET (1..MaxIssued)]
    /\ dir \in [Depth -> [ino : Inode \cup {NoInode}, stale : BOOLEAN, by : SUBSET Proc]]
    /\ proc \in [Proc -> [pc : {"idle", "lock", "stat", "unmake", "steal", "read", "ask", "check",
                                "write", "release", "rmdir"},
                          seen : 0..Issued, got : 0..Issued,
                          held : [Depth -> Inode \cup {NoInode}],
                          lost : SUBSET Depth, paused : BOOLEAN]]
    /\ faults \in [count : 0..MaxFaults, robbed : SUBSET Proc]

\* A refresh token is used once, as the test of two sources has it: a process whose locks are the
\* directories it made never sends one that has been replaced, unless its successor was lost with
\* the reply, with the process that had it or with a save that failed, is in the hands of one whose
\* locks are not, or was saved by one whose locks were not.
RefreshOnce ==
    \A p \in Proc : (proc[p].pc = "ask" /\ Keeper(p)) =>
        LET token == endpoint.refresh[proc[p].seen] IN
        \/ p \in faults.robbed \/ token \in endpoint.valid \cup endpoint.dropped
        \/ \E q \in Proc \ {p} : token \in Used(q)

\* No update is lost: what a refresh replaces is the credential it has read, unless its lock was
\* removed between the check and the write (Err and atomicWriteJSON are not one step), was of a
\* directory another had made (Mkdir and Stat are not one step, and inodes are used again), or one
\* in such a case has written under it.
NoLostUpdate ==
    [][\A p \in Proc : (Write(p) /\ proc[p].seen # 0)
           => (file = proc[p].seen \/ p \in faults.robbed)]_vars

\* A lock that a crash has left behind is in the way of nobody for ever who waits for it.
Orphan(i) == dir[i] # NoDir /\ ~\E p \in Proc : Mine(p, i) \/ p \in dir[i].by
Waits(p, i) == proc[p].pc \in {"lock", "steal"} /\ Next1(p) = i
DeadHolderReplaced == \A p \in Proc, i \in Depth : []<>~(Orphan(i) /\ Waits(p, i))

\* A lock whose owner has made it, is alive and touches it is not taken from it.
FreshLockSurvives ==
    [][\A p \in Proc, i \in Depth :
          (/\ Mine(p, i) /\ p \in dir[i].by /\ ~dir[i].stale
           /\ ~proc[p].paused /\ proc'[p].held[i] = proc[p].held[i])
              => dir'[i].by = dir[i].by]_vars
============================================================================
