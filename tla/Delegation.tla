------------------------------ MODULE Delegation ------------------------------
(***************************************************************************)
(* What a supervisor node promises about the children it delegates to,     *)
(* without processes, pipes or cleanup: a child is admitted at most once   *)
(* and only while the node is open, each call has exactly one outcome, an  *)
(* outcome other than "aborted" is given only for a child that is no       *)
(* longer live, and a node that was closed finishes with no live child.    *)
(* A child that a user stopped may hold its node up for as long as it does *)
(* not end by itself.                                                      *)
(*                                                                         *)
(* ChildSupervision implements it: see the instance there.                 *)
(***************************************************************************)
CONSTANT Child

VARIABLES
    open,     \* the node admits children
    finished, \* the node has torn itself down
    admitted, \* children ever admitted
    live,     \* children whose entry is in the registry
    held,     \* live children that are waited for without a deadline
    outcome   \* the answer of each CreateChild call

vars == <<open, finished, admitted, live, held, outcome>>

Outcome == {"none", "result", "reported", "failed", "aborted", "rejected"}

Init ==
    /\ open = TRUE
    /\ finished = FALSE
    /\ admitted = {}
    /\ live = {}
    /\ held = {}
    /\ outcome = [c \in Child |-> "none"]

Admit(c) ==
    /\ open
    /\ c \notin admitted
    /\ outcome[c] = "none"
    /\ admitted' = admitted \cup {c}
    /\ live' = live \cup {c}
    /\ UNCHANGED <<open, finished, held, outcome>>

Reject(c) ==
    /\ ~open
    /\ c \notin admitted
    /\ outcome[c] = "none"
    /\ outcome' = [outcome EXCEPT ![c] = "rejected"]
    /\ UNCHANGED <<open, finished, admitted, live, held>>

\* The child and what it owned are gone, or their removal was tried.
Settle(c) ==
    /\ c \in live \ held
    /\ live' = live \ {c}
    /\ UNCHANGED <<open, finished, admitted, held, outcome>>

\* A user stops the child: from now on only its own end lets it settle.
Hold(c) ==
    /\ c \in live \ held
    /\ held' = held \cup {c}
    /\ UNCHANGED <<open, finished, admitted, live, outcome>>

\* The held child ends.
Yield(c) ==
    /\ c \in held
    /\ held' = held \ {c}
    /\ UNCHANGED <<open, finished, admitted, live, outcome>>

Return(c) ==
    /\ c \in admitted \ live
    /\ outcome[c] = "none"
    /\ \E o \in {"result", "reported", "failed"} : outcome' = [outcome EXCEPT ![c] = o]
    /\ UNCHANGED <<open, finished, admitted, live, held>>

Abort(c) ==
    /\ c \in admitted
    /\ outcome[c] = "none"
    /\ outcome' = [outcome EXCEPT ![c] = "aborted"]
    /\ UNCHANGED <<open, finished, admitted, live, held>>

Close ==
    /\ open
    /\ open' = FALSE
    /\ UNCHANGED <<finished, admitted, live, held, outcome>>

Finish ==
    /\ ~open /\ ~finished
    /\ live = {}
    /\ finished' = TRUE
    /\ UNCHANGED <<open, admitted, live, held, outcome>>

Next ==
    \/ Close \/ Finish
    \/ \E c \in Child : \/ Admit(c) \/ Reject(c) \/ Settle(c) \/ Return(c) \/ Abort(c)
                        \/ Hold(c) \/ Yield(c)

Spec == Init /\ [][Next]_vars

\* A closed node settles what is live and not held, and finishes; an open one may
\* wait.
Fairness == /\ WF_vars(Finish)
            /\ \A c \in Child : WF_vars(~open /\ Settle(c))

FairSpec == Spec /\ Fairness
=============================================================================
