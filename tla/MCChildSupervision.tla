------------------------- MODULE MCChildSupervision -------------------------
(* Instances of ChildSupervision for TLC. *)
EXTENDS ChildSupervision, TLC

Symmetry == Permutations(Child)

\* The bound of the run with two children: each is followed while it starts,
\* until it has published its ownership, which is when admission, spawning,
\* cancellation and the stop of the node race for the registry.
StartingUp ==
    \A c \in Child : /\ proc[c].pc \in {"none", "provisioning", "owned", "exited"}
                     /\ clean[c].pc \notin {"grace", "termGrace"}
=============================================================================
