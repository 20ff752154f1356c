--------------------------- MODULE MCNodeLifecycle ---------------------------
(* Instances of NodeLifecycle for TLC. *)
EXTENDS NodeLifecycle, TLC

Symmetry == Permutations(Handler)
=============================================================================
