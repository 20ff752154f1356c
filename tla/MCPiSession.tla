---------------------------- MODULE MCPiSession ----------------------------
(* Instances of PiSession for TLC. *)
EXTENDS PiSession, TLC

Symmetry == Permutations(Call)
=============================================================================
