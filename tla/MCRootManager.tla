---------------------------- MODULE MCRootManager ----------------------------
(* Instances of RootManager for TLC. *)
EXTENDS RootManager, TLC

CONSTANTS pSpawn, pUser, gSpawn, gUser, gNext, r1, r2

\* The manager launches gSpawn; gUser carries the same session ID at another path, and has the
\* child sessions; gNext is another root at the path of gUser.
LaunchedPath == [g \in Gen |-> IF g = gSpawn THEN pSpawn ELSE pUser]
SharedRoot == [g \in Gen |-> IF g = gNext THEN r2 ELSE r1]
UserKids == [g \in Gen |-> IF g = gUser THEN Kid ELSE {}]

Symmetry == Permutations(Handle)
==============================================================================
