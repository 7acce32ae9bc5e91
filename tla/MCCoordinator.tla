--------------------------- MODULE MCCoordinator ---------------------------
(* Instances of Coordinator for TLC.                                       *)
EXTENDS Coordinator, TLC

Symm == Permutations(Server)
=============================================================================
