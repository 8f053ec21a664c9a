---------------------------- MODULE MCCoordinator ----------------------------
(* Coordinator for TLC: restaurants are interchangeable.                   *)
EXTENDS Coordinator, TLC

Symmetry == Permutations(Ids)
=============================================================================
