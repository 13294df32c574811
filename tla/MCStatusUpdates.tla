-------------------------- MODULE MCStatusUpdates --------------------------
(* StatusUpdates with two objects, for TLC.                                *)
EXTENDS StatusUpdates
CONSTANTS o1, o2
Symmetry == Permutations(Objs)
=============================================================================
