---------------------------- MODULE MCWorldSave ----------------------------
(* WorldSave with two sectors, two characters and an item, for TLC.        *)
EXTENDS WorldSave, TLC
CONSTANTS c1, c2, i1
Symmetry == Permutations(Chars)
=============================================================================
