-------------------------- MODULE MCPeriodicTicker --------------------------
(* PeriodicTicker with two or three characters, for TLC.                            *)
EXTENDS PeriodicTicker
CONSTANTS c1, c2, c3
Symmetry == Permutations(Chars)
=============================================================================
