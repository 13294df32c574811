-------------------------- MODULE MCTimedFunctions --------------------------
(* TimedFunctions with two objects, two UIDs and one function, for TLC.    *)
EXTENDS TimedFunctions
CONSTANTS o1, o2, f1
=============================================================================
