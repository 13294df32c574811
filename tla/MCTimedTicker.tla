--------------------------- MODULE MCTimedTicker ---------------------------
(* TimedTicker with one item and one NPC, for TLC.                         *)
EXTENDS TimedTicker
CONSTANTS i1, c1
=============================================================================
