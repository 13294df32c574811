---------------------------- MODULE MCSaveFiles ----------------------------
(* SaveFiles on a shard that comes up for the first time, for TLC.         *)
EXTENDS SaveFiles
=============================================================================
