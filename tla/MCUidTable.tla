----------------------------- MODULE MCUidTable -----------------------------
(* UidTable with a table of two slots that grows twice, for TLC.           *)
EXTENDS UidTable
CONSTANTS o1, o2
=============================================================================
