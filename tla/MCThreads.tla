----------------------------- MODULE MCThreads -----------------------------
(* Threads for TLC: the main thread hangs and is restarted.                *)
EXTENDS Threads
CONSTANTS main, net
=============================================================================
