----------------------------- MODULE MCAsyncDB -----------------------------
(* AsyncDB for TLC: the helper, another object, and three OS threads.        *)
EXTENDS AsyncDB
CONSTANTS helper, net
=============================================================================
