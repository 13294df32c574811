--------------------------- MODULE MCConnections ---------------------------
(* Connections for TLC: two slots, two addresses, two client objects. *)
EXTENDS Connections, TLC
CONSTANTS ip1, ip2
=============================================================================
