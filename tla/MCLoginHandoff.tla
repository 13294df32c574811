--------------------------- MODULE MCLoginHandoff ---------------------------
(* LoginHandoff for TLC: two logins of one account and one of another whose *)
(* name gives the same id.                                                  *)
EXTENDS LoginHandoff, TLC
CONSTANTS a1, a2, b, ann, bob
MCAccountOf == (a1 :> ann) @@ (a2 :> ann) @@ (b :> bob)
MCAuthId == (a1 :> 1) @@ (a2 :> 1) @@ (b :> 1)
=============================================================================
