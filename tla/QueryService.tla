---------------------------- MODULE QueryService ----------------------------
(***************************************************************************)
(* What AEXECUTE and AQUERY of DATABASE promise a script: the queries are  *)
(* answered by a call of the function that was named with them, in the     *)
(* order in which they were asked and once each, until the server ends.    *)
(***************************************************************************)
EXTENDS Naturals, Sequences

VARIABLES
  asked,    \* number of queries asked; the n-th one is called n
  answered  \* the queries whose function was called, in that order

QueryInit == asked = 0 /\ answered = <<>>

Ask    == asked' = asked + 1 /\ UNCHANGED answered
Answer ==
  /\ Len(answered) < asked
  /\ answered' = Append(answered, Len(answered) + 1)
  /\ UNCHANGED asked

QueryNext == Ask \/ Answer
QuerySpec == QueryInit /\ [][QueryNext]_<<asked, answered>>
=============================================================================
