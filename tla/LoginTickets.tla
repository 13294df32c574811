---------------------------- MODULE LoginTickets ----------------------------
(***************************************************************************)
(* What the login server and a shard promise together, without requests,   *)
(* clocks and threads: who has passed the check of the password gets one   *)
(* ticket to the shard, a ticket may lapse, and one client of its account  *)
(* enters with it.                                                         *)
(***************************************************************************)
EXTENDS Sequences

CONSTANTS Logins, AccountOf

VARIABLES
  passed,   \* the logins whose password was right
  issued,   \* those that got a ticket
  valid,    \* the tickets that can be used
  entered   \* the clients that entered, named by their login

tickets == <<passed, issued, valid, entered>>

Init == passed = {} /\ issued = {} /\ valid = {} /\ entered = <<>>

Pass(l) ==
  /\ l \notin passed
  /\ passed' = passed \cup {l}
  /\ UNCHANGED <<issued, valid, entered>>

(* A new ticket may replace others. *)
Issue(l) ==
  /\ l \in passed \ issued
  /\ issued' = issued \cup {l}
  /\ l \in valid' /\ valid' \subseteq valid \cup {l}
  /\ UNCHANGED <<passed, entered>>

Lapse ==
  /\ valid' \subseteq valid
  /\ UNCHANGED <<passed, issued, entered>>

Enter(c) ==
  /\ c \in passed
  /\ \E l \in valid :
       /\ AccountOf[l] = AccountOf[c]
       /\ valid' = valid \ {l}
  /\ entered' = Append(entered, c)
  /\ UNCHANGED <<passed, issued>>

Next == Lapse \/ \E l \in Logins : Pass(l) \/ Issue(l) \/ Enter(l)

Spec == Init /\ [][Next]_tickets

(* What follows from the contract: every client that entered has a ticket of *)
(* its own, of its account, that is used up and was issued to a login whose  *)
(* password was right.  So no account has more entries than such logins.     *)
OneTicketEach ==
  /\ valid \subseteq issued /\ issued \subseteq passed
  /\ \E ticket \in [DOMAIN entered -> issued \ valid] :
       \A i, j \in DOMAIN entered :
         /\ AccountOf[ticket[i]] = AccountOf[entered[i]]
         /\ ticket[i] = ticket[j] => i = j
=============================================================================
