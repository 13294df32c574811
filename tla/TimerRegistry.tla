--------------------------- MODULE TimerRegistry ---------------------------
(***************************************************************************)
(* What the TIMER lists of CWorldTicker promise, without lists, requests   *)
(* or flags: a map from objects to the time they are registered for (what  *)
(* CWorldTicker::IsTimeoutRegistered computes from the three vectors).  A  *)
(* registration takes effect at once; when the clock advances, exactly the *)
(* objects that are registered for an earlier time and ready are taken out *)
(* of the map, and each of them then ticks once, in the order of the times.*)
(***************************************************************************)
EXTENDS Naturals

CONSTANT Objs

VARIABLES
  now,      \* the game clock
  reg,      \* the registered time of each object, 0 for none
  ready,    \* timer set, awake, not being deleted
  pending   \* the objects taken out that have not ticked yet, with their time

vars == <<now, reg, ready, pending>>

Init ==
  /\ now = 1
  /\ reg = [o \in Objs |-> 0]
  /\ ready = [o \in Objs |-> FALSE]
  /\ pending = {}

\* Game code registers an object, or moves its registration.
Register(o) ==
  /\ reg'[o] \in Nat /\ reg'[o] > 0
  /\ \A p \in Objs \ {o} : reg'[p] = reg[p]
  /\ ready' \in [Objs -> BOOLEAN]
  /\ UNCHANGED <<now, pending>>

\* Game code withdraws the registrations of the objects of S.
Withdraw(S) ==
  /\ reg' = [o \in Objs |-> IF o \in S THEN 0 ELSE reg[o]]
  /\ ready' \in [Objs -> BOOLEAN]
  /\ UNCHANGED <<now, pending>>

Taken(t) == { o \in Objs : reg[o] # 0 /\ reg[o] < t /\ ready[o] }

Dispatch ==
  /\ pending = {}
  /\ now' = now + 1
  /\ pending' = { <<reg[o], o>> : o \in Taken(now') }
  /\ reg' = [o \in Objs |-> IF o \in Taken(now') THEN 0 ELSE reg[o]]
  /\ UNCHANGED ready

TickOne ==
  /\ \E e \in pending : /\ \A f \in pending : e[1] <= f[1]
                        /\ pending' = pending \ {e}
  /\ ready' \in [Objs -> BOOLEAN]
  /\ UNCHANGED <<now, reg>>

Next ==
  \/ \E o \in Objs : Register(o)
  \/ \E S \in SUBSET Objs : Withdraw(S)
  \/ Dispatch
  \/ TickOne

Spec == Init /\ [][Next]_vars
=============================================================================
