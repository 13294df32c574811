---------------------------- MODULE TimedTicker ----------------------------
(***************************************************************************)
(* The TIMER part of CWorldTicker (src/src/game/CWorldTicker.cpp) and the  *)
(* part of CTimedObject / CObjBase it works on.                            *)
(*                                                                         *)
(* The ticker keeps one sorted vector of (timeout, object) pairs and two   *)
(* request vectors that game code fills between and during ticks: objects  *)
(* to add and objects to erase.  At the start of a tick the requests are   *)
(* merged in the main vector, the due entries are moved to a buffer, and   *)
(* the objects of the buffer run their _OnTick one by one.  _OnTick is     *)
(* game code and scripts: it may call every operation below on any object. *)
(* Two flags of each object say in which vector it is, so that no search   *)
(* is needed; the release build trusts them.                               *)
(*                                                                         *)
(* A vector is modelled as the set of its elements.  That is exact as long *)
(* as no operation inserts an element the vector already has: invariant    *)
(* OneEntry (a conjunct of IInv in TimedTicker_proofs) shows it.  Entries  *)
(* with the same timeout are ordered by address in the code; here by any   *)
(* order.  Game code runs on the main thread only (MT_ENGINES is 0).       *)
(*                                                                         *)
(* An object is a slot of memory: one that is destroyed may be allocated   *)
(* again.  A garbage collection that game code asks for inside a callback  *)
(* destroys objects the buffer still points to.  What the loop does with   *)
(* such a pointer is undefined and ends the model (pc is "wild"), unless a *)
(* new object has the memory by then: it ticks in place of the old one.    *)
(***************************************************************************)
EXTENDS Naturals, FiniteSets

CONSTANTS
  Items,      \* objects with CItem::_OnTick, which runs even when asleep
  Chars,      \* objects with CChar::_OnTick, which returns when asleep
  Npcs,       \* the characters that have m_pNPC
  Delays,     \* delays game code passes to SetTimeout, in clock units
  NpcDelay,   \* the 3 seconds an NPC without a timer is given
  Horizon     \* bound: the game clock does not advance past it

Objs == Items \cup Chars

ASSUME KindAssumption    == Items \cap Chars = {} /\ Npcs \subseteq Chars
ASSUME FiniteAssumption  == IsFiniteSet(Objs)
ASSUME TimeAssumption    == /\ Delays \subseteq Nat
                            /\ NpcDelay \in Nat
                            /\ Horizon \in Nat

VARIABLES
  now,       \* CWorldClock: constant during a tick
  life,      \* "gone" (no such object), "live", or "deleting" (in m_ObjDelete)
  timeout,   \* _iTimeout, 0 when the timer is not set
  asleep,    \* _fIsSleeping
  inList,    \* _fIsInWorldTickList
  inAdd,     \* _fIsInWorldTickAddList
  main,      \* _vTimedObjsTimeouts
  addReq,    \* _vTimedObjsTimeoutsAddReq
  eraseReq,  \* _vTimedObjsTimeoutsEraseReq
  buffer,    \* what is left to tick of _vTimedObjsTimeoutsBuffer
  pc,        \* where the main thread is
  cur,       \* the objects whose _OnTick runs: none or one
  collected  \* history: garbage was collected while this buffer ticks

objVars  == <<life, timeout, asleep>>
listVars == <<inList, inAdd, main, addReq, eraseReq>>
vars == <<now, objVars, listVars, buffer, pc, cur, collected>>

Entry == (Nat \ {0}) \X Objs
Phases == {"loading", "idle", "loop", "callback", "returning", "ticked", "wild"}

TypeOK ==
  /\ now \in Nat \ {0}
  /\ life \in [Objs -> {"gone", "live", "deleting"}]
  /\ timeout \in [Objs -> Nat]
  /\ asleep \in [Objs -> BOOLEAN]
  /\ inList \in [Objs -> BOOLEAN]
  /\ inAdd \in [Objs -> BOOLEAN]
  /\ main \subseteq Entry
  /\ addReq \subseteq Entry
  /\ eraseReq \subseteq Objs
  /\ buffer \subseteq Entry
  /\ pc \in Phases
  /\ cur \subseteq Objs
  /\ collected \in BOOLEAN

ObjsOf(entries) == { e[2] : e \in entries }
Of(o, entries) == { e \in entries : e[2] = o }

Single(entries) == \A e, f \in entries : e[2] = f[2] => e = f

TimerSet(o) == timeout[o] > 0
TickingActive(o) == inList[o] \/ inAdd[o]

(* Where game code may run: outside the ticker (network input, scripts,    *)
(* load), inside an _OnTick, or in the rest of the tick (periodic ticks).  *)
GameCode == pc \in {"loading", "idle", "callback", "ticked"}

----------------------------------------------------------------------------
(* The requests: each is a conjunct that constrains listVars'.             *)

\* Mutants of AddTimedObject: the list flag stays set; a second request does
\* not replace the first; the first request wins.
AddTimedObjectKeepsListFlag(o, t) ==
  /\ addReq' = {<<t, o>>} \cup (addReq \ Of(o, addReq))
  /\ eraseReq' = IF inList[o] THEN eraseReq \cup {o} ELSE eraseReq
  /\ inAdd' = [inAdd EXCEPT ![o] = TRUE]
  /\ UNCHANGED <<inList, main>>

AddTimedObjectTwice(o, t) ==
  /\ addReq' = {<<t, o>>} \cup addReq
  /\ eraseReq' = IF inList[o] THEN eraseReq \cup {o} ELSE eraseReq
  /\ inList' = [inList EXCEPT ![o] = FALSE]
  /\ inAdd' = [inAdd EXCEPT ![o] = TRUE]
  /\ UNCHANGED main

AddTimedObjectFirstWins(o, t) ==
  /\ addReq' = IF inAdd[o] THEN addReq ELSE {<<t, o>>} \cup addReq
  /\ eraseReq' = IF inList[o] THEN eraseReq \cup {o} ELSE eraseReq
  /\ inList' = [inList EXCEPT ![o] = FALSE]
  /\ inAdd' = [inAdd EXCEPT ![o] = TRUE]
  /\ UNCHANGED main

\* CWorldTicker::AddTimedObject: an entry that waits in the add list only
\* gets the new time; one of the main list is asked to be erased first.
AddTimedObject(o, t) ==
  /\ addReq' = {<<t, o>>} \cup
               (IF inAdd[o] THEN addReq \ Of(o, addReq) ELSE addReq)
  /\ eraseReq' = IF inList[o] THEN eraseReq \cup {o} ELSE eraseReq
  /\ inList' = [inList EXCEPT ![o] = FALSE]
  /\ inAdd' = [inAdd EXCEPT ![o] = TRUE]
  /\ UNCHANGED main

\* Mutants of DelTimedObjects: every withdrawal asks for an erasure; none does.
DelTimedObjectsAlwaysErase(S) ==
  LET active == { o \in S : TickingActive(o) }
  IN  /\ addReq' = { e \in addReq : e[2] \notin active }
      /\ eraseReq' = eraseReq \cup active
      /\ inAdd' = [o \in Objs |-> inAdd[o] /\ o \notin active]
      /\ inList' = [o \in Objs |-> inList[o] /\ o \notin active]
      /\ UNCHANGED main

DelTimedObjectsNeverErase(S) ==
  /\ addReq' = { e \in addReq : e[2] \notin S }
  /\ inAdd' = [o \in Objs |-> inAdd[o] /\ o \notin S]
  /\ inList' = [o \in Objs |-> inList[o] /\ o \notin S]
  /\ UNCHANGED <<eraseReq, main>>

\* CWorldTicker::DelTimedObject on every object of S; the callers test
\* _IsTimeoutTickingActive first.
DelTimedObjects(S) ==
  LET active == { o \in S : TickingActive(o) }
      waiting == { o \in active : inAdd[o] }
  IN  /\ addReq' = { e \in addReq : e[2] \notin waiting }
      /\ eraseReq' = eraseReq \cup (active \ waiting)
      /\ inAdd' = [o \in Objs |-> inAdd[o] /\ o \notin active]
      /\ inList' = [o \in Objs |-> inList[o] /\ o \notin active]
      /\ UNCHANGED main

----------------------------------------------------------------------------
(* Operations of game code on an object.                                   *)

\* CObjBase::CObjBase: no timer, asleep, in no list.
Create(o) ==
  /\ GameCode /\ life[o] = "gone"
  /\ life' = [life EXCEPT ![o] = "live"]
  /\ timeout' = [timeout EXCEPT ![o] = 0]
  /\ asleep' = [asleep EXCEPT ![o] = TRUE]
  /\ inList' = [inList EXCEPT ![o] = FALSE]
  /\ inAdd' = [inAdd EXCEPT ![o] = FALSE]
  /\ UNCHANGED <<now, main, addReq, eraseReq, buffer, pc, cur, collected>>

\* CTimedObject::_SetTimeout with a delay that is not negative.
Arm(o, d) ==
  /\ AddTimedObject(o, now + d)
  /\ timeout' = [timeout EXCEPT ![o] = now + d]

SetTimeout(o, d) ==
  /\ GameCode /\ life[o] = "live"
  /\ Arm(o, d)
  /\ UNCHANGED <<now, life, asleep, buffer, pc, cur, collected>>

\* CTimedObject::_SetTimeout with a negative delay.
ClearTimeout(o) ==
  /\ GameCode /\ life[o] = "live"
  /\ DelTimedObjects({o})
  /\ timeout' = [timeout EXCEPT ![o] = 0]
  /\ UNCHANGED <<now, life, asleep, buffer, pc, cur, collected>>

\* Mutant of GoAwake: a timer that is still set is not registered again.
GoAwakeTrustsTimer(o) ==
  /\ GameCode /\ life[o] = "live"
  /\ asleep' = [asleep EXCEPT ![o] = FALSE]
  /\ UNCHANGED <<now, life, timeout, listVars, buffer, pc, cur, collected>>

\* CTimedObject::_GoAwake, and CChar::_GoAwake, which gives a character that
\* has no timer a random one of less than a second.
GoAwake(o) ==
  /\ GameCode /\ life[o] = "live"
  /\ asleep' = [asleep EXCEPT ![o] = FALSE]
  /\ \/ /\ TimerSet(o)
        /\ AddTimedObject(o, timeout[o])
        /\ UNCHANGED timeout
     \/ /\ ~TimerSet(o) /\ o \in Chars
        /\ \E d \in Delays : Arm(o, d)
     \/ /\ ~TimerSet(o) /\ o \in Items
        /\ UNCHANGED <<timeout, listVars>>
  /\ UNCHANGED <<now, life, buffer, pc, cur, collected>>

\* CObjBase::_GoSleep: the timeout is kept for the next _GoAwake.
GoSleep(o) ==
  /\ GameCode /\ life[o] = "live"
  /\ asleep' = [asleep EXCEPT ![o] = TRUE]
  /\ DelTimedObjects({o})
  /\ UNCHANGED <<now, life, timeout, buffer, pc, cur, collected>>

\* CObjBase::Delete: _GoSleep, SF_DELETING, and the object goes to
\* m_ObjDelete.  A second Delete repeats it.
Unlink(o) ==
  /\ asleep' = [asleep EXCEPT ![o] = TRUE]
  /\ life' = [life EXCEPT ![o] = "deleting"]
  /\ DelTimedObjects({o})
  /\ UNCHANGED timeout

Delete(o) ==
  /\ GameCode /\ life[o] # "gone"
  /\ Unlink(o)
  /\ UNCHANGED <<now, buffer, pc, cur, collected>>

\* CObjBase::r_LoadVal, OC_TIMER while a save is loaded: an object that
\* cannot tick loses its timer, one that can is woken by the flag alone.
LoadTimer(o, d, canTick) ==
  /\ pc = "loading" /\ life[o] = "live"
  /\ \/ /\ ~canTick
        /\ DelTimedObjects({o})
        /\ timeout' = [timeout EXCEPT ![o] = 0]
        /\ UNCHANGED asleep
     \/ /\ canTick
        /\ Arm(o, d)
        /\ asleep' = [asleep EXCEPT ![o] = FALSE]
  /\ UNCHANGED <<now, life, buffer, pc, cur, collected>>

\* CWorld::GarbageCollection, at the end of a load, for SERV.GARBAGE and at the
\* start of a save (SERV.SAVE), also from a script that a callback runs: what
\* is in m_ObjDelete is destroyed at once, and with it the objects that were
\* never placed or that FixObj finds broken (weird).  The destructors
\* (CTimedObject::~CTimedObject) know of the lists, not of the buffer.
CollectGarbage(weird) ==
  LET doomed == { o \in Objs : life[o] = "deleting" } \cup weird
  IN  /\ GameCode /\ \A o \in weird : life[o] = "live"
      /\ life' = [o \in Objs |-> IF o \in doomed THEN "gone" ELSE life[o]]
      /\ DelTimedObjects(doomed)
      /\ collected' = (collected \/ pc = "callback")
      /\ UNCHANGED <<now, timeout, asleep, buffer, pc, cur>>

----------------------------------------------------------------------------
(* The server around the ticker.                                           *)

\* CWorld::LoadWorld, a save that does not load: ClearTickingLists, then the
\* sectors and the UID table destroy every object.
FailLoad ==
  /\ pc = "loading"
  /\ inList' = [o \in Objs |-> inList[o] /\ o \notin ObjsOf(main)]
  /\ inAdd' = [o \in Objs |-> inAdd[o] /\ o \notin ObjsOf(addReq)]
  /\ main' = {} /\ addReq' = {} /\ eraseReq' = {}
  /\ life' = [o \in Objs |-> "gone"]
  /\ UNCHANGED <<now, timeout, asleep, buffer, pc, cur, collected>>

FinishLoad ==
  /\ pc = "loading"
  /\ pc' = "idle"
  /\ UNCHANGED <<now, objVars, listVars, buffer, cur, collected>>

\* The vectors have enough elements for the reserve() of
\* UnsortedVecDifference: main.size() - erase.size() is unsigned, and when it
\* wraps, reserve throws and the merge is skipped.
MergeFits == Cardinality(eraseReq) <= Cardinality(main)

Merged ==
  IF MergeFits THEN { e \in main : e[2] \notin eraseReq } \cup addReq ELSE main

\* Mutant of Due: an entry of the current time is due as well.
DueNow(entries, t) ==
  { e \in entries : /\ e[1] <= t
                    /\ TimerSet(e[2])
                    /\ ~asleep[e[2]]
                    /\ life[e[2]] = "live" }

\* Selected for this tick: due, timer set, awake, not being deleted.
Due(entries, t) ==
  { e \in entries : /\ e[1] < t
                    /\ TimerSet(e[2])
                    /\ ~asleep[e[2]]
                    /\ life[e[2]] = "live" }

\* CWorldClock::Advance and the locked part of ProcessTimedObjects.
StartTick ==
  /\ pc = "idle" /\ now < Horizon
  /\ now' = now + 1
  /\ buffer' = Due(Merged, now')
  /\ main' = Merged \ buffer'
  /\ inList' = [o \in Objs |-> /\ inList[o] \/ o \in ObjsOf(addReq)
                               /\ o \notin ObjsOf(buffer')]
  /\ inAdd' = [o \in Objs |-> inAdd[o] /\ o \notin ObjsOf(addReq)]
  /\ addReq' = {} /\ eraseReq' = {}
  /\ pc' = "loop"
  /\ UNCHANGED <<objVars, cur, collected>>

\* The loop of ProcessTimedObjects: the next object of the buffer loses its
\* timeout and its _OnTick is called.  CChar::_OnTick returns at once when the
\* character sleeps; CItem::_OnTick does not.
BeginTick(o) ==
  /\ pc = "loop" /\ life[o] # "gone"
  /\ \E e \in buffer : /\ e[2] = o
                       /\ \A f \in buffer : e[1] <= f[1]
                       /\ buffer' = buffer \ {e}
  /\ timeout' = [timeout EXCEPT ![o] = 0]
  /\ cur' = {o}
  /\ pc' = IF o \in Chars /\ asleep[o] THEN "returning" ELSE "callback"
  /\ UNCHANGED <<now, life, asleep, listVars, collected>>

\* The next pointer of the buffer is to an object that garbage collection has
\* destroyed: the loop clears the timeout in the freed memory and calls _OnTick.
TickDestroyed ==
  /\ pc = "loop"
  /\ \E e \in buffer : life[e[2]] = "gone" /\ \A f \in buffer : e[1] <= f[1]
  /\ pc' = "wild"
  /\ UNCHANGED <<now, objVars, listVars, buffer, cur, collected>>

\* The callback destroyed the object it runs on: the code it returns to is
\* that object's own _OnTick and the loop's test of its timer, or its Delete.
ReturnToDestroyed ==
  /\ pc = "callback"
  /\ \E o \in cur : life[o] = "gone"
  /\ cur' = {} /\ pc' = "wild"
  /\ UNCHANGED <<now, objVars, listVars, buffer, collected>>

\* What the program does then is not modelled.
Wild == pc = "wild" /\ UNCHANGED vars

\* _OnTick returned true: an NPC without a timer is given one.
EndTickKeep ==
  /\ pc \in {"callback", "returning"}
  /\ \E o \in cur :
       /\ life[o] # "gone"
       /\ IF o \in Npcs /\ ~TimerSet(o) /\ life[o] = "live"
          THEN Arm(o, NpcDelay)
          ELSE UNCHANGED <<timeout, listVars>>
  /\ cur' = {} /\ pc' = "loop"
  /\ UNCHANGED <<now, life, asleep, buffer, collected>>

\* A character that ticked asleep in a sleeping sector may be sent to sleep
\* again, with a timer for its awakening: SetTimeout(1), then _GoSleep.
EndTickAsleep ==
  /\ pc = "returning"
  /\ \E o \in cur, d \in Delays : /\ life[o] = "live"
                               /\ DelTimedObjects({o})
                               /\ timeout' = [timeout EXCEPT ![o] = now + d]
                               /\ asleep' = [asleep EXCEPT ![o] = TRUE]
  /\ cur' = {} /\ pc' = "loop"
  /\ UNCHANGED <<now, life, buffer, collected>>

\* _OnTick returned false: the object is deleted.
EndTickDelete ==
  /\ pc = "callback"
  /\ \E o \in cur : life[o] # "gone" /\ Unlink(o)
  /\ cur' = {} /\ pc' = "loop"
  /\ UNCHANGED <<now, buffer, collected>>

\* Mutant of EndTickThrow: the exception leaves the loop.
EndTickThrowLeavesLoop ==
  /\ pc = "callback" /\ cur \subseteq Items
  /\ cur' = {} /\ pc' = "loop" /\ buffer' = {}
  /\ UNCHANGED <<now, objVars, listVars, collected>>

\* _OnTick of an item threw: EXC_CATCHSUB leaves everything as it is.
EndTickThrow ==
  /\ pc = "callback" /\ cur \subseteq Items
  /\ cur' = {} /\ pc' = "loop"
  /\ UNCHANGED <<now, objVars, listVars, buffer, collected>>

EndLoop ==
  /\ pc = "loop" /\ buffer = {}
  /\ pc' = "ticked"
  /\ collected' = FALSE
  /\ UNCHANGED <<now, objVars, listVars, buffer, cur>>

\* CWorld::_OnTick, m_ObjDelete.ClearContainer: the destructors
\* (CTimedObject::~CTimedObject) withdraw what is still registered.
DestroyDeleted ==
  LET doomed == { o \in Objs : life[o] = "deleting" }
  IN  /\ pc = "ticked"
      /\ life' = [o \in Objs |-> IF o \in doomed THEN "gone" ELSE life[o]]
      /\ DelTimedObjects(doomed)
      /\ pc' = "idle"
      /\ UNCHANGED <<now, timeout, asleep, buffer, cur, collected>>

----------------------------------------------------------------------------
Init ==
  /\ now = 1
  /\ life = [o \in Objs |-> "gone"]
  /\ timeout = [o \in Objs |-> 0]
  /\ asleep = [o \in Objs |-> TRUE]
  /\ inList = [o \in Objs |-> FALSE]
  /\ inAdd = [o \in Objs |-> FALSE]
  /\ main = {} /\ addReq = {} /\ eraseReq = {} /\ buffer = {}
  /\ pc = "loading"
  /\ cur = {}
  /\ collected = FALSE

GameOps ==
  \/ \E weird \in SUBSET Objs : CollectGarbage(weird)
  \/ \E o \in Objs :
    \/ Create(o) \/ ClearTimeout(o) \/ GoAwake(o) \/ GoSleep(o) \/ Delete(o)
    \/ \E d \in Delays :
         SetTimeout(o, d) \/ \E canTick \in BOOLEAN : LoadTimer(o, d, canTick)

EndTick ==
  \/ EndTickKeep \/ EndTickAsleep \/ EndTickDelete \/ EndTickThrow
  \/ ReturnToDestroyed

Tick ==
  \/ StartTick
  \/ \E o \in Objs : BeginTick(o)
  \/ TickDestroyed
  \/ EndTick
  \/ EndLoop
  \/ DestroyDeleted

Next == GameOps \/ FailLoad \/ FinishLoad \/ Tick \/ Wild

Spec == Init /\ [][Next]_vars

\* The main loop calls CWorld::_OnTick for ever and callbacks return: the
\* thread's own steps are weakly fair, what game code does is not.
FairSpec == Spec /\ WF_vars(FinishLoad) /\ WF_vars(Tick)

----------------------------------------------------------------------------
(* Safety.                                                                 *)

\* The flags of an object tell the vectors it is in: the add flag holds
\* exactly when it has an entry in the add list, the list flag exactly when
\* it has one in the main list that nobody asked to erase.  The release build
\* never searches a list the flag denies.
FlagsTellLists ==
  \A o \in Objs :
    /\ inAdd[o] <=> o \in ObjsOf(addReq)
    /\ inList[o] <=> o \in ObjsOf(main) \ eraseReq
    /\ ~(inAdd[o] /\ inList[o])

\* No vector ever holds two entries of one object, so an object ticks at most
\* once per tick and the vectors are sets.
OneEntry == Single(main) /\ Single(addReq) /\ Single(buffer)

\* An erase request names an object of the main list: the unsigned difference
\* of their sizes in UnsortedVecDifference never wraps.
EraseWithinMain == eraseReq \subseteq ObjsOf(main)

\* What the destructors leave behind of an object: no entry that would still
\* be merged, in the main list only one that the next merge drops before it
\* looks at it, and a pointer in the buffer only if garbage was collected in
\* the middle of this very tick.  (Without that last exception it fails.)
NoDanglingEntry ==
  \A o \in Objs : life[o] = "gone" =>
    /\ o \notin ObjsOf(addReq)
    /\ o \in ObjsOf(main) => o \in eraseReq
    /\ o \in ObjsOf(buffer) => collected

\* A live, awake object whose timer is set is registered or is about to tick:
\* no interleaving of sleeping, waking, arming and ticking forgets it.
ArmedIsScheduled ==
  \A o \in Objs :
    (life[o] = "live" /\ ~asleep[o] /\ TimerSet(o))
      => TickingActive(o) \/ o \in ObjsOf(buffer)

\* The entry that counts for an object carries the time of its timer, unless
\* the timer was cleared when the object ticked.
EntryCarriesTimeout ==
  \A o \in Objs :
    /\ inAdd[o] => <<timeout[o], o>> \in addReq \/ timeout[o] = 0
    /\ inList[o] => <<timeout[o], o>> \in main \/ timeout[o] = 0

----------------------------------------------------------------------------
(* What a step may do.                                                     *)

Ticks(o) == pc = "loop" /\ pc' \in {"callback", "returning"} /\ cur' = {o}

\* "Get a timer tick when our timer expires" (CCharAct.cpp): the object that
\* ticks has a timer, and it is in the past.
TickOnlyWhenExpired ==
  [][\A o \in Objs : Ticks(o) => TimerSet(o) /\ timeout[o] < now]_vars

\* "When a char goes into sleeping state it should also be removed from the
\* list" (CCharAct.cpp): no character is ticked asleep.
NoCharTicksAsleep == [][\A o \in Chars : Ticks(o) => ~asleep[o]]_vars

----------------------------------------------------------------------------
(* The contract.                                                           *)

\* CWorldTicker::IsTimeoutRegistered: the add list first, then the main list
\* without what is to be erased.
IsTimeoutRegistered(o) ==
  IF o \in ObjsOf(addReq) THEN (CHOOSE e \in addReq : e[2] = o)[1]
  ELSE IF o \in ObjsOf(main) \ eraseReq THEN (CHOOSE e \in main : e[2] = o)[1]
  ELSE 0

Registry == INSTANCE TimerRegistry WITH
  reg <- [o \in Objs |-> IsTimeoutRegistered(o)],
  ready <- [o \in Objs |-> life[o] = "live" /\ ~asleep[o] /\ TimerSet(o)],
  pending <- buffer

\* The three vectors and the flags behave as the map they stand for: a
\* registration is never lost, doubled or delayed by the deferred merge, and
\* a tick takes exactly the registered objects that are due and ready.
ImplementsRegistry == Registry!Spec

----------------------------------------------------------------------------
(* Liveness.                                                               *)

\* A timer of a live, awake object that is due before the horizon is not
\* forgotten: the object ticks, or someone sets the timer anew, puts the
\* object to sleep or deletes it, or the tick ran into a destroyed object.
ArmedTicks ==
  \A o \in Objs : \A t \in 1 .. Horizon - 1 :
    (now < Horizon /\ life[o] = "live" /\ ~asleep[o] /\ timeout[o] = t)
      ~> (life[o] # "live" \/ asleep[o] \/ timeout[o] # t \/ pc = "wild")
=============================================================================
