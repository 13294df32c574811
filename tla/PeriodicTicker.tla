--------------------------- MODULE PeriodicTicker ---------------------------
(***************************************************************************)
(* The periodic ticks of the characters (regeneration, death, periodic     *)
(* checks): the second half of CWorldTicker and the callers in CChar.      *)
(*                                                                         *)
(* As for the timers, a sorted vector of (time, character) pairs is fed by *)
(* add and erase requests that are merged at the start of the next tick.   *)
(* Unlike them there are no list flags: the only state of the character is *)
(* _iTimePeriodicTick, which is not 0 while a tick is pending, and which a *)
(* character that waits in the buffer of the current tick keeps until its  *)
(* turn.  So vectors may hold an entry twice here, and a request may name  *)
(* an entry that is not there: the vectors are sequences and bags.         *)
(*                                                                         *)
(* The constant Meddling says what the callback of a character (triggers   *)
(* and scripts run in it) may do to another one that still waits in the    *)
(* buffer: nothing, or put it to sleep, wake it, delete it, have it        *)
(* destroyed by a garbage collection.                                      *)
(***************************************************************************)
EXTENDS Naturals, Sequences, SequencesExt, Bags

CONSTANTS
  Chars,
  Period,       \* MSECS_PER_TICK, in clock units
  FirstPeriod,  \* MSECS_PER_SEC, in clock units
  Horizon,      \* bound: the game clock does not advance past it
  Meddling      \* may a callback touch a character that waits for its turn?

ASSUME PeriodAssumption == Period \in Nat /\ FirstPeriod \in Nat /\ Horizon \in Nat
ASSUME MeddlingAssumption == Meddling \in BOOLEAN

VARIABLES
  now,       \* CWorldClock
  life,      \* "gone", "live", or "deleting" (in m_ObjDelete)
  asleep,    \* _fIsSleeping
  offline,   \* IsDisconnected: a ridden mount is offline and awake
  tick,      \* _iTimePeriodicTick, 0 when no tick is pending
  regen,     \* _iTimeNextRegen
  main,      \* _vPeriodicCharsTicks
  addReq,    \* _vPeriodicCharsAddRequests
  eraseReq,  \* _vPeriodicCharsEraseRequests
  buffer,    \* what is left to tick of _vPeriodicCharsTicksBuffer
  pc,        \* where the main thread is
  cur        \* the characters whose OnTickPeriodic runs: none or one

charVars == <<life, asleep, offline>>
tickVars == <<tick, addReq, eraseReq>>
vars == <<now, charVars, tickVars, regen, main, buffer, pc, cur>>

Entry == (Nat \ {0}) \X Chars
Phases == {"loading", "idle", "timers", "loop", "callback", "cleanup",
           "wild"}   \* a destroyed character was used

TypeOK ==
  /\ now \in Nat \ {0}
  /\ life \in [Chars -> {"gone", "live", "deleting"}]
  /\ asleep \in [Chars -> BOOLEAN]
  /\ offline \in [Chars -> BOOLEAN]
  /\ tick \in [Chars -> Nat]
  /\ regen \in [Chars -> Nat]
  /\ IsABag(main) /\ BagToSet(main) \subseteq Entry
  /\ addReq \in Seq(Entry)
  /\ IsABag(eraseReq) /\ BagToSet(eraseReq) \subseteq Chars
  /\ IsABag(buffer) /\ BagToSet(buffer) \subseteq Entry
  /\ pc \in Phases
  /\ pc \notin {"loop", "callback", "wild"} => buffer = EmptyBag
  /\ cur \subseteq Chars

CharsOf(entries) == { e[2] : e \in entries }
IsPeriodicTickPending(c) == tick[c] # 0
Waiting == CharsOf(BagToSet(buffer))

\* Game code runs outside the ticker, in the TIMER ticks that precede the
\* periodic ones, and in the callbacks of the latter.
GameCode == pc \in {"loading", "idle", "timers", "callback"}

\* A live character game code may work on.
Reachable(c) == GameCode /\ life[c] = "live" /\ (Meddling \/ c \notin Waiting)

----------------------------------------------------------------------------
(* The requests.                                                           *)

\* Mutant of ErasedFrom: the add requests are not looked at.
ErasedFromMainOnly(c, add, erase) == <<add, erase (+) SetToBag({c})>>

\* CWorldTicker::_EraseCharTicking on the requests add and erase: an entry
\* that was only asked for is dropped, else the main list "must" have it.
ErasedFrom(c, add, erase) ==
  IF c \in CharsOf(ToSet(add))
  THEN <<RemoveFirstMatch(add, LAMBDA e : e[2] = c), erase>>
  ELSE <<add, erase (+) SetToBag({c})>>

\* CWorldTicker::AddCharTicking.
AddCharTicking(c) ==
  LET reqs == IF IsPeriodicTickPending(c)
              THEN ErasedFrom(c, addReq, eraseReq)
              ELSE <<addReq, eraseReq>>
  IN  IF regen[c] = tick[c]
      THEN UNCHANGED tickVars
      ELSE /\ addReq' = Append(reqs[1], <<regen[c], c>>)
           /\ eraseReq' = reqs[2]
           /\ tick' = [tick EXCEPT ![c] = regen[c]]

\* Mutants of DelIfPending: the character keeps its pending tick; the entry
\* stays where it is.
DelIfPendingKeepsTick(c) ==
  IF IsPeriodicTickPending(c)
  THEN LET reqs == ErasedFrom(c, addReq, eraseReq)
       IN  addReq' = reqs[1] /\ eraseReq' = reqs[2] /\ UNCHANGED tick
  ELSE UNCHANGED tickVars

DelIfPendingKeepsEntry(c) ==
  /\ tick' = [tick EXCEPT ![c] = 0]
  /\ UNCHANGED <<addReq, eraseReq>>

\* CWorldTicker::DelCharTicking: every caller tests that a tick is pending.
DelIfPending(c) ==
  IF IsPeriodicTickPending(c)
  THEN LET reqs == ErasedFrom(c, addReq, eraseReq)
       IN  /\ addReq' = reqs[1]
           /\ eraseReq' = reqs[2]
           /\ tick' = [tick EXCEPT ![c] = 0]
  ELSE UNCHANGED tickVars

AddUnlessPending(c) ==
  IF IsPeriodicTickPending(c) THEN UNCHANGED tickVars ELSE AddCharTicking(c)

----------------------------------------------------------------------------
(* Operations of game code on a character.                                 *)

\* CChar::CChar, and CChar::DupeFrom, which copies the regeneration time.
Create(c) ==
  /\ GameCode /\ life[c] = "gone"
  /\ life' = [life EXCEPT ![c] = "live"]
  /\ asleep' = [asleep EXCEPT ![c] = TRUE]
  /\ offline' = [offline EXCEPT ![c] = TRUE]
  /\ tick' = [tick EXCEPT ![c] = 0]
  /\ \E t \in {now + FirstPeriod} \cup { regen[d] : d \in { d \in Chars : life[d] = "live" } } :
       regen' = [regen EXCEPT ![c] = t]
  /\ UNCHANGED <<now, addReq, eraseReq, main, buffer, pc, cur>>

\* CSector::MoveCharToSector by way of CChar::MoveToChar: the character is
\* not disconnected any more.
Connect(c) ==
  /\ Reachable(c) /\ offline[c]
  /\ offline' = [offline EXCEPT ![c] = FALSE]
  /\ UNCHANGED <<now, life, asleep, tickVars, regen, main, buffer, pc, cur>>

\* CChar::SetDisconnected: a mount that is ridden stays awake, any other
\* character goes to sleep first.
SetDisconnected(c, ridden) ==
  /\ Reachable(c) /\ ~offline[c]
  /\ offline' = [offline EXCEPT ![c] = TRUE]
  /\ IF ridden
     THEN UNCHANGED <<asleep, tickVars>>
     ELSE asleep' = [asleep EXCEPT ![c] = TRUE] /\ DelIfPending(c)
  /\ UNCHANGED <<now, life, regen, main, buffer, pc, cur>>

\* Mutant of GoAwake: the periodic tick is left to the next death or birth.
GoAwakeUnregistered(c) ==
  /\ Reachable(c)
  /\ asleep' = [asleep EXCEPT ![c] = @ /\ offline[c]]
  /\ UNCHANGED <<now, life, offline, tickVars, regen, main, buffer, pc, cur>>

\* CChar::_GoAwake: a disconnected character is registered, not woken.
GoAwake(c) ==
  /\ Reachable(c)
  /\ AddUnlessPending(c)
  /\ asleep' = [asleep EXCEPT ![c] = @ /\ offline[c]]
  /\ UNCHANGED <<now, life, offline, regen, main, buffer, pc, cur>>

\* CChar::_GoSleep.
GoSleep(c) ==
  /\ Reachable(c)
  /\ asleep' = [asleep EXCEPT ![c] = TRUE]
  /\ DelIfPending(c)
  /\ UNCHANGED <<now, life, offline, regen, main, buffer, pc, cur>>

\* CChar::Stat_SetVal(STAT_STR, 0): "Ensure this char will tick and die".
LoseAllHits(c) ==
  /\ Reachable(c)
  /\ AddUnlessPending(c)
  /\ UNCHANGED <<now, charVars, regen, main, buffer, pc, cur>>

\* CChar::Delete: asleep, in m_ObjDelete, and DeleteCleanup withdraws it.  A
\* forced Delete of a character that is being deleted repeats it.
Unlink(c) ==
  /\ life' = [life EXCEPT ![c] = "deleting"]
  /\ asleep' = [asleep EXCEPT ![c] = TRUE]
  /\ DelIfPending(c)
  /\ UNCHANGED offline

Delete(c) ==
  /\ GameCode /\ life[c] # "gone" /\ (Meddling \/ c \notin Waiting)
  /\ Unlink(c)
  /\ UNCHANGED <<now, regen, main, buffer, pc, cur>>

\* Mutant of Destroyed: the destructor trusts what Delete has withdrawn.
DestroyedOnly(c) ==
  /\ life' = [life EXCEPT ![c] = "gone"]
  /\ asleep' = [asleep EXCEPT ![c] = TRUE]
  /\ offline' = [offline EXCEPT ![c] = TRUE]
  /\ UNCHANGED tickVars

\* CChar::~CChar runs DeleteCleanup once more.  Of what is gone, nobody reads
\* whether it slept.
Destroyed(c) ==
  /\ life' = [life EXCEPT ![c] = "gone"]
  /\ asleep' = [asleep EXCEPT ![c] = TRUE]
  /\ offline' = [offline EXCEPT ![c] = TRUE]
  /\ DelIfPending(c)

\* One character of those that CWorld::GarbageCollection destroys: it is in
\* m_ObjDelete, or was never placed, or FixObj finds it broken.  A script may
\* ask for the collection (SERV.GARBAGE, SERV.SAVE) in a callback, where the
\* character that is ticking may be among them.
Collect(c) ==
  /\ GameCode /\ life[c] # "gone" /\ (Meddling \/ c \notin Waiting)
  /\ Destroyed(c)
  /\ UNCHANGED <<now, regen, main, buffer, pc, cur>>

----------------------------------------------------------------------------
(* The server around the ticker.                                           *)

\* CWorld::LoadWorld, a save that does not load: ClearTickingLists forgets
\* what is pending, then every object is destroyed.
FailLoad ==
  /\ pc = "loading"
  /\ tick' = [c \in Chars |-> IF c \in CharsOf(BagToSet(main) \cup ToSet(addReq))
                              THEN 0 ELSE tick[c]]
  /\ main' = EmptyBag /\ addReq' = <<>> /\ eraseReq' = EmptyBag
  /\ life' = [c \in Chars |-> "gone"]
  /\ UNCHANGED <<now, asleep, offline, regen, buffer, pc, cur>>

FinishLoad ==
  /\ pc = "loading"
  /\ pc' = "idle"
  /\ UNCHANGED <<now, charVars, tickVars, regen, main, buffer, cur>>

\* CWorldClock::Advance; the TIMER ticks come first.
Advance ==
  /\ pc = "idle" /\ now < Horizon
  /\ now' = now + 1
  /\ pc' = "timers"
  /\ UNCHANGED <<charVars, tickVars, regen, main, buffer, cur>>

\* The length of a vector, counted over its numbered copies.
Size(bag) == Cardinality(UNION { {e} \X (1 .. bag[e]) : e \in DOMAIN bag })

\* Mutant of MergeFits: off by one.
MergeFitsStrictly == Size(eraseReq) < Size(main)

\* main.size() - erase.size() is unsigned: when it wraps, reserve throws, and
\* the main list stays as it was.
MergeFits == Size(eraseReq) <= Size(main)

EntryBag(entries) ==
  [e \in ToSet(entries) |-> Cardinality({ i \in DOMAIN entries : entries[i] = e })]

Kept(bag, Test(_)) == [e \in { e \in DOMAIN bag : Test(e) } |-> bag[e]]

Merged ==
  IF MergeFits
  THEN Kept(main, LAMBDA e : ~BagIn(e[2], eraseReq)) (+) EntryBag(addReq)
  ELSE main

Due(entries) ==
  Kept(entries, LAMBDA e : e[1] < now /\ ~asleep[e[2]] /\ life[e[2]] = "live")

\* The locked part of ProcessCharPeriodicTicks.
StartPeriodic ==
  /\ pc = "timers"
  /\ buffer' = Due(Merged)
  /\ main' = Merged (-) buffer'
  /\ addReq' = <<>> /\ eraseReq' = EmptyBag
  /\ pc' = "loop"
  /\ UNCHANGED <<now, charVars, tick, regen, cur>>

\* The loop, and the start of CChar::OnTickPeriodic.
BeginTick(c) ==
  /\ pc = "loop" /\ life[c] # "gone"
  /\ \E e \in BagToSet(buffer) : /\ e[2] = c
                                 /\ \A f \in BagToSet(buffer) : e[1] <= f[1]
                                 /\ buffer' = buffer (-) SetToBag({e})
  /\ tick' = [tick EXCEPT ![c] = 0]
  /\ regen' = [regen EXCEPT ![c] = now + Period]
  /\ cur' = {c} /\ pc' = "callback"
  /\ UNCHANGED <<now, charVars, addReq, eraseReq, main>>

\* Whose turn comes, or whose callback returns.
Turn ==
  IF pc = "loop"
  THEN { e[2] : e \in { e \in BagToSet(buffer) : \A f \in BagToSet(buffer) : e[1] <= f[1] } }
  ELSE cur

\* The loop or the rest of OnTickPeriodic works on a character that a
\* collection destroyed.
RunIntoDestroyed ==
  /\ pc \in {"loop", "callback"}
  /\ \E c \in Turn : life[c] = "gone"
  /\ pc' = "wild" /\ cur' = {}
  /\ UNCHANGED <<now, charVars, tickVars, regen, main, buffer>>

\* What the program does then is not modelled.
Wild == pc = "wild" /\ UNCHANGED vars

\* OnTickPeriodic returned true.
EndTickKeep ==
  /\ pc = "callback"
  /\ \E c \in cur : life[c] # "gone" /\ AddUnlessPending(c)
  /\ cur' = {} /\ pc' = "loop"
  /\ UNCHANGED <<now, charVars, regen, main, buffer>>

\* OnTickPeriodic returned false: the death of the character deletes it.
EndTickDelete ==
  /\ pc = "callback"
  /\ \E c \in cur : life[c] # "gone" /\ Unlink(c)
  /\ cur' = {} /\ pc' = "loop"
  /\ UNCHANGED <<now, regen, main, buffer>>

EndLoop ==
  /\ pc = "loop" /\ buffer = EmptyBag
  /\ pc' = "cleanup"
  /\ UNCHANGED <<now, charVars, tickVars, regen, main, buffer, cur>>

\* m_ObjDelete.ClearContainer.
Destroy(c) ==
  /\ pc = "cleanup" /\ life[c] = "deleting"
  /\ Destroyed(c)
  /\ UNCHANGED <<now, regen, main, buffer, pc, cur>>

EndCleanup ==
  /\ pc = "cleanup" /\ \A c \in Chars : life[c] # "deleting"
  /\ pc' = "idle"
  /\ UNCHANGED <<now, charVars, tickVars, regen, main, buffer, cur>>

----------------------------------------------------------------------------
Init ==
  /\ now = 1
  /\ life = [c \in Chars |-> "gone"]
  /\ asleep = [c \in Chars |-> TRUE]
  /\ offline = [c \in Chars |-> TRUE]
  /\ tick = [c \in Chars |-> 0]
  /\ regen = [c \in Chars |-> 0]
  /\ main = EmptyBag /\ addReq = <<>> /\ eraseReq = EmptyBag /\ buffer = EmptyBag
  /\ pc = "loading"
  /\ cur = {}

GameOps ==
  \E c \in Chars :
    \/ Create(c) \/ Connect(c) \/ GoAwake(c) \/ GoSleep(c) \/ LoseAllHits(c)
    \/ Delete(c) \/ Collect(c)
    \/ \E ridden \in BOOLEAN : SetDisconnected(c, ridden)

Tick ==
  \/ Advance \/ StartPeriodic
  \/ \E c \in Chars : BeginTick(c) \/ Destroy(c)
  \/ EndTickKeep \/ EndTickDelete \/ RunIntoDestroyed
  \/ EndLoop \/ EndCleanup

Next == GameOps \/ FailLoad \/ FinishLoad \/ Tick \/ Wild

Spec == Init /\ [][Next]_vars

\* The main loop runs for ever and callbacks return.
FairSpec == Spec /\ WF_vars(FinishLoad) /\ WF_vars(Tick)

----------------------------------------------------------------------------
(* Safety.                                                                 *)

\* The entries of a character that the next merge keeps or adds.
Registrations(c) ==
  Cardinality({ i \in DOMAIN addReq : addReq[i][2] = c })
    + (IF BagIn(c, eraseReq) THEN 0
       ELSE Size(Kept(main, LAMBDA e : e[2] = c)))

\* A character has a tick pending exactly when it is registered, once, or
\* waits for its turn: nobody regenerates twice as fast or not at all.
PendingIsRegisteredOnce ==
  \A c \in Chars :
    c \notin Waiting => Registrations(c) = (IF IsPeriodicTickPending(c) THEN 1 ELSE 0)

\* "I'm reasonably sure that the element i'm trying to remove is present in
\* this container" (CWorldTicker.cpp): an erase request names, once, an entry
\* of the main list, so that the difference of the sizes never wraps and no
\* merge loses the add requests.
EraseNamesEntry ==
  \A c \in BagToSet(eraseReq) :
    eraseReq[c] = 1 /\ c \in CharsOf(BagToSet(main))

\* No entry of a destroyed character is merged or ticked.
NoDanglingEntry ==
  \A c \in Chars : life[c] = "gone" => Registrations(c) = 0 /\ c \notin Waiting

\* A live, awake character never falls out of the periodic ticks.
AwakeStaysRegistered ==
  \A c \in Chars :
    (life[c] = "live" /\ ~asleep[c]) => IsPeriodicTickPending(c) \/ c \in cur

\* No character ticks before its regeneration time: whatever wakes, sleeps
\* and rescues of the dying happen in between, one tick per period.
OneTickPerPeriod ==
  [][\A c \in Chars : (pc = "loop" /\ cur' = {c}) => regen[c] < now]_vars

----------------------------------------------------------------------------
(* Liveness.                                                               *)

\* A pending tick of a live, awake character whose time comes before the
\* horizon happens, unless the character is put to sleep or deleted, or a
\* destroyed one is used.
PendingTicks ==
  \A c \in Chars : \A t \in 1 .. Horizon - 1 :
    (now < Horizon /\ life[c] = "live" /\ ~asleep[c] /\ tick[c] = t)
      ~> (life[c] # "live" \/ asleep[c] \/ tick[c] # t \/ pc = "wild")
=============================================================================
