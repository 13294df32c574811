------------------------------ MODULE UidTable ------------------------------
(***************************************************************************)
(* The UID table of CWorldThread (src/src/game/CWorld.cpp): the array that *)
(* maps a UID to the object that bears it, AllocUID and FreeUID, the list  *)
(* of free UIDs the garbage collection leaves, and the place holders that  *)
(* keep the UIDs freed during a background save out of use until its end.  *)
(*                                                                         *)
(* An object gets its UID in its constructor, or by SERIAL when it is      *)
(* loaded; it is destroyed in two steps, Delete and, after the tick of the *)
(* world, its destructor, which frees the UID.  The game runs on one       *)
(* thread, so a step is one call.  Abstracted: what the objects are, and   *)
(* why the garbage collection finds one of them weird.                     *)
(***************************************************************************)
EXTENDS Integers, FiniteSets

CONSTANTS
  Objs,          \* identities of objects
  Null, Held,    \* nullptr and UID_PLACE_HOLDER
  FirstSize,     \* entries of the table at first (8 * 1024)
  Block,         \* entries it grows by (0x1000)
  FreeUidsSize,  \* FREE_UIDS_SIZE
  MaxSize,       \* bound: no object is created when the table might outgrow it
  MaxBroken      \* bound: number of saves that break off

ASSUME ObjsAssumption ==
  /\ Null \notin Objs /\ Held \notin Objs /\ Null # Held
ASSUME SizeAssumption ==
  /\ FirstSize \in Nat /\ FirstSize >= 2
  /\ Block \in Nat \ {0} /\ FreeUidsSize \in Nat \ {0}
  /\ MaxSize \in Nat /\ MaxBroken \in Nat

VARIABLES
  size,        \* _uiUIDObjArraySize
  table,       \* _ppUIDObjArray
  last,        \* _dwUIDIndexLast
  freeUids,    \* _pdwFreeUIDs
  freeOffset,  \* _dwFreeUIDOffset
  uid,         \* the UID of each object, 0 for none
  state,       \* "none", "new" in m_ObjNew, "placed", "deleted" in m_ObjDelete
  saving,      \* IsSaving()
  broken       \* saves that broke off

tableVars == <<size, table, last, freeUids, freeOffset, uid>>
vars == <<size, table, last, freeUids, freeOffset, uid, state, saving, broken>>

Uids == 1 .. size - 1
Alive == {o \in Objs : state[o] # "none"}

-----------------------------------------------------------------------------
(* FindUID, FreeUID and the search of AllocUID.                            *)

FindUID(u) == IF u \in Uids /\ table[u] # Held THEN table[u] ELSE Null

\* Mutant of Freed: the slot is free at once.
FreedAtOnce == Null
Freed == IF saving THEN Held ELSE Null

(* The destructors of a set of objects: the table afterwards.              *)
TableWithout(gone) ==
  [u \in Uids |-> IF table[u] \in gone /\ uid[table[u]] = u THEN Freed ELSE table[u]]

(* The entries of the free list that are read from the offset on, up to    *)
(* the first zero; the first of them whose slot is free is taken.          *)
Listed == {i \in freeOffset .. FreeUidsSize - 1 : \A j \in freeOffset .. i : freeUids[j] # 0}
ListedFree == {i \in Listed : table[freeUids[i]] = Null}

(* The slot k probes below the last one taken, round the table without 0.  *)
Probe(k) == IF k < last THEN last - k ELSE last - k + size - 1
FreeProbes == {k \in 0 .. size - 2 : table[Probe(k)] = Null}

\* Mutant of AutoSlot: the count of probes is one too few.
AutoSlotShort ==
  LET probes == {k \in FreeProbes : k < size - 2}
  IN  IF ListedFree # {}
      THEN freeUids[CHOOSE i \in ListedFree : \A j \in ListedFree : i <= j]
      ELSE IF probes # {}
      THEN Probe(CHOOSE k \in probes : \A j \in probes : k <= j)
      ELSE size

(* AllocUID(0): the list, then the probes, then the first new slot.        *)
AutoSlot ==
  IF ListedFree # {}
  THEN freeUids[CHOOSE i \in ListedFree : \A j \in ListedFree : i <= j]
  ELSE IF FreeProbes # {}
  THEN Probe(CHOOSE k \in FreeProbes : \A j \in FreeProbes : k <= j)
  ELSE size

\* Mutant of SizeFor: rounded up, as if u were a size.
SizeRoundedUp(u) == IF u < size THEN size ELSE ((u + Block - 1) \div Block) * Block
SizeFor(u) == IF u < size THEN size ELSE ((u + Block) \div Block) * Block

(* setcount and successalloc: o gets slot u of tbl; what grows is zeroed.  *)
Put(tbl, o, u) ==
  /\ size' = SizeFor(u)
  /\ table' = [v \in 1 .. SizeFor(u) - 1 |->
                 IF v = u THEN o ELSE IF v < size THEN tbl[v] ELSE Null]
  /\ last' = u

-----------------------------------------------------------------------------
(* Objects.                                                                *)

(* The constructor of CObjBase: SetUID(UID_PLAIN_CLEAR), AddIdleObj.       *)
Create(o) ==
  /\ state[o] = "none" /\ SizeFor(size) <= MaxSize
  /\ Put(table, o, AutoSlot)
  /\ freeOffset' = IF ListedFree # {}
                   THEN (CHOOSE i \in ListedFree : \A j \in ListedFree : i <= j) + 1
                   ELSE FreeUidsSize
  /\ uid' = [uid EXCEPT ![o] = AutoSlot]
  /\ state' = [state EXCEPT ![o] = "new"]
  /\ UNCHANGED <<freeUids, saving, broken>>

\* Mutant of SetUID: the UID borne before is not freed.
SetUIDKeepsOld(o, u) ==
  /\ ~saving
  /\ u # 0 /\ SizeFor(u) <= MaxSize
  /\ LET prev == {p \in Objs : u \in Uids /\ table[u] = p /\ p # o}
     IN  /\ Put(table, o, u)
         /\ uid' = [p \in Objs |-> IF p = o THEN u ELSE IF p \in prev THEN 0 ELSE uid[p]]
         /\ state' = [p \in Objs |->
              IF p = o THEN IF state[o] = "none" THEN "new" ELSE state[o]
              ELSE IF p \in prev THEN "none" ELSE state[p]]
  /\ UNCHANGED <<freeUids, freeOffset, saving, broken>>

(* An object is loaded with the UID of the file, or given another one by   *)
(* SERIAL; whoever bears it is destroyed.  Not during a save: the code     *)
(* would take a place holder for an object and destroy it.                 *)
SetUID(o, u) ==
  /\ ~saving
  /\ u # 0 /\ SizeFor(u) <= MaxSize
  /\ LET rest == [v \in Uids |-> IF v = uid[o] THEN Freed ELSE table[v]]
         prev == {p \in Objs : u \in Uids /\ rest[u] = p}
     IN  /\ Put(rest, o, u)
         /\ uid' = [p \in Objs |-> IF p = o THEN u ELSE IF p \in prev THEN 0 ELSE uid[p]]
         /\ state' = [p \in Objs |->
              IF p = o THEN IF state[o] = "none" THEN "new" ELSE state[o]
              ELSE IF p \in prev THEN "none" ELSE state[p]]
  /\ UNCHANGED <<freeUids, freeOffset, saving, broken>>

Place(o) ==
  /\ state[o] = "new"
  /\ state' = [state EXCEPT ![o] = "placed"]
  /\ UNCHANGED <<tableVars, saving, broken>>

(* Delete: ScheduleObjDeletion.                                            *)
Delete(o) ==
  /\ state[o] \in {"new", "placed"}
  /\ state' = [state EXCEPT ![o] = "deleted"]
  /\ UNCHANGED <<tableVars, saving, broken>>

(* The destructors: SetUID(UID_UNUSED).                                    *)
Destroy(gone) ==
  /\ table' = TableWithout(gone)
  /\ uid' = [o \in Objs |-> IF o \in gone THEN 0 ELSE uid[o]]
  /\ state' = [o \in Objs |-> IF o \in gone THEN "none" ELSE state[o]]
  /\ UNCHANGED <<size, last>>

Scheduled == {o \in Objs : state[o] = "deleted"}

(* The end of the tick of the world clears m_ObjDelete.                    *)
ClearDeleted ==
  /\ Scheduled # {}
  /\ Destroy(Scheduled)
  /\ UNCHANGED <<freeUids, freeOffset, saving, broken>>

(* GarbageCollection_NewObjs.                                              *)
Unplaced == {o \in Objs : state[o] \in {"new", "deleted"}}

(* GarbageCollection_UIDs: unplaced, deleted and weird objects go; then    *)
(* the list names the free slots, the lowest first, and the offset stays   *)
(* behind the last of them.  Before a save, or by SERV.GARBAGE, which is   *)
(* refused during one.                                                     *)
Nth(S, n) == CHOOSE u \in S : Cardinality({v \in S : v < u}) = n

CollectGarbage(weird) ==
  /\ ~saving /\ weird \subseteq Alive
  /\ Destroy(Unplaced \cup weird)
  /\ LET holes == {u \in Uids : TableWithout(Unplaced \cup weird)[u] = Null}
         found == Cardinality(holes)
         listed == IF found <= FreeUidsSize - 1 THEN found ELSE FreeUidsSize - 1
     IN  /\ freeUids' = [i \in 0 .. FreeUidsSize - 1 |->
                           IF i < listed THEN Nth(holes, i) ELSE 0]
         /\ freeOffset' = listed
  /\ UNCHANGED <<saving, broken>>

-----------------------------------------------------------------------------
(* Saves.                                                                  *)

(* The files open; a background save then clears the unplaced objects.     *)
StartSave ==
  /\ ~saving
  /\ saving' = TRUE
  /\ UNCHANGED <<tableVars, state, broken>>

FirstStage ==
  /\ saving /\ Unplaced # {}
  /\ Destroy(Unplaced)
  /\ UNCHANGED <<freeUids, freeOffset, saving, broken>>

\* Mutant of EndSave: SaveThreadClose closes the files only.
EndSaveKeepsHeld ==
  /\ saving
  /\ saving' = FALSE
  /\ UNCHANGED <<tableVars, state, broken>>

(* SaveThreadClose: the place holders become free slots.                   *)
EndSave ==
  /\ saving
  /\ saving' = FALSE
  /\ table' = [u \in Uids |-> IF table[u] = Held THEN Null ELSE table[u]]
  /\ UNCHANGED <<size, last, freeUids, freeOffset, uid, state, broken>>

(* Save catches an exception and closes the files, without SaveThreadClose.*)
BreakSave ==
  /\ saving /\ broken < MaxBroken
  /\ saving' = FALSE /\ broken' = broken + 1
  /\ UNCHANGED <<tableVars, state>>

Init ==
  /\ size = FirstSize
  /\ table = [u \in 1 .. FirstSize - 1 |-> Null]
  /\ last = 1
  /\ freeUids = [i \in 0 .. FreeUidsSize - 1 |-> 0]
  /\ freeOffset = FreeUidsSize
  /\ uid = [o \in Objs |-> 0]
  /\ state = [o \in Objs |-> "none"]
  /\ saving = FALSE /\ broken = 0

Next ==
  \/ \E o \in Objs : Create(o) \/ Place(o) \/ Delete(o)
  \/ \E o \in Objs, u \in 1 .. MaxSize - 1 : SetUID(o, u)
  \/ ClearDeleted
  \/ \E weird \in SUBSET Objs : CollectGarbage(weird)
  \/ StartSave \/ FirstStage \/ EndSave \/ BreakSave

Spec == Init /\ [][Next]_vars

(* The main loop starts a save when the period is over and carries it on.  *)
FairSpec == Spec /\ WF_vars(StartSave) /\ WF_vars(EndSave)

-----------------------------------------------------------------------------
(* Properties.                                                             *)

TypeOK ==
  /\ size \in Nat /\ size >= 2
  /\ table \in [Uids -> Objs \cup {Null, Held}]
  /\ last \in Uids
  /\ DOMAIN freeUids = 0 .. FreeUidsSize - 1 /\ freeOffset \in 0 .. FreeUidsSize
  /\ uid \in [Objs -> Nat]
  /\ state \in [Objs -> {"none", "new", "placed", "deleted"}]
  /\ saving \in BOOLEAN /\ broken \in 0 .. MaxBroken

(* An object and its slot name each other, so FindUID finds every object   *)
(* that exists by its UID and none that does not (what FixObj and IsWeird  *)
(* look for with 0x7101 and 0x3201).                                       *)
LinkedBothWays ==
  /\ \A o \in Alive : uid[o] \in Uids /\ table[uid[o]] = o
  /\ \A u \in Uids : table[u] \in Objs => table[u] \in Alive /\ uid[table[u]] = u

(* What a slot holds when a save is under way stays the UID of that object *)
(* until the save is over: the slot of an object destroyed meanwhile is    *)
(* given to no other ("Can't free up the UID til after the save !",        *)
(* CWorld.cpp:313).                                                        *)
UidsLastForTheSave ==
  [][saving /\ saving' => \A u \in Uids : table[u] # Null => table'[u] \in {table[u], Held}]_vars

(* A new object makes the table grow only when no slot is free ("We have   *)
(* run out of free UID's !!!", CWorld.cpp:363), wherever the search starts *)
(* and whatever the list of free UIDs says.                                *)
GrowsOnlyWhenFull ==
  [][(\E o \in Objs : Create(o)) /\ size' # size => \A u \in Uids : table[u] # Null]_vars

(* A place holder goes, at the latest with the save that follows one that  *)
(* broke off.                                                              *)
HeldGoes ==
  \A u \in 1 .. MaxSize - 1 :
    u \in Uids /\ table[u] = Held ~> u \in Uids /\ table[u] # Held

(* After a garbage collection a new object takes a UID of the list ("We do *)
(* have a free uid's array. Use it if possible", CWorld.cpp:332).  Does    *)
(* not hold: CollectGarbage leaves the offset behind the last entry.       *)
ListIsUsed ==
  [][(\E o \in Objs : Create(o))
       /\ (\E i \in DOMAIN freeUids : freeUids[i] # 0 /\ table[freeUids[i]] = Null)
     => \E i \in DOMAIN freeUids : last' = freeUids[i]]_vars
=============================================================================
