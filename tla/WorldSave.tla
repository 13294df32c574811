----------------------------- MODULE WorldSave -----------------------------
(***************************************************************************)
(* The world save of CWorld (src/src/game/CWorld.cpp): SaveTry opens the   *)
(* files and flips the save parity of the world, SaveStage writes a part   *)
(* of the world, SaveForce runs the stages in one go with the game frozen, *)
(* and a background save runs one stage per automatic save while the game  *)
(* goes on.                                                                *)
(*                                                                         *)
(* A sector, and a character, carries a parity bit: it has been written in *)
(* the save that is under way iff its bit equals the bit of the world.     *)
(* Characters that walk from sector to sector meanwhile are looked after   *)
(* in CSector::MoveCharToSector.  Items have no bit: they are written with *)
(* the sector they lie in or with the character that carries them.         *)
(*                                                                         *)
(* The game runs on one thread (MT_ENGINES is 0), so an operation of the   *)
(* game never falls in the middle of a stage.  Abstracted: what is written *)
(* of an object, and the clock that paces the automatic saves.             *)
(***************************************************************************)
EXTENDS Integers, FiniteSets

CONSTANTS
  SectorsQty,     \* number of sectors of all maps
  Chars, Items,   \* identities of characters and items
  Background,     \* BOOLEAN: m_iSaveBackgroundTime is not 0
  SectorsPerTick, \* sectors a stage adds to its first (EF_Dynamic_Backsave)
  Ships,          \* BOOLEAN: ships carry items and logged out players over
                  \* the border of a sector
  Reach,          \* BOOLEAN: characters pick up, drop and hand over items
                  \* over the border of a sector
  GarbageCollect, \* BOOLEAN: m_fSaveGarbageCollect
  Faults,         \* what can go wrong: a subset of FaultKinds
  MaxSaves        \* bound: number of saves that are started

ASSUME SectorsAssumption == SectorsQty \in Nat \ {0} /\ SectorsPerTick \in Nat
ASSUME ObjectsAssumption == Chars \cap Items = {} /\ Chars \cap Int = {}
ASSUME OptionsAssumption ==
  /\ Background \in BOOLEAN /\ Ships \in BOOLEAN
  /\ Reach \in BOOLEAN /\ GarbageCollect \in BOOLEAN /\ MaxSaves \in Nat

(* A file does not open; a stage throws; the accounts are not saved; the   *)
(* check of the disk space throws.                                         *)
FaultKinds == {"open", "throw", "accounts", "space"}
ASSUME FaultsAssumption == Faults \subseteq FaultKinds

Sectors == 0 .. SectorsQty - 1
Objs    == Chars \cup Items
Nowhere == SectorsQty         \* no such object
Unplaced == SectorsQty + 1    \* in m_ObjNew
Places  == Sectors \cup {Nowhere, Unplaced}

(* The stages: GarbageCollection_NewObjs, the sectors, globals, an empty   *)
(* one, accounts, the end marks.  After stands for the numbers between the *)
(* last stage and INT32_MAX, Overflown for what INT32_MAX + 1 becomes.     *)
GarbageStage == -1
GlobalsStage == SectorsQty
EmptyStage   == SectorsQty + 1
AccountStage == SectorsQty + 2
EofStage     == SectorsQty + 3
After        == SectorsQty + 4
Int32Max     == SectorsQty + 5
Overflown    == -2
Stages       == Overflown .. Int32Max

Files == {"data", "world", "chars", "multis"}
\* What SaveTry has opened when opening the next file fails.
PartlyOpened == { {}, {"data"}, {"data", "world"}, {"data", "world", "chars"} }

VARIABLES
  worldParity,   \* CWorld::m_fSaveParity
  sectorParity,  \* CSector::m_fSaveParity
  charParity,    \* STATF_SAVEPARITY
  charAt,        \* the sector a character is in
  itemAt,        \* the sector an item lies in or the character that has it
  loggedOut,     \* the players without a client
  open,          \* which of the four files are open
  stage,         \* _iSaveStage
  count,         \* m_iSaveCountID
  pc,            \* "game", "forced" (in SaveForce) or "crashed"
  written,       \* history: how often the open files hold an object
  due,           \* history: in the world since the save began
  fresh,         \* history: characters created since the save began
  trapped,       \* history: a stage of this save threw or failed
  saves          \* saves started, for the bound

parities == <<worldParity, sectorParity, charParity>>
places   == <<charAt, itemAt>>
history  == <<written, due, fresh, trapped>>
vars == <<parities, places, loggedOut, open, stage, count, pc, history, saves>>

TypeOK ==
  /\ worldParity \in BOOLEAN
  /\ sectorParity \in [Sectors -> BOOLEAN]
  /\ charParity \in [Chars -> BOOLEAN]
  /\ charAt \in [Chars -> Places]
  /\ itemAt \in [Items -> Sectors \cup {Nowhere} \cup Chars]
  /\ loggedOut \subseteq Chars
  /\ open \subseteq Files
  /\ stage \in Stages
  /\ count \in Nat
  /\ pc \in {"game", "forced", "crashed"} /\ (pc = "forced" => "world" \in open)
  /\ written \in [Objs -> Nat]
  /\ due \subseteq Objs /\ fresh \subseteq Chars
  /\ trapped \in BOOLEAN
  /\ saves \in Nat

IsSaving == "world" \in open

Placed == { c \in Chars : charAt[c] \in Sectors } \cup
          { i \in Items : itemAt[i] \in Sectors \cup
                          { c \in Chars : charAt[c] \in Sectors } }

----------------------------------------------------------------------------
(* Writing.                                                                *)

\* Mutant of Unwritten: the bit is not looked at.
UnwrittenAny(C) == C

Unwritten(C) == { c \in C : charParity[c] # worldParity }

\* CChar::r_WriteParity on the characters C, with what they carry, and
\* r_WriteSafe on the items I that lie on the ground.
WriteObjs(C, I) ==
  LET now == Unwritten(C)
      all == now \cup I \cup { i \in Items : itemAt[i] \in now }
  IN  /\ charParity' = [c \in Chars |-> IF c \in now THEN worldParity
                                                     ELSE charParity[c]]
      /\ written' = [o \in Objs |-> written[o] + (IF o \in all THEN 1 ELSE 0)]

\* CSector::r_Write on the sectors S.
WriteSectors(S) ==
  LET todo == { s \in S : sectorParity[s] # worldParity }
  IN  /\ sectorParity' = [s \in Sectors |-> IF s \in todo THEN worldParity
                                                          ELSE sectorParity[s]]
      /\ WriteObjs({ c \in Chars : charAt[c] \in todo },
                   { i \in Items : itemAt[i] \in todo })

----------------------------------------------------------------------------
(* SaveStage.                                                              *)

NothingWritten == UNCHANGED <<parities, written>>

\* What all stages leave alone.
StageFrame == UNCHANGED <<itemAt, loggedOut, due, fresh, saves>>

\* GarbageCollection_NewObjs deletes what has not been placed; without
\* ForceGarbageCollect it runs in the first stage, else before the save.
CollectNewObjs ==
  charAt' = [c \in Chars |-> IF charAt[c] = Unplaced THEN Nowhere ELSE charAt[c]]

GarbageStep ==
  /\ stage = GarbageStage
  /\ stage' = stage + 1
  /\ IF GarbageCollect THEN UNCHANGED charAt ELSE CollectNewObjs
  /\ NothingWritten
  /\ UNCHANGED <<open, count, pc, trapped>>

\* Globals, the empty stage, accounts; past the last stage nothing is done.
PlainStage ==
  /\ stage \in {GlobalsStage, EmptyStage, AccountStage, After}
  /\ stage' = IF stage = After THEN After ELSE stage + 1
  /\ NothingWritten
  /\ UNCHANGED <<charAt, open, count, pc, trapped>>

\* Mutant of SectorStage: the stage after a batch is one too far.
SectorStageSkips ==
  /\ stage \in Sectors
  /\ \E last \in stage .. SectorsQty - 1 :
       /\ last <= stage + SectorsPerTick
       /\ WriteSectors(stage .. last)
       /\ stage' = last + 2
  /\ UNCHANGED <<worldParity, charAt, open, count, pc, trapped>>

\* One sector, or with EF_Dynamic_Backsave several in a row.
SectorStage ==
  /\ stage \in Sectors
  /\ \E last \in stage .. SectorsQty - 1 :
       /\ last <= stage + SectorsPerTick
       /\ WriteSectors(stage .. last)
       /\ stage' = last + 1
  /\ UNCHANGED <<worldParity, charAt, open, count, pc, trapped>>

\* Mutants of EofStep: SaveForce goes on; the files stay open.
EofStepGoesOn ==
  /\ stage = EofStage
  /\ count' = count + 1
  /\ open' = {}
  /\ stage' = Int32Max
  /\ NothingWritten
  /\ UNCHANGED <<charAt, pc, trapped>>

EofStepLeavesOpen ==
  /\ stage = EofStage
  /\ count' = count + 1
  /\ stage' = Int32Max
  /\ pc' = "game"
  /\ NothingWritten
  /\ UNCHANGED <<charAt, open, trapped>>

\* The end marks; SaveThreadClose closes the files.
EofStep ==
  /\ stage = EofStage
  /\ count' = count + 1
  /\ open' = {}
  /\ stage' = Int32Max
  /\ pc' = "game"
  /\ NothingWritten
  /\ UNCHANGED <<charAt, trapped>>

\* Account_SaveAll cannot open its file and returns false.
AccountsFail ==
  /\ "accounts" \in Faults /\ stage = AccountStage
  /\ stage' = stage + 1
  /\ trapped' = TRUE
  /\ pc' = "game"
  /\ NothingWritten
  /\ UNCHANGED <<charAt, open, count>>

\* An exception: a sector may have written part of its characters, the last
\* stage may have counted the save.  The stage is skipped and SaveStage
\* returns false.
StageThrows ==
  /\ "throw" \in Faults /\ stage \in GarbageStage .. EofStage
  /\ stage' = stage + 1
  /\ trapped' = TRUE
  /\ pc' = "game"
  /\ IF stage \in Sectors /\ sectorParity[stage] # worldParity
       THEN /\ sectorParity' = [sectorParity EXCEPT ![stage] = worldParity]
            /\ \E C \in SUBSET { c \in Chars : charAt[c] = stage } : WriteObjs(C, {})
            /\ UNCHANGED worldParity
       ELSE NothingWritten
  /\ count' \in {count} \cup (IF stage = EofStage THEN {count + 1} ELSE {})
  /\ UNCHANGED <<charAt, open>>

\* No branch of SaveStage fits INT32_MAX; ++_iSaveStage overflows.
OverflowStage ==
  /\ stage = Int32Max
  /\ stage' = Overflown
  /\ NothingWritten
  /\ UNCHANGED <<charAt, open, count, pc, trapped>>

\* GetSectorAbsolute of a negative number is no sector.
WildStage ==
  /\ stage = Overflown
  /\ pc' = "crashed"
  /\ NothingWritten
  /\ UNCHANGED <<charAt, open, stage, count, trapped>>

SaveStage ==
  /\ StageFrame
  /\ \/ GarbageStep \/ PlainStage \/ SectorStage \/ EofStep
     \/ AccountsFail \/ StageThrows \/ OverflowStage \/ WildStage

----------------------------------------------------------------------------
(* Save, SaveTry, SaveForce.                                               *)

\* SaveTry with all files opened.
StartSave(force) ==
  /\ ~IsSaving /\ saves < MaxSaves
  /\ open' = Files
  /\ worldParity' = ~worldParity
  /\ stage' = GarbageStage
  /\ pc' = IF force \/ ~Background THEN "forced" ELSE "game"
  /\ written' = [o \in Objs |-> 0]
  /\ due' = Placed
  /\ fresh' = {}
  /\ trapped' = FALSE
  /\ saves' = saves + 1
  /\ IF GarbageCollect THEN CollectNewObjs ELSE UNCHANGED charAt
  /\ UNCHANGED <<sectorParity, charParity, itemAt, loggedOut, count>>

\* SaveTry returns false because a file does not open; what has been opened
\* stays open, the parity and the stage are those of the save before.
OpenFails ==
  /\ "open" \in Faults /\ ~IsSaving /\ saves < MaxSaves
  /\ \E some \in PartlyOpened : open' = open \cup some
  /\ written' = [o \in Objs |-> 0]
  /\ due' = Placed
  /\ fresh' = {}
  /\ trapped' = FALSE
  /\ saves' = saves + 1
  /\ UNCHANGED <<parities, places, loggedOut, stage, count, pc>>

\* CheckAvailableSpaceForSave throws: Save closes the files.
SaveThrows ==
  /\ "space" \in Faults /\ open # {}
  /\ open' = {}
  /\ UNCHANGED <<parities, places, loggedOut, stage, count, pc, history, saves>>

\* A save that is under way: the automatic save runs a stage in the
\* background, a forced one goes on to the end.
ContinueInBackground == IsSaving /\ Background /\ SaveStage
ContinueForced ==
  /\ IsSaving
  /\ pc' = "forced"
  /\ UNCHANGED <<parities, places, loggedOut, open, stage, count, history, saves>>

AutoSave   == pc = "game" /\ (StartSave(FALSE) \/ ContinueInBackground)
ForcedSave == pc = "game" /\ (StartSave(TRUE) \/ ContinueForced)
SaveFails  == pc = "game" /\ (OpenFails \/ SaveThrows)
ForcedStage == pc = "forced" /\ SaveStage

----------------------------------------------------------------------------
(* The game.                                                               *)

GameFrame == pc = "game" /\ UNCHANGED <<worldParity, open, stage, count, pc, trapped, saves>>

\* Mutant of CreateChar: the bit starts cleared.
CreateCharClear(c) ==
  /\ charAt[c] = Nowhere
  /\ charAt' = [charAt EXCEPT ![c] = Unplaced]
  /\ charParity' = [charParity EXCEPT ![c] = FALSE]
  /\ written' = [written EXCEPT ![c] = 0]
  /\ fresh' = fresh \cup {c}
  /\ UNCHANGED <<sectorParity, itemAt, loggedOut, due>>

\* CChar::CChar: the parity of the world, "It will get saved next time".
CreateChar(c) ==
  /\ charAt[c] = Nowhere
  /\ charAt' = [charAt EXCEPT ![c] = Unplaced]
  /\ charParity' = [charParity EXCEPT ![c] = worldParity]
  /\ written' = [written EXCEPT ![c] = 0]
  /\ fresh' = fresh \cup {c}
  /\ UNCHANGED <<sectorParity, itemAt, loggedOut, due>>

\* Mutants of MoveCharToSector: the bits are not compared; a sector that is
\* not written yet is left to its stage.
MoveCharToSectorUnasked(c, s) ==
  /\ charAt[c] \notin {s, Nowhere} /\ c \notin loggedOut
  /\ charAt' = [charAt EXCEPT ![c] = s]
  /\ UNCHANGED <<sectorParity, charParity, itemAt, written, loggedOut, due, fresh>>

MoveCharToSectorLeaves(c, s) ==
  /\ charAt[c] \notin {s, Nowhere} /\ c \notin loggedOut
  /\ charAt' = [charAt EXCEPT ![c] = s]
  /\ IF IsSaving /\ sectorParity[s] = worldParity
       THEN WriteObjs({c}, {}) /\ UNCHANGED sectorParity
       ELSE UNCHANGED <<sectorParity, charParity, written>>
  /\ UNCHANGED <<itemAt, loggedOut, due, fresh>>

\* CSector::MoveCharToSector compares the parities: of a character and a
\* sector that differ, the one that is not in the files yet is written.
CompareParity(c, s) ==
  IF charParity[c] = sectorParity[s] \/ ~IsSaving
  THEN UNCHANGED <<sectorParity, charParity, written>>
  ELSE IF sectorParity[s] = worldParity
         THEN WriteObjs({c}, {}) /\ UNCHANGED sectorParity
         ELSE WriteSectors({s})

\* CSector::MoveCharToSector, for a character that is new or walks.
MoveCharToSector(c, s) ==
  /\ charAt[c] \notin {s, Nowhere} /\ c \notin loggedOut
  /\ charAt' = [charAt EXCEPT ![c] = s]
  /\ CompareParity(c, s)
  /\ UNCHANGED <<itemAt, loggedOut, due, fresh>>

\* CChar::MoveToChar for a logged out player: SetDisconnected puts it in the
\* list of the other sector.
MoveLoggedOut(c, s) ==
  /\ Ships /\ c \in loggedOut
  /\ charAt[c] \in Sectors \ {s}
  /\ charAt' = [charAt EXCEPT ![c] = s]
  /\ UNCHANGED <<sectorParity, charParity, itemAt, loggedOut, written, due, fresh>>

\* The client leaves: the list of the sector changes.
LogOut(c) ==
  /\ c \notin loggedOut /\ charAt[c] \in Sectors
  /\ loggedOut' = loggedOut \cup {c}
  /\ UNCHANGED <<sectorParity, charParity, places, written, due, fresh>>

\* It logs in again: the character goes through MoveCharToSector.
LogIn(c) ==
  /\ c \in loggedOut /\ charAt[c] \in Sectors
  /\ loggedOut' = loggedOut \ {c}
  /\ CompareParity(c, charAt[c])
  /\ UNCHANGED <<places, due, fresh>>

\* A character is deleted with what it carries.
DeleteChar(c) ==
  /\ charAt[c] \in Sectors
  /\ charAt' = [charAt EXCEPT ![c] = Nowhere]
  /\ itemAt' = [i \in Items |-> IF itemAt[i] = c THEN Nowhere ELSE itemAt[i]]
  /\ due' = due \ ({c} \cup { i \in Items : itemAt[i] = c })
  /\ fresh' = fresh \ {c}
  /\ loggedOut' = loggedOut \ {c}
  /\ UNCHANGED <<sectorParity, charParity, written>>

\* A new item is put down.
CreateItem(i, s) ==
  /\ itemAt[i] = Nowhere
  /\ itemAt' = [itemAt EXCEPT ![i] = s]
  /\ written' = [written EXCEPT ![i] = 0]
  /\ UNCHANGED <<sectorParity, charParity, charAt, loggedOut, due, fresh>>

\* The sector an item is in, with the character that carries it or without.
SectorOf(i) == IF itemAt[i] \in Chars THEN charAt[itemAt[i]] ELSE itemAt[i]

ItemFrame == UNCHANGED <<sectorParity, charParity, charAt, loggedOut, written, due, fresh>>

\* ItemPickup and ContentAdd: a character takes an item from the ground or
\* from another one.
TakeItem(c, i) ==
  /\ itemAt[i] # Nowhere /\ charAt[c] \in Sectors /\ c \notin loggedOut
  /\ Reach \/ SectorOf(i) = charAt[c]
  /\ itemAt' = [itemAt EXCEPT ![i] = c]
  /\ ItemFrame

\* ItemDrop: CSector::MoveItemToSector, which looks at no bit.
DropItem(i, s) ==
  /\ itemAt[i] \in Chars /\ charAt[itemAt[i]] \in Sectors
  /\ Reach \/ SectorOf(i) = s
  /\ itemAt' = [itemAt EXCEPT ![i] = s]
  /\ ItemFrame

\* CCMultiMovable::MoveDelta: a ship sails with what lies on it.
SailItem(i, s) ==
  /\ Ships /\ itemAt[i] \in Sectors \ {s}
  /\ itemAt' = [itemAt EXCEPT ![i] = s]
  /\ ItemFrame

\* CItem::Delete.
DeleteItem(i) ==
  /\ itemAt[i] # Nowhere
  /\ itemAt' = [itemAt EXCEPT ![i] = Nowhere]
  /\ due' = due \ {i}
  /\ UNCHANGED <<sectorParity, charParity, charAt, loggedOut, written, fresh>>

Game ==
  /\ GameFrame
  /\ \/ \E c \in Chars : CreateChar(c) \/ LogOut(c) \/ LogIn(c) \/ DeleteChar(c)
     \/ \E c \in Chars, s \in Sectors : MoveCharToSector(c, s) \/ MoveLoggedOut(c, s)
     \/ \E i \in Items : DeleteItem(i)
     \/ \E i \in Items, s \in Sectors : CreateItem(i, s) \/ DropItem(i, s) \/ SailItem(i, s)
     \/ \E c \in Chars, i \in Items : TakeItem(c, i)

\* The process is gone; SaveFiles has what a restart finds.
Crashed == pc = "crashed" /\ UNCHANGED vars

Init ==
  /\ worldParity = FALSE
  /\ sectorParity = [s \in Sectors |-> FALSE]
  /\ charParity = [c \in Chars |-> FALSE]
  /\ charAt \in [Chars -> Sectors \cup {Nowhere}]
  /\ itemAt \in [Items -> Sectors \cup {Nowhere} \cup
                          { c \in Chars : charAt[c] \in Sectors }]
  /\ loggedOut = {}
  /\ open = {} /\ stage = 0 /\ count = 0 /\ pc = "game"
  /\ written = [o \in Objs |-> 0]
  /\ due = {} /\ fresh = {} /\ trapped = FALSE /\ saves = 0

Next == AutoSave \/ ForcedSave \/ SaveFails \/ ForcedStage \/ Game \/ Crashed

Spec == Init /\ [][Next]_vars
\* CWorld::_OnTick calls Save(false) again and again; SaveForce is a loop.
FairSpec == Spec /\ WF_vars(AutoSave) /\ WF_vars(ForcedStage)

----------------------------------------------------------------------------
(* Properties.                                                             *)

\* A character has the bit of the sector it stands in: it is in the files iff
\* its sector is, and so it cannot carry an item from a written sector to an
\* unwritten one or back (MoveCharToSector).
ParityOfPlace ==
  \A c \in Chars : charAt[c] \in Sectors => charParity[c] = sectorParity[charAt[c]]

\* While the files are open the bit of a character tells whether the files
\* hold it, unless it was created since they were opened (r_WriteParity).
ParityTellsWritten ==
  IsSaving => \A c \in Chars : charAt[c] # Nowhere =>
                 (charParity[c] = worldParity <=> c \in fresh \/ written[c] > 0)

\* No character is written twice in the same files, whatever fails.
NoCharTwice == \A c \in Chars : written[c] <= 1

\* When the end marks are written, every character that was in the world
\* all the time since the save began is in the files.
CompleteSaveHoldsChars ==
  [][count' = count + 1 => \A c \in Chars \cap due : written[c] = 1]_vars

\* ... and every item, once, though characters carry it from sector to sector.
CompleteSaveHoldsItems ==
  [][count' = count + 1 => \A i \in Items \cap due : written[i] = 1]_vars

\* "Save only counts if we get to the end winout trapping."
CountsOnlyUntrapped == [][count' = count + 1 => ~trapped]_vars

\* A sector that the save skips as "already saved" has been saved: the
\* characters in it that were in the world since the save began are written.
SkippedIsSaved ==
  [][(stage \in Sectors /\ stage' > stage /\ ~trapped' /\ sectorParity[stage] = worldParity)
       => \A c \in Chars \cap due : charAt[c] = stage => written[c] > 0]_vars

\* A save that has opened its files comes to its end.
SaveCompletes == IsSaving ~> ~IsSaving
=============================================================================
