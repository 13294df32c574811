------------------------- MODULE WorldSave_proofs --------------------------
(***************************************************************************)
(* Proofs about the world save.  WorldSave: as long as nothing but the     *)
(* accounts fails and no ship carries anything over the border of a        *)
(* sector, a save that gets its end marks holds every character that was   *)
(* in the world all the time exactly once, and so every item if nobody     *)
(* reaches over a border - for any number of sectors, characters and       *)
(* items, in the background or not, whatever the characters do with the    *)
(* items meanwhile; and no character is ever written twice, whatever       *)
(* fails.  SaveFiles: for any number of backup levels, saves and           *)
(* crashes, a load never mixes files of different saves, finds the last    *)
(* whole save unless two in a row were cut short, and goes back to two     *)
(* archives at most; the archives keep the backups they should unless a    *)
(* save is cut short.                                                      *)
(***************************************************************************)
EXTENDS WorldSave, SaveFiles, WellFoundedInduction, TLAPS

\* The conditions under which the save of the characters is exact: files open,
\* there is space, no stage throws and no ship sails; the accounts may fail.
Quiet == Faults \subseteq {"accounts"} /\ ~Ships

\* The four files are opened and closed together; SaveForce has them open.
FilesInv ==
  /\ open = {} \/ open = Files
  /\ pc \in {"game", "forced"} /\ (pc = "forced" => open = Files)

\* Between saves all bits are the bit of the world.
IdleInv == open = {} => \A s \in Sectors : sectorParity[s] = worldParity

\* The stages that are done have written their sectors.
StageInv ==
  open = Files => /\ stage \in GarbageStage .. EofStage
                  /\ \A s \in Sectors : s < stage => sectorParity[s] = worldParity

\* An unplaced character has the bit of the world, unless it was created
\* before the save and the garbage collection is still to come.
UnplacedInv ==
  \A c \in Chars : charAt[c] = Unplaced =>
     \/ charParity[c] = worldParity
     \/ open = Files /\ stage = GarbageStage /\ ~GarbageCollect

CarriedInv == \A i \in Items : itemAt[i] \in Chars => charAt[itemAt[i]] \in Sectors

\* The files hold an object that was there all the time iff its sector has
\* been written; not so an item that is handed over the border of a sector.
CharInv ==
  open = Files => \A c \in Chars \cap due :
     /\ charAt[c] \in Sectors
     /\ written[c] = IF sectorParity[charAt[c]] = worldParity THEN 1 ELSE 0
ItemInv ==
  ~Reach /\ open = Files => \A i \in Items \cap due :
     /\ itemAt[i] # Nowhere
     /\ written[i] = IF sectorParity[SectorOf(i)] = worldParity THEN 1 ELSE 0

IInv ==
  /\ TypeOK /\ FilesInv /\ IdleInv /\ StageInv /\ ParityOfPlace
  /\ UnplacedInv /\ CarriedInv /\ CharInv /\ ItemInv

USE SectorsAssumption, ObjectsAssumption
USE DEF Sectors, Objs, Nowhere, Unplaced, Places, GarbageStage, GlobalsStage,
        EmptyStage, AccountStage, EofStage, After, Int32Max, Overflown, Stages

----------------------------------------------------------------------------
(* The initial states.                                                     *)

LEMMA InitIInv == Init => IInv
<1> SUFFICES ASSUME Init PROVE IInv
  OBVIOUS
<1>1. TypeOK
  <2>1. /\ charAt \in [Chars -> Sectors \cup {Nowhere}]
        /\ itemAt \in [Items -> Sectors \cup {Nowhere} \cup Chars]
    BY DEF Init
  <2>2. stage \in Stages
    BY DEF Init
  <2>3. /\ charAt \in [Chars -> Places]
        /\ sectorParity \in [Sectors -> BOOLEAN] /\ charParity \in [Chars -> BOOLEAN]
        /\ written \in [Objs -> Nat]
    BY <2>1 DEF Init
  <2>4. /\ worldParity \in BOOLEAN /\ loggedOut \subseteq Chars /\ open \subseteq Files
        /\ count \in Nat /\ pc = "game"
        /\ due \subseteq Objs /\ fresh \subseteq Chars /\ trapped \in BOOLEAN /\ saves \in Nat
    BY DEF Init
  <2> QED
    BY <2>1, <2>2, <2>3, <2>4 DEF TypeOK
<1>2. FilesInv /\ IdleInv /\ StageInv /\ CharInv /\ ItemInv
  BY DEF Init, FilesInv, IdleInv, StageInv, CharInv, ItemInv, Files
<1>3. ParityOfPlace /\ UnplacedInv
  BY DEF Init, ParityOfPlace, UnplacedInv
<1>4. CarriedInv
  <2> SUFFICES ASSUME NEW i \in Items, itemAt[i] \in Chars
               PROVE  charAt[itemAt[i]] \in Sectors
    BY DEF CarriedInv
  <2>1. itemAt[i] \in Sectors \cup {Nowhere} \cup { c \in Chars : charAt[c] \in Sectors }
    BY DEF Init
  <2> QED
    BY <2>1
<1> QED
  BY <1>1, <1>2, <1>3, <1>4 DEF IInv

----------------------------------------------------------------------------
(* Writing.                                                                *)

\* What CSector::r_Write does to the bits and the files when each character
\* has the bit of its sector: the sectors and all that is in them.
LEMMA WriteSectorsFacts ==
  ASSUME IInv, NEW S \in SUBSET Sectors, WriteSectors(S)
  PROVE  /\ sectorParity' \in [Sectors -> BOOLEAN]
         /\ charParity' \in [Chars -> BOOLEAN]
         /\ written' \in [Objs -> Nat]
         /\ \A s \in Sectors : sectorParity'[s] =
               IF s \in S THEN worldParity ELSE sectorParity[s]
         /\ \A c \in Chars : charParity'[c] =
               IF charAt[c] \in S THEN worldParity ELSE charParity[c]
         /\ \A c \in Chars : charAt[c] \in Sectors =>
               written'[c] = IF charAt[c] \in S /\ sectorParity[charAt[c]] # worldParity
                               THEN written[c] + 1 ELSE written[c]
         /\ \A i \in Items : itemAt[i] # Nowhere =>
               written'[i] = IF SectorOf(i) \in S /\ sectorParity[SectorOf(i)] # worldParity
                               THEN written[i] + 1 ELSE written[i]
<1> DEFINE todo == { s \in S : sectorParity[s] # worldParity }
           here == { c \in Chars : charAt[c] \in todo }
           lying == { i \in Items : itemAt[i] \in todo }
           all == here \cup lying \cup { i \in Items : itemAt[i] \in here }
<1>t. TypeOK /\ ParityOfPlace /\ CarriedInv
  BY DEF IInv
<1>1. Unwritten(here) = here
  <2>1. ASSUME NEW c \in here PROVE charParity[c] # worldParity
    BY <1>t DEF TypeOK, ParityOfPlace
  <2> QED
    BY <2>1 DEF Unwritten
<1>2. /\ sectorParity' = [s \in Sectors |-> IF s \in todo THEN worldParity
                                                          ELSE sectorParity[s]]
      /\ charParity' = [c \in Chars |-> IF c \in here THEN worldParity
                                                      ELSE charParity[c]]
      /\ written' = [o \in Objs |-> written[o] + (IF o \in all THEN 1 ELSE 0)]
  BY <1>1 DEF WriteSectors, WriteObjs
<1>3. ASSUME NEW c \in Chars
      PROVE  charParity'[c] = IF charAt[c] \in S THEN worldParity ELSE charParity[c]
  <2>1. CASE charAt[c] \in S /\ sectorParity[charAt[c]] # worldParity
    BY <1>2, <2>1
  <2>2. CASE charAt[c] \in S /\ sectorParity[charAt[c]] = worldParity
    <3>1. charParity[c] = worldParity
      BY <1>t, <2>2 DEF ParityOfPlace
    <3> QED
      BY <1>2, <2>2, <3>1
  <2>3. CASE charAt[c] \notin S
    BY <1>2, <2>3
  <2> QED
    BY <2>1, <2>2, <2>3
<1>4. ASSUME NEW c \in Chars
      PROVE  written'[c] = IF charAt[c] \in S /\ sectorParity[charAt[c]] # worldParity
                             THEN written[c] + 1 ELSE written[c]
  <2>1. c \in all <=> charAt[c] \in S /\ sectorParity[charAt[c]] # worldParity
    OBVIOUS
  <2>2. written[c] \in Nat
    BY <1>t DEF TypeOK
  <2> QED
    BY <1>2, <2>1, <2>2
<1>5. ASSUME NEW i \in Items, itemAt[i] # Nowhere
      PROVE  written'[i] = IF SectorOf(i) \in S /\ sectorParity[SectorOf(i)] # worldParity
                             THEN written[i] + 1 ELSE written[i]
  <2>1. written[i] \in Nat /\ written'[i] = written[i] + (IF i \in all THEN 1 ELSE 0)
    BY <1>t, <1>2 DEF TypeOK
  <2>2. CASE itemAt[i] \in Chars /\ itemAt[i] \notin Sectors
    <3>1. i \in all <=> charAt[itemAt[i]] \in S /\ sectorParity[charAt[itemAt[i]]] # worldParity
      BY <2>2
    <3> QED
      BY <2>1, <2>2, <3>1 DEF SectorOf
  <2>3. CASE itemAt[i] \in Sectors /\ itemAt[i] \notin Chars
    <3>1. i \in all <=> itemAt[i] \in S /\ sectorParity[itemAt[i]] # worldParity
      BY <2>3
    <3> QED
      BY <2>1, <2>3, <3>1 DEF SectorOf
  <2> QED
    BY <1>t, <1>5, <2>2, <2>3 DEF TypeOK
<1>6. written' \in [Objs -> Nat]
  BY <1>t, <1>2 DEF TypeOK
<1>7. /\ sectorParity' \in [Sectors -> BOOLEAN]
      /\ charParity' \in [Chars -> BOOLEAN]
  BY <1>t, <1>2 DEF TypeOK
<1>8. ASSUME NEW s \in Sectors
      PROVE  sectorParity'[s] = IF s \in S THEN worldParity ELSE sectorParity[s]
  BY <1>2
<1> QED
  BY <1>3, <1>4, <1>5, <1>6, <1>7, <1>8

----------------------------------------------------------------------------
(* The steps of a save.                                                    *)

LEMMA FilesFacts == Files # {} /\ "world" \in Files
  BY DEF Files

LEMMA CollectFacts ==
  ASSUME TypeOK, CollectNewObjs \/ UNCHANGED charAt
  PROVE  /\ charAt' \in [Chars -> Places]
         /\ \A c \in Chars : charAt[c] \in Sectors => charAt'[c] = charAt[c]
         /\ \A c \in Chars : charAt[c] \notin Sectors => charAt'[c] \notin Sectors
         /\ \A c \in Chars : charAt'[c] = Unplaced => charAt[c] = Unplaced
         /\ CollectNewObjs => \A c \in Chars : charAt'[c] # Unplaced
<1>1. CASE UNCHANGED charAt /\ ~CollectNewObjs
  BY <1>1 DEF TypeOK
<1>2. CASE CollectNewObjs
  BY <1>2 DEF TypeOK, CollectNewObjs
<1> QED
  BY <1>1, <1>2

LEMMA StartSaveStep ==
  ASSUME IInv, NEW force \in BOOLEAN, StartSave(force)
  PROVE  IInv'
<1> USE FilesFacts
<1>t. TypeOK /\ FilesInv /\ IdleInv /\ ParityOfPlace /\ UnplacedInv /\ CarriedInv
  BY DEF IInv
<1>1. open = {} /\ open' = Files /\ stage' = GarbageStage
  BY <1>t DEF StartSave, IsSaving, FilesInv
<1>2. CollectNewObjs \/ UNCHANGED charAt
  BY DEF StartSave
<1>3. /\ charAt' \in [Chars -> Places]
      /\ \A c \in Chars : charAt[c] \in Sectors => charAt'[c] = charAt[c]
      /\ \A c \in Chars : charAt[c] \notin Sectors => charAt'[c] \notin Sectors
      /\ \A c \in Chars : charAt'[c] = Unplaced => charAt[c] = Unplaced
      /\ CollectNewObjs => \A c \in Chars : charAt'[c] # Unplaced
  BY <1>t, <1>2, CollectFacts
<1>4. /\ UNCHANGED <<sectorParity, charParity, itemAt, loggedOut, count>>
      /\ worldParity' = ~worldParity
      /\ written' = [o \in Objs |-> 0] /\ due' = Placed /\ fresh' = {}
      /\ trapped' = FALSE /\ saves' = saves + 1 /\ pc' \in {"game", "forced"}
  BY DEF StartSave
<1>5. \A s \in Sectors : sectorParity'[s] # worldParity'
  BY <1>t, <1>1, <1>4 DEF IdleInv, TypeOK
<1>6. TypeOK'
  <2>1. Placed \subseteq Objs
    BY DEF Placed
  <2>2. stage' \in Stages /\ open' \subseteq Files
    BY <1>1
  <2>3. worldParity' \in BOOLEAN /\ saves' \in Nat /\ written' \in [Objs -> Nat]
    BY <1>4, <1>t DEF TypeOK
  <2>4. "world" \in open'
    BY <1>1
  <2> QED
    BY <1>t, <1>3, <1>4, <2>1, <2>2, <2>3, <2>4 DEF TypeOK
<1>7. FilesInv' /\ IdleInv'
  BY <1>1, <1>4 DEF FilesInv, IdleInv
<1>8. StageInv'
  BY <1>1 DEF StageInv
<1>9. ParityOfPlace'
  BY <1>t, <1>3, <1>4 DEF ParityOfPlace
<1>10. UnplacedInv'
  <2>1. CASE GarbageCollect
    BY <1>3, <2>1 DEF UnplacedInv, StartSave
  <2>2. CASE ~GarbageCollect
    BY <1>1, <2>2 DEF UnplacedInv
  <2> QED
    BY <2>1, <2>2
<1>11. CarriedInv'
  BY <1>t, <1>3, <1>4 DEF CarriedInv
<1>12. CharInv'
  BY <1>3, <1>4, <1>5 DEF CharInv, Placed
<1>13. ItemInv'
  <2> SUFFICES ASSUME NEW i \in Items, i \in Placed
               PROVE  itemAt[i] # Nowhere /\ SectorOf(i)' \in Sectors
    BY <1>4, <1>5 DEF ItemInv
  <2>1. itemAt[i] \in Sectors \cup { c \in Chars : charAt[c] \in Sectors }
    BY DEF Placed
  <2>2. CASE itemAt[i] \in Sectors
    BY <1>4, <2>2 DEF SectorOf
  <2>3. CASE itemAt[i] \in { c \in Chars : charAt[c] \in Sectors }
    BY <1>3, <1>4, <2>3 DEF SectorOf
  <2> QED
    BY <2>1, <2>2, <2>3
<1> QED
  BY <1>6, <1>7, <1>8, <1>9, <1>10, <1>11, <1>12, <1>13 DEF IInv

\* A save that is under way continues with a stage.
LEMMA StageStep ==
  ASSUME IInv, Quiet, IsSaving, SaveStage
  PROVE  IInv'
<1> USE FilesFacts
<1>t. TypeOK /\ FilesInv /\ IdleInv /\ StageInv /\ ParityOfPlace /\ UnplacedInv
      /\ CarriedInv /\ CharInv /\ ItemInv
  BY DEF IInv
<1>o. open = Files /\ stage \in GarbageStage .. EofStage
  BY <1>t DEF FilesInv, StageInv, IsSaving
<1>u. UNCHANGED <<itemAt, loggedOut, due, fresh, saves>>
  BY DEF SaveStage, StageFrame
<1>1. CASE GarbageStep
  <2>1. /\ CollectNewObjs \/ UNCHANGED charAt
        /\ ~GarbageCollect => CollectNewObjs
        /\ stage = GarbageStage /\ stage' = stage + 1
        /\ UNCHANGED <<parities, written, open, count, pc, trapped>>
    BY <1>1 DEF GarbageStep, NothingWritten
  <2>2. /\ charAt' \in [Chars -> Places]
        /\ \A c \in Chars : charAt[c] \in Sectors => charAt'[c] = charAt[c]
        /\ \A c \in Chars : charAt[c] \notin Sectors => charAt'[c] \notin Sectors
        /\ \A c \in Chars : charAt'[c] = Unplaced => charAt[c] = Unplaced
        /\ CollectNewObjs => \A c \in Chars : charAt'[c] # Unplaced
    BY <1>t, <2>1, CollectFacts
  <2>3. TypeOK'
    BY <1>t, <1>u, <2>1, <2>2 DEF TypeOK, parities
  <2>4. FilesInv' /\ IdleInv' /\ StageInv'
    BY <1>t, <1>o, <2>1 DEF FilesInv, IdleInv, StageInv, parities
  <2>5. ParityOfPlace' /\ CarriedInv'
    BY <1>t, <1>u, <2>1, <2>2 DEF ParityOfPlace, CarriedInv, parities
  <2>6. UnplacedInv'
    BY <1>t, <2>1, <2>2 DEF UnplacedInv, parities
  <2>7. CharInv'
    BY <1>t, <1>o, <1>u, <2>1, <2>2 DEF CharInv, parities
  <2>8. ItemInv'
    <3>1. ASSUME NEW i \in Items PROVE SectorOf(i)' = SectorOf(i)
      BY <1>t, <1>u, <2>2 DEF SectorOf, CarriedInv
    <3> QED
      BY <1>t, <1>o, <1>u, <2>1, <3>1 DEF ItemInv, parities
  <2> QED
    BY <2>3, <2>4, <2>5, <2>6, <2>7, <2>8 DEF IInv
<1>2. CASE PlainStage
  <2>1. /\ stage \in {GlobalsStage, EmptyStage, AccountStage} /\ stage' = stage + 1
        /\ UNCHANGED <<parities, written, charAt, open, count, pc, trapped>>
    BY <1>2, <1>o DEF PlainStage, NothingWritten
  <2>2. TypeOK'
    BY <1>t, <1>u, <2>1 DEF TypeOK, parities
  <2>3. FilesInv' /\ IdleInv' /\ ParityOfPlace' /\ CarriedInv'
    BY <1>t, <1>u, <2>1 DEF FilesInv, IdleInv, ParityOfPlace, CarriedInv, parities
  <2>4. StageInv' /\ UnplacedInv'
    BY <1>t, <1>o, <2>1 DEF StageInv, UnplacedInv, parities
  <2>5. CharInv' /\ ItemInv'
    BY <1>t, <1>u, <2>1 DEF CharInv, ItemInv, SectorOf, parities
  <2> QED
    BY <2>2, <2>3, <2>4, <2>5 DEF IInv
<1>3. CASE SectorStage
  <2>1. PICK last \in stage .. SectorsQty - 1 :
          WriteSectors(stage .. last) /\ stage' = last + 1
    BY <1>3 DEF SectorStage
  <2>2. /\ stage \in Sectors
        /\ UNCHANGED <<worldParity, charAt, open, count, pc, trapped>>
    BY <1>3 DEF SectorStage
  <2> DEFINE S == stage .. last
  <2>3. S \in SUBSET Sectors /\ WriteSectors(S)
    BY <2>1, <2>2
  <2> HIDE DEF S
  <2>4. /\ sectorParity' \in [Sectors -> BOOLEAN]
        /\ charParity' \in [Chars -> BOOLEAN]
        /\ written' \in [Objs -> Nat]
        /\ \A s \in Sectors : sectorParity'[s] =
              IF s \in S THEN worldParity ELSE sectorParity[s]
        /\ \A c \in Chars : charParity'[c] =
              IF charAt[c] \in S THEN worldParity ELSE charParity[c]
        /\ \A c \in Chars : charAt[c] \in Sectors =>
              written'[c] = IF charAt[c] \in S /\ sectorParity[charAt[c]] # worldParity
                              THEN written[c] + 1 ELSE written[c]
        /\ \A i \in Items : itemAt[i] # Nowhere =>
              written'[i] = IF SectorOf(i) \in S /\ sectorParity[SectorOf(i)] # worldParity
                              THEN written[i] + 1 ELSE written[i]
    BY <2>3, WriteSectorsFacts
  <2>5. TypeOK'
    BY <1>t, <1>u, <2>1, <2>2, <2>4 DEF TypeOK
  <2>6. FilesInv' /\ IdleInv'
    BY <1>t, <1>o, <2>2 DEF FilesInv, IdleInv
  <2>7. StageInv'
    <3>1. stage' \in GarbageStage .. EofStage
      BY <2>1, <2>2
    <3>2. ASSUME NEW s \in Sectors, s < stage' PROVE sectorParity'[s] = worldParity
      <4>1. CASE s < stage
        BY <1>t, <1>o, <2>4, <4>1 DEF StageInv
      <4>2. CASE s \in S
        BY <2>4, <4>2
      <4> QED
        BY <2>1, <2>2, <3>2, <4>1, <4>2 DEF S
    <3> QED
      BY <2>2, <3>1, <3>2 DEF StageInv
  <2>8. ParityOfPlace' /\ CarriedInv'
    BY <1>t, <1>u, <2>2, <2>4 DEF ParityOfPlace, CarriedInv
  <2>9. UnplacedInv'
    <3>1. stage # GarbageStage
      BY <2>2
    <3> QED
      BY <1>t, <2>2, <2>4, <3>1 DEF UnplacedInv
  <2>10. CharInv'
    <3> SUFFICES ASSUME NEW c \in Chars \cap due
                 PROVE  /\ charAt[c] \in Sectors
                        /\ written'[c] = IF sectorParity'[charAt[c]] = worldParity THEN 1 ELSE 0
      BY <1>u, <2>2 DEF CharInv
    <3>1. /\ charAt[c] \in Sectors
          /\ written[c] = IF sectorParity[charAt[c]] = worldParity THEN 1 ELSE 0
      BY <1>t, <1>o DEF CharInv
    <3> QED
      BY <2>4, <3>1
  <2>11. ItemInv'
    <3> SUFFICES ASSUME ~Reach, NEW i \in Items \cap due
                 PROVE  /\ itemAt[i] # Nowhere
                        /\ written'[i] = IF sectorParity'[SectorOf(i)] = worldParity THEN 1 ELSE 0
      BY <1>u, <2>2 DEF ItemInv, SectorOf
    <3>1. /\ itemAt[i] # Nowhere
          /\ written[i] = IF sectorParity[SectorOf(i)] = worldParity THEN 1 ELSE 0
      BY <1>t, <1>o DEF ItemInv
    <3>2. SectorOf(i) \in Sectors
      BY <1>t, <3>1 DEF SectorOf, CarriedInv, TypeOK
    <3> QED
      BY <2>4, <3>1, <3>2
  <2> QED
    BY <2>5, <2>6, <2>7, <2>8, <2>9, <2>10, <2>11 DEF IInv
<1>4. CASE EofStep
  <2>1. /\ stage = EofStage /\ open' = {} /\ stage' = Int32Max /\ pc' = "game"
        /\ count' = count + 1
        /\ UNCHANGED <<parities, written, charAt, trapped>>
    BY <1>4 DEF EofStep, NothingWritten
  <2>2. TypeOK'
    BY <1>t, <1>u, <2>1 DEF TypeOK, parities
  <2>3. FilesInv' /\ StageInv' /\ CharInv' /\ ItemInv'
    BY <2>1 DEF FilesInv, StageInv, CharInv, ItemInv
  <2>4. IdleInv'
    BY <1>t, <1>o, <2>1 DEF IdleInv, StageInv, parities
  <2>5. ParityOfPlace' /\ CarriedInv' /\ UnplacedInv'
    BY <1>t, <1>u, <2>1 DEF ParityOfPlace, CarriedInv, UnplacedInv, parities
  <2> QED
    BY <2>2, <2>3, <2>4, <2>5 DEF IInv
<1>5. CASE AccountsFail
  <2>1. /\ stage = AccountStage /\ stage' = stage + 1
        /\ pc' = "game" /\ trapped' = TRUE
        /\ UNCHANGED <<parities, written, charAt, open, count>>
    BY <1>5 DEF AccountsFail, NothingWritten
  <2>2. TypeOK'
    BY <1>t, <1>u, <2>1 DEF TypeOK, parities
  <2>3. FilesInv' /\ IdleInv' /\ ParityOfPlace' /\ CarriedInv'
    BY <1>t, <1>u, <2>1 DEF FilesInv, IdleInv, ParityOfPlace, CarriedInv, parities
  <2>4. StageInv' /\ UnplacedInv'
    BY <1>t, <1>o, <2>1 DEF StageInv, UnplacedInv, parities
  <2>5. CharInv' /\ ItemInv'
    BY <1>t, <1>u, <2>1 DEF CharInv, ItemInv, SectorOf, parities
  <2> QED
    BY <2>2, <2>3, <2>4, <2>5 DEF IInv
<1>6. ~(StageThrows \/ OverflowStage \/ WildStage)
  BY <1>o DEF Quiet, StageThrows, OverflowStage, WildStage
<1> QED
  BY <1>1, <1>2, <1>3, <1>4, <1>5, <1>6 DEF SaveStage

----------------------------------------------------------------------------
(* The steps of the game.                                                  *)

\* What a step of the game that writes nothing must show.
LEMMA QuietGameStep ==
  ASSUME IInv, GameFrame, UNCHANGED <<sectorParity, charParity>>,
         TypeOK', ParityOfPlace', CarriedInv', CharInv', ItemInv', UnplacedInv'
  PROVE  IInv'
<1>1. FilesInv' /\ IdleInv' /\ StageInv'
  BY DEF IInv, GameFrame, FilesInv, IdleInv, StageInv
<1> QED
  BY <1>1 DEF IInv

LEMMA CreateCharStep ==
  ASSUME IInv, GameFrame, NEW c \in Chars, CreateChar(c)
  PROVE  IInv'
<1>t. TypeOK /\ FilesInv /\ IdleInv /\ StageInv /\ ParityOfPlace /\ UnplacedInv
      /\ CarriedInv /\ CharInv /\ ItemInv
  BY DEF IInv
<1>1. /\ charAt[c] = Nowhere
      /\ charAt' = [charAt EXCEPT ![c] = Unplaced]
      /\ charParity' = [charParity EXCEPT ![c] = worldParity]
      /\ written' = [written EXCEPT ![c] = 0]
      /\ fresh' = fresh \cup {c}
      /\ UNCHANGED <<sectorParity, itemAt, loggedOut, due>>
      /\ UNCHANGED <<worldParity, open, stage, count, pc, trapped, saves>>
  BY DEF CreateChar, GameFrame
<1>2. TypeOK'
  BY <1>t, <1>1 DEF TypeOK
<1>3. FilesInv' /\ IdleInv' /\ StageInv'
  BY <1>t, <1>1 DEF FilesInv, IdleInv, StageInv
<1>4. ParityOfPlace' /\ UnplacedInv'
  BY <1>t, <1>1 DEF ParityOfPlace, UnplacedInv, TypeOK
<1>5. \A i \in Items : itemAt[i] \in Chars => itemAt[i] # c
  BY <1>t, <1>1 DEF CarriedInv
<1>6. CarriedInv'
  BY <1>t, <1>1, <1>5 DEF CarriedInv, TypeOK
<1>7. CharInv'
  BY <1>t, <1>1 DEF CharInv, TypeOK
<1>8. ItemInv'
  <2>1. ASSUME NEW i \in Items PROVE SectorOf(i)' = SectorOf(i)
    BY <1>t, <1>1, <1>5 DEF SectorOf, TypeOK
  <2> QED
    BY <1>t, <1>1, <2>1 DEF ItemInv, TypeOK
<1> QED
  BY <1>2, <1>3, <1>4, <1>6, <1>7, <1>8 DEF IInv

LEMMA MoveCharStep ==
  ASSUME IInv, GameFrame, NEW c \in Chars, NEW s \in Sectors, MoveCharToSector(c, s)
  PROVE  IInv'
<1> USE FilesFacts
<1>t. TypeOK /\ FilesInv /\ IdleInv /\ StageInv /\ ParityOfPlace /\ UnplacedInv
      /\ CarriedInv /\ CharInv /\ ItemInv
  BY DEF IInv
<1>1. /\ charAt[c] \notin {s, Nowhere}
      /\ charAt' = [charAt EXCEPT ![c] = s]
      /\ UNCHANGED <<itemAt, loggedOut, due, fresh>>
      /\ UNCHANGED <<worldParity, open, stage, count, pc, trapped, saves>>
  BY DEF MoveCharToSector, GameFrame
<1>a. charAt' \in [Chars -> Places] /\ charAt'[c] = s
      /\ \A d \in Chars \ {c} : charAt'[d] = charAt[d]
  BY <1>t, <1>1 DEF TypeOK
<1>c. CarriedInv'
  BY <1>t, <1>1, <1>a DEF CarriedInv, TypeOK
<1>b. /\ sectorParity[s] \in BOOLEAN /\ charParity[c] \in BOOLEAN /\ worldParity \in BOOLEAN
      /\ \A o \in Objs : written[o] \in Nat
  BY <1>t DEF TypeOK
<1>p. charAt[c] \in Sectors \cup {Unplaced}
  BY <1>t, <1>1 DEF TypeOK
\* The sector of an item only changes with the character that carries it.
<1>i. ASSUME NEW i \in Items
      PROVE  SectorOf(i)' = IF itemAt[i] = c THEN s ELSE SectorOf(i)
  BY <1>t, <1>1, <1>a DEF SectorOf, TypeOK
<1>d. CASE charParity[c] = sectorParity[s] \/ ~IsSaving
  <2>1. UNCHANGED <<sectorParity, charParity, written>>
    BY <1>d DEF MoveCharToSector, CompareParity
  <2>2. charParity[c] = sectorParity[s]
    BY <1>t, <1>d, <1>p DEF ParityOfPlace, UnplacedInv, FilesInv, IdleInv, IsSaving
  <2>3. TypeOK'
    BY <1>t, <1>1, <1>a, <2>1 DEF TypeOK
  <2>4. ParityOfPlace' /\ UnplacedInv'
    BY <1>t, <1>1, <1>a, <2>1, <2>2 DEF ParityOfPlace, UnplacedInv
  <2>5. CharInv'
    BY <1>t, <1>1, <1>a, <2>1, <2>2 DEF CharInv, ParityOfPlace
  <2>6. ItemInv'
    <3> SUFFICES ASSUME ~Reach, open = Files, NEW i \in Items \cap due
                 PROVE  /\ itemAt[i] # Nowhere
                        /\ written[i] = IF sectorParity[SectorOf(i)'] = worldParity THEN 1 ELSE 0
      BY <1>1, <2>1 DEF ItemInv
    <3>1. CASE itemAt[i] = c
      <4>1. charAt[c] \in Sectors /\ SectorOf(i) = charAt[c]
        BY <1>t, <3>1 DEF CarriedInv, SectorOf
      <4> QED
        BY <1>t, <1>i, <2>2, <3>1, <4>1 DEF ItemInv, ParityOfPlace
    <3>2. CASE itemAt[i] # c
      BY <1>t, <1>i, <3>2 DEF ItemInv
    <3> QED
      BY <3>1, <3>2
  <2> QED
    BY <1>c, <2>1, <2>3, <2>4, <2>5, <2>6, QuietGameStep
<1>e. CASE ~(charParity[c] = sectorParity[s] \/ ~IsSaving) /\ sectorParity[s] = worldParity
  <2>1. WriteObjs({c}, {}) /\ UNCHANGED sectorParity
    BY <1>e DEF MoveCharToSector, CompareParity
  <2>2. charParity[c] # worldParity /\ open = Files
    BY <1>t, <1>e DEF FilesInv, IsSaving
  <2>3. charAt[c] \in Sectors => sectorParity[charAt[c]] # worldParity
    BY <1>t, <2>2 DEF ParityOfPlace
  <2> DEFINE all == {c} \cup { i \in Items : itemAt[i] = c }
  <2>4. /\ charParity' = [d \in Chars |-> IF d = c THEN worldParity ELSE charParity[d]]
        /\ written' = [o \in Objs |-> written[o] + (IF o \in all THEN 1 ELSE 0)]
    <3>1. Unwritten({c}) = {c}
      BY <2>2 DEF Unwritten
    <3> QED
      BY <2>1, <3>1 DEF WriteObjs
  <2>5. TypeOK'
    <3>1. charParity' \in [Chars -> BOOLEAN] /\ written' \in [Objs -> Nat]
      BY <1>b, <2>4, <1>t DEF TypeOK
    <3> QED
      BY <1>t, <1>1, <1>a, <2>1, <3>1 DEF TypeOK
  <2>6. FilesInv' /\ IdleInv' /\ StageInv'
    BY <1>t, <1>1, <2>1 DEF FilesInv, IdleInv, StageInv
  <2>7. ParityOfPlace'
    BY <1>t, <1>a, <1>e, <2>1, <2>4 DEF ParityOfPlace
  <2>8. UnplacedInv'
    BY <1>t, <1>1, <1>a, <2>4 DEF UnplacedInv
  <2>9. CharInv'
    <3> SUFFICES ASSUME NEW d \in Chars \cap due
                 PROVE  /\ charAt'[d] \in Sectors
                        /\ written'[d] = IF sectorParity[charAt'[d]] = worldParity THEN 1 ELSE 0
      BY <1>1, <2>1 DEF CharInv
    <3>1. /\ charAt[d] \in Sectors
          /\ written[d] = IF sectorParity[charAt[d]] = worldParity THEN 1 ELSE 0
      BY <1>t, <2>2 DEF CharInv
    <3>2. written'[d] = written[d] + (IF d = c THEN 1 ELSE 0)
      BY <2>4
    <3> QED
      BY <1>a, <1>e, <2>3, <3>1, <3>2
  <2>10. ItemInv'
    <3> SUFFICES ASSUME ~Reach, NEW i \in Items \cap due
                 PROVE  /\ itemAt[i] # Nowhere
                        /\ written'[i] = IF sectorParity[SectorOf(i)'] = worldParity THEN 1 ELSE 0
      BY <1>1, <2>1 DEF ItemInv
    <3>1. /\ itemAt[i] # Nowhere
          /\ written[i] = IF sectorParity[SectorOf(i)] = worldParity THEN 1 ELSE 0
      BY <1>t, <2>2 DEF ItemInv
    <3>2. written'[i] = written[i] + (IF itemAt[i] = c THEN 1 ELSE 0)
      BY <2>4
    <3>3. itemAt[i] = c => SectorOf(i) = charAt[c] /\ charAt[c] \in Sectors
      BY <1>t DEF SectorOf, CarriedInv
    <3> QED
      BY <1>e, <1>i, <2>3, <3>1, <3>2, <3>3
  <2> QED
    BY <1>c, <2>5, <2>6, <2>7, <2>8, <2>9, <2>10 DEF IInv
<1>f. CASE ~(charParity[c] = sectorParity[s] \/ ~IsSaving) /\ sectorParity[s] # worldParity
  <2>1. WriteSectors({s})
    BY <1>f DEF MoveCharToSector, CompareParity
  <2>2. charParity[c] = worldParity /\ open = Files
    BY <1>b, <1>t, <1>f DEF FilesInv, IsSaving
  <2> DEFINE S == {s}
  <2>3. S \in SUBSET Sectors /\ WriteSectors(S)
    BY <2>1
  <2> HIDE DEF S
  <2>4. /\ sectorParity' \in [Sectors -> BOOLEAN]
        /\ charParity' \in [Chars -> BOOLEAN]
        /\ written' \in [Objs -> Nat]
        /\ \A r \in Sectors : sectorParity'[r] =
              IF r \in S THEN worldParity ELSE sectorParity[r]
        /\ \A d \in Chars : charParity'[d] =
              IF charAt[d] \in S THEN worldParity ELSE charParity[d]
        /\ \A d \in Chars : charAt[d] \in Sectors =>
              written'[d] = IF charAt[d] \in S /\ sectorParity[charAt[d]] # worldParity
                              THEN written[d] + 1 ELSE written[d]
        /\ \A i \in Items : itemAt[i] # Nowhere =>
              written'[i] = IF SectorOf(i) \in S /\ sectorParity[SectorOf(i)] # worldParity
                              THEN written[i] + 1 ELSE written[i]
    BY <2>3, WriteSectorsFacts
  <2>5. TypeOK'
    BY <1>t, <1>1, <1>a, <2>4 DEF TypeOK
  <2>6. FilesInv' /\ IdleInv' /\ StageInv'
    BY <1>t, <1>1, <2>2, <2>4 DEF FilesInv, IdleInv, StageInv
  <2>7. ParityOfPlace'
    <3> SUFFICES ASSUME NEW d \in Chars, charAt'[d] \in Sectors
                 PROVE  charParity'[d] = sectorParity'[charAt'[d]]
      BY DEF ParityOfPlace
    <3>1. CASE d = c
      <4>1. charAt'[d] = s /\ sectorParity'[s] = worldParity
        BY <1>a, <2>4, <3>1 DEF S
      <4>2. charParity'[c] = worldParity
        BY <2>2, <2>4
      <4> QED  BY <3>1, <4>1, <4>2
    <3>2. CASE d # c
      <4>1. charAt'[d] = charAt[d]
        BY <1>a, <3>2
      <4>2. charAt[d] \in Sectors /\ charParity[d] = sectorParity[charAt[d]]
        BY <1>t, <4>1 DEF ParityOfPlace
      <4> QED  BY <2>4, <4>1, <4>2
    <3> QED
      BY <3>1, <3>2
  <2>8. UnplacedInv'
    BY <1>t, <1>1, <1>a, <2>4 DEF UnplacedInv
  <2>s. s \in S
    BY DEF S
  <2>9. CharInv'
    <3> SUFFICES ASSUME NEW d \in Chars \cap due
                 PROVE  /\ charAt'[d] \in Sectors
                        /\ written'[d] = IF sectorParity'[charAt'[d]] = worldParity THEN 1 ELSE 0
      BY <1>1 DEF CharInv
    <3>1. /\ charAt[d] \in Sectors
          /\ written[d] = IF sectorParity[charAt[d]] = worldParity THEN 1 ELSE 0
      BY <1>t, <2>2 DEF CharInv
    <3>2. d = c => sectorParity[charAt[d]] = worldParity
      BY <1>t, <2>2, <3>1 DEF ParityOfPlace
    <3>3. d = c => charAt[d] \notin S
      BY <1>1 DEF S
    <3>4. CASE d = c
      BY <1>a, <2>4, <2>s, <3>1, <3>2, <3>3, <3>4
    <3>5. CASE d # c
      BY <1>a, <2>4, <3>1, <3>5
    <3> QED
      BY <3>4, <3>5
  <2>10. ItemInv'
    <3> SUFFICES ASSUME ~Reach, NEW i \in Items \cap due
                 PROVE  /\ itemAt[i] # Nowhere
                        /\ written'[i] = IF sectorParity'[SectorOf(i)'] = worldParity THEN 1 ELSE 0
      BY <1>1 DEF ItemInv
    <3>1. /\ itemAt[i] # Nowhere
          /\ written[i] = IF sectorParity[SectorOf(i)] = worldParity THEN 1 ELSE 0
      BY <1>t, <2>2 DEF ItemInv
    <3>2. SectorOf(i) \in Sectors
      BY <1>t, <3>1 DEF SectorOf, CarriedInv, TypeOK
    <3>3. CASE itemAt[i] = c
      <4>1. SectorOf(i) = charAt[c] /\ SectorOf(i) \notin S
        BY <1>1, <3>3 DEF SectorOf, S
      <4>2. sectorParity[SectorOf(i)] = worldParity
        BY <1>t, <2>2, <3>2, <4>1 DEF ParityOfPlace
      <4> QED
        BY <1>i, <2>4, <2>s, <3>1, <3>3, <4>1, <4>2
    <3>4. CASE itemAt[i] # c
      BY <1>i, <2>4, <3>1, <3>2, <3>4
    <3> QED
      BY <3>3, <3>4
  <2> QED
    BY <1>c, <2>5, <2>6, <2>7, <2>8, <2>9, <2>10 DEF IInv
<1> QED
  BY <1>d, <1>e, <1>f

LEMMA LogStep ==
  ASSUME IInv, GameFrame, NEW c \in Chars, LogOut(c) \/ LogIn(c)
  PROVE  IInv'
<1>t. TypeOK /\ ParityOfPlace /\ UnplacedInv /\ CarriedInv /\ CharInv /\ ItemInv
  BY DEF IInv
<1>1. /\ UNCHANGED <<sectorParity, charParity, places, written, due, fresh>>
      /\ loggedOut' \subseteq Chars
      /\ UNCHANGED <<worldParity, open, stage, count, pc, trapped, saves>>
  <2>1. CASE LogOut(c)
    BY <1>t, <2>1 DEF LogOut, GameFrame, TypeOK
  <2>2. CASE LogIn(c)
    <3>1. charParity[c] = sectorParity[charAt[c]]
      BY <1>t, <2>2 DEF ParityOfPlace, LogIn
    <3> QED
      BY <1>t, <2>2, <3>1 DEF LogIn, CompareParity, GameFrame, TypeOK
  <2> QED
    BY <2>1, <2>2
<1>2. TypeOK'
  BY <1>t, <1>1 DEF TypeOK, places
<1>3. ParityOfPlace' /\ UnplacedInv' /\ CarriedInv'
  BY <1>t, <1>1 DEF ParityOfPlace, UnplacedInv, CarriedInv, places
<1>4. CharInv' /\ ItemInv'
  BY <1>t, <1>1 DEF CharInv, ItemInv, SectorOf, places
<1> QED
  BY <1>1, <1>2, <1>3, <1>4, QuietGameStep

LEMMA DeleteCharStep ==
  ASSUME IInv, GameFrame, NEW c \in Chars, DeleteChar(c)
  PROVE  IInv'
<1>t. TypeOK /\ ParityOfPlace /\ UnplacedInv /\ CarriedInv /\ CharInv /\ ItemInv
  BY DEF IInv
<1> DEFINE bag == { i \in Items : itemAt[i] = c }
<1>1. /\ charAt' = [charAt EXCEPT ![c] = Nowhere]
      /\ itemAt' = [i \in Items |-> IF itemAt[i] = c THEN Nowhere ELSE itemAt[i]]
      /\ due' = due \ ({c} \cup bag)
      /\ fresh' = fresh \ {c} /\ loggedOut' = loggedOut \ {c}
      /\ UNCHANGED <<sectorParity, charParity, written>>
      /\ UNCHANGED <<worldParity, open, stage, count, pc, trapped, saves>>
  BY DEF DeleteChar, GameFrame
<1>2. /\ charAt' \in [Chars -> Places] /\ charAt'[c] = Nowhere
      /\ \A d \in Chars \ {c} : charAt'[d] = charAt[d]
      /\ itemAt' \in [Items -> Sectors \cup {Nowhere} \cup Chars]
  BY <1>t, <1>1 DEF TypeOK
<1>3. TypeOK'
  BY <1>t, <1>1, <1>2 DEF TypeOK
<1>4. ParityOfPlace' /\ UnplacedInv' /\ CarriedInv'
  BY <1>t, <1>1, <1>2 DEF ParityOfPlace, UnplacedInv, CarriedInv
<1>5. CharInv'
  BY <1>t, <1>1, <1>2 DEF CharInv
<1>6. ItemInv'
  <2>1. ASSUME NEW i \in Items, i \notin bag
        PROVE  itemAt'[i] = itemAt[i] /\ SectorOf(i)' = SectorOf(i)
    BY <1>1, <1>2, <2>1 DEF SectorOf
  <2> QED
    BY <1>t, <1>1, <2>1 DEF ItemInv
<1> QED
  BY <1>1, <1>3, <1>4, <1>5, <1>6, QuietGameStep

LEMMA CreateItemStep ==
  ASSUME IInv, GameFrame, NEW i \in Items, NEW s \in Sectors, CreateItem(i, s)
  PROVE  IInv'
<1>t. TypeOK /\ FilesInv /\ ParityOfPlace /\ UnplacedInv /\ CarriedInv /\ CharInv /\ ItemInv
  BY DEF IInv
<1>1. /\ itemAt[i] = Nowhere
      /\ itemAt' = [itemAt EXCEPT ![i] = s]
      /\ written' = [written EXCEPT ![i] = 0]
      /\ UNCHANGED <<sectorParity, charParity, charAt, loggedOut, due, fresh>>
      /\ UNCHANGED <<worldParity, open, stage, count, pc, trapped, saves>>
  BY DEF CreateItem, GameFrame
<1>2. TypeOK'
  BY <1>t, <1>1 DEF TypeOK
<1>3. ParityOfPlace' /\ UnplacedInv' /\ CarriedInv'
  BY <1>t, <1>1 DEF ParityOfPlace, UnplacedInv, CarriedInv, TypeOK
<1>4. CharInv'
  BY <1>t, <1>1 DEF CharInv, TypeOK
<1>5. ItemInv'
  <2>1. ASSUME NEW j \in Items \ {i}
        PROVE  itemAt'[j] = itemAt[j] /\ SectorOf(j)' = SectorOf(j) /\ written'[j] = written[j]
    BY <1>t, <1>1 DEF SectorOf, TypeOK
  <2>2. ~Reach /\ open = Files => i \notin due
    BY <1>t, <1>1 DEF ItemInv
  <2> QED
    BY <1>t, <1>1, <2>1, <2>2 DEF ItemInv
<1> QED
  BY <1>1, <1>2, <1>3, <1>4, <1>5, QuietGameStep

\* An item that changes hands, within its sector unless characters reach further.
LEMMA HandItem ==
  ASSUME IInv, GameFrame, ItemFrame, NEW i \in Items, itemAt[i] # Nowhere,
         NEW p \in Sectors \cup Chars, itemAt' = [itemAt EXCEPT ![i] = p],
         p \in Chars => charAt[p] \in Sectors,
         Reach \/ SectorOf(i) = (IF p \in Chars THEN charAt[p] ELSE p)
  PROVE  IInv'
<1>t. TypeOK /\ ParityOfPlace /\ UnplacedInv /\ CarriedInv /\ CharInv /\ ItemInv
  BY DEF IInv
<1>1. /\ UNCHANGED <<sectorParity, charParity, charAt, loggedOut, written, due, fresh>>
      /\ UNCHANGED <<worldParity, open, stage, count, pc, trapped, saves>>
  BY DEF ItemFrame, GameFrame
<1>2. TypeOK'
  BY <1>t, <1>1 DEF TypeOK
<1>3. ParityOfPlace' /\ UnplacedInv' /\ CarriedInv'
  BY <1>t, <1>1 DEF ParityOfPlace, UnplacedInv, CarriedInv, TypeOK
<1>4. CharInv'
  BY <1>t, <1>1 DEF CharInv
<1>5. ItemInv'
  <2>1. ASSUME ~Reach, NEW j \in Items
        PROVE  SectorOf(j)' = SectorOf(j) /\ (itemAt[j] # Nowhere => itemAt'[j] # Nowhere)
    <3>1. CASE j = i
      BY <1>t, <1>1, <2>1, <3>1 DEF SectorOf, TypeOK
    <3>2. CASE j # i
      BY <1>t, <1>1, <3>2 DEF SectorOf, TypeOK
    <3> QED
      BY <3>1, <3>2
  <2> QED
    BY <1>t, <1>1, <2>1 DEF ItemInv
<1> QED
  BY <1>1, <1>2, <1>3, <1>4, <1>5, QuietGameStep

LEMMA DeleteItemStep ==
  ASSUME IInv, GameFrame, NEW i \in Items, DeleteItem(i)
  PROVE  IInv'
<1>t. TypeOK /\ ParityOfPlace /\ UnplacedInv /\ CarriedInv /\ CharInv /\ ItemInv
  BY DEF IInv
<1>1. /\ itemAt' = [itemAt EXCEPT ![i] = Nowhere]
      /\ due' = due \ {i}
      /\ UNCHANGED <<sectorParity, charParity, charAt, loggedOut, written, fresh>>
      /\ UNCHANGED <<worldParity, open, stage, count, pc, trapped, saves>>
  BY DEF DeleteItem, GameFrame
<1>2. TypeOK'
  BY <1>t, <1>1 DEF TypeOK
<1>3. ParityOfPlace' /\ UnplacedInv' /\ CarriedInv'
  BY <1>t, <1>1 DEF ParityOfPlace, UnplacedInv, CarriedInv, TypeOK
<1>4. CharInv'
  BY <1>t, <1>1 DEF CharInv
<1>5. ItemInv'
  <2>1. ASSUME NEW j \in Items \ {i}
        PROVE  itemAt'[j] = itemAt[j] /\ SectorOf(j)' = SectorOf(j)
    BY <1>t, <1>1 DEF SectorOf, TypeOK
  <2> QED
    BY <1>t, <1>1, <2>1 DEF ItemInv
<1> QED
  BY <1>1, <1>2, <1>3, <1>4, <1>5, QuietGameStep

LEMMA GameStep == ASSUME IInv, Quiet, Game PROVE IInv'
<1> USE DEF Game
<1>1. ASSUME NEW c \in Chars, CreateChar(c) PROVE IInv'
  BY <1>1, CreateCharStep
<1>2. ASSUME NEW c \in Chars, LogOut(c) \/ LogIn(c) PROVE IInv'
  BY <1>2, LogStep
<1>3. ASSUME NEW c \in Chars, DeleteChar(c) PROVE IInv'
  BY <1>3, DeleteCharStep
<1>4. ASSUME NEW c \in Chars, NEW s \in Sectors, MoveCharToSector(c, s) PROVE IInv'
  BY <1>4, MoveCharStep
<1>5. ASSUME NEW c \in Chars, NEW s \in Sectors, MoveLoggedOut(c, s) PROVE IInv'
  BY <1>5 DEF MoveLoggedOut, Quiet
<1>6. ASSUME NEW i \in Items, DeleteItem(i) PROVE IInv'
  BY <1>6, DeleteItemStep
<1>7. ASSUME NEW i \in Items, NEW s \in Sectors, CreateItem(i, s) PROVE IInv'
  BY <1>7, CreateItemStep
<1>8. ASSUME NEW i \in Items, NEW s \in Sectors, SailItem(i, s) PROVE IInv'
  BY <1>8 DEF SailItem, Quiet
<1>9. ASSUME NEW i \in Items, NEW s \in Sectors, DropItem(i, s) PROVE IInv'
  <2>1. /\ itemAt[i] \in Chars /\ (Reach \/ SectorOf(i) = s)
        /\ itemAt' = [itemAt EXCEPT ![i] = s] /\ ItemFrame
    BY <1>9 DEF DropItem
  <2>2. s \notin Chars /\ itemAt[i] # Nowhere
    BY <2>1
  <2> QED
    BY <2>1, <2>2, HandItem
<1>10. ASSUME NEW c \in Chars, NEW i \in Items, TakeItem(c, i) PROVE IInv'
  <2>1. /\ itemAt[i] # Nowhere /\ charAt[c] \in Sectors
        /\ Reach \/ SectorOf(i) = charAt[c]
        /\ itemAt' = [itemAt EXCEPT ![i] = c] /\ ItemFrame
    BY <1>10 DEF TakeItem
  <2> QED
    BY <2>1, HandItem
<1> QED
  BY <1>1, <1>2, <1>3, <1>4, <1>5, <1>6, <1>7, <1>8, <1>9, <1>10

----------------------------------------------------------------------------
(* The theorems.                                                           *)

\* The invariant is inductive.
LEMMA NextIInv == ASSUME IInv, Quiet, [Next]_vars PROVE IInv'
<1>1. CASE AutoSave
  <2>1. CASE StartSave(FALSE)
    BY <2>1, StartSaveStep
  <2>2. CASE ContinueInBackground
    BY <2>2, StageStep DEF ContinueInBackground
  <2> QED
    BY <1>1, <2>1, <2>2 DEF AutoSave
<1>2. CASE ForcedSave
  <2>1. CASE StartSave(TRUE)
    BY <2>1, StartSaveStep
  <2>2. CASE ContinueForced
    <3>1. /\ UNCHANGED <<parities, places, loggedOut, open, stage, count, history, saves>>
          /\ pc' = "forced" /\ IsSaving
      BY <2>2 DEF ContinueForced
    <3>2. TypeOK' /\ FilesInv' /\ IdleInv' /\ StageInv'
      BY <3>1 DEF IInv, TypeOK, FilesInv, IdleInv, StageInv, parities, places, history, IsSaving
    <3>3. ParityOfPlace' /\ UnplacedInv' /\ CarriedInv'
      BY <3>1 DEF IInv, ParityOfPlace, UnplacedInv, CarriedInv, parities, places
    <3>4. CharInv' /\ ItemInv'
      BY <3>1 DEF IInv, CharInv, ItemInv, SectorOf, parities, places, history
    <3> QED
      BY <3>2, <3>3, <3>4 DEF IInv
  <2> QED
    BY <1>2, <2>1, <2>2 DEF ForcedSave
<1>3. CASE SaveFails
  BY <1>3 DEF SaveFails, OpenFails, SaveThrows, Quiet
<1>4. CASE ForcedStage
  <2>1. IsSaving
    BY <1>4, FilesFacts DEF ForcedStage, IInv, FilesInv, IsSaving
  <2> QED
    BY <1>4, <2>1, StageStep DEF ForcedStage
<1>5. CASE Game
  BY <1>5, GameStep
<1>6. CASE Crashed \/ UNCHANGED vars
  <2>1. UNCHANGED vars
    BY <1>6 DEF Crashed
  <2>2. TypeOK' /\ FilesInv' /\ IdleInv' /\ StageInv'
    BY <2>1 DEF IInv, TypeOK, FilesInv, IdleInv, StageInv, vars, parities, places, history
  <2>3. ParityOfPlace' /\ UnplacedInv' /\ CarriedInv'
    BY <2>1 DEF IInv, ParityOfPlace, UnplacedInv, CarriedInv, vars, parities, places
  <2>4. CharInv' /\ ItemInv'
    BY <2>1 DEF IInv, CharInv, ItemInv, SectorOf, vars, parities, places, history
  <2> QED
    BY <2>2, <2>3, <2>4 DEF IInv
<1> QED
  BY <1>1, <1>2, <1>3, <1>4, <1>5, <1>6 DEF Next

\* When nothing but the accounts fails and no ship crosses the border of a
\* sector, the invariant holds in every state of the save.
THEOREM SaveInvariant == ASSUME Quiet PROVE Spec => []IInv
<1>1. Init => IInv
  BY InitIInv
<1>2. IInv /\ [Next]_vars => IInv'
  BY NextIInv
<1> QED
  BY <1>1, <1>2, PTL DEF Spec

\* A character has the bit of its sector (CSector::MoveCharToSector).
THEOREM BitOfPlace == ASSUME Quiet PROVE Spec => []ParityOfPlace
<1>1. IInv => ParityOfPlace
  BY DEF IInv
<1> QED
  BY <1>1, SaveInvariant, PTL

\* Only the step that writes the end marks counts the save, and then every
\* sector has been written.
LEMMA CountStep ==
  ASSUME IInv, Quiet, [Next]_vars, count' = count + 1
  PROVE  open = Files /\ stage = EofStage /\ UNCHANGED <<written, due>>
<1> USE FilesFacts
<1>0. count' # count
  BY DEF IInv, TypeOK
<1>1. SaveStage /\ (IsSaving \/ pc = "forced")
  BY <1>0 DEF Next, vars, places, history, AutoSave, ForcedSave, SaveFails, ForcedStage,
     ContinueInBackground, ContinueForced, StartSave, OpenFails, SaveThrows,
     Crashed, Game, GameFrame
<1>2. EofStep /\ UNCHANGED due
  BY <1>0, <1>1 DEF SaveStage, StageFrame, GarbageStep, PlainStage, SectorStage,
     AccountsFail, StageThrows, OverflowStage, WildStage, Quiet
<1>3. open = Files
  BY <1>1 DEF IInv, FilesInv, IsSaving
<1> QED
  BY <1>2, <1>3 DEF EofStep, NothingWritten

\* A save that counts holds every character that was in the world since it
\* began exactly once, wherever it walked in the meantime.
THEOREM EveryCharSaved == ASSUME Quiet PROVE Spec => CompleteSaveHoldsChars
<1>1. IInv /\ [Next]_vars => (count' = count + 1 => \A c \in Chars \cap due : written[c] = 1)
  <2> SUFFICES ASSUME IInv, [Next]_vars, count' = count + 1, NEW c \in Chars \cap due
               PROVE  written[c] = 1
    OBVIOUS
  <2>1. open = Files /\ stage = EofStage
    BY CountStep
  <2>2. /\ charAt[c] \in Sectors
        /\ written[c] = IF sectorParity[charAt[c]] = worldParity THEN 1 ELSE 0
    BY <2>1 DEF IInv, CharInv
  <2>3. sectorParity[charAt[c]] = worldParity
    BY <2>1, <2>2 DEF IInv, StageInv
  <2> QED
    BY <2>2, <2>3
<1> QED
  BY <1>1, SaveInvariant, PTL DEF Spec, CompleteSaveHoldsChars

\* ... and every item, whoever carried it, if nobody reaches over a border.
THEOREM EveryItemSaved ==
  ASSUME Quiet, ~Reach PROVE Spec => CompleteSaveHoldsItems
<1>1. IInv /\ [Next]_vars => (count' = count + 1 => \A i \in Items \cap due : written[i] = 1)
  <2> SUFFICES ASSUME IInv, [Next]_vars, count' = count + 1, NEW i \in Items \cap due
               PROVE  written[i] = 1
    OBVIOUS
  <2>1. open = Files /\ stage = EofStage
    BY CountStep
  <2>2. /\ itemAt[i] # Nowhere
        /\ written[i] = IF sectorParity[SectorOf(i)] = worldParity THEN 1 ELSE 0
    BY <2>1 DEF IInv, ItemInv
  <2>3. SectorOf(i) \in Sectors
    BY <2>2 DEF IInv, TypeOK, CarriedInv, SectorOf
  <2>4. sectorParity[SectorOf(i)] = worldParity
    BY <2>1, <2>3 DEF IInv, StageInv
  <2> QED
    BY <2>2, <2>4
<1> QED
  BY <1>1, SaveInvariant, PTL DEF Spec, CompleteSaveHoldsItems

----------------------------------------------------------------------------
(* What holds also when a save fails, ships sail and characters reach over *)
(* the border of a sector.                                                 *)

\* A character that the files hold has the bit of the world, so that nothing
\* that looks at the bit writes it again.
OnceInv ==
  /\ charParity \in [Chars -> BOOLEAN] /\ worldParity \in BOOLEAN
  /\ written \in [Objs -> Nat]
  /\ \A c \in Chars : written[c] = 0 \/ (written[c] = 1 /\ charParity[c] = worldParity)

LEMMA WriteObjsOnce ==
  ASSUME OnceInv, NEW C \in SUBSET Chars, NEW I \in SUBSET Items,
         WriteObjs(C, I), UNCHANGED worldParity
  PROVE  OnceInv'
<1> DEFINE now == Unwritten(C)
           all == now \cup I \cup { i \in Items : itemAt[i] \in now }
<1>1. /\ charParity' = [c \in Chars |-> IF c \in now THEN worldParity ELSE charParity[c]]
      /\ written' = [o \in Objs |-> written[o] + (IF o \in all THEN 1 ELSE 0)]
  BY DEF WriteObjs
<1>2. charParity' \in [Chars -> BOOLEAN] /\ written' \in [Objs -> Nat]
  BY <1>1 DEF OnceInv
<1>3. ASSUME NEW c \in Chars
      PROVE  written'[c] = 0 \/ (written'[c] = 1 /\ charParity'[c] = worldParity)
  <2>1. c \in all <=> c \in C /\ charParity[c] # worldParity
    BY DEF Unwritten
  <2> QED  BY <1>1, <2>1 DEF OnceInv, Unwritten
<1> QED  BY <1>2, <1>3 DEF OnceInv

LEMMA StageOnce ==
  ASSUME OnceInv, SaveStage
  PROVE  OnceInv'
<1>1. ASSUME NothingWritten PROVE OnceInv'
  BY <1>1 DEF NothingWritten, parities, OnceInv
<1>2. CASE \/ GarbageStep \/ PlainStage \/ EofStep \/ AccountsFail
           \/ OverflowStage \/ WildStage
  BY <1>1, <1>2 DEF GarbageStep, PlainStage, EofStep, AccountsFail, OverflowStage, WildStage
<1>3. CASE SectorStage
  BY <1>3, WriteObjsOnce DEF SectorStage, WriteSectors
<1>4. CASE StageThrows
  BY <1>1, <1>4, WriteObjsOnce DEF StageThrows
<1> QED  BY <1>2, <1>3, <1>4 DEF SaveStage

LEMMA GameOnce ==
  ASSUME OnceInv, Game
  PROVE  OnceInv'
<1>1. UNCHANGED worldParity
  BY DEF Game, GameFrame
<1>2. ASSUME UNCHANGED <<charParity, written>> PROVE OnceInv'
  BY <1>1, <1>2 DEF OnceInv
<1>3. ASSUME NEW c \in Chars, CreateChar(c) PROVE OnceInv'
  BY <1>1, <1>3 DEF CreateChar, OnceInv
<1>4. ASSUME NEW c \in Chars, LogOut(c) \/ DeleteChar(c) PROVE OnceInv'
  BY <1>2, <1>4 DEF LogOut, DeleteChar
<1>5. ASSUME NEW c \in Chars, NEW s,
             (MoveCharToSector(c, s) \/ (LogIn(c) /\ s = charAt[c]))
      PROVE  OnceInv'
  <2>1. CompareParity(c, s)
    BY <1>5 DEF MoveCharToSector, LogIn
  <2> QED  BY <1>1, <1>2, <2>1, WriteObjsOnce DEF CompareParity, WriteSectors
<1>6. ASSUME NEW c \in Chars, NEW s \in Sectors, MoveLoggedOut(c, s) PROVE OnceInv'
  BY <1>2, <1>6 DEF MoveLoggedOut
<1>7. ASSUME NEW i \in Items, DeleteItem(i) PROVE OnceInv'
  BY <1>2, <1>7 DEF DeleteItem
<1>8. ASSUME NEW i \in Items, NEW s \in Sectors,
             CreateItem(i, s) \/ DropItem(i, s) \/ SailItem(i, s)
      PROVE  OnceInv'
  BY <1>1, <1>2, <1>8 DEF CreateItem, DropItem, SailItem, ItemFrame, OnceInv
<1>9. ASSUME NEW c \in Chars, NEW i \in Items, TakeItem(c, i) PROVE OnceInv'
  BY <1>2, <1>9 DEF TakeItem, ItemFrame
<1> QED  BY <1>3, <1>4, <1>5, <1>6, <1>7, <1>8, <1>9 DEF Game

LEMMA NextOnce ==
  ASSUME OnceInv, [Next]_vars
  PROVE  OnceInv'
<1>1. ASSUME NEW force, StartSave(force) PROVE OnceInv'
  BY <1>1 DEF StartSave, OnceInv
<1>2. CASE OpenFails
  BY <1>2 DEF OpenFails, parities, OnceInv
<1>3. ASSUME UNCHANGED <<parities, history>> PROVE OnceInv'
  BY <1>3 DEF parities, history, OnceInv
<1>4. CASE SaveThrows \/ ContinueForced \/ Crashed \/ UNCHANGED vars
  BY <1>3, <1>4 DEF SaveThrows, ContinueForced, Crashed, vars
<1> QED  BY <1>1, <1>2, <1>4, StageOnce, GameOnce DEF Next, AutoSave, ForcedSave,
         SaveFails, ForcedStage, ContinueInBackground

\* No character is written twice in the same files (r_WriteParity, r_Write,
\* MoveCharToSector), whatever fails on the way, however the ships sail, and
\* whatever the game does between the stages.
THEOREM NoCharTwiceEver == Spec => []NoCharTwice
<1>1. ASSUME Init PROVE OnceInv
  <2>1. /\ charParity = [c \in Chars |-> FALSE] /\ worldParity = FALSE
        /\ written = [o \in Objs |-> 0]
    BY <1>1 DEF Init
  <2> QED  BY <2>1 DEF OnceInv
<1>2. OnceInv => NoCharTwice
  BY DEF OnceInv, NoCharTwice
<1> QED  BY <1>1, <1>2, NextOnce, PTL DEF Spec

-----------------------------------------------------------------------------
(* The files of SaveFiles.  First the names of the archives and what a     *)
(* load reads, then the type invariant, then that what is found under a    *)
(* name is of one save, then that the last whole save is found.            *)

\* What LoadWorld must find whole.
Restored == {"world", "chars", "multis"}

\* The position of a file in the order in which a save comes to it.
Place == [k \in Kinds |-> CHOOSE i \in DOMAIN Order : Order[i] = k]

LEMMA OrderFacts ==
  /\ Len(Order) = 4 /\ DOMAIN Order = 1 .. 4
  /\ Kinds = {"data", "world", "chars", "multis"}
  /\ Order[1] = "data" /\ Order[2] = "world"
  /\ Order[3] = "chars" /\ Order[4] = "multis"
<1>1. /\ Len(Order) = 4 /\ DOMAIN Order = 1 .. 4
      /\ Order[1] = "data" /\ Order[2] = "world"
      /\ Order[3] = "chars" /\ Order[4] = "multis"
  BY DEF Order
<1>2. Kinds = {Order[1], Order[2], Order[3], Order[4]}
  BY <1>1 DEF Kinds, ToSet
<1> QED  BY <1>1, <1>2

LEMMA PlaceFacts ==
  /\ Place["data"] = 1 /\ Place["world"] = 2
  /\ Place["chars"] = 3 /\ Place["multis"] = 4
  /\ \A i \in 1 .. 4 : Order[i] \in Kinds /\ Place[Order[i]] = i
  /\ \A k \in Kinds : Place[k] \in 1 .. 4 /\ Order[Place[k]] = k
<1>1. ASSUME NEW i \in 1 .. 4 PROVE Order[i] \in Kinds /\ Place[Order[i]] = i
  BY OrderFacts DEF Place
<1> QED  BY <1>1, OrderFacts

\* A list of the weights of the digits 0 .. n.
Weights(n, h) ==
  /\ h \in [0 .. n -> Nat \ {0}]
  /\ h[0] = 1
  /\ \A i \in 1 .. n : h[i] = 8 * h[i - 1]

\* The weights of the octal digits are given by a recursive function, which is
\* what its definition says only if there is such a function: any number of
\* weights can be listed, by the smallest counterexample, and the lists agree.
LEMMA WeightsExtend ==
  ASSUME NEW n \in Nat, NEW h, Weights(n, h)
  PROVE  Weights(n + 1, [i \in 0 .. n + 1 |-> IF i = n + 1 THEN 8 * h[n] ELSE h[i]])
<1> DEFINE w == [i \in 0 .. n + 1 |-> IF i = n + 1 THEN 8 * h[n] ELSE h[i]]
<1>1. h[n] \in Nat \ {0} /\ \A i \in 0 .. n : h[i] \in Nat \ {0}
  BY DEF Weights
<1>2. w \in [0 .. n + 1 -> Nat \ {0}]
  BY <1>1
<1>3. w[0] = 1
  BY DEF Weights
<1>4. \A i \in 1 .. n + 1 : w[i] = 8 * w[i - 1]
  <2> SUFFICES ASSUME NEW i \in 1 .. n + 1 PROVE w[i] = 8 * w[i - 1]
    OBVIOUS
  <2>1. w[i - 1] = h[i - 1]
    OBVIOUS
  <2>2. CASE i = n + 1
    BY <2>1, <2>2
  <2>3. CASE i # n + 1
    BY <2>1, <2>3 DEF Weights
  <2> QED  BY <2>2, <2>3
<1> QED  BY <1>2, <1>3, <1>4 DEF Weights

LEMMA WeightsExist == \A n \in Nat : \E h : Weights(n, h)
<1> DEFINE T == { n \in Nat : ~ \E h : Weights(n, h) }
<1> SUFFICES ASSUME T # {} PROVE FALSE
  OBVIOUS
<1>1. PICK n \in T : \A y \in Nat : <<y, n>> \in OpToRel(<, Nat) => y \notin T
  BY NatLessThanWellFounded, WFMin
<1>2. n \in Nat /\ \A h : ~Weights(n, h)
  OBVIOUS
<1>3. \A y \in Nat : y < n => \E h : Weights(y, h)
  BY <1>1, <1>2 DEF OpToRel
<1>4. n # 0
  <2>1. Weights(0, [i \in 0 .. 0 |-> 1])
    BY DEF Weights
  <2> QED  BY <2>1, <1>2
<1>5. n - 1 \in Nat /\ n - 1 < n /\ (n - 1) + 1 = n
  BY <1>2, <1>4
<1>6. PICK h : Weights(n - 1, h)
  BY <1>3, <1>5
<1>7. \E w : Weights((n - 1) + 1, w)
  BY <1>5, <1>6, WeightsExtend
<1> QED  BY <1>2, <1>5, <1>7

LEMMA WeightsAgree ==
  ASSUME NEW n \in Nat, NEW m \in Nat, NEW h, NEW w, Weights(n, h), Weights(m, w)
  PROVE  \A i \in Nat : i <= n /\ i <= m => h[i] = w[i]
<1> DEFINE T == { i \in Nat : i <= n /\ i <= m /\ h[i] # w[i] }
<1> SUFFICES ASSUME T # {} PROVE FALSE
  OBVIOUS
<1>1. PICK i \in T : \A y \in Nat : <<y, i>> \in OpToRel(<, Nat) => y \notin T
  BY NatLessThanWellFounded, WFMin
<1>2. i \in Nat /\ i <= n /\ i <= m /\ h[i] # w[i]
  OBVIOUS
<1>3. i # 0
  BY <1>2 DEF Weights
<1>4. i - 1 \in Nat /\ i - 1 < i /\ i - 1 <= n /\ i - 1 <= m
  BY <1>2, <1>3
<1>5. i - 1 \notin T
  BY <1>1, <1>2, <1>4 DEF OpToRel
<1>6. h[i - 1] = w[i - 1]
  BY <1>4, <1>5
<1>7. h[i] = 8 * h[i - 1] /\ w[i] = 8 * w[i - 1]
  BY <1>2, <1>3 DEF Weights
<1> QED  BY <1>2, <1>6, <1>7

LEMMA OctalDefined ==
  Octal = [g \in Nat |-> IF g = 0 THEN 1 ELSE 8 * Octal[g - 1]]
<1> DEFINE H(n) == CHOOSE h : Weights(n, h)
           f == [n \in Nat |-> H(n)[n]]
<1>1. \A n \in Nat : Weights(n, H(n))
  BY WeightsExist
<1> HIDE DEF H
<1>2. \A n \in Nat : f[n] = IF n = 0 THEN 1 ELSE 8 * f[n - 1]
  <2> SUFFICES ASSUME NEW n \in Nat PROVE f[n] = IF n = 0 THEN 1 ELSE 8 * f[n - 1]
    OBVIOUS
  <2>1. CASE n = 0
    BY <2>1, <1>1 DEF Weights
  <2>2. CASE n # 0
    <3>1. n - 1 \in Nat /\ n - 1 <= n /\ n - 1 <= n - 1
      BY <2>2
    <3>2. H(n)[n] = 8 * H(n)[n - 1]
      BY <2>2, <1>1 DEF Weights
    <3>3. H(n)[n - 1] = H(n - 1)[n - 1]
      BY <3>1, <1>1, WeightsAgree
    <3> QED  BY <2>2, <3>1, <3>2, <3>3
  <2> QED  BY <2>1, <2>2
<1>3. f = [n \in Nat |-> IF n = 0 THEN 1 ELSE 8 * f[n - 1]]
  BY <1>2
<1>4. \E p : p = [n \in Nat |-> IF n = 0 THEN 1 ELSE 8 * p[n - 1]]
  BY <1>3
<1> QED  BY <1>4 DEF Octal

LEMMA OctalWeights ==
  /\ Octal[0] = 1
  /\ \A g \in Nat : Octal[g + 1] = 8 * Octal[g]
  /\ \A g \in Nat : Octal[g] \in Nat \ {0}
<1>1. \A g \in Nat : Octal[g] = IF g = 0 THEN 1 ELSE 8 * Octal[g - 1]
  BY OctalDefined
<1>2. \A g \in Nat : Octal[g + 1] = 8 * Octal[g]
  <2> SUFFICES ASSUME NEW g \in Nat PROVE Octal[g + 1] = 8 * Octal[g]
    OBVIOUS
  <2>1. g + 1 \in Nat /\ g + 1 # 0 /\ (g + 1) - 1 = g
    OBVIOUS
  <2> QED  BY <1>1, <2>1
<1> DEFINE T == { g \in Nat : Octal[g] \notin Nat \ {0} }
<1>3. T = {}
  <2> SUFFICES ASSUME T # {} PROVE FALSE
    OBVIOUS
  <2>1. PICK g \in T : \A y \in Nat : <<y, g>> \in OpToRel(<, Nat) => y \notin T
    BY NatLessThanWellFounded, WFMin
  <2>2. CASE g = 0
    BY <2>2, <1>1
  <2>3. CASE g # 0
    <3>1. g - 1 \in Nat /\ g - 1 < g
      BY <2>3
    <3>2. Octal[g - 1] \in Nat \ {0}
      BY <2>1, <3>1 DEF OpToRel
    <3>3. Octal[g] = 8 * Octal[g - 1]
      BY <1>1, <2>3
    <3> QED  BY <3>2, <3>3
  <2> QED  BY <2>2, <2>3
<1> QED  BY <1>1, <1>2, <1>3

\* A multiple of p, and two multiples whose quotients end with one octal digit.
LEMMA Divide ==
  ASSUME NEW c \in Nat, NEW p \in Nat \ {0}, c % p = 0
  PROVE  c = p * (c \div p) /\ c \div p \in Nat
  OBVIOUS

LEMMA Multiples ==
  ASSUME NEW a \in Nat, NEW b \in Nat, NEW p \in Nat \ {0}, p * a < p * b, a % 8 = b % 8
  PROVE  p * b - p * a >= 8 * p
<1>1. a < b
  OBVIOUS
<1>2. b >= a + 8
  BY <1>1
<1>3. p * b >= p * (a + 8)
  BY <1>2
<1>4. p * (a + 8) = p * a + 8 * p
  OBVIOUS
<1> QED  BY <1>3, <1>4
\* GetBackupName: the loop over the octal digits ends with a group.
LEMMA GroupExists ==
  ASSUME NEW c \in Nat
  PROVE  /\ Group(c) \in 0 .. BackupLevels
         /\ c # 0 => c % Octal[Group(c)] = 0
<1> DEFINE L == BackupLevels
           T == { h \in 0 .. L : c % Octal[L - h] = 0 }
<1>1. L \in Nat
  BY LevelsAssumption
<1>2. c % Octal[0] = 0
  BY OctalWeights
<1>3. L \in T
  BY <1>1, <1>2
<1>4. T \subseteq Nat /\ T # {}
  <2>1. T \subseteq 0 .. L
    OBVIOUS
  <2> HIDE DEF T
  <2> QED  BY <2>1, <1>1, <1>3
<1>5. PICK h \in T : \A y \in Nat : <<y, h>> \in OpToRel(<, Nat) => y \notin T
  BY <1>4, NatLessThanWellFounded, WFMin
<1>6. \A y \in T : ~(y < h)
  BY <1>4, <1>5 DEF OpToRel
<1>7. L - h \in 0 .. L /\ c % Octal[L - h] = 0
  BY <1>1
<1>8. L - h = L \/ c % Octal[(L - h) + 1] # 0
  <2>1. CASE h = 0
    BY <2>1, <1>1
  <2>2. CASE h # 0
    <3>1. h - 1 \in 0 .. L /\ h - 1 < h /\ L - (h - 1) = (L - h) + 1
      BY <2>2, <1>1
    <3> QED  BY <3>1, <1>6
  <2> QED  BY <2>1, <2>2
<1>9. \E g \in 0 .. L : c % Octal[g] = 0 /\ (g = L \/ c % Octal[g + 1] # 0)
  BY <1>7, <1>8
<1> DEFINE P(g) == /\ c % Octal[g] = 0
                   /\ g = L \/ c % Octal[g + 1] # 0
<1>10. Group(c) = IF c = 0 THEN L ELSE CHOOSE g \in 0 .. L : P(g)
  BY DEF Group
<1>11. \E g \in 0 .. L : P(g)
  BY <1>9
<1>12. CASE c = 0
  BY <1>1, <1>10, <1>12
<1>13. CASE c # 0
  <2>1. Group(c) \in 0 .. L /\ P(Group(c))
    <3> HIDE DEF P
    <3> QED  BY <1>10, <1>11, <1>13
  <2> QED  BY <2>1
<1> QED  BY <1>12, <1>13

LEMMA OctalDigit ==
  ASSUME NEW x \in Nat, NEW y \in Int
  PROVE  (x \div y) % 8 \in 0 .. 7
  OBVIOUS

LEMMA ArchiveNames ==
  ASSUME NEW c \in Nat PROVE BackupName(c) \in Names /\ BackupName(c) # Main
<1>1. Group(c) \in 0 .. BackupLevels /\ BackupLevels \in Nat
  BY GroupExists, LevelsAssumption
<1>2. Octal[Group(c)] \in Int
  BY <1>1, OctalWeights
<1>3. (c \div Octal[Group(c)]) % 8 \in 0 .. 7
  BY <1>2, OctalDigit
<1> QED  BY <1>1, <1>3 DEF BackupName, Names, Main

LEMMA Put ==
  ASSUME disk \in [Kinds -> [Names -> Contents]],
         NEW k \in Kinds, NEW n \in Names, NEW v
  PROVE  \A j \in Kinds, x \in Names :
           [disk EXCEPT ![k][n] = v][j][x]
             = IF j = k /\ x = n THEN v ELSE disk[j][x]
  OBVIOUS

\* The count that a load ends with is that of a header it has read, or the one
\* it began with.
LEMMA CountReadFrom ==
  ASSUME disk \in [Kinds -> [Names -> Contents]], names \in [Kinds -> Names]
  PROVE  \/ /\ CountRead = saveCount
            /\ \A k \in ReadKinds : ~HasHeader(Content(k))
         \/ \E k \in ReadKinds : /\ HasHeader(Content(k))
                                 /\ CountRead = Content(k).count
<1> DEFINE headed == { i \in DOMAIN Order : /\ Order[i] \in ReadKinds
                                            /\ HasHeader(Content(Order[i])) }
<1>1. CountRead = IF headed = {} THEN saveCount
                  ELSE Content(Order[Max(headed)]).count
  BY DEF CountRead
<1>2. ReadKinds \subseteq Kinds
  BY DEF ReadKinds
<1>3. CASE headed = {}
  <2>1. ASSUME NEW k \in ReadKinds PROVE ~HasHeader(Content(k))
    <3>1. Place[k] \in DOMAIN Order /\ Order[Place[k]] = k
      BY <1>2, PlaceFacts, OrderFacts
    <3> QED  BY <3>1, <1>3
  <2> QED  BY <2>1, <1>1, <1>3
<1>4. CASE headed # {}
  <2>1. headed \subseteq 1 .. 4
    BY OrderFacts
  <2>2. \E i \in headed : \A j \in headed : i >= j
    <3> HIDE DEF headed
    <3>1. CASE 4 \in headed
      BY <3>1, <2>1
    <3>2. CASE 4 \notin headed /\ 3 \in headed
      BY <3>2, <2>1
    <3>3. CASE 4 \notin headed /\ 3 \notin headed /\ 2 \in headed
      BY <3>3, <2>1
    <3>4. CASE 4 \notin headed /\ 3 \notin headed /\ 2 \notin headed
      <4>1. \A i \in headed : i = 1
        BY <3>4, <2>1
      <4>2. \E i \in headed : TRUE
        BY <1>4
      <4> QED  BY <4>1, <4>2
    <3> QED  BY <3>1, <3>2, <3>3, <3>4
  <2>3. Max(headed) \in headed
    BY <2>2 DEF Max
  <2> QED  BY <2>3, <1>1, <1>4
<1> QED  BY <1>3, <1>4

LEMMA CountReadNat ==
  ASSUME FilesTypeOK PROVE CountRead \in Nat
<1>1. /\ saveCount \in Nat /\ disk \in [Kinds -> [Names -> Contents]]
      /\ names \in [Kinds -> Names]
  BY DEF FilesTypeOK
<1>2. \A k \in ReadKinds : Content(k) \in Contents
  BY <1>1 DEF ReadKinds, Content
<1> QED  BY <1>1, <1>2, CountReadFrom DEF Contents

LEMMA MainIsName == Main \in Names
  BY DEF Names

LEMMA TypesInit == FilesInit => FilesTypeOK
<1> SUFFICES ASSUME FilesInit PROVE FilesTypeOK
  OBVIOUS
<1>1. None \in Contents /\ 1 \in DOMAIN Order
  BY OrderFacts DEF None, Contents
<1> QED  BY <1>1, MainIsName, BoundsAssumption
         DEF FilesInit, FilesTypeOK, NoMemory, Steps

LEMMA TypesNext ==
  ASSUME FilesTypeOK, [FilesNext]_fileVars PROVE FilesTypeOK'
<1> USE DEF FilesTypeOK
<1>1. /\ None \in Contents /\ \A n \in Nat : Opened(n) \in Contents
      /\ \A f \in Contents, c \in Nat :
           [f EXCEPT !.count = c, !.state = "headed"] \in Contents
      /\ \A f \in Contents : [f EXCEPT !.state = "whole"] \in Contents
  BY DEF None, Opened, Contents
<1>2. /\ Len(Order) = 4 /\ DOMAIN Order = 1 .. 4 /\ Order[at] \in Kinds
      /\ Main \in Names /\ BackupName(saveCount) \in Names
  BY OrderFacts, PlaceFacts, MainIsName, ArchiveNames
<1>3. CountRead \in Nat /\ BackupName(CountRead) \in Names
  BY CountReadNat, ArchiveNames
<1>4. LoadedMemory \in [Kinds -> Nat] /\ NoMemory \in [Kinds -> Nat]
  BY DEF LoadedMemory, NoMemory, Content, Contents
<1>5. CASE LoadWorld
  BY <1>2, <1>3, <1>4, <1>5
     DEF LoadWorld, LoadDone, LoadPrevious, LoadGivesUp, Steps
<1>6. CASE BeginSave
  BY <1>2, <1>6 DEF BeginSave, Steps
<1>7. CASE SaveStep
  <2>1. CASE RemoveArchive
    BY <1>1, <1>2, <2>1 DEF RemoveArchive, Unmoved, Steps
  <2>2. CASE RenameMain
    BY <1>1, <1>2, <2>2 DEF RenameMain, Unmoved, Steps
  <2>3. CASE OpenMain
    <3>1. disk' \in [Kinds -> [Names -> Contents]]
      BY <1>1, <1>2, <2>3 DEF OpenMain
    <3>2. at' \in 1 .. 4 /\ doing' \in {"remove", "head"}
      BY <1>2, <2>3 DEF OpenMain
    <3> QED  BY <3>1, <3>2, <1>2, <2>3 DEF OpenMain, Unmoved, Steps
  <2>4. CASE WriteHeader
    <3>1. disk' \in [Kinds -> [Names -> Contents]]
      BY <1>1, <1>2, <2>4 DEF WriteHeader
    <3>2. at' \in 1 .. 4 /\ doing' \in {"head", "write"}
      BY <1>2, <2>4 DEF WriteHeader
    <3> QED  BY <3>1, <3>2, <1>2, <2>4 DEF WriteHeader, Unmoved, Steps
  <2>5. CASE WriteWorld
    BY <2>5 DEF WriteWorld, Unmoved, Steps
  <2>6. CASE WriteEof
    <3>1. disk' \in [Kinds -> [Names -> Contents]]
      BY <1>1, <1>2, <2>6 DEF WriteEof
    <3> QED  BY <3>1, <1>2, <2>6 DEF WriteEof, Unmoved, Steps
  <2> QED  BY <1>7, <2>1, <2>2, <2>3, <2>4, <2>5, <2>6 DEF SaveStep
<1>8. CASE Crash
  BY <1>2, <1>4, <1>8, BoundsAssumption DEF Crash, StartServer, Steps
<1>9. CASE Stop
  BY <1>2, <1>4, <1>9, BoundsAssumption DEF Stop, StartServer, Steps
<1>10. CASE UNCHANGED fileVars
  BY <1>10 DEF fileVars
<1> QED  BY <1>5, <1>6, <1>7, <1>8, <1>9, <1>10 DEF FilesNext

\* Every variable of SaveFiles stays in its type, through every load, save and
\* crash; above all, GetBackupName of any count is the name of an archive.
THEOREM FilesTypeCorrect == FilesSpec => []FilesTypeOK
  BY TypesInit, TypesNext, PTL DEF FilesSpec

\* What a save has moved to the archive, or removed, so far, and where the
\* content of a file is that it is about to replace.
Moving  == doing \in {"remove", "rename", "open"}
Gone(k) == Place[k] < at \/ (Place[k] = at /\ doing = "open")
Source(k) == IF saveCount > 0 /\ Gone(k)
             THEN disk[k][BackupName(saveCount)] ELSE disk[k][Main]

\* What a save has written so far.
Writing == doing \in {"head", "write", "end"}
Headed(k) == doing # "head" \/ Place[k] < at
Ended(k)  == doing = "end" /\ Place[k] < at
Written(k) ==
  [save  |-> started,
   count |-> IF Headed(k) THEN saveCount ELSE 0,
   state |-> IF Ended(k) THEN "whole" ELSE IF Headed(k) THEN "headed" ELSE "empty"]

\* The files that can be restored under a name are of one save.
InSync(n) ==
  (\A k \in Restored : IsWhole(disk[k][n]))
    => \A k, l \in Restored : disk[k][n].save = disk[l][n].save

\* The headers under a name lead back to counts up to m.
CountsUpTo(n, m) ==
  \A k \in Kinds : HasHeader(disk[k][n]) => disk[k][n].count <= m
Sound(n, m) == InSync(n) /\ CountsUpTo(n, m)
SoundArchives(m) == \A c \in 1 .. m : Sound(BackupName(c), m)

\* LoadWorld finds no count in the main files and begins anew.
NoCount == ~HasHeader(disk["data"][Main]) /\ ~HasHeader(disk["world"][Main])

Named(n) == names = [k \in Kinds |-> n]

LoadInv(m) == doing = "load" =>
  /\ SoundArchives(m) /\ saveCount <= m
  /\ InSync(Main) /\ (CountsUpTo(Main, m) \/ NoCount)
  /\ \/ saveCount = 0 /\ Named(Main)
     \/ saveCount > 0 /\ Named(BackupName(saveCount)) /\ CountsUpTo(Main, m)

RunInv(m) == doing = "run" =>
  SoundArchives(m) /\ Sound(Main, m) /\ saveCount <= m + 1

MoveInv(m) == Moving =>
  /\ saveCount <= m + 1
  /\ doing = "rename" => saveCount > 0
  /\ \A k \in Kinds : Place[k] < at => disk[k][Main] = Opened(started)
  /\ saveCount = 0 \/ ~Gone("world") => SoundArchives(m) /\ InSync(Main)
  /\ saveCount = 0 => CountsUpTo(Main, m) \/ NoCount
  /\ saveCount > 0 =>
       /\ CountsUpTo(Main, m)
       /\ \A c \in 1 .. m : BackupName(c) # BackupName(saveCount)
                              => Sound(BackupName(c), m)
       /\ \A k \in Kinds : Gone(k) =>
            /\ HasHeader(Source(k)) => Source(k).count <= m
            /\ Place[k] = at => disk[k][Main] = None
       /\ (\A k \in Restored : IsWhole(Source(k)))
            => \A k, l \in Restored : Source(k).save = Source(l).save

WriteInv(m) == Writing =>
  /\ SoundArchives(m) /\ saveCount <= m
  /\ doing = "write" => at = 1
  /\ \A k \in Kinds : disk[k][Main] = Written(k)

FilesAt(m) == LoadInv(m) /\ RunInv(m) /\ MoveInv(m) /\ WriteInv(m)
DiskInv == \E m \in Nat : FilesAt(m)

LEMMA SameDisk ==
  ASSUME disk' = disk
  PROVE  /\ \A n : InSync(n)' <=> InSync(n)
         /\ \A n, m : CountsUpTo(n, m)' <=> CountsUpTo(n, m)
         /\ \A n, m : Sound(n, m)' <=> Sound(n, m)
         /\ \A m : SoundArchives(m)' <=> SoundArchives(m)
         /\ NoCount' <=> NoCount
  BY DEF InSync, CountsUpTo, Sound, SoundArchives, NoCount

LEMMA DiskInit == FilesInit => DiskInv
<1> SUFFICES ASSUME FilesInit PROVE FilesAt(0)
  BY DEF DiskInv
<1>1. \A k \in Kinds : disk[k][Main] = None
  BY MainIsName DEF FilesInit
<1>2. InSync(Main) /\ CountsUpTo(Main, 0)
  BY <1>1, OrderFacts
     DEF InSync, CountsUpTo, None, IsWhole, HasHeader, Restored
<1> QED  BY <1>2 DEF FilesInit, FilesAt, LoadInv, RunInv, MoveInv, WriteInv,
           Moving, Writing, SoundArchives, Named

\* What a load reads: a count that names a sound archive, or none, and files
\* of one save.
LEMMA LoadFacts ==
  ASSUME FilesTypeOK, NEW m \in Nat, LoadInv(m), doing = "load"
  PROVE  /\ CountRead <= m
         /\ CountRead # 0 \/ LoadSucceeds => CountsUpTo(Main, m)
         /\ LoadSucceeds =>
              \A k, l \in Restored : Content(k).save = Content(l).save
<1>1. /\ SoundArchives(m) /\ saveCount <= m /\ saveCount \in Nat
      /\ InSync(Main) /\ (CountsUpTo(Main, m) \/ NoCount)
      /\ disk \in [Kinds -> [Names -> Contents]] /\ names \in [Kinds -> Names]
  BY DEF LoadInv, FilesTypeOK
<1>2. ReadKinds \subseteq Kinds /\ Restored \subseteq Kinds
  BY OrderFacts DEF ReadKinds, Restored
<1>3. ASSUME NEW n \in Names, Named(n), InSync(n), CountsUpTo(n, m)
      PROVE  /\ CountRead <= m
             /\ LoadSucceeds =>
                  \A k, l \in Restored : Content(k).save = Content(l).save
  <2>1. \A k \in Kinds : Content(k) = disk[k][n]
    BY <1>3 DEF Named, Content
  <2>2. CountRead <= m
    BY <2>1, <1>1, <1>2, <1>3, CountReadFrom DEF CountsUpTo
  <2> QED  BY <2>1, <2>2, <1>2, <1>3 DEF InSync, LoadSucceeds, Restored
<1>4. CASE saveCount = 0 /\ Named(Main)
  <2>1. CASE CountsUpTo(Main, m)
    BY <2>1, <1>1, <1>3, <1>4, MainIsName
  <2>2. CASE NoCount
    <3>1. \A k \in Kinds : Content(k) = disk[k][Main]
      BY <1>4 DEF Named, Content
    <3>2. ~IsWhole(Content("world"))
      BY <2>2, <3>1, OrderFacts DEF NoCount, IsWhole, HasHeader
    <3>3. \A k \in ReadKinds : ~HasHeader(Content(k))
      BY <2>2, <3>1, <3>2, OrderFacts DEF NoCount, ReadKinds
    <3>4. CountRead = 0
      BY <3>3, <1>1, <1>4, CountReadFrom
    <3> QED  BY <3>2, <3>4 DEF LoadSucceeds
  <2> QED  BY <2>1, <2>2, <1>1
<1>5. CASE saveCount > 0 /\ Named(BackupName(saveCount)) /\ CountsUpTo(Main, m)
  <2>1. Sound(BackupName(saveCount), m)
    BY <1>1, <1>5 DEF SoundArchives
  <2> QED  BY <2>1, <1>1, <1>3, <1>5, ArchiveNames DEF Sound
<1> QED  BY <1>4, <1>5 DEF LoadInv

LEMMA LoadKeeps ==
  ASSUME FilesTypeOK, NEW m \in Nat, FilesAt(m), LoadWorld
  PROVE  FilesAt(m)'
<1>1. /\ doing = "load" /\ disk' = disk /\ SoundArchives(m) /\ InSync(Main)
      /\ CountsUpTo(Main, m) \/ NoCount
  BY DEF LoadWorld, LoadDone, LoadPrevious, LoadGivesUp, FilesAt, LoadInv
<1>2. /\ CountRead <= m /\ CountRead \in Nat
      /\ CountRead # 0 \/ LoadSucceeds => CountsUpTo(Main, m)
  BY <1>1, LoadFacts, CountReadNat DEF FilesAt
<1>3. CASE LoadDone
  BY <1>1, <1>2, <1>3, SameDisk DEF LoadDone, FilesAt, LoadInv, RunInv,
     MoveInv, WriteInv, Moving, Writing, Sound
<1>4. CASE LoadPrevious
  BY <1>1, <1>2, <1>4, SameDisk DEF LoadPrevious, FilesAt, LoadInv, RunInv,
     MoveInv, WriteInv, Moving, Writing, Named
<1>5. CASE LoadGivesUp
  <2>1. /\ saveCount' = CountRead /\ at' = 1 /\ doing' = "remove"
    BY <1>5 DEF LoadGivesUp
  <2>2. \A k \in Kinds : ~(Place[k] < at') /\ ~Gone(k)'
    BY <2>1, PlaceFacts DEF Gone
  <2>3. \A k \in Kinds : Source(k)' = disk[k][Main]
    BY <2>2, <1>1 DEF Source
  <2>4. Restored \subseteq Kinds /\ "world" \in Kinds
    BY OrderFacts DEF Restored
  <2>5. MoveInv(m)'
    <3>1. ~Gone("world")' /\ SoundArchives(m)' /\ InSync(Main)'
      BY <2>2, <2>4, <1>1, SameDisk
    <3>2. saveCount' > 0 => CountsUpTo(Main, m)'
      BY <2>1, <1>1, <1>2, SameDisk
    <3>3. \A c \in 1 .. m : Sound(BackupName(c), m)'
      BY <3>1 DEF SoundArchives
    <3>4. (\A k \in Restored : IsWhole(Source(k)'))
            => \A k, l \in Restored : Source(k)'.save = Source(l)'.save
      BY <2>3, <2>4, <1>1 DEF InSync
    <3> QED  BY <1>1, <1>2, <2>1, <2>2, <3>1, <3>2, <3>3, <3>4, SameDisk
               DEF MoveInv
  <2> QED  BY <2>1, <2>5 DEF FilesAt, LoadInv, RunInv, WriteInv, Writing
<1> QED  BY <1>3, <1>4, <1>5 DEF LoadWorld

LEMMA BeginKeeps ==
  ASSUME FilesTypeOK, NEW m \in Nat, FilesAt(m), BeginSave
  PROVE  FilesAt(m)'
<1>1. /\ doing = "run" /\ disk' = disk /\ SoundArchives(m) /\ Sound(Main, m)
      /\ saveCount <= m + 1 /\ saveCount \in Nat
      /\ saveCount' = saveCount /\ at' = 1 /\ doing' = "remove"
  BY DEF BeginSave, FilesAt, RunInv, FilesTypeOK
<1>2. \A k \in Kinds : ~(Place[k] < at') /\ ~Gone(k)'
  BY <1>1, PlaceFacts DEF Gone
<1>3. \A k \in Kinds : Source(k)' = disk[k][Main]
  BY <1>1, <1>2 DEF Source
<1>4. Restored \subseteq Kinds /\ "world" \in Kinds
  BY OrderFacts DEF Restored
<1>5. MoveInv(m)'
  <2>1. /\ ~Gone("world")' /\ SoundArchives(m)' /\ InSync(Main)'
        /\ CountsUpTo(Main, m)'
    BY <1>1, <1>2, <1>4, SameDisk DEF Sound
  <2>2. \A c \in 1 .. m : Sound(BackupName(c), m)'
    BY <2>1 DEF SoundArchives
  <2>3. (\A k \in Restored : IsWhole(Source(k)'))
          => \A k, l \in Restored : Source(k)'.save = Source(l)'.save
    BY <1>1, <1>3, <1>4 DEF Sound, InSync
  <2> QED  BY <1>1, <1>2, <2>1, <2>2, <2>3 DEF MoveInv
<1> QED  BY <1>1, <1>5 DEF FilesAt, LoadInv, RunInv, WriteInv, Writing

\* Removing and emptying files takes nothing from what is sound.
LEMMA Taken ==
  ASSUME NEW n,
         \A k \in Kinds : disk'[k][n] = disk[k][n] \/ ~HasHeader(disk'[k][n])
  PROVE  /\ InSync(n) => InSync(n)'
         /\ \A m : CountsUpTo(n, m) => CountsUpTo(n, m)'
         /\ \A m : Sound(n, m) => Sound(n, m)'
<1>1. Restored \subseteq Kinds
  BY OrderFacts DEF Restored
<1>2. InSync(n) => InSync(n)'
  BY <1>1 DEF InSync, HasHeader, IsWhole
<1>3. \A m : CountsUpTo(n, m) => CountsUpTo(n, m)'
  BY DEF CountsUpTo
<1> QED  BY <1>2, <1>3 DEF Sound

LEMMA NoHeader == ~HasHeader(None) /\ \A s : ~HasHeader(Opened(s))
  BY DEF HasHeader, None, Opened

LEMMA RemoveKeeps ==
  ASSUME FilesTypeOK, NEW m \in Nat, FilesAt(m), RemoveArchive
  PROVE  FilesAt(m)'
<1> DEFINE f == Order[at]
           n == BackupName(saveCount)
<1>1. /\ doing = "remove" /\ at' = at /\ saveCount' = saveCount
      /\ started' = started /\ saveCount \in Nat /\ at \in 1 .. 4
      /\ doing' = IF saveCount > 0 THEN "rename" ELSE "open"
  BY OrderFacts DEF RemoveArchive, Unmoved, FilesTypeOK
<1>2. /\ f \in Kinds /\ Place[f] = at
      /\ n \in Names /\ n # Main /\ Main \in Names
      /\ \A c \in 1 .. m : BackupName(c) \in Names
  BY <1>1, PlaceFacts, ArchiveNames, MainIsName
<1>3. \A k \in Kinds, x \in Names :
        disk'[k][x] = IF k = f /\ x = n THEN None ELSE disk[k][x]
  BY <1>2, Put DEF RemoveArchive, FilesTypeOK
<1>4. \A k \in Kinds : disk'[k][Main] = disk[k][Main]
  BY <1>2, <1>3
<1>5. \A x \in Names : /\ InSync(x) => InSync(x)'
                       /\ CountsUpTo(x, m) => CountsUpTo(x, m)'
                       /\ Sound(x, m) => Sound(x, m)'
  BY <1>3, Taken, NoHeader
<1>6. SoundArchives(m) => SoundArchives(m)'
  BY <1>2, <1>5 DEF SoundArchives
<1>7. NoCount => NoCount'
  BY <1>4, OrderFacts DEF NoCount
<1>8. MoveInv(m)
  BY DEF FilesAt
<1>9. CASE saveCount > 0
  <2>1. \A k \in Kinds : Gone(k)' <=> Gone(k)
    BY <1>1, <1>9 DEF Gone
  <2>2. \A k \in Kinds : Source(k)' = Source(k)
    <3>1. ASSUME NEW k \in Kinds, Gone(k) PROVE k # f
      BY <3>1, <1>1, <1>2 DEF Gone
    <3> QED  BY <3>1, <2>1, <1>1, <1>2, <1>3, <1>4 DEF Source
  <2>3. Restored \subseteq Kinds /\ "world" \in Kinds
    BY OrderFacts DEF Restored
  <2>4. (\A k \in Restored : IsWhole(Source(k)'))
          => \A k, l \in Restored : Source(k)'.save = Source(l)'.save
    BY <2>2, <2>3, <1>1, <1>8, <1>9 DEF MoveInv, Moving
  <2>5. \A k \in Kinds : Gone(k)' =>
          /\ HasHeader(Source(k)') => Source(k)'.count <= m
          /\ Place[k] = at' => disk'[k][Main] = None
    BY <2>1, <2>2, <1>1, <1>4, <1>8, <1>9 DEF MoveInv, Moving
  <2>6. ~Gone("world")' => SoundArchives(m)' /\ InSync(Main)'
    BY <2>1, <2>3, <1>1, <1>2, <1>5, <1>6, <1>8 DEF MoveInv, Moving
  <2>7. /\ CountsUpTo(Main, m)'
        /\ \A c \in 1 .. m : BackupName(c) # n => Sound(BackupName(c), m)'
    BY <1>1, <1>2, <1>5, <1>8, <1>9 DEF MoveInv, Moving
  <2>8. MoveInv(m)'
    BY <2>4, <2>5, <2>6, <2>7, <1>1, <1>4, <1>8, <1>9 DEF MoveInv, Moving
  <2> QED  BY <2>8, <1>1, <1>9 DEF FilesAt, LoadInv, RunInv, WriteInv, Writing
<1>10. CASE saveCount = 0
  <2>1. SoundArchives(m)' /\ InSync(Main)' /\ (CountsUpTo(Main, m)' \/ NoCount')
    BY <1>1, <1>2, <1>5, <1>6, <1>7, <1>8, <1>10 DEF MoveInv, Moving
  <2>2. MoveInv(m)'
    BY <2>1, <1>1, <1>4, <1>8, <1>10 DEF MoveInv, Moving
  <2> QED  BY <2>2, <1>1, <1>10 DEF FilesAt, LoadInv, RunInv, WriteInv, Writing
<1> QED  BY <1>1, <1>9, <1>10

LEMMA RenameKeeps ==
  ASSUME FilesTypeOK, NEW m \in Nat, FilesAt(m), RenameMain
  PROVE  FilesAt(m)'
<1> DEFINE f == Order[at]
           n == BackupName(saveCount)
<1>1. /\ doing = "rename" /\ at' = at /\ saveCount' = saveCount
      /\ started' = started /\ saveCount \in Nat /\ at \in 1 .. 4
      /\ doing' = "open"
  BY OrderFacts DEF RenameMain, Unmoved, FilesTypeOK
<1>2. /\ f \in Kinds /\ Place[f] = at /\ \A k \in Kinds : Place[k] = at => k = f
      /\ n \in Names /\ n # Main /\ Main \in Names
      /\ \A c \in 1 .. m : BackupName(c) \in Names /\ BackupName(c) # Main
  BY <1>1, PlaceFacts, ArchiveNames, MainIsName
<1>3. MoveInv(m) /\ saveCount > 0
  BY <1>1 DEF FilesAt, MoveInv, Moving
<1>4. \A k \in Kinds, x \in Names :
        disk'[k][x] = IF k = f /\ x = Main THEN None
                      ELSE IF k = f /\ x = n THEN disk[f][Main] ELSE disk[k][x]
  BY <1>2 DEF RenameMain, FilesTypeOK
<1>5. \A k \in Kinds : Gone(k)' <=> Gone(k) \/ k = f
  BY <1>1, <1>2 DEF Gone
<1>6. ~Gone(f)
  BY <1>1, <1>2 DEF Gone
<1>7. \A k \in Kinds : Source(k)' = Source(k)
  BY <1>1, <1>2, <1>3, <1>4, <1>5, <1>6 DEF Source
<1>8. Restored \subseteq Kinds /\ "world" \in Kinds /\ "data" \in Kinds
  BY OrderFacts DEF Restored
<1>9. (\A k \in Restored : IsWhole(Source(k)'))
        => \A k, l \in Restored : Source(k)'.save = Source(l)'.save
  BY <1>1, <1>3, <1>7, <1>8 DEF MoveInv, Moving
<1>10. CountsUpTo(Main, m) /\ CountsUpTo(Main, m)'
  <2>1. CountsUpTo(Main, m)
    BY <1>1, <1>3 DEF MoveInv, Moving
  <2> QED  BY <2>1, <1>2, <1>4, Taken, NoHeader
<1>11. \A k \in Kinds : Gone(k)' =>
         /\ HasHeader(Source(k)') => Source(k)'.count <= m
         /\ Place[k] = at' => disk'[k][Main] = None
  <2>1. ASSUME NEW k \in Kinds, Gone(k)'
        PROVE  HasHeader(Source(k)) => Source(k).count <= m
    <3>1. CASE Gone(k)
      BY <3>1, <1>1, <1>3 DEF MoveInv, Moving
    <3>2. CASE k = f
      BY <3>2, <1>6, <1>10 DEF Source, CountsUpTo
    <3> QED  BY <3>1, <3>2, <2>1, <1>5
  <2> QED  BY <2>1, <1>1, <1>2, <1>4, <1>7
<1>12. \A x \in Names : x # n /\ x # Main /\ Sound(x, m) => Sound(x, m)'
  BY <1>4, Taken
<1>13. \A c \in 1 .. m : BackupName(c) # n => Sound(BackupName(c), m)'
  BY <1>1, <1>2, <1>3, <1>12 DEF MoveInv, Moving
<1>14. ~Gone("world")' => SoundArchives(m)' /\ InSync(Main)'
  <2> SUFFICES ASSUME ~Gone("world")' PROVE SoundArchives(m)' /\ InSync(Main)'
    OBVIOUS
  <2>1. f # "world" /\ ~Gone("world")
    BY <1>5, <1>8
  <2>2. SoundArchives(m) /\ InSync(Main)
    BY <2>1, <1>1, <1>3 DEF MoveInv, Moving
  <2>3. f = "data"
    BY <2>1, <1>1, <1>2, PlaceFacts, OrderFacts DEF Gone
  <2>4. \A k \in Restored, x \in Names : disk'[k][x] = disk[k][x]
    BY <2>3, <1>4, <1>8 DEF Restored
  <2>5. \A x \in Names : InSync(x) => InSync(x)'
    BY <2>4 DEF InSync
  <2>6. ASSUME NEW x \in Names, x = n, CountsUpTo(x, m)
        PROVE  CountsUpTo(x, m)'
    <3>1. \A k \in Kinds :
            disk'[k][x] = IF k = f THEN disk[f][Main] ELSE disk[k][x]
      BY <2>6, <1>2, <1>4
    <3> QED  BY <2>6, <3>1, <1>2, <1>10 DEF CountsUpTo
  <2>7. ASSUME NEW c \in 1 .. m PROVE Sound(BackupName(c), m)'
    <3>1. CASE BackupName(c) # n
      BY <3>1, <1>13
    <3>2. CASE BackupName(c) = n
      <4>1. InSync(BackupName(c)) /\ CountsUpTo(BackupName(c), m)
        BY <2>2 DEF SoundArchives, Sound
      <4> QED  BY <3>2, <4>1, <2>5, <2>6, <1>2 DEF Sound
    <3> QED  BY <3>1, <3>2
  <2> QED  BY <2>2, <2>5, <2>7, <1>2 DEF SoundArchives
<1>15. \A k \in Kinds : Place[k] < at => disk'[k][Main] = Opened(started)
  BY <1>1, <1>2, <1>3, <1>4 DEF MoveInv, Moving
<1>16. MoveInv(m)'
  BY <1>1, <1>3, <1>9, <1>10, <1>11, <1>13, <1>14, <1>15 DEF MoveInv, Moving
<1> QED  BY <1>16, <1>1 DEF FilesAt, LoadInv, RunInv, WriteInv, Writing

LEMMA OpenKeeps ==
  ASSUME FilesTypeOK, FilesTypeOK', NEW m \in Nat, FilesAt(m), OpenMain
  PROVE  DiskInv'
<1> DEFINE f == Order[at]
           n == BackupName(saveCount)
<1>1. /\ doing = "open" /\ saveCount' = saveCount
      /\ started' = started /\ saveCount \in Nat /\ at \in 1 .. 4
      /\ IF at < 4 THEN doing' = "remove" /\ at' = at + 1
                   ELSE doing' = "head" /\ at' = 1
  BY OrderFacts DEF OpenMain, Unmoved, FilesTypeOK
<1>2. /\ f \in Kinds /\ Place[f] = at /\ \A k \in Kinds : Place[k] = at => k = f
      /\ n \in Names /\ n # Main /\ Main \in Names
      /\ \A c \in Nat : BackupName(c) \in Names /\ BackupName(c) # Main
      /\ \A k \in Kinds : Place[k] \in 1 .. 4
  BY <1>1, PlaceFacts, ArchiveNames, MainIsName
<1>3. MoveInv(m)
  BY <1>1 DEF FilesAt, MoveInv, Moving
<1>4. \A k \in Kinds, x \in Names :
        disk'[k][x] = IF k = f /\ x = Main THEN Opened(started) ELSE disk[k][x]
  <2>1. /\ disk \in [Kinds -> [Names -> Contents]]
        /\ disk' = [disk EXCEPT ![f][Main] = Opened(started)]
    BY DEF OpenMain, FilesTypeOK
  <2> QED  BY <2>1, <1>2, Put
<1>5. \A x \in Names : /\ InSync(x) => InSync(x)'
                       /\ CountsUpTo(x, m) => CountsUpTo(x, m)'
                       /\ Sound(x, m) => Sound(x, m)'
  BY <1>4, Taken, NoHeader
<1>6. SoundArchives(m) => SoundArchives(m)'
  BY <1>2, <1>5 DEF SoundArchives
<1>7. NoCount => NoCount'
  BY <1>2, <1>4, NoHeader, OrderFacts DEF NoCount
<1>8. Restored \subseteq Kinds /\ "world" \in Kinds
  BY OrderFacts DEF Restored
<1>9. CASE at < 4
  <2>1. \A k \in Kinds : Gone(k)' <=> Gone(k)
    BY <1>1, <1>2, <1>9 DEF Gone
  <2>2. \A k \in Kinds : Place[k] < at' => disk'[k][Main] = Opened(started)
    BY <1>1, <1>2, <1>3, <1>4, <1>9 DEF MoveInv, Moving
  <2>3. saveCount = 0 \/ ~Gone("world")' => SoundArchives(m)' /\ InSync(Main)'
    BY <2>1, <1>1, <1>2, <1>3, <1>5, <1>6, <1>8 DEF MoveInv, Moving
  <2>4. saveCount = 0 => CountsUpTo(Main, m)' \/ NoCount'
    BY <1>1, <1>2, <1>3, <1>5, <1>7 DEF MoveInv, Moving
  <2>5. CASE saveCount > 0
    <3>1. \A k \in Kinds : Gone(k) <=> Place[k] < at \/ k = f
      BY <1>1, <1>2 DEF Gone
    <3>2. \A k \in Kinds : Source(k)' = Source(k)
      BY <3>1, <2>1, <2>5, <1>1, <1>2, <1>4 DEF Source
    <3>3. (\A k \in Restored : IsWhole(Source(k)'))
            => \A k, l \in Restored : Source(k)'.save = Source(l)'.save
      BY <3>2, <2>5, <1>1, <1>3, <1>8 DEF MoveInv, Moving
    <3>4. \A k \in Kinds : Gone(k)' =>
            /\ HasHeader(Source(k)') => Source(k)'.count <= m
            /\ ~(Place[k] = at')
      BY <3>1, <3>2, <2>1, <2>5, <1>1, <1>2, <1>3, <1>9 DEF MoveInv, Moving
    <3>5. /\ CountsUpTo(Main, m)'
          /\ \A c \in 1 .. m : BackupName(c) # n => Sound(BackupName(c), m)'
      BY <2>5, <1>1, <1>2, <1>3, <1>5 DEF MoveInv, Moving
    <3>6. MoveInv(m)'
      BY <3>3, <3>4, <3>5, <2>2, <2>3, <2>5, <1>1, <1>3, <1>9
         DEF MoveInv, Moving
    <3> QED  BY <3>6, <1>1, <1>9
               DEF DiskInv, FilesAt, LoadInv, RunInv, WriteInv, Writing
  <2>6. CASE saveCount = 0
    <3>1. MoveInv(m)'
      BY <2>2, <2>3, <2>4, <2>6, <1>1, <1>3, <1>9 DEF MoveInv, Moving
    <3> QED  BY <3>1, <1>1, <1>9
               DEF DiskInv, FilesAt, LoadInv, RunInv, WriteInv, Writing
  <2> QED  BY <2>5, <2>6, <1>1
<1>10. CASE at = 4
  <2>1. \A k \in Kinds : Gone(k)
    BY <1>1, <1>2, <1>10 DEF Gone
  <2>2. \A k \in Kinds : disk'[k][Main] = Opened(started)
    BY <1>1, <1>2, <1>3, <1>4, <1>10 DEF MoveInv, Moving
  <2>3. \A k \in Kinds : disk'[k][Main] = Written(k)'
    BY <2>2, <1>1, <1>2, <1>10 DEF Written, Headed, Ended, Opened
  <2>4. CASE saveCount = 0
    <3>1. SoundArchives(m)' /\ saveCount' <= m
      BY <2>4, <1>1, <1>3, <1>6 DEF MoveInv, Moving
    <3> QED  BY <3>1, <2>3, <1>1, <1>10
               DEF DiskInv, FilesAt, LoadInv, RunInv, MoveInv, WriteInv, Moving
  <2>5. CASE saveCount > 0
    <3>1. PICK l \in Nat : m <= l /\ saveCount <= l /\ l <= m + 1
                           /\ (l = m \/ l = saveCount)
      BY <1>1, <1>3 DEF MoveInv, Moving
    <3>2. \A x \in Names : Sound(x, m)' => Sound(x, l)'
      <4>1. \A k \in Kinds, x \in Names : disk'[k][x].count \in Nat
        BY DEF FilesTypeOK, Contents
      <4> QED  BY <4>1, <3>1 DEF Sound, CountsUpTo
    <3>3. \A k \in Kinds : Source(k) = disk[k][n]
      BY <2>1, <2>5 DEF Source
    <3>4. InSync(n) /\ CountsUpTo(n, m)
      BY <3>3, <2>1, <2>5, <1>1, <1>3, <1>8
         DEF MoveInv, Moving, InSync, CountsUpTo
    <3>5. ASSUME NEW c \in 1 .. l PROVE Sound(BackupName(c), l)'
      <4>1. CASE BackupName(c) = n
        BY <4>1, <3>2, <3>4, <1>2, <1>5 DEF Sound
      <4>2. CASE BackupName(c) # n
        <5>1. c \in 1 .. m
          BY <4>2, <3>1, <1>1
        <5>2. Sound(BackupName(c), m)
          BY <5>1, <4>2, <2>5, <1>1, <1>3 DEF MoveInv, Moving
        <5> QED  BY <5>1, <5>2, <3>2, <1>2, <1>5
      <4> QED  BY <4>1, <4>2
    <3>6. SoundArchives(l)'
      BY <3>5 DEF SoundArchives
    <3>7. FilesAt(l)'
      BY <3>1, <3>6, <2>3, <1>1, <1>10
         DEF FilesAt, LoadInv, RunInv, MoveInv, WriteInv, Moving
    <3> QED  BY <3>1, <3>7 DEF DiskInv
  <2> QED  BY <2>4, <2>5, <1>1
<1> QED  BY <1>1, <1>9, <1>10

\* Headers and end marks are written to the main files only.
LEMMA WriteLeavesArchives ==
  ASSUME NEW m \in Nat, SoundArchives(m),
         \A k \in Kinds, x \in Names : x # Main => disk'[k][x] = disk[k][x]
  PROVE  SoundArchives(m)'
<1>1. \A c \in 1 .. m : BackupName(c) \in Names /\ BackupName(c) # Main
  BY ArchiveNames
<1>2. \A x \in Names : x # Main /\ Sound(x, m) => Sound(x, m)'
  BY Taken
<1> QED  BY <1>1, <1>2 DEF SoundArchives

LEMMA HeaderPut ==
  ASSUME NEW r \in Contents, NEW c \in Nat
  PROVE  [r EXCEPT !.count = c, !.state = "headed"]
           = [save |-> r.save, count |-> c, state |-> "headed"]
<1> DEFINE h == [r EXCEPT !.count = c, !.state = "headed"]
<1>1. \A z \in Contents :
        z = [save |-> z.save, count |-> z.count, state |-> z.state]
  BY DEF Contents
<1>2. h \in Contents /\ h.save = r.save /\ h.count = c /\ h.state = "headed"
  BY DEF Contents
<1> HIDE DEF h
<1>3. h = [save |-> r.save, count |-> c, state |-> "headed"]
  BY <1>1, <1>2
<1> QED  BY <1>3 DEF h

LEMMA WriteKeeps ==
  ASSUME FilesTypeOK, NEW m \in Nat, FilesAt(m),
         WriteHeader \/ WriteWorld \/ WriteEof
  PROVE  FilesAt(m)'
<1> DEFINE f == Order[at]
<1>1. /\ Writing /\ started' = started /\ saveCount \in Nat /\ at \in 1 .. 4
      /\ SoundArchives(m) /\ saveCount <= m /\ (doing = "write" => at = 1)
      /\ \A k \in Kinds : disk[k][Main] = Written(k)
      /\ disk \in [Kinds -> [Names -> Contents]]
  BY OrderFacts DEF WriteHeader, WriteWorld, WriteEof, Unmoved, FilesTypeOK,
     FilesAt, WriteInv, Writing
<1>2. /\ f \in Kinds /\ Place[f] = at /\ \A k \in Kinds : Place[k] = at => k = f
      /\ Main \in Names /\ \A k \in Kinds : Place[k] \in 1 .. 4
      /\ Len(Order) = 4
  BY <1>1, PlaceFacts, OrderFacts, MainIsName
<1>3. CASE WriteHeader
  <2>1. \A k \in Kinds, x \in Names :
          disk'[k][x] = IF k = f /\ x = Main
                        THEN [disk[f][Main] EXCEPT !.count = saveCount,
                                                   !.state = "headed"]
                        ELSE disk[k][x]
    BY <1>1, <1>2, <1>3 DEF WriteHeader
  <2>2. /\ doing = "head" /\ saveCount' = saveCount
        /\ IF at < 4 THEN doing' = "head" /\ at' = at + 1
                     ELSE doing' = "write" /\ at' = 1
    BY <1>2, <1>3 DEF WriteHeader, Unmoved
  <2>3. disk[f][Main] = [save |-> started, count |-> 0, state |-> "empty"]
    BY <2>2, <1>1, <1>2 DEF Written, Headed, Ended
  <2>4. disk'[f][Main]
          = [save |-> started, count |-> saveCount, state |-> "headed"]
    <3>1. disk'[f][Main] = [disk[f][Main] EXCEPT !.count = saveCount,
                                                 !.state = "headed"]
      BY <2>1, <1>2
    <3> HIDE DEF f
    <3>2. disk[f][Main] \in Contents
      BY <1>1, <1>2
    <3>3. disk'[f][Main] = [save  |-> disk[f][Main].save,
                            count |-> saveCount, state |-> "headed"]
      <4>1. saveCount \in Nat
        BY <1>1
      <4> QED  BY <3>1, <3>2, <4>1, HeaderPut
    <3>4. disk[f][Main].save = started
      BY <2>3
    <3> QED  BY <3>3, <3>4
  <2>5. \A k \in Kinds : disk'[k][Main] = Written(k)'
    <3>1. ASSUME NEW k \in Kinds PROVE disk'[k][Main] = Written(k)'
      <4>1. CASE k = f
        BY <4>1, <2>2, <2>4, <1>1, <1>2 DEF Written, Headed, Ended
      <4>2. CASE k # f
        <5>1. disk'[k][Main] = Written(k)
          BY <4>2, <2>1, <1>1, <1>2
        <5>2. Headed(k)' <=> Headed(k)
          BY <4>2, <2>2, <1>1, <1>2 DEF Headed
        <5>3. ~Ended(k) /\ ~Ended(k)'
          BY <2>2 DEF Ended
        <5> QED  BY <5>1, <5>2, <5>3, <2>2, <1>1 DEF Written
      <4> QED  BY <4>1, <4>2
    <3> QED  BY <3>1
  <2>6. SoundArchives(m)'
    <3>1. \A k \in Kinds, x \in Names : x # Main => disk'[k][x] = disk[k][x]
      BY <2>1
    <3>2. SoundArchives(m)
      BY <1>1
    <3> QED  BY <3>1, <3>2, WriteLeavesArchives
  <2> QED  BY <2>2, <2>5, <2>6, <1>1
             DEF FilesAt, LoadInv, RunInv, MoveInv, WriteInv, Moving
<1>4. CASE WriteWorld
  <2>1. /\ doing = "write" /\ doing' = "end" /\ UNCHANGED <<at, disk, saveCount>>
    BY <1>4 DEF WriteWorld, Unmoved
  <2>2. \A k \in Kinds : disk'[k][Main] = Written(k)'
    <3>1. \A k \in Kinds : Headed(k) /\ Headed(k)' /\ ~Ended(k) /\ ~Ended(k)'
      BY <2>1, <1>1, <1>2 DEF Headed, Ended
    <3>2. \A k \in Kinds : Written(k)' = Written(k)
      BY <3>1, <2>1, <1>1 DEF Written
    <3> QED  BY <3>2, <2>1, <1>1
  <2>3. SoundArchives(m)'
    <3>1. disk' = disk
      BY <2>1
    <3>2. SoundArchives(m)
      BY <1>1
    <3> QED  BY <3>1, <3>2, SameDisk
  <2> QED  BY <2>1, <2>2, <2>3, <1>1
             DEF FilesAt, LoadInv, RunInv, MoveInv, WriteInv, Moving
<1>5. CASE WriteEof
  <2>1. \A k \in Kinds, x \in Names :
          disk'[k][x] = IF k = f /\ x = Main
                        THEN [disk[f][Main] EXCEPT !.state = "whole"]
                        ELSE disk[k][x]
    BY <1>1, <1>2, <1>5 DEF WriteEof
  <2>2. /\ doing = "end"
        /\ IF at < 4 THEN doing' = "end" /\ at' = at + 1 /\ saveCount' = saveCount
                     ELSE /\ doing' = "run" /\ at' = 1
                          /\ saveCount' = saveCount + 1
    BY <1>2, <1>5 DEF WriteEof, Unmoved
  <2>3. disk[f][Main]
          = [save |-> started, count |-> saveCount, state |-> "headed"]
    BY <2>2, <1>1, <1>2 DEF Written, Headed, Ended
  <2>4. disk'[f][Main]
          = [save |-> started, count |-> saveCount, state |-> "whole"]
    <3>1. disk'[f][Main] = [disk[f][Main] EXCEPT !.state = "whole"]
      BY <2>1, <1>2
    <3> QED  BY <3>1, <2>3
  <2>5. SoundArchives(m)'
    <3>1. \A k \in Kinds, x \in Names : x # Main => disk'[k][x] = disk[k][x]
      BY <2>1
    <3>2. SoundArchives(m)
      BY <1>1
    <3> QED  BY <3>1, <3>2, WriteLeavesArchives
  <2>6. CASE at < 4
    <3>1. ASSUME NEW k \in Kinds PROVE disk'[k][Main] = Written(k)'
      <4>1. CASE k = f
        BY <4>1, <2>2, <2>4, <2>6, <1>1, <1>2 DEF Written, Headed, Ended
      <4>2. CASE k # f
        <5>1. disk'[k][Main] = Written(k)
          BY <4>2, <2>1, <1>1, <1>2
        <5>2. Ended(k)' <=> Ended(k)
          BY <4>2, <2>2, <2>6, <1>1, <1>2 DEF Ended
        <5>3. Headed(k) /\ Headed(k)'
          BY <2>2, <2>6 DEF Headed
        <5> QED  BY <5>1, <5>2, <5>3, <2>2, <2>6, <1>1 DEF Written
      <4> QED  BY <4>1, <4>2
    <3> QED  BY <3>1, <2>2, <2>5, <2>6, <1>1
               DEF FilesAt, LoadInv, RunInv, MoveInv, WriteInv, Moving
  <2>7. CASE at = 4
    <3>1. ASSUME NEW k \in Kinds
          PROVE  disk'[k][Main]
                   = [save |-> started, count |-> saveCount, state |-> "whole"]
      <4>1. CASE k = f
        BY <4>1, <2>4
      <4>2. CASE k # f
        <5>1. Place[k] < 4
          BY <4>2, <2>7, <1>2
        <5> QED  BY <5>1, <4>2, <2>1, <2>2, <2>7, <1>1, <1>2
                   DEF Written, Headed, Ended
      <4> QED  BY <4>1, <4>2
    <3>2. InSync(Main)' /\ CountsUpTo(Main, m)'
      <4>1. \A k \in Kinds :
              disk'[k][Main].save = started /\ disk'[k][Main].count <= m
        BY <3>1, <1>1
      <4>2. Restored \subseteq Kinds
        BY OrderFacts DEF Restored
      <4> QED  BY <4>1, <4>2 DEF InSync, CountsUpTo
    <3> QED  BY <3>2, <2>2, <2>5, <2>7, <1>1
               DEF FilesAt, LoadInv, RunInv, MoveInv, WriteInv, Moving,
                   Writing, Sound
  <2> QED  BY <2>6, <2>7, <1>1
<1> QED  BY <1>3, <1>4, <1>5

LEMMA StopKeeps ==
  ASSUME FilesTypeOK, NEW m \in Nat, FilesAt(m), Crash \/ Stop
  PROVE  DiskInv'
<1>1. /\ doing' = "load" /\ saveCount' = 0 /\ Named(Main)' /\ disk' = disk
      /\ doing \in Steps
  BY DEF Crash, Stop, StartServer, Named, FilesTypeOK
<1>2. ASSUME NEW l \in Nat, SoundArchives(l), InSync(Main),
             CountsUpTo(Main, l) \/ NoCount
      PROVE  DiskInv'
  <2>1. LoadInv(l)'
    BY <1>1, <1>2, SameDisk DEF LoadInv
  <2> QED  BY <2>1, <1>1 DEF DiskInv, FilesAt, RunInv, MoveInv, WriteInv,
             Moving, Writing
<1>3. CASE doing = "load"
  BY <1>2, <1>3 DEF FilesAt, LoadInv
<1>4. CASE doing = "run"
  BY <1>2, <1>4 DEF FilesAt, RunInv, Sound
<1>5. CASE Moving
  <2>1. CASE saveCount = 0 \/ ~Gone("world")
    BY <2>1, <1>2, <1>5 DEF FilesAt, MoveInv, FilesTypeOK
  <2>2. CASE saveCount > 0 /\ Gone("world")
    <3>1. /\ MoveInv(m) /\ "world" \in Kinds /\ "data" \in Kinds
          /\ Place["data"] = 1 /\ Place["world"] = 2 /\ at \in 1 .. 4
      BY OrderFacts, PlaceFacts DEF FilesAt, FilesTypeOK
    <3>2. ~HasHeader(disk["world"][Main])
      BY <3>1, <2>2, <1>5, NoHeader DEF MoveInv, Gone
    <3>3. ~HasHeader(disk["data"][Main])
      BY <3>1, <2>2, <1>5, NoHeader DEF MoveInv, Gone
    <3>4. NoCount /\ InSync(Main) /\ SoundArchives(0)
      BY <3>2, <3>3
         DEF NoCount, InSync, Restored, HasHeader, IsWhole, SoundArchives
    <3> QED  BY <3>4, <1>2
  <2> QED  BY <2>1, <2>2 DEF FilesTypeOK
<1>6. CASE Writing
  <2>1. \A k \in Kinds : disk[k][Main] = Written(k)
    BY <1>6 DEF FilesAt, WriteInv
  <2>2. InSync(Main)
    BY <2>1, OrderFacts DEF InSync, Restored, Written
  <2>3. CountsUpTo(Main, m)
    <3>1. saveCount <= m
      BY <1>6 DEF FilesAt, WriteInv
    <3>2. ASSUME NEW k \in Kinds, HasHeader(Written(k))
          PROVE  Written(k).count = saveCount
      <4>1. Headed(k)
        BY <3>2 DEF Written, HasHeader, Headed, Ended
      <4> QED  BY <4>1 DEF Written
    <3> QED  BY <2>1, <3>1, <3>2 DEF CountsUpTo
  <2> QED  BY <2>2, <2>3, <1>2, <1>6 DEF FilesAt, WriteInv
<1> QED  BY <1>1, <1>3, <1>4, <1>5, <1>6 DEF Steps, Moving, Writing

LEMMA FilesNextKeeps ==
  ASSUME FilesTypeOK, DiskInv, [FilesNext]_fileVars PROVE DiskInv'
<1>1. PICK m \in Nat : FilesAt(m)
  BY DEF DiskInv
<1>2. FilesAt(m)' => DiskInv'
  BY DEF DiskInv
<1>3. CASE UNCHANGED fileVars
  <2>1. \A k : (Gone(k)' <=> Gone(k)) /\ Source(k)' = Source(k)
               /\ Written(k)' = Written(k)
    BY <1>3 DEF fileVars, Gone, Source, Written, Headed, Ended
  <2>2. FilesAt(m)'
    BY <1>1, <1>3, <2>1, SameDisk DEF fileVars, FilesAt, LoadInv, RunInv,
       MoveInv, WriteInv, Moving, Writing, Named
  <2> QED  BY <2>2, <1>2
<1> QED  BY <1>1, <1>2, <1>3, TypesNext, LoadKeeps, BeginKeeps, RemoveKeeps, RenameKeeps,
           OpenKeeps, WriteKeeps, StopKeeps DEF FilesNext, SaveStep

\* The inductive invariant of the files on the disk: there is a count m such that
\* the archives of all counts up to m are sound, whatever a save under way has
\* done (OpenScriptBackup), and LoadWorld never reads a count beyond m.
THEOREM FilesInvariant == FilesSpec => [](FilesTypeOK /\ DiskInv)
  BY TypesInit, TypesNext, DiskInit, FilesNextKeeps, PTL DEF FilesSpec

\* LoadWorld never starts the game with a world, characters and multis of
\* different saves, whatever number of crashes, in whatever steps, the disk has
\* seen, and to whichever archive it goes back (CWorld.cpp:1371).
THEOREM FilesInSyncAlways == FilesSpec => FilesInSync
<1>1. ASSUME FilesTypeOK, DiskInv, [FilesNext]_fileVars,
             doing = "load", doing' = "run"
      PROVE  LoadedInSync'
  <2>1. LoadDone
    BY <1>1 DEF FilesNext, LoadWorld, LoadPrevious, LoadGivesUp, BeginSave,
       SaveStep, RemoveArchive, RenameMain, OpenMain, WriteHeader, WriteWorld,
       WriteEof, Crash, Stop, StartServer, fileVars
  <2>2. LoadSucceeds /\ memory' = LoadedMemory
    BY <2>1 DEF LoadDone
  <2>3. \A k, l \in Restored : Content(k).save = Content(l).save
    BY <1>1, <2>2, LoadFacts DEF DiskInv, FilesAt
  <2>4. \A k \in Restored : k \in ReadKinds /\ IsWhole(Content(k))
    BY <2>2, OrderFacts DEF LoadSucceeds, ReadKinds, Restored
  <2>5. \A k \in Restored : memory'[k] = Content(k).save
    BY <2>2, <2>4, OrderFacts DEF LoadedMemory, Restored
  <2> QED  BY <2>3, <2>5 DEF LoadedInSync, Restored
<1> QED  BY <1>1, FilesInvariant, PTL DEF FilesSpec, FilesInSync

\* The files that can be restored under a name are of the last whole save.
AllLatest(n) ==
  \A k \in Restored : IsWhole(disk[k][n]) /\ disk[k][n].save = latest

\* The main files were cut short and name the archive that has the last save.
BehindCut(h) ==
  /\ Dated /\ ~Whole /\ AllLatest(BackupName(h))
  /\ \A k \in Kinds : HasHeader(disk[k][Main]) => disk[k][Main].count = h

\* What a load can find, and how far it has come.
FindsLatest ==
  \/ AllLatest(Main)
  \/ ~Whole /\ ~Dated
  \/ \E h \in Nat \ {0} : BehindCut(h)
OnItsWay ==
  /\ AllLatest(Main) => Named(Main)
  /\ \A h \in Nat \ {0} : BehindCut(h) => Named(Main) \/ Named(BackupName(h))

\* Where the last whole save is while the next one moves the files.
SourcesLatest == saveCount > 0 \/ at <= 2 =>
  \A k \in Restored : IsWhole(Source(k)) /\ Source(k).save = latest

RecoverInv == latest # 0 =>
  /\ doing \in {"load", "run"} /\ cut <= 1 => FindsLatest
  /\ doing \in {"load", "run"} /\ cut = 0 => AllLatest(Main)
  /\ doing = "load" /\ cut <= 1 => OnItsWay
  /\ Moving /\ cut = 0 => SourcesLatest
  /\ Writing /\ cut = 0 /\ saveCount > 0 => AllLatest(BackupName(saveCount))

LEMMA SameFinds ==
  ASSUME disk' = disk, latest' = latest
  PROVE  /\ \A n : AllLatest(n)' <=> AllLatest(n)
         /\ Dated' <=> Dated
         /\ Whole' <=> Whole
         /\ \A h : BehindCut(h)' <=> BehindCut(h)
         /\ FindsLatest' <=> FindsLatest
<1>1. /\ \A n : AllLatest(n)' <=> AllLatest(n)
      /\ Dated' <=> Dated
      /\ Whole' <=> Whole
  BY DEF AllLatest, Dated, Whole
<1>2. \A h : BehindCut(h)' <=> BehindCut(h)
  BY <1>1 DEF BehindCut
<1> QED  BY <1>1, <1>2 DEF FindsLatest

\* A load of the last whole save succeeds.
LEMMA LatestLoads ==
  ASSUME NEW n \in Names, AllLatest(n), Named(n)
  PROVE  LoadSucceeds /\ \A k \in Restored : LoadedMemory[k] = latest
<1>1. /\ Kinds = {"data", "world", "chars", "multis"}
      /\ Restored = {"world", "chars", "multis"}
  BY OrderFacts DEF Restored
<1>2. \A k \in Restored : IsWhole(Content(k)) /\ Content(k).save = latest
  BY <1>1 DEF AllLatest, Named, Content
<1>3. LoadSucceeds
  BY <1>1, <1>2 DEF LoadSucceeds
<1>4. Restored \subseteq ReadKinds
  BY <1>1, <1>2 DEF ReadKinds
<1> QED  BY <1>1, <1>2, <1>3, <1>4 DEF LoadedMemory

\* The main files of a save that was cut short lead to the archive it made.
LEMMA CutLeadsBack ==
  ASSUME FilesTypeOK, NEW h \in Nat \ {0}, BehindCut(h), Named(Main)
  PROVE  ~LoadSucceeds /\ CountRead = h
<1>1. \A k \in Kinds : Content(k) = disk[k][Main]
  BY DEF Named, Content
<1>2. /\ Kinds = {"data", "world", "chars", "multis"}
      /\ "data" \in ReadKinds /\ "world" \in ReadKinds /\ ReadKinds \subseteq Kinds
  BY OrderFacts DEF ReadKinds
<1>3. ~LoadSucceeds
  BY <1>1, <1>2 DEF LoadSucceeds, BehindCut, Whole
<1>4. \E k \in ReadKinds : HasHeader(Content(k))
  BY <1>1, <1>2 DEF BehindCut, Dated
<1>5. PICK k \in ReadKinds : HasHeader(Content(k)) /\ CountRead = Content(k).count
  BY <1>4, CountReadFrom DEF FilesTypeOK
<1> QED  BY <1>1, <1>2, <1>3, <1>5 DEF BehindCut

LEMMA RecoverLoad ==
  ASSUME FilesTypeOK, RecoverInv, LoadWorld PROVE RecoverInv'
<1> SUFFICES ASSUME latest' # 0 PROVE RecoverInv'
  BY DEF RecoverInv
<1>1. /\ doing = "load" /\ disk' = disk /\ latest' = latest /\ cut' = cut
      /\ latest # 0 /\ cut \in Nat
  BY DEF LoadWorld, LoadDone, LoadPrevious, LoadGivesUp, FilesTypeOK
<1>2. /\ cut <= 1 => FindsLatest /\ OnItsWay
      /\ cut = 0 => AllLatest(Main)
  BY <1>1 DEF RecoverInv
<1>3. CASE LoadDone
  BY <1>1, <1>2, <1>3, SameFinds DEF LoadDone, RecoverInv, Moving, Writing
<1>4. CASE LoadPrevious
  <2>1. /\ ~LoadSucceeds /\ doing' = doing
        /\ names' = [k \in Kinds |-> BackupName(CountRead)]
    BY <1>4 DEF LoadPrevious
  <2>2. ASSUME OnItsWay PROVE OnItsWay'
    <3>1. ~AllLatest(Main)
      BY <2>1, <2>2, LatestLoads, MainIsName DEF OnItsWay
    <3>2. ASSUME NEW h \in Nat \ {0}, BehindCut(h)
          PROVE  Named(BackupName(h))'
      <4>1. BackupName(h) \in Names
        BY ArchiveNames
      <4>2. ~Named(BackupName(h))
        BY <2>1, <3>2, <4>1, LatestLoads DEF BehindCut
      <4>3. Named(Main)
        BY <2>2, <3>2, <4>2 DEF OnItsWay
      <4>4. CountRead = h
        BY <3>2, <4>3, CutLeadsBack
      <4> QED  BY <2>1, <4>4 DEF Named
    <3> QED  BY <3>1, <3>2, <1>1, SameFinds DEF OnItsWay
  <2> QED  BY <2>1, <2>2, <1>1, <1>2, SameFinds DEF RecoverInv, Moving, Writing
<1>5. CASE LoadGivesUp
  <2>1. ~LoadSucceeds /\ doing' = "remove"
    BY <1>5 DEF LoadGivesUp
  <2>2. cut # 0
    BY <2>1, <1>1, <1>2, LatestLoads, MainIsName DEF OnItsWay
  <2> QED  BY <2>1, <2>2, <1>1 DEF RecoverInv, Moving, Writing
<1> QED  BY <1>3, <1>4, <1>5 DEF LoadWorld

LEMMA RecoverBegin ==
  ASSUME FilesTypeOK, RecoverInv, BeginSave PROVE RecoverInv'
<1>1. /\ doing = "run" /\ disk' = disk /\ latest' = latest /\ cut' = cut
      /\ at' = 1 /\ doing' = "remove"
  BY DEF BeginSave
<1>2. \A k \in Kinds : Source(k)' = disk[k][Main]
  BY <1>1, PlaceFacts DEF Source, Gone
<1>3. Restored \subseteq Kinds
  BY OrderFacts DEF Restored
<1>4. AllLatest(Main) => SourcesLatest'
  BY <1>1, <1>2, <1>3 DEF AllLatest, SourcesLatest
<1> QED  BY <1>1, <1>4 DEF RecoverInv, Moving, Writing

\* Removing, renaming and opening files keep what they are the source of, and
\* touch no other archive than that of the count.
LEMMA SourceStays ==
  ASSUME FilesTypeOK, RemoveArchive \/ RenameMain \/ OpenMain
  PROVE  /\ \A k \in Kinds, x \in Names :
              x # Main /\ x # BackupName(saveCount) => disk'[k][x] = disk[k][x]
         /\ Moving' /\ saveCount > 0 =>
              \A k \in Kinds : Source(k)' = Source(k)
<1> DEFINE f == Order[at]
           n == BackupName(saveCount)
<1>1. /\ saveCount' = saveCount /\ saveCount \in Nat
      /\ at \in 1 .. 4 /\ disk \in [Kinds -> [Names -> Contents]]
      /\ Len(Order) = 4
  BY OrderFacts DEF RemoveArchive, RenameMain, OpenMain, Unmoved, FilesTypeOK
<1>2. /\ f \in Kinds /\ Place[f] = at /\ \A k \in Kinds : Place[k] = at => k = f
      /\ \A k \in Kinds : Place[k] \in 1 .. 4
      /\ n \in Names /\ n # Main /\ Main \in Names
  BY <1>1, PlaceFacts, ArchiveNames, MainIsName
<1>3. CASE RemoveArchive
  <2>1. \A j \in Kinds, x \in Names :
          disk'[j][x] = IF j = f /\ x = n THEN None ELSE disk[j][x]
    BY <1>1, <1>2, <1>3, Put DEF RemoveArchive
  <2>2. doing = "remove" /\ at' = at
    BY <1>3 DEF RemoveArchive
  <2>3. ASSUME saveCount > 0, NEW k \in Kinds PROVE Source(k)' = Source(k)
    <3>1. doing' = "rename"
      BY <2>3, <1>3 DEF RemoveArchive
    <3>2. (Gone(k)' <=> Gone(k)) /\ (Gone(k) => k # f)
      BY <2>2, <3>1, <1>1, <1>2 DEF Gone
    <3> QED  BY <2>1, <3>2, <1>1, <1>2 DEF Source
  <2> QED  BY <2>1, <2>3
<1>4. CASE RenameMain
  <2>1. \A j \in Kinds, x \in Names :
          disk'[j][x] = IF j = f /\ x = Main THEN None
                        ELSE IF j = f /\ x = n THEN disk[f][Main]
                        ELSE disk[j][x]
    BY <1>1, <1>2, <1>4 DEF RenameMain
  <2>2. doing = "rename" /\ doing' = "open" /\ at' = at
    BY <1>4 DEF RenameMain
  <2>3. ASSUME saveCount > 0, NEW k \in Kinds PROVE Source(k)' = Source(k)
    <3>1. (Gone(k)' <=> Gone(k) \/ k = f) /\ (Gone(k) => k # f)
      BY <2>2, <1>1, <1>2 DEF Gone
    <3> QED  BY <2>1, <2>3, <3>1, <1>1, <1>2 DEF Source
  <2> QED  BY <2>1, <2>3
<1>5. CASE OpenMain
  <2>1. \A j \in Kinds, x \in Names :
          disk'[j][x] = IF j = f /\ x = Main THEN Opened(started)
                        ELSE disk[j][x]
    BY <1>1, <1>2, <1>5, Put DEF OpenMain
  <2>2. ASSUME Moving', saveCount > 0, NEW k \in Kinds
        PROVE  Source(k)' = Source(k)
    <3>1. doing = "open" /\ at < 4 /\ doing' = "remove" /\ at' = at + 1
      BY <2>2, <1>1, <1>5 DEF OpenMain, Moving
    <3>2. (Gone(k)' <=> Gone(k)) /\ Gone(f)
      BY <3>1, <1>1, <1>2 DEF Gone
    <3> QED  BY <2>1, <2>2, <3>2, <1>1, <1>2 DEF Source
  <2> QED  BY <2>1, <2>2
<1> QED  BY <1>3, <1>4, <1>5

LEMMA SourcesKept ==
  ASSUME FilesTypeOK, NEW m \in Nat, FilesAt(m),
         RemoveArchive \/ RenameMain \/ OpenMain, Moving', SourcesLatest
  PROVE  SourcesLatest'
<1> DEFINE f == Order[at]
<1>1. /\ saveCount' = saveCount /\ latest' = latest /\ saveCount \in Nat
      /\ at \in 1 .. 4 /\ disk \in [Kinds -> [Names -> Contents]]
      /\ Len(Order) = 4
  BY OrderFacts DEF RemoveArchive, RenameMain, OpenMain, Unmoved, FilesTypeOK
<1>2. /\ f \in Kinds /\ BackupName(saveCount) # Main /\ Main \in Names
      /\ BackupName(saveCount) \in Names /\ Restored \subseteq Kinds
  BY <1>1, PlaceFacts, ArchiveNames, MainIsName, OrderFacts DEF Restored
<1>3. CASE saveCount > 0
  <2>1. at' \in Nat
    BY <1>1 DEF RemoveArchive, RenameMain, OpenMain
  <2>2. \A k \in Restored : Source(k)' = Source(k)
    BY <1>2, <1>3, SourceStays
  <2> QED  BY <2>2, <1>1, <1>3 DEF SourcesLatest
<1>4. CASE saveCount = 0
  <2>1. ~RenameMain
    BY <1>4 DEF RenameMain, FilesAt, MoveInv, Moving
  <2>2. SUFFICES ASSUME at' <= 2, NEW k \in Restored
                 PROVE  at <= 2 /\ disk'[k][Main] = disk[k][Main]
    BY <2>2, <1>1, <1>2, <1>4 DEF SourcesLatest, Source
  <2>3. CASE RemoveArchive
    BY <2>2, <2>3, <1>1, <1>2 DEF RemoveArchive
  <2>4. CASE OpenMain
    <3>1. at = 1 /\ f = "data"
      BY <2>2, <2>4, <1>1, OrderFacts DEF OpenMain, Moving
    <3>2. k # f
      BY <3>1, <2>2 DEF Restored
    <3> QED  BY <3>1, <3>2, <2>2, <2>4, <1>1, <1>2 DEF OpenMain
  <2> QED  BY <2>1, <2>3, <2>4
<1> QED  BY <1>1, <1>3, <1>4

\* The last end mark makes all main files those of the save just done.
LEMMA EndMarks ==
  ASSUME FilesTypeOK, NEW m \in Nat, FilesAt(m), WriteEof, at = 4
  PROVE  \A k \in Kinds : /\ IsWhole(disk'[k][Main])
                          /\ disk'[k][Main].save = started
                          /\ disk'[k][Main].count = saveCount
<1> DEFINE f == Order[at]
<1>1. /\ doing = "end" /\ disk \in [Kinds -> [Names -> Contents]]
      /\ \A k \in Kinds : disk[k][Main] = Written(k)
  BY DEF WriteEof, FilesTypeOK, FilesAt, WriteInv, Writing
<1>2. /\ f \in Kinds /\ Main \in Names
      /\ \A k \in Kinds : Place[k] \in 1 .. 4 /\ (Place[k] = at => k = f)
  BY PlaceFacts, MainIsName
<1> SUFFICES ASSUME NEW k \in Kinds
             PROVE  /\ IsWhole(disk'[k][Main])
                    /\ disk'[k][Main].save = started
                    /\ disk'[k][Main].count = saveCount
  OBVIOUS
<1>3. disk[k][Main].save = started /\ disk[k][Main].count = saveCount
  <2>1. Headed(k)
    BY <1>1 DEF Headed
  <2>2. Written(k).save = started /\ Written(k).count = saveCount
    BY <2>1 DEF Written
  <2> QED  BY <2>2, <1>1
<1>4. CASE k = f
  <2>1. disk'[k][Main] = [disk[k][Main] EXCEPT !.state = "whole"]
    BY <1>1, <1>2, <1>4 DEF WriteEof
  <2>2. disk[k][Main] \in Contents
    BY <1>1, <1>2
  <2> QED  BY <2>1, <2>2, <1>3 DEF Contents, IsWhole
<1>5. CASE k # f
  <2>1. Place[k] < at
    BY <1>2, <1>5
  <2>2. disk'[k][Main] = disk[k][Main]
    BY <1>1, <1>2, <1>5 DEF WriteEof
  <2>3. IsWhole(Written(k))
    BY <2>1, <1>1 DEF Written, Ended, IsWhole
  <2> QED  BY <2>2, <2>3, <1>1, <1>3
<1> QED  BY <1>4, <1>5

LEMMA RecoverMove ==
  ASSUME FilesTypeOK, NEW m \in Nat, FilesAt(m), RecoverInv,
         RemoveArchive \/ RenameMain \/ OpenMain
  PROVE  RecoverInv'
<1>1. /\ Moving /\ latest' = latest /\ cut' = cut /\ saveCount' = saveCount
      /\ doing' \in {"remove", "rename", "open", "head"}
  BY DEF Moving, RemoveArchive, RenameMain, OpenMain, Unmoved
<1>2. CASE doing' # "head"
  <2>1. Moving'
    BY <1>1, <1>2 DEF Moving
  <2> QED  BY <2>1, <1>1, <1>2, SourcesKept DEF RecoverInv, Moving, Writing
<1>3. CASE doing' = "head"
  <2> DEFINE f == Order[at]
             n == BackupName(saveCount)
  <2>1. OpenMain /\ at = 4 /\ f \in Kinds
    BY <1>3, OrderFacts, PlaceFacts
       DEF RemoveArchive, RenameMain, OpenMain, FilesTypeOK
  <2>2. doing = "open" /\ disk' = [disk EXCEPT ![f][Main] = Opened(started)]
    BY <2>1 DEF OpenMain
  <2>3. saveCount \in Nat /\ disk \in [Kinds -> [Names -> Contents]]
    BY DEF FilesTypeOK
  <2>4. n \in Names /\ n # Main /\ Main \in Names /\ Restored \subseteq Kinds
    BY <2>3, ArchiveNames, MainIsName, OrderFacts DEF Restored
  <2>5. ASSUME saveCount > 0, SourcesLatest PROVE AllLatest(BackupName(saveCount))'
    <3>1. \A k \in Kinds : Gone(k)
      BY <2>1, <2>2, PlaceFacts DEF Gone
    <3>2. \A k \in Restored : IsWhole(disk[k][n]) /\ disk[k][n].save = latest
      BY <3>1, <2>4, <2>5 DEF SourcesLatest, Source
    <3>3. \A k \in Kinds : disk'[k][n] = disk[k][n]
      BY <2>1, <2>2, <2>3, <2>4, Put
    <3> QED  BY <3>2, <3>3, <2>4, <1>1 DEF AllLatest
  <2> QED  BY <2>5, <1>1, <1>3 DEF RecoverInv, Moving, Writing
<1> QED  BY <1>2, <1>3

LEMMA WrittenParts ==
  ASSUME NEW k
  PROVE  /\ Written(k).save = started
         /\ HasHeader(Written(k)) => Written(k).count = saveCount
         /\ IsWhole(Written(k)) => Ended(k)
<1>1. HasHeader(Written(k)) => Headed(k)
  BY DEF Written, HasHeader, Headed, Ended
<1>2. Headed(k) => Written(k).count = saveCount
  BY DEF Written
<1>3. Written(k).save = started
  BY DEF Written
<1>4. IsWhole(Written(k)) => Ended(k)
  BY DEF Written, IsWhole
<1> QED  BY <1>1, <1>2, <1>3, <1>4

LEMMA RecoverWrite ==
  ASSUME FilesTypeOK, NEW m \in Nat, FilesAt(m), RecoverInv,
         WriteHeader \/ WriteWorld \/ WriteEof
  PROVE  RecoverInv'
<1> DEFINE f == Order[at]
           n == BackupName(saveCount)
<1>1. /\ Writing /\ saveCount \in Nat /\ at \in 1 .. 4 /\ Len(Order) = 4
      /\ disk \in [Kinds -> [Names -> Contents]]
      /\ \A k \in Kinds : disk[k][Main] = Written(k)
  BY OrderFacts DEF WriteHeader, WriteWorld, WriteEof, FilesTypeOK, FilesAt,
     WriteInv, Writing
<1>2. /\ f \in Kinds /\ Place[f] = at /\ \A k \in Kinds : Place[k] = at => k = f
      /\ \A k \in Kinds : Place[k] \in 1 .. 4
      /\ n \in Names /\ n # Main /\ Main \in Names /\ Restored \subseteq Kinds
  BY <1>1, PlaceFacts, ArchiveNames, MainIsName, OrderFacts DEF Restored
<1>3. \A k \in Kinds : disk'[k][n] = disk[k][n]
  BY <1>1, <1>2 DEF WriteHeader, WriteWorld, WriteEof
<1>4. CASE Writing'
  <2>1. latest' = latest /\ cut' = cut /\ saveCount' = saveCount
    BY <1>1, <1>4 DEF WriteHeader, WriteWorld, WriteEof, Unmoved, Writing
  <2>2. AllLatest(BackupName(saveCount)) => AllLatest(BackupName(saveCount))'
    BY <2>1, <1>2, <1>3 DEF AllLatest
  <2>3. doing' \notin {"load", "run"} /\ ~Moving'
    BY <1>4 DEF Writing, Moving
  <2> QED  BY <2>1, <2>2, <2>3, <1>1 DEF RecoverInv
<1>5. CASE ~Writing'
  <2>1. /\ WriteEof /\ at = 4 /\ doing = "end" /\ doing' = "run"
        /\ latest' = started /\ cut' = 0
    BY <1>1, <1>5 DEF WriteHeader, WriteWorld, WriteEof, Writing, Unmoved
  <2>2. \A k \in Kinds : IsWhole(disk'[k][Main]) /\ disk'[k][Main].save = started
    BY <2>1, EndMarks
  <2>3. AllLatest(Main)'
    BY <2>1, <2>2, <1>2 DEF AllLatest
  <2> QED  BY <2>1, <2>3 DEF RecoverInv, FindsLatest, Moving, Writing
<1> QED  BY <1>4, <1>5

LEMMA RecoverStop ==
  ASSUME FilesTypeOK, NEW m \in Nat, FilesAt(m), RecoverInv, Crash \/ Stop
  PROVE  RecoverInv'
<1> SUFFICES ASSUME latest' # 0 PROVE RecoverInv'
  BY DEF RecoverInv
<1>1. /\ doing' = "load" /\ Named(Main)' /\ disk' = disk /\ latest' = latest
      /\ doing \in Steps /\ latest # 0 /\ cut \in Nat /\ saveCount \in Nat
      /\ at \in 1 .. 4
      /\ cut' = IF doing \in {"load", "run"} THEN cut ELSE cut + 1
  BY OrderFacts DEF Crash, Stop, StartServer, Named, FilesTypeOK
<1>2. OnItsWay'
  BY <1>1 DEF OnItsWay
<1>3. ~Moving' /\ ~Writing'
  BY <1>1 DEF Moving, Writing
<1>4. CASE doing \in {"load", "run"}
  BY <1>1, <1>2, <1>3, <1>4, SameFinds DEF RecoverInv
<1>5. CASE doing \notin {"load", "run"}
  <2>1. SUFFICES ASSUME cut = 0 PROVE FindsLatest
    BY <1>1, <1>2, <1>3, <1>5, <2>1, SameFinds DEF RecoverInv
  <2>2. /\ "data" \in Kinds /\ "world" \in Kinds /\ "multis" \in Kinds
        /\ Restored \subseteq Kinds /\ "world" \in Restored
        /\ Restored = {"world", "chars", "multis"}
        /\ Place["data"] = 1 /\ Place["world"] = 2
        /\ Place["chars"] = 3 /\ Place["multis"] = 4
    BY OrderFacts, PlaceFacts DEF Restored
  <2>3. CASE Moving
    <3>1. SourcesLatest /\ MoveInv(m)
      BY <2>1, <2>3, <1>1 DEF RecoverInv, FilesAt
    <3>2. CASE saveCount = 0 /\ at <= 2
      BY <3>1, <3>2 DEF SourcesLatest, Source, AllLatest, FindsLatest
    <3>3. CASE saveCount > 0 /\ ~Gone("world")
      <4>1. \A k \in Restored : ~Gone(k)
        BY <3>3, <2>2, <1>1 DEF Gone
      <4> QED  BY <4>1, <3>1, <3>3
                 DEF SourcesLatest, Source, AllLatest, FindsLatest
    <3>4. CASE (saveCount = 0 /\ at > 2) \/ (saveCount > 0 /\ Gone("world"))
      <4>1. ~HasHeader(disk["data"][Main])
        BY <3>1, <3>4, <2>2, <2>3, <1>1, NoHeader DEF MoveInv, Gone
      <4>2. ~HasHeader(disk["world"][Main])
        BY <3>1, <3>4, <2>2, <2>3, <1>1, NoHeader DEF MoveInv, Gone
      <4> QED  BY <4>1, <4>2 DEF FindsLatest, Dated, Whole, HasHeader, IsWhole
    <3> QED  BY <3>2, <3>3, <3>4, <1>1
  <2>4. CASE Writing
    <3>1. \A k \in Kinds : disk[k][Main] = Written(k)
      BY <2>4 DEF FilesAt, WriteInv
    <3>2. ~Whole
      <4>1. ~Ended("multis")
        BY <2>2, <1>1 DEF Ended
      <4> QED  BY <4>1, <3>1, <2>2, WrittenParts DEF Whole
    <3>3. ASSUME NEW k \in Kinds, HasHeader(disk[k][Main])
          PROVE  disk[k][Main].count = saveCount
      BY <3>1, <3>3, WrittenParts
    <3>4. CASE ~Dated
      BY <3>2, <3>4 DEF FindsLatest
    <3>5. CASE Dated
      <4>1. saveCount > 0
        BY <3>3, <3>5, <2>2 DEF Dated
      <4>2. BehindCut(saveCount)
        BY <3>2, <3>3, <3>5, <4>1, <2>1, <2>4, <1>1 DEF RecoverInv, BehindCut
      <4> QED  BY <4>1, <4>2, <1>1 DEF FindsLatest
    <3> QED  BY <3>4, <3>5
  <2> QED  BY <2>3, <2>4, <1>1, <1>5 DEF Steps, Moving, Writing
<1> QED  BY <1>4, <1>5

LEMMA RecoverNext ==
  ASSUME FilesTypeOK, DiskInv, RecoverInv, [FilesNext]_fileVars
  PROVE  RecoverInv'
<1>1. PICK m \in Nat : FilesAt(m)
  BY DEF DiskInv
<1>2. CASE UNCHANGED fileVars
  <2>1. /\ \A k : Source(k)' = Source(k)
        /\ \A n : Named(n)' <=> Named(n)
    BY <1>2 DEF fileVars, Source, Gone, Named
  <2>2. (OnItsWay' <=> OnItsWay) /\ (SourcesLatest' <=> SourcesLatest)
    BY <2>1, <1>2, SameFinds DEF fileVars, OnItsWay, SourcesLatest
  <2> QED  BY <2>2, <1>2, SameFinds DEF fileVars, RecoverInv, Moving, Writing
<1> QED  BY <1>1, <1>2, RecoverLoad, RecoverBegin, RecoverMove, RecoverWrite,
           RecoverStop DEF FilesNext, SaveStep

\* Unless two saves in a row were cut short, a restart loads the last save that
\* was written to its end, from the main files or from the archive their headers
\* name (LoadWorld, GetBackupName).
THEOREM RecoversLatestAlways == FilesSpec => RecoversLatest
<1>1. FilesInit => RecoverInv
  BY DEF FilesInit, RecoverInv
<1>2. ASSUME FilesTypeOK, RecoverInv, [FilesNext]_fileVars,
             doing = "load", doing' # "load", latest # 0, cut <= 1,
             Whole \/ Dated
      PROVE  \A k \in Restored : memory'[k] = latest
  <2>1. LoadDone \/ LoadGivesUp
    BY <1>2 DEF FilesNext, LoadWorld, LoadPrevious, BeginSave,
       SaveStep, RemoveArchive, RenameMain, OpenMain, WriteHeader, WriteWorld,
       WriteEof, Crash, Stop, StartServer, fileVars
  <2>2. /\ LoadDone => LoadSucceeds /\ memory' = LoadedMemory
        /\ LoadGivesUp => /\ ~LoadSucceeds
                          /\ CountRead = 0 \/ \E k \in Kinds : names[k] = BackupName(CountRead)
    BY DEF LoadDone, LoadGivesUp
  <2>3. FindsLatest /\ OnItsWay
    BY <1>2 DEF RecoverInv
  <2>4. CASE AllLatest(Main)
    <3>1. LoadSucceeds /\ \A k \in Restored : LoadedMemory[k] = latest
      BY <2>3, <2>4, LatestLoads, MainIsName DEF OnItsWay
    <3> QED  BY <3>1, <2>1, <2>2
  <2>5. ASSUME NEW h \in Nat \ {0}, BehindCut(h)
        PROVE  \A k \in Restored : memory'[k] = latest
    <3>1. BackupName(h) \in Names /\ BackupName(h) # Main
      BY ArchiveNames
    <3>2. CASE Named(BackupName(h))
      <4>1. LoadSucceeds /\ \A k \in Restored : LoadedMemory[k] = latest
        BY <3>1, <3>2, <2>5, LatestLoads DEF BehindCut
      <4> QED  BY <4>1, <2>1, <2>2
    <3>3. CASE Named(Main)
      <4>1. ~LoadSucceeds /\ CountRead = h
        BY <3>3, <2>5, <1>2, CutLeadsBack
      <4>2. \A k \in Kinds : names[k] # BackupName(h)
        BY <3>1, <3>3 DEF Named
      <4> QED  BY <4>1, <4>2, <2>1, <2>2, <2>5
    <3> QED  BY <3>2, <3>3, <2>3, <2>5 DEF OnItsWay
  <2> QED  BY <2>3, <2>4, <2>5, <1>2 DEF FindsLatest
<1>3. ASSUME FilesTypeOK, RecoverInv, [FilesNext]_fileVars
      PROVE  [doing = "load" /\ doing' # "load" /\ latest # 0 /\ cut <= 1
                /\ (Whole \/ Dated) =>
                \A k \in {"world", "chars", "multis"} : memory'[k] = latest]_fileVars
  BY <1>2, <1>3 DEF Restored
<1> QED  BY <1>1, <1>3, RecoverNext, FilesInvariant, PTL
           DEF FilesSpec, RecoversLatest

-----------------------------------------------------------------------------
(* The backups that the archives keep (GetBackupName), if the process is   *)
(* not killed while it saves.                                              *)

\* Two counts get one name only if they lie eight times their weight apart.
LEMMA NamesRepeat ==
  ASSUME NEW c \in Nat \ {0}, NEW d \in Nat \ {0}, c < d,
         BackupName(c) = BackupName(d)
  PROVE  d - c >= 8 * Octal[Group(c)]
<1> DEFINE p == Octal[Group(c)]
<1>1. Group(d) = Group(c) /\ (c \div p) % 8 = (d \div p) % 8
  BY DEF BackupName
<1>2. p \in Nat \ {0} /\ c % p = 0 /\ d % p = 0
  <2>1. /\ Group(c) \in 0 .. BackupLevels /\ BackupLevels \in Nat
        /\ c % Octal[Group(c)] = 0 /\ d % Octal[Group(d)] = 0
    BY GroupExists, LevelsAssumption
  <2>2. Group(c) \in Nat
    BY <2>1
  <2> QED  BY <2>1, <2>2, <1>1, OctalWeights
<1> HIDE DEF p
<1>3. /\ c = p * (c \div p) /\ c \div p \in Nat
      /\ d = p * (d \div p) /\ d \div p \in Nat
  BY <1>2, Divide
<1>4. d - c >= 8 * p
  <2> DEFINE a == c \div p
             b == d \div p
  <2>1. a \in Nat /\ b \in Nat /\ p * a < p * b /\ a % 8 = b % 8
    BY <1>1, <1>3
  <2> HIDE DEF a, b
  <2>2. p * b - p * a >= 8 * p
    BY <2>1, <1>2, Multiples
  <2> QED  BY <2>2, <1>3 DEF a, b
<1> QED  BY <1>4 DEF p

\* Nothing is saved to the name of a count that is kept.
LEMMA KeptNameFree ==
  ASSUME NEW d \in Nat, NEW c \in 1 .. d - 1, d - c < 8 * Octal[Group(c)]
  PROVE  BackupName(c) # BackupName(d)
<1>1. c \in Nat \ {0} /\ d \in Nat \ {0} /\ c < d
  OBVIOUS
<1>2. Octal[Group(c)] \in Nat
  BY <1>1, GroupExists, LevelsAssumption, OctalWeights
<1> QED  BY <1>1, <1>2, NamesRepeat

FileIs(f, s, h) == IsWhole(f) /\ f.save = s /\ f.count = h

\* The current files are those of the last save that was started, and the
\* archives hold the backups before it.
AtRest(h) ==
  /\ started >= 1
  /\ \A k \in Kinds : FileIs(disk[k][Main], started, h)
  /\ KeptUpTo(h)

NewShard == started = 0 /\ \A k \in Kinds : disk[k][Main] = None

\* The backups that a save under way leaves alone.
KeptBelow ==
  \A c \in 1 .. saveCount - 1 : saveCount - c < 8 * Octal[Group(c)] => Backup(c)

\* The files that are being moved to the archive of the count.
SourcesWhole == saveCount > 0 =>
  /\ started >= 2
  /\ \E h \in {saveCount - 1, saveCount} :
       \A k \in Kinds : FileIs(Source(k), started - 1, h)

KeptInv == Uncut =>
  /\ doing = "load" => /\ saveCount = 0 /\ Named(Main)
                       /\ NewShard \/ \E h \in Nat : AtRest(h)
  /\ doing = "run" => \E h \in Nat : AtRest(h) /\ saveCount \in {h, h + 1}
  /\ Moving => started >= 1 /\ KeptBelow /\ SourcesWhole
  /\ Writing => started >= 1 /\ KeptUpTo(saveCount)

LEMMA BackupStays ==
  ASSUME NEW c, Backup(c), started \in Nat, started' \in Nat, started <= started',
         \A k \in Kinds : disk'[k][BackupName(c)] = disk[k][BackupName(c)]
  PROVE  Backup(c)'
<1>1. PICK s \in 1 .. started : WholeSet(BackupName(c), s)
  BY DEF Backup
<1>2. s \in 1 .. started' /\ WholeSet(BackupName(c), s)'
  BY <1>1 DEF WholeSet
<1>3. \A k \in Kinds : disk'[k][BackupName(c)].count \in {c - 1, c}
  BY DEF Backup
<1>4. \E t \in 1 .. started' : WholeSet(BackupName(c), t)'
  BY <1>2
<1> QED  BY <1>3, <1>4 DEF Backup

LEMMA KeptStays ==
  ASSUME disk' = disk, started \in Nat, started' \in Nat, started <= started'
  PROVE  \A c : Backup(c) => Backup(c)'
  BY BackupStays

\* A load finds the files as the last save left them, or none at all.
LEMMA KeptLoad ==
  ASSUME FilesTypeOK, Uncut, KeptInv, LoadWorld
  PROVE  KeptInv'
<1>1. /\ doing = "load" /\ disk' = disk /\ saveCount = 0 /\ Named(Main)
      /\ NewShard \/ \E h \in Nat : AtRest(h)
      /\ started \in Nat /\ disk \in [Kinds -> [Names -> Contents]]
      /\ names \in [Kinds -> Names]
  BY DEF LoadWorld, LoadDone, LoadPrevious, LoadGivesUp, KeptInv, FilesTypeOK
<1>2. \A k \in Kinds : Content(k) = disk[k][Main]
  BY <1>1 DEF Named, Content
<1>3. CASE NewShard
  <2>1. \A k \in Kinds : ~HasHeader(Content(k)) /\ ~IsWhole(Content(k))
    BY <1>2, <1>3 DEF NewShard, HasHeader, IsWhole, None
  <2>2. ~LoadSucceeds /\ CountRead = 0
    <3>1. ~LoadSucceeds
      BY <2>1, OrderFacts DEF LoadSucceeds
    <3>2. \A k \in ReadKinds : ~HasHeader(Content(k))
      BY <2>1 DEF ReadKinds
    <3> QED  BY <3>1, <3>2, <1>1, CountReadFrom
  <2>3. /\ saveCount' = 0 /\ doing' = "remove" /\ started' = 1
    BY <2>2, <1>3 DEF LoadWorld, LoadDone, LoadPrevious, LoadGivesUp, NewShard
  <2> QED  BY <2>3 DEF KeptInv, Moving, Writing, KeptBelow, SourcesWhole
<1>4. ASSUME NEW h \in Nat, AtRest(h) PROVE KeptInv'
  <2>1. \A k \in Kinds : /\ IsWhole(Content(k)) /\ HasHeader(Content(k))
                         /\ Content(k).count = h
    BY <1>2, <1>4 DEF AtRest, FileIs, IsWhole, HasHeader
  <2>2. LoadSucceeds /\ ReadKinds = Kinds
    BY <2>1, OrderFacts DEF LoadSucceeds, ReadKinds
  <2>3. CountRead = h
    BY <2>1, <2>2, <1>1, OrderFacts, CountReadFrom
  <2>4. /\ doing' = "run" /\ saveCount' = h /\ started' = started
    BY <2>2, <2>3 DEF LoadWorld, LoadDone, LoadPrevious, LoadGivesUp
  <2>5. AtRest(h)'
    BY <2>4, <1>1, <1>4, KeptStays DEF AtRest, KeptUpTo
  <2> QED  BY <2>4, <2>5 DEF KeptInv, Moving, Writing
<1> QED  BY <1>1, <1>3, <1>4

LEMMA KeptBegin ==
  ASSUME FilesTypeOK, Uncut, KeptInv, BeginSave
  PROVE  KeptInv'
<1>1. /\ doing = "run" /\ disk' = disk /\ at' = 1 /\ doing' = "remove"
      /\ saveCount' = saveCount /\ started' = started + 1
      /\ started \in Nat /\ saveCount \in Nat
  BY DEF BeginSave, FilesTypeOK
<1>2. PICK h \in Nat : AtRest(h) /\ saveCount \in {h, h + 1}
  BY <1>1 DEF KeptInv
<1>3. \A k \in Kinds : Source(k)' = disk[k][Main]
  BY <1>1, PlaceFacts DEF Source, Gone
<1>4. SourcesWhole'
  <2>1. \A k \in Kinds : FileIs(Source(k)', started' - 1, h)
    BY <1>1, <1>2, <1>3 DEF AtRest
  <2> QED  BY <2>1, <1>1, <1>2 DEF AtRest, SourcesWhole
<1>5. KeptBelow'
  <2>1. SUFFICES ASSUME NEW c \in 1 .. saveCount - 1,
                        saveCount - c < 8 * Octal[Group(c)]
                 PROVE  Backup(c)'
    BY <2>1, <1>1 DEF KeptBelow
  <2>2. c \in 1 .. h /\ h - c <= saveCount - c
    BY <2>1, <1>1, <1>2
  <2>3. Octal[Group(c)] \in Nat
    BY <2>2, GroupExists, LevelsAssumption, OctalWeights
  <2>4. Backup(c)
    BY <2>1, <2>2, <2>3, <1>1, <1>2 DEF AtRest, KeptUpTo
  <2> QED  BY <2>4, <1>1, KeptStays
<1> QED  BY <1>1, <1>2, <1>4, <1>5 DEF KeptInv, Moving, Writing, AtRest

LEMMA KeptMove ==
  ASSUME FilesTypeOK, Uncut, KeptInv,
         RemoveArchive \/ RenameMain \/ OpenMain
  PROVE  KeptInv'
<1> DEFINE n == BackupName(saveCount)
<1>1. /\ Moving /\ saveCount' = saveCount /\ started' = started
      /\ started \in Nat /\ saveCount \in Nat /\ Len(Order) = 4
      /\ doing' \in {"remove", "rename", "open", "head"}
      /\ disk \in [Kinds -> [Names -> Contents]]
  BY OrderFacts DEF RemoveArchive, RenameMain, OpenMain, Unmoved, Moving, FilesTypeOK
<1>2. started >= 1 /\ KeptBelow /\ SourcesWhole
  BY <1>1 DEF KeptInv
<1>3. KeptBelow'
  <2>1. SUFFICES ASSUME NEW c \in 1 .. saveCount - 1,
                        saveCount - c < 8 * Octal[Group(c)]
                 PROVE  Backup(c)'
    BY <2>1, <1>1 DEF KeptBelow
  <2>2. BackupName(c) \in Names /\ BackupName(c) # Main /\ BackupName(c) # n
    BY <2>1, <1>1, ArchiveNames, KeptNameFree
  <2>3. \A k \in Kinds : disk'[k][BackupName(c)] = disk[k][BackupName(c)]
    BY <2>2, SourceStays
  <2>4. Backup(c)
    BY <2>1, <1>2 DEF KeptBelow
  <2> QED  BY <2>3, <2>4, <1>1, BackupStays
<1>4. CASE Moving'
  <2>1. SourcesWhole'
    BY <1>1, <1>2, <1>4, SourceStays DEF SourcesWhole
  <2> QED  BY <2>1, <1>1, <1>2, <1>3, <1>4 DEF KeptInv, Moving, Writing
<1>5. CASE doing' = "head"
  <2>1. OpenMain /\ at = 4 /\ doing = "open"
    BY <1>1, <1>5, OrderFacts DEF RemoveArchive, RenameMain, OpenMain, FilesTypeOK
  <2>2. ASSUME saveCount > 0 PROVE Backup(saveCount)'
    <3>1. n \in Names /\ n # Main /\ Main \in Names /\ Order[at] \in Kinds
      BY <2>1, <1>1, ArchiveNames, MainIsName, PlaceFacts
    <3>2. \A k \in Kinds : Source(k) = disk[k][n]
      BY <2>1, <2>2, PlaceFacts DEF Source, Gone
    <3>3. \A k \in Kinds : disk'[k][n] = disk[k][n]
      BY <3>1, <2>1, <1>1, Put DEF OpenMain
    <3>4. PICK h \in {saveCount - 1, saveCount} :
            \A k \in Kinds : FileIs(disk'[k][n], started - 1, h)
      BY <3>2, <3>3, <2>2, <1>2 DEF SourcesWhole
    <3>5. ASSUME NEW s, s = started - 1
          PROVE  s \in 1 .. started' /\ WholeSet(n, s)'
      BY <3>4, <3>5, <2>2, <1>1, <1>2 DEF SourcesWhole, FileIs, WholeSet
    <3>6. \A k \in Kinds : disk'[k][n].count \in {saveCount - 1, saveCount}
      BY <3>4 DEF FileIs
    <3>7. \E s \in 1 .. started' : WholeSet(n, s)'
      <4>1. \A s : s = started - 1 => s \in 1 .. started' /\ WholeSet(n, s)'
        BY <3>5
      <4> QED  BY <4>1
    <3> QED  BY <3>6, <3>7, <1>1 DEF Backup
  <2>3. KeptUpTo(saveCount)'
    <3>1. ASSUME NEW c \in 1 .. saveCount, saveCount - c < 8 * Octal[Group(c)]
          PROVE  Backup(c)'
      <4>1. CASE c = saveCount
        BY <4>1, <2>2, <1>1
      <4>2. CASE c # saveCount
        BY <4>2, <3>1, <1>1, <1>3 DEF KeptBelow
      <4> QED  BY <4>1, <4>2
    <3> QED  BY <3>1, <1>1 DEF KeptUpTo
  <2> QED  BY <2>3, <1>1, <1>2, <1>5 DEF KeptInv, Moving, Writing
<1> QED  BY <1>1, <1>4, <1>5 DEF Moving

LEMMA KeptWrite ==
  ASSUME FilesTypeOK, NEW m \in Nat, FilesAt(m),
         Uncut, KeptInv,
         WriteHeader \/ WriteWorld \/ WriteEof
  PROVE  KeptInv'
<1>1. /\ Writing /\ started' = started /\ started \in Nat /\ saveCount \in Nat
      /\ at \in 1 .. 4 /\ disk \in [Kinds -> [Names -> Contents]] /\ Len(Order) = 4
  BY OrderFacts DEF WriteHeader, WriteWorld, WriteEof, Unmoved, Writing, FilesTypeOK
<1>2. started >= 1 /\ KeptUpTo(saveCount)
  BY <1>1 DEF KeptInv
<1>3. \A k \in Kinds, x \in Names : x # Main => disk'[k][x] = disk[k][x]
  <2>1. Order[at] \in Kinds /\ Main \in Names
    BY <1>1, PlaceFacts, MainIsName
  <2> QED  BY <2>1, <1>1 DEF WriteHeader, WriteWorld, WriteEof
<1>4. \A c \in 1 .. saveCount : Backup(c) => Backup(c)'
  <2>1. \A c \in 1 .. saveCount : BackupName(c) \in Names /\ BackupName(c) # Main
    BY <1>1, ArchiveNames
  <2> QED  BY <2>1, <1>1, <1>3, BackupStays
<1>5. \A c \in 1 .. saveCount : saveCount - c < 8 * Octal[Group(c)] => Backup(c)'
  BY <1>2, <1>4 DEF KeptUpTo
<1>6. CASE Writing'
  <2>1. saveCount' = saveCount
    BY <1>1, <1>6 DEF WriteHeader, WriteWorld, WriteEof, Unmoved, Writing
  <2> QED  BY <2>1, <1>1, <1>2, <1>5, <1>6 DEF KeptInv, KeptUpTo, Moving, Writing
<1>7. CASE ~Writing'
  <2>1. WriteEof /\ at = 4 /\ doing' = "run" /\ saveCount' = saveCount + 1
    BY <1>1, <1>7 DEF WriteHeader, WriteWorld, WriteEof, Writing, Unmoved
  <2>2. \A k \in Kinds : FileIs(disk'[k][Main], started, saveCount)
    BY <2>1, EndMarks DEF FileIs
  <2>3. ASSUME NEW h \in Nat, h = saveCount PROVE AtRest(h)'
    <3>1. \A k \in Kinds : FileIs(disk'[k][Main], started', h)
      BY <2>2, <2>3, <1>1
    <3>2. \A c \in 1 .. h : h - c < 8 * Octal[Group(c)] => Backup(c)'
      BY <2>3, <1>5
    <3> QED  BY <3>1, <3>2, <1>1, <1>2 DEF AtRest, KeptUpTo
  <2> QED  BY <2>1, <2>3, <1>1 DEF KeptInv, Moving, Writing
<1> QED  BY <1>6, <1>7

LEMMA KeptStop ==
  ASSUME FilesTypeOK, Uncut, Uncut', KeptInv, Crash \/ Stop
  PROVE  KeptInv'
<1>1. /\ doing \in {"load", "run"} /\ doing' = "load" /\ disk' = disk
      /\ started' = started /\ started \in Nat /\ saveCount' = 0
      /\ names' = [k \in Kinds |-> Main]
  <2>1. crashes \in Nat
    BY BoundsAssumption DEF FilesTypeOK
  <2>2. Crash => doing \in {"load", "run"}
    BY <2>1 DEF Crash, Uncut
  <2> QED  BY <2>2 DEF Crash, Stop, StartServer, FilesTypeOK
<1>2. NewShard \/ \E h \in Nat : AtRest(h)
  BY <1>1 DEF KeptInv
<1>3. (NewShard => NewShard') /\ \A h : AtRest(h) => AtRest(h)'
  BY <1>1, KeptStays DEF NewShard, AtRest, KeptUpTo
<1> QED  BY <1>1, <1>2, <1>3 DEF KeptInv, Named, Moving, Writing

LEMMA KeptInit == FilesInit => KeptInv
  BY MainIsName DEF FilesInit, KeptInv, NewShard, Named, Moving, Writing

\* A process that was killed remains one.
LEMMA KilledOnce ==
  ASSUME FilesTypeOK, [FilesNext]_fileVars, crashes' = 0 PROVE crashes = 0
<1>1. crashes \in Nat
  BY BoundsAssumption DEF FilesTypeOK
<1>2. crashes' = crashes \/ crashes' = crashes + 1
  BY DEF FilesNext, LoadWorld, LoadDone, LoadPrevious, LoadGivesUp, BeginSave,
     SaveStep, RemoveArchive, RenameMain, OpenMain, WriteHeader, WriteWorld,
     WriteEof, Unmoved, Crash, Stop, fileVars
<1> QED  BY <1>1, <1>2

LEMMA KeptNext ==
  ASSUME FilesTypeOK, DiskInv, KeptInv, [FilesNext]_fileVars
  PROVE  KeptInv'
<1>1. SUFFICES ASSUME Uncut' PROVE KeptInv'
  BY DEF KeptInv
<1>2. Uncut
  BY <1>1, KilledOnce DEF Uncut
<1>4. PICK m \in Nat : FilesAt(m)
  BY DEF DiskInv
<1>3. CASE UNCHANGED fileVars
  <2>1. /\ \A k : Source(k)' = Source(k)
        /\ \A n : Named(n)' <=> Named(n)
        /\ \A h : KeptUpTo(h)' <=> KeptUpTo(h)
        /\ NewShard' <=> NewShard
        /\ KeptBelow' <=> KeptBelow
    BY <1>3 DEF fileVars, Source, Gone, Named, KeptUpTo, Backup, WholeSet,
       NewShard, KeptBelow
  <2>2. (\A h : AtRest(h)' <=> AtRest(h)) /\ (SourcesWhole' <=> SourcesWhole)
    BY <2>1, <1>3 DEF fileVars, AtRest, SourcesWhole
  <2> QED  BY <2>1, <2>2, <1>2, <1>3 DEF fileVars, KeptInv, Moving, Writing
<1>5. CASE LoadWorld \/ BeginSave
  BY <1>2, <1>5, KeptLoad, KeptBegin
<1>6. CASE SaveStep
  BY <1>2, <1>4, <1>6, KeptMove, KeptWrite DEF SaveStep
<1>7. CASE Crash \/ Stop
  BY <1>1, <1>2, <1>7, KeptStop
<1> QED  BY <1>3, <1>5, <1>6, <1>7 DEF FilesNext

\* If the process is never killed while it saves, each level of the archives has
\* its seven newest backups, whole, whatever restarts set the count back
\* (GetBackupName; "Each level means 7 backups done for it", sphere.ini:173).
THEOREM BackupsKeptAlways == FilesSpec => []BackupsKept
<1>1. ASSUME FilesTypeOK, KeptInv PROVE BackupsKept
  <2>1. SUFFICES ASSUME Uncut, doing = "run"
                 PROVE  KeptUpTo(disk["world"][Main].count)
    BY <2>1 DEF BackupsKept
  <2>2. PICK h \in Nat : AtRest(h)
    BY <1>1, <2>1 DEF KeptInv
  <2>3. disk["world"][Main].count = h
    BY <2>2, OrderFacts DEF AtRest, FileIs
  <2> QED  BY <2>2, <2>3 DEF AtRest
<1> QED  BY <1>1, KeptInit, KeptNext, FilesInvariant, PTL DEF FilesSpec

-----------------------------------------------------------------------------
(* How far LoadWorld goes back.                                            *)

\* The four files under a name, whether a load of them succeeds, and the count
\* that a load of them ends with if it begins with s.
Under(n) == [k \in Kinds |-> disk[k][n]]
Loads(F) == \A k \in Restored : IsWhole(F[k])
Lead(F, s) ==
  IF IsWhole(F["world"]) /\ IsWhole(F["chars"]) /\ HasHeader(F["multis"])
    THEN F["multis"].count
  ELSE IF IsWhole(F["world"]) /\ HasHeader(F["chars"]) THEN F["chars"].count
  ELSE IF HasHeader(F["world"]) THEN F["world"].count
  ELSE IF HasHeader(F["data"]) THEN F["data"].count
  ELSE s

\* From the files F, that are or will be under the name of c, a load goes no
\* further, or to the files G under the name of c + 1, and those are whole.
BackFrom(F, G, c) ==
  \/ Loads(F) /\ Lead(F, c) \in {c - 1, c}
  \/ ~Loads(F) /\ Lead(F, c) = c
  \/ ~Loads(F) /\ Lead(F, c) = c + 1 /\ Loads(G) /\ Lead(G, 0) = c
Back(c) == BackFrom(Under(BackupName(c)), Under(BackupName(c + 1)), c)

\* The main files lead a load to nothing or to the archive of h.
MainLoads == Loads(Under(Main))
First == Lead(Under(Main), 0)
LeadsBack(h) == ~MainLoads /\ First = h /\ Back(h)

\* The headers of the main files, wherever a save has moved them, have one count.
Sources == [k \in Kinds |-> Source(k)]
CountIs(h) == \A k \in Kinds :
  /\ HasHeader(disk[k][Main]) => disk[k][Main].count = h
  /\ Moving /\ HasHeader(Source(k)) => Source(k).count = h
OneCount == ~Writing => \E h \in Nat : CountIs(h)

BackLoading == doing = "load" =>
  \/ /\ Named(Main) /\ saveCount = 0
     /\ MainLoads \/ First = 0 \/ \E h \in Nat \ {0} : LeadsBack(h)
  \/ \E h \in Nat \ {0} : /\ LeadsBack(h)
       /\ \/ Named(BackupName(h)) /\ saveCount = h
          \/ /\ Named(BackupName(h + 1)) /\ saveCount = h + 1
             /\ Loads(Under(BackupName(h + 1)))
             /\ Lead(Under(BackupName(h + 1)), 0) = h

BackRunning == doing = "run" =>
  \/ MainLoads /\ saveCount \in {First, First + 1}
  \/ \E h \in Nat \ {0} : /\ LeadsBack(h)
       /\ \/ saveCount = h
          \/ /\ saveCount = h - 1 /\ Loads(Under(BackupName(h)))
             /\ Lead(Under(BackupName(h)), 0) = h - 1

BackMoving == Moving =>
  /\ \A c \in Nat \ {0} :
       saveCount = c => BackFrom(Sources, Under(BackupName(c + 1)), c)
  /\ \/ MainLoads \/ First = 0
     \/ \E h \in Nat \ {0} : LeadsBack(h) /\ saveCount \in {h - 1, h}

BackWriting == Writing => \A c \in Nat \ {0} : saveCount = c => Back(c)

BackInv == OneCount /\ BackLoading /\ BackRunning /\ BackMoving /\ BackWriting

\* Every header found decides, apart from that of data when world has one.
LEMMA LeadFrom ==
  ASSUME NEW F, NEW s
  PROVE  /\ HasHeader(F["world"]) \/ HasHeader(F["data"]) =>
              /\ \A t : Lead(F, s) = Lead(F, t)
              /\ \E k \in Kinds : HasHeader(F[k]) /\ Lead(F, s) = F[k].count
         /\ ~HasHeader(F["world"]) =>
              /\ ~Loads(F)
              /\ Lead(F, s) = IF HasHeader(F["data"]) THEN F["data"].count ELSE s
<1>1. Restored = {"world", "chars", "multis"}
  BY DEF Restored
<1>2. \A f : IsWhole(f) => HasHeader(f)
  BY DEF IsWhole, HasHeader
<1>3. Kinds = {"data", "world", "chars", "multis"}
  BY OrderFacts
<1>4. ASSUME ~HasHeader(F["world"])
      PROVE  /\ ~Loads(F)
             /\ Lead(F, s) = IF HasHeader(F["data"]) THEN F["data"].count ELSE s
  BY <1>1, <1>2, <1>4 DEF Loads, Lead
<1>5. ASSUME HasHeader(F["world"]) \/ HasHeader(F["data"])
      PROVE  /\ \A t : Lead(F, s) = Lead(F, t)
             /\ \E k \in Kinds : HasHeader(F[k]) /\ Lead(F, s) = F[k].count
  BY <1>3, <1>5 DEF Lead
<1> QED  BY <1>4, <1>5

LEMMA LeadSame ==
  ASSUME NEW F, NEW G, NEW s, \A k \in Restored : F[k] = G[k]
  PROVE  /\ Loads(F) <=> Loads(G)
         /\ HasHeader(F["world"]) => Lead(F, s) = Lead(G, s)
<1>1. Restored = {"world", "chars", "multis"}
  BY DEF Restored
<1>2. Loads(F) <=> Loads(G)
  BY DEF Loads
<1>3. F["world"] = G["world"] /\ F["chars"] = G["chars"] /\ F["multis"] = G["multis"]
  BY <1>1
<1>4. HasHeader(F["world"]) => Lead(F, s) = Lead(G, s)
  BY <1>3 DEF Lead
<1> QED  BY <1>2, <1>4

LEMMA LastOf ==
  ASSUME NEW S, S \subseteq 1 .. 4, NEW i \in S, \A j \in S : j <= i
  PROVE  Max(S) = i
<1>1. \A x \in S : (\A y \in S : x >= y) => x = i
  OBVIOUS
<1>2. \A y \in S : i >= y
  OBVIOUS
<1>3. Max(S) \in S /\ \A y \in S : Max(S) >= y
  BY <1>2 DEF Max
<1> QED  BY <1>1, <1>3

\* LoadSucceeds and CountRead of files under one name.
LEMMA LoadReads ==
  ASSUME FilesTypeOK, NEW n \in Names, Named(n)
  PROVE  /\ LoadSucceeds <=> Loads(Under(n))
         /\ CountRead = Lead(Under(n), saveCount)
<1> DEFINE F == Under(n)
           headed == { i \in DOMAIN Order : /\ Order[i] \in ReadKinds
                                            /\ HasHeader(Content(Order[i])) }
<1>1. /\ Kinds = {"data", "world", "chars", "multis"}
      /\ Restored = {"world", "chars", "multis"}
      /\ Order[1] = "data" /\ Order[2] = "world"
      /\ Order[3] = "chars" /\ Order[4] = "multis" /\ DOMAIN Order = 1 .. 4
  BY OrderFacts DEF Restored, Order
<1>2. \A k \in Kinds : Content(k) = F[k]
  BY DEF Named, Content, Under
<1>3. /\ "data" \in ReadKinds /\ "world" \in ReadKinds
      /\ "chars" \in ReadKinds <=> IsWhole(F["world"])
      /\ "multis" \in ReadKinds <=> IsWhole(F["world"]) /\ IsWhole(F["chars"])
  BY <1>1, <1>2 DEF ReadKinds
<1>4. CountRead = IF headed = {} THEN saveCount
                  ELSE Content(Order[Max(headed)]).count
  BY DEF CountRead
<1>5. /\ headed \subseteq 1 .. 4
      /\ 1 \in headed <=> HasHeader(F["data"])
      /\ 2 \in headed <=> HasHeader(F["world"])
      /\ 3 \in headed <=> IsWhole(F["world"]) /\ HasHeader(F["chars"])
      /\ 4 \in headed <=> /\ IsWhole(F["world"]) /\ IsWhole(F["chars"])
                          /\ HasHeader(F["multis"])
  BY <1>1, <1>2, <1>3
<1>11. LoadSucceeds <=> Loads(F)
  BY <1>1, <1>2 DEF LoadSucceeds, Loads
<1> SUFFICES CountRead = Lead(F, saveCount)
  BY <1>11
<1> HIDE DEF headed, F
<1>6. CASE 4 \in headed
  <2>1. Max(headed) = 4
    <3>1. \A j \in headed : j <= 4
      BY <1>5
    <3> QED  BY <3>1, <1>5, <1>6, LastOf
  <2> QED  BY <2>1, <1>1, <1>2, <1>4, <1>5, <1>6 DEF Lead
<1>7. CASE 4 \notin headed /\ 3 \in headed
  <2>1. Max(headed) = 3
    <3>1. \A j \in headed : j <= 3
      BY <1>5, <1>7
    <3> QED  BY <3>1, <1>5, <1>7, LastOf
  <2> QED  BY <2>1, <1>1, <1>2, <1>4, <1>5, <1>7 DEF Lead
<1>8. CASE 4 \notin headed /\ 3 \notin headed /\ 2 \in headed
  <2>1. Max(headed) = 2
    <3>1. \A j \in headed : j <= 2
      BY <1>5, <1>8
    <3> QED  BY <3>1, <1>5, <1>8, LastOf
  <2> QED  BY <2>1, <1>1, <1>2, <1>4, <1>5, <1>8 DEF Lead
<1>9. CASE 4 \notin headed /\ 3 \notin headed /\ 2 \notin headed /\ 1 \in headed
  <2>1. Max(headed) = 1
    <3>1. \A j \in headed : j <= 1
      BY <1>5, <1>9
    <3> QED  BY <3>1, <1>5, <1>9, LastOf
  <2> QED  BY <2>1, <1>1, <1>2, <1>4, <1>5, <1>9 DEF Lead
<1>10. CASE /\ 4 \notin headed /\ 3 \notin headed
            /\ 2 \notin headed /\ 1 \notin headed
  <2>1. headed = {}
    BY <1>5, <1>10
  <2> QED  BY <2>1, <1>4, <1>5, <1>10 DEF Lead
<1> QED  BY <1>6, <1>7, <1>8, <1>9, <1>10

\* The names of counts next to each other.
LEMMA NextNames ==
  ASSUME NEW c \in Nat
  PROVE  BackupName(c) # BackupName(c + 1) /\ BackupName(c) # BackupName(c + 2)
<1>1. CASE c # 0
  <2>1. Octal[Group(c)] \in Nat \ {0}
    BY GroupExists, LevelsAssumption, OctalWeights
  <2>2. ASSUME NEW d \in {c + 1, c + 2}, BackupName(c) = BackupName(d) PROVE FALSE
    <3>1. d - c >= 8 * Octal[Group(c)]
      BY <2>2, <1>1, NamesRepeat
    <3> QED  BY <3>1, <2>1, <2>2
  <2> QED  BY <2>2
<1>2. CASE c = 0
  <2>1. ASSUME NEW d \in {1, 2} PROVE BackupName(d) = <<0, d>>
    <3>1. d % Octal[0] = 0 /\ Octal[0] = 1 /\ Octal[1] = 8 /\ d % 8 = d
      <4>1. Octal[0 + 1] = 8 * Octal[0] /\ Octal[0] = 1
        BY OctalWeights
      <4>2. d % 1 = 0 /\ d % 8 = d
        BY <2>1
      <4> QED  BY <4>1, <4>2
    <3> DEFINE P(g) == /\ d % Octal[g] = 0
                       /\ g = BackupLevels \/ d % Octal[g + 1] # 0
    <3>2. Group(d) = CHOOSE g \in 0 .. BackupLevels : P(g)
      BY <2>1 DEF Group
    <3>3. 0 \in 0 .. BackupLevels /\ P(0)
      BY <3>1, <2>1, LevelsAssumption
    <3>4. P(Group(d)) /\ Group(d) \in 0 .. BackupLevels
      <4> HIDE DEF P
      <4> QED  BY <3>2, <3>3
    <3>5. Group(d) = 0
      <4>1. ASSUME Group(d) # 0 PROVE FALSE
        <5>1. Group(d) \in Nat /\ Group(d) - 1 \in Nat
          BY <3>4, <4>1, LevelsAssumption
        <5>2. Octal[Group(d)] = 8 * Octal[Group(d) - 1] /\ Octal[Group(d) - 1] \in Nat \ {0}
          <6>1. (Group(d) - 1) + 1 = Group(d)
            BY <5>1
          <6> QED  BY <5>1, <6>1, OctalWeights
        <5>3. Octal[Group(d)] >= 8
          BY <5>2
        <5>4. \A x \in Nat : x >= 8 => d % x = d
          BY <2>1
        <5> QED  BY <5>2, <5>3, <5>4, <3>4, <2>1
      <4> QED  BY <4>1
    <3> QED  BY <3>1, <3>5 DEF BackupName
  <2>2. BackupName(0)[2] = 0
    <3>1. Group(0) \in Nat
      BY GroupExists, LevelsAssumption
    <3>2. Octal[Group(0)] \in Nat \ {0}
      BY <3>1, OctalWeights
    <3>3. \A x \in Nat \ {0} : 0 \div x = 0
      OBVIOUS
    <3>4. (0 \div Octal[Group(0)]) % 8 = 0
      BY <3>2, <3>3
    <3> QED  BY <3>4 DEF BackupName
  <2> QED  BY <2>1, <2>2, <1>2
<1> QED  BY <1>1, <1>2
\* What a save takes from the archive it removes, data first and then world.
LEMMA BackTaken ==
  ASSUME NEW F, NEW G, NEW H, NEW c, BackFrom(F, H, c),
         HasHeader(G["data"]) => G["data"].count = c,
         \/ \A k \in Restored : G[k] = F[k]
         \/ ~HasHeader(G["world"])
  PROVE  BackFrom(G, H, c)
<1>1. CASE ~HasHeader(G["world"])
  BY <1>1, LeadFrom DEF BackFrom
<1>2. CASE HasHeader(G["world"])
  BY <1>2, LeadSame DEF BackFrom
<1> QED  BY <1>1, <1>2

\* The count of the first load is that of a header of the main files.
LEMMA FirstCount ==
  /\ First # 0 => /\ \A s : Lead(Under(Main), s) = First
                  /\ \A h : CountIs(h) => First = h
                  /\ HasHeader(disk["data"][Main]) \/ HasHeader(disk["world"][Main])
  /\ MainLoads => /\ \A s : Lead(Under(Main), s) = First
                  /\ \A h : CountIs(h) => First = h
<1> DEFINE F == Under(Main)
<1>1. \A k \in Kinds : F[k] = disk[k][Main]
  BY DEF Under
<1>2. "data" \in Kinds /\ "world" \in Kinds
  BY OrderFacts
<1>3. MainLoads => HasHeader(F["world"])
  BY DEF MainLoads, Loads, Restored, IsWhole, HasHeader
<1>4. First # 0 => HasHeader(F["data"]) \/ HasHeader(F["world"])
  BY LeadFrom DEF First
<1>5. ASSUME HasHeader(F["data"]) \/ HasHeader(F["world"])
      PROVE  /\ \A s : Lead(F, s) = First
             /\ \A h : CountIs(h) => First = h
  <2>1. \E k \in Kinds : HasHeader(F[k]) /\ First = F[k].count
    BY <1>5, LeadFrom DEF First
  <2> QED  BY <2>1, <1>1, <1>5, LeadFrom DEF First, CountIs
<1> QED  BY <1>1, <1>2, <1>3, <1>4, <1>5

LEMMA FirstNat == FilesTypeOK => First \in Nat
<1> SUFFICES ASSUME FilesTypeOK, First # 0 PROVE First \in Nat
  OBVIOUS
<1>1. HasHeader(Under(Main)["data"]) \/ HasHeader(Under(Main)["world"])
  BY FirstCount, OrderFacts DEF Under
<1>2. PICK k \in Kinds : First = Under(Main)[k].count
  BY <1>1, LeadFrom DEF First
<1> QED  BY <1>2, MainIsName DEF FilesTypeOK, Contents, Under

\* The archives that stay, and what is read from them.
LEMMA SameUnder ==
  ASSUME NEW n, \A k \in Kinds : disk'[k][n] = disk[k][n]
  PROVE  Under(n)' = Under(n)
  BY DEF Under

LEMMA BackSameDisk ==
  ASSUME disk' = disk
  PROVE  /\ MainLoads' <=> MainLoads
         /\ First' = First
         /\ \A h : LeadsBack(h)' <=> LeadsBack(h)
         /\ \A n : Under(n)' = Under(n)
         /\ \A c : Back(c)' <=> Back(c)
<1>1. \A n : Under(n)' = Under(n)
  BY DEF Under
<1>2. (MainLoads' <=> MainLoads) /\ First' = First
  BY <1>1 DEF MainLoads, First
<1>3. \A c : Back(c)' <=> Back(c)
  BY <1>1 DEF Back
<1> QED  BY <1>1, <1>2, <1>3 DEF LeadsBack

\* A save that begins has nothing moved yet.
LEMMA BackStart ==
  ASSUME FilesTypeOK, disk' = disk, doing' = "remove", at' = 1,
         NEW h \in Nat, CountIs(h)
  PROVE  CountIs(h)' /\ Sources' = Under(Main)
<1>1. \A k \in Kinds : ~Gone(k)'
  BY PlaceFacts DEF Gone
<1>2. \A k \in Kinds : Source(k)' = disk[k][Main]
  BY <1>1 DEF Source
<1> QED  BY <1>2 DEF CountIs, Sources, Under
LEMMA BackLoad ==
  ASSUME FilesTypeOK, BackInv, LoadWorld PROVE BackInv'
<1>1. /\ doing = "load" /\ disk' = disk /\ ~Moving /\ ~Writing
      /\ saveCount' = CountRead
  BY DEF LoadWorld, LoadDone, LoadPrevious, LoadGivesUp, Moving, Writing
<1>2. PICK g \in Nat : CountIs(g)
  BY <1>1 DEF BackInv, OneCount
<1>3. /\ LoadDone => LoadSucceeds /\ doing' = "run"
      /\ LoadPrevious => /\ ~LoadSucceeds /\ doing' = "load" /\ CountRead # 0
                         /\ names' = [k \in Kinds |-> BackupName(CountRead)]
                         /\ \A k \in Kinds : names[k] # BackupName(CountRead)
      /\ LoadGivesUp => /\ ~LoadSucceeds /\ doing' = "remove" /\ at' = 1
                        /\ \/ CountRead = 0
                           \/ \E k \in Kinds : names[k] = BackupName(CountRead)
  BY <1>1 DEF LoadDone, LoadPrevious, LoadGivesUp
<1>4. OneCount'
  <2>1. CASE doing' = "remove"
    <3>1. at' = 1
      BY <2>1, <1>3 DEF LoadWorld
    <3> QED  BY <2>1, <3>1, <1>1, <1>2, BackStart DEF OneCount
  <2>2. CASE doing' # "remove"
    <3>1. ~Moving'
      BY <2>2, <1>3 DEF Moving, LoadWorld
    <3> QED  BY <3>1, <1>1, <1>2 DEF OneCount, CountIs
  <2> QED  BY <2>1, <2>2
<1>5. /\ First \in Nat /\ CountRead \in Nat
      /\ First # 0 \/ MainLoads => \A s : Lead(Under(Main), s) = First
  BY FirstNat, FirstCount, CountReadNat
<1>6. CASE Named(Main) /\ saveCount = 0
  <2>1. (LoadSucceeds <=> MainLoads) /\ CountRead = First
    BY <1>6, LoadReads, MainIsName DEF MainLoads, First
  <2>2. MainLoads \/ First = 0 \/ \E h \in Nat \ {0} : LeadsBack(h)
    BY <1>1 DEF BackInv, BackLoading, LeadsBack
  <2>3. CASE LoadDone
    BY <2>1, <2>3, <1>1, <1>3, <1>4, BackSameDisk
       DEF BackInv, BackLoading, BackRunning, BackMoving, BackWriting, Moving, Writing
  <2>4. CASE LoadPrevious
    <3>1. PICK h \in Nat \ {0} : LeadsBack(h) /\ CountRead = h
      BY <2>1, <2>2, <2>4, <1>3 DEF LeadsBack
    <3>2. Named(BackupName(h))' /\ saveCount' = h
      BY <3>1, <2>4, <1>1, <1>3 DEF Named
    <3>3. BackLoading'
      BY <3>1, <3>2, <1>1, BackSameDisk DEF BackLoading
    <3> QED  BY <3>3, <2>4, <1>3, <1>4
               DEF BackInv, BackRunning, BackMoving, BackWriting, Moving, Writing
  <2>5. CASE LoadGivesUp
    <3>1. CountRead = 0
      BY <2>5, <1>3, <1>5, <1>6, ArchiveNames DEF Named
    <3>2. BackMoving'
      BY <3>1, <2>1, <1>1, BackSameDisk DEF BackMoving
    <3> QED  BY <3>2, <2>5, <1>3, <1>4
               DEF BackInv, BackLoading, BackRunning, BackWriting, Writing
  <2> QED  BY <2>3, <2>4, <2>5 DEF LoadWorld
<1>7. ASSUME NEW h \in Nat \ {0}, LeadsBack(h),
             Named(BackupName(h)), saveCount = h
      PROVE  BackInv'
  <2>1. (LoadSucceeds <=> Loads(Under(BackupName(h))))
        /\ CountRead = Lead(Under(BackupName(h)), h)
    BY <1>7, LoadReads, ArchiveNames
  <2>2. Back(h) /\ ~MainLoads /\ First = h
    BY <1>7 DEF LeadsBack
  <2>3. CASE LoadDone
    <3>1. Loads(Under(BackupName(h))) /\ CountRead \in {h - 1, h}
      BY <2>1, <2>2, <2>3, <1>3 DEF Back, BackFrom
    <3>2. HasHeader(Under(BackupName(h))["world"])
      BY <3>1 DEF Loads, Restored, IsWhole, HasHeader
    <3>3. Lead(Under(BackupName(h)), 0) = CountRead
      BY <3>2, <2>1, LeadFrom
    <3>4. BackRunning'
      BY <3>1, <3>3, <1>1, <1>7, BackSameDisk DEF BackRunning
    <3> QED  BY <3>4, <2>3, <1>3, <1>4
               DEF BackInv, BackLoading, BackMoving, BackWriting, Moving, Writing
  <2>4. CASE LoadPrevious
    <3>1. CountRead # h
      BY <2>4, <1>3, <1>7, OrderFacts DEF Named
    <3>2. /\ CountRead = h + 1 /\ Loads(Under(BackupName(h + 1)))
          /\ Lead(Under(BackupName(h + 1)), 0) = h
      BY <3>1, <2>1, <2>2, <2>4, <1>3 DEF Back, BackFrom
    <3>3. Named(BackupName(h + 1))' /\ saveCount' = h + 1
      BY <3>2, <2>4, <1>1, <1>3 DEF Named
    <3>4. BackLoading'
      BY <3>2, <3>3, <1>1, <1>7, BackSameDisk DEF BackLoading
    <3> QED  BY <3>4, <2>4, <1>3, <1>4
               DEF BackInv, BackRunning, BackMoving, BackWriting, Moving, Writing
  <2>5. CASE LoadGivesUp
    <3>1. ~Loads(Under(BackupName(h)))
      BY <2>1, <2>5, <1>3
    <3>2. CountRead = h
      <4>1. CountRead = h \/ CountRead = h + 1
        BY <3>1, <2>1, <2>2 DEF Back, BackFrom
      <4>2. CountRead # h + 1
        BY <2>5, <1>3, <1>7, NextNames DEF Named
      <4> QED  BY <4>1, <4>2
    <3>3. ASSUME NEW c \in Nat \ {0}, saveCount' = c
          PROVE  BackFrom(Sources', Under(BackupName(c + 1))', c)
      <4>1. c = h
        BY <3>2, <3>3, <1>1
      <4>2. Sources' = Under(Main)
        BY <2>5, <1>1, <1>2, <1>3, BackStart
      <4>3. ~Loads(Under(Main)) /\ Lead(Under(Main), h) = h
        BY <2>2, <1>5 DEF MainLoads
      <4> QED  BY <4>1, <4>2, <4>3 DEF BackFrom
    <3>4. BackMoving'
      BY <3>2, <3>3, <1>1, <1>7, BackSameDisk DEF BackMoving
    <3> QED  BY <3>4, <2>5, <1>3, <1>4
               DEF BackInv, BackLoading, BackRunning, BackWriting, Writing
  <2> QED  BY <2>3, <2>4, <2>5 DEF LoadWorld
<1>8. ASSUME NEW h \in Nat \ {0}, LeadsBack(h),
             Named(BackupName(h + 1)), saveCount = h + 1,
             Loads(Under(BackupName(h + 1))),
             Lead(Under(BackupName(h + 1)), 0) = h
      PROVE  BackInv'
  <2>1. LoadSucceeds /\ CountRead = Lead(Under(BackupName(h + 1)), h + 1)
    BY <1>8, LoadReads, ArchiveNames
  <2>2. HasHeader(Under(BackupName(h + 1))["world"])
    BY <1>8 DEF Loads, Restored, IsWhole, HasHeader
  <2>3. CountRead = h
    BY <2>1, <2>2, <1>8, LeadFrom
  <2>4. doing' = "run"
    BY <2>1, <1>3 DEF LoadWorld
  <2>5. BackRunning'
    BY <2>3, <1>1, <1>8, BackSameDisk DEF BackRunning
  <2> QED  BY <2>4, <2>5, <1>4
             DEF BackInv, BackLoading, BackMoving, BackWriting, Moving, Writing
<1> QED  BY <1>1, <1>6, <1>7, <1>8 DEF BackInv, BackLoading

LEMMA BackBegin ==
  ASSUME FilesTypeOK, BackInv, BeginSave PROVE BackInv'
<1>1. /\ doing = "run" /\ disk' = disk /\ ~Writing /\ ~Moving
      /\ saveCount' = saveCount /\ doing' = "remove" /\ at' = 1
  BY DEF BeginSave, Writing, Moving
<1>2. PICK g \in Nat : CountIs(g)
  BY <1>1 DEF BackInv, OneCount
<1>3. CountIs(g)' /\ Sources' = Under(Main)
  BY <1>1, <1>2, BackStart
<1>4. /\ First \in Nat
      /\ First # 0 \/ MainLoads => \A s : Lead(Under(Main), s) = First
  BY FirstNat, FirstCount
<1>5. \/ MainLoads /\ saveCount \in {First, First + 1}
      \/ \E h \in Nat \ {0} : /\ LeadsBack(h)
           /\ \/ saveCount = h
              \/ /\ saveCount = h - 1 /\ Loads(Under(BackupName(h)))
                 /\ Lead(Under(BackupName(h)), 0) = h - 1
  BY <1>1 DEF BackInv, BackRunning
<1>6. ASSUME NEW c \in Nat \ {0}, saveCount = c
      PROVE  BackFrom(Under(Main), Under(BackupName(c + 1)), c)
  <2>1. CASE MainLoads /\ saveCount \in {First, First + 1}
    BY <2>1, <1>4, <1>6 DEF BackFrom, MainLoads
  <2>2. ASSUME NEW h \in Nat \ {0}, LeadsBack(h), saveCount = h
        PROVE  BackFrom(Under(Main), Under(BackupName(c + 1)), c)
    BY <2>2, <1>4, <1>6 DEF BackFrom, LeadsBack, MainLoads
  <2>3. ASSUME NEW h \in Nat \ {0}, LeadsBack(h), saveCount = h - 1,
               Loads(Under(BackupName(h))),
               Lead(Under(BackupName(h)), 0) = h - 1
        PROVE  BackFrom(Under(Main), Under(BackupName(c + 1)), c)
    <3>1. c + 1 = h /\ First = h /\ ~MainLoads
      BY <2>3, <1>6 DEF LeadsBack
    <3> QED  BY <3>1, <2>3, <1>4 DEF BackFrom, MainLoads
  <2> QED  BY <2>1, <2>2, <2>3, <1>5
<1>7. \/ MainLoads \/ First = 0
      \/ \E h \in Nat \ {0} : LeadsBack(h) /\ saveCount \in {h - 1, h}
  BY <1>5
<1>8. BackMoving'
  BY <1>1, <1>3, <1>6, <1>7, BackSameDisk DEF BackMoving
<1> QED  BY <1>1, <1>3, <1>8
           DEF BackInv, OneCount, BackLoading, BackRunning, BackWriting, Writing
\* What a step of the moving does to the main files.
LEMMA MainMoved ==
  ASSUME FilesTypeOK, NEW m \in Nat, MoveInv(m),
         RemoveArchive \/ RenameMain \/ OpenMain
  PROVE  /\ \A k \in Kinds : \/ disk'[k][Main] = disk[k][Main]
                             \/ ~HasHeader(disk'[k][Main])
         /\ \/ Under(Main)' = Under(Main)
            \/ First' = 0
            \/ (MainLoads' <=> MainLoads) /\ First' \in {0, First}
<1> DEFINE f == Order[at]
<1>1. /\ at \in 1 .. 4 /\ disk \in [Kinds -> [Names -> Contents]]
      /\ f \in Kinds /\ Place[f] = at /\ Moving
      /\ \A k \in Kinds : Place[k] = at => k = f
      /\ Main \in Names /\ BackupName(saveCount) \in Names
      /\ BackupName(saveCount) # Main
  BY OrderFacts, PlaceFacts, MainIsName, ArchiveNames
     DEF FilesTypeOK, Moving, RemoveArchive, RenameMain, OpenMain
<1>2. CASE RemoveArchive
  <2>1. \A k \in Kinds : disk'[k][Main] = disk[k][Main]
    BY <1>1, <1>2 DEF RemoveArchive
  <2> QED  BY <2>1 DEF Under
<1>3. CASE RenameMain \/ OpenMain
  <2>1. \A k \in Kinds :
          disk'[k][Main] = IF k # f THEN disk[k][Main]
                           ELSE IF RenameMain THEN None ELSE Opened(started)
    <3>1. CASE RenameMain
      BY <3>1, <1>1 DEF RenameMain
    <3>2. CASE OpenMain /\ ~RenameMain
      BY <3>2, <1>1 DEF OpenMain
    <3> QED  BY <3>1, <3>2, <1>3
  <2>2. ~HasHeader(disk'[f][Main])
    BY <2>1, <1>1, NoHeader
  <2>3. /\ \A k \in Kinds : Under(Main)[k] = disk[k][Main]
        /\ \A k \in Kinds : Under(Main)'[k] = disk'[k][Main]
        /\ Restored = Kinds \ {"data"} /\ "data" \in Kinds /\ "world" \in Kinds
        /\ Place["data"] = 1 /\ Place["world"] = 2
    BY OrderFacts, PlaceFacts DEF Under, Restored
  <2>4. CASE at = 1
    <3>1. f = "data"
      BY <2>3, <2>4, <1>1
    <3>2. \A k \in Restored : Under(Main)'[k] = Under(Main)[k]
      BY <3>1, <2>1, <2>3
    <3>3. MainLoads' <=> MainLoads
      BY <3>2, LeadSame DEF MainLoads
    <3>4. First' \in {0, First}
      <4>1. CASE HasHeader(Under(Main)["world"])
        BY <4>1, <3>2, LeadSame DEF First
      <4>2. CASE ~HasHeader(Under(Main)["world"])
        <5>1. ~HasHeader(Under(Main)'["world"]) /\ ~HasHeader(Under(Main)'["data"])
          BY <4>2, <3>1, <3>2, <2>2, <2>3
        <5> QED  BY <5>1, LeadFrom DEF First
      <4> QED  BY <4>1, <4>2
    <3> QED  BY <3>3, <3>4, <2>1, <2>2
  <2>5. CASE at # 1
    <3>1. ~HasHeader(disk'["data"][Main])
      <4>1. disk["data"][Main] = Opened(started) /\ f # "data"
        BY <2>3, <2>5, <1>1 DEF MoveInv
      <4> QED  BY <4>1, <2>1, <2>3, NoHeader
    <3>2. ~HasHeader(disk'["world"][Main])
      <4>1. CASE f = "world"
        BY <4>1, <2>2
      <4>2. CASE f # "world"
        <5>1. disk["world"][Main] = Opened(started)
          BY <4>2, <2>3, <2>5, <1>1 DEF MoveInv
        <5> QED  BY <5>1, <4>2, <2>1, <2>3, NoHeader
      <4> QED  BY <4>1, <4>2
    <3>3. First' = 0
      BY <3>1, <3>2, <2>3, LeadFrom DEF First
    <3> QED  BY <3>3, <2>1, <2>2
  <2> QED  BY <2>4, <2>5, <1>1
<1> QED  BY <1>2, <1>3

\* The archive of a count that the main files lead to is given up to the files
\* that are moved there, and leads no further.
LEMMA ArchiveGivenUp ==
  ASSUME FilesTypeOK, NEW m \in Nat, MoveInv(m), NEW g \in Nat, CountIs(g),
         RemoveArchive \/ RenameMain \/ OpenMain, saveCount > 0,
         LeadsBack(saveCount), First' # 0
  PROVE  BackFrom(Under(BackupName(saveCount))',
                  Under(BackupName(saveCount + 1)), saveCount)
<1> DEFINE f == Order[at]
           n == BackupName(saveCount)
<1>1. /\ at \in 1 .. 4 /\ disk \in [Kinds -> [Names -> Contents]]
      /\ f \in Kinds /\ Place[f] = at /\ Moving
      /\ \A k \in Kinds : Place[k] = at => k = f
      /\ Main \in Names /\ n \in Names /\ n # Main
      /\ saveCount' = saveCount
  BY OrderFacts, PlaceFacts, MainIsName, ArchiveNames
     DEF FilesTypeOK, Moving, RemoveArchive, RenameMain, OpenMain, Unmoved
<1>2. /\ Restored = Kinds \ {"data"} /\ "data" \in Kinds /\ "world" \in Kinds
      /\ Place["data"] = 1 /\ Place["world"] = 2
  BY OrderFacts, PlaceFacts DEF Restored
<1>3. First = saveCount /\ g = saveCount
  BY FirstCount DEF LeadsBack
<1>4. BackFrom(Under(n), Under(BackupName(saveCount + 1)), saveCount)
  BY DEF LeadsBack, Back
<1>5. /\ \A k \in Kinds : Under(n)[k] = disk[k][n]
      /\ \A k \in Kinds : Under(n)'[k] = disk'[k][n]
  BY <1>1 DEF Under
<1>6. CASE OpenMain
  <2>1. \A k \in Kinds : disk'[k][n] = disk[k][n]
    BY <1>1, <1>6 DEF OpenMain
  <2>2. Under(n)' = Under(n)
    BY <2>1, <1>1 DEF Under
  <2> QED  BY <2>2, <1>4
<1>7. CASE at = 1 /\ ~OpenMain
  <2>1. f = "data"
    BY <1>1, <1>2, <1>7
  <2>2. \A k \in Restored : disk'[k][n] = disk[k][n]
    BY <2>1, <1>1, <1>2, <1>7 DEF RemoveArchive, RenameMain
  <2>3. disk'[f][n] = None \/ disk'[f][n] = disk[f][Main]
    BY <1>1, <1>7 DEF RemoveArchive, RenameMain
  <2>4. HasHeader(disk'["data"][n]) => disk'["data"][n].count = saveCount
    BY <2>1, <2>3, <1>1, <1>3, NoHeader DEF CountIs
  <2>5. /\ \A k \in Restored : Under(n)'[k] = Under(n)[k]
        /\ HasHeader(Under(n)'["data"]) => Under(n)'["data"].count = saveCount
    BY <2>2, <2>4, <1>2, <1>5
  <2> QED  BY <2>5, <1>4, BackTaken
<1>8. CASE at = 2 /\ RemoveArchive
  <2>1. f = "world" /\ Gone("data")
    BY <1>1, <1>2, <1>8 DEF Gone
  <2>2. disk'["world"][n] = None /\ disk'["data"][n] = disk["data"][n]
    BY <2>1, <1>1, <1>2, <1>8, Put DEF RemoveArchive
  <2>3. disk["data"][n] = Source("data")
    BY <2>1 DEF Source
  <2>4. HasHeader(disk'["data"][n]) => disk'["data"][n].count = saveCount
    BY <2>2, <2>3, <1>1, <1>2, <1>3 DEF CountIs
  <2>5. /\ ~HasHeader(Under(n)'["world"])
        /\ HasHeader(Under(n)'["data"]) => Under(n)'["data"].count = saveCount
    BY <2>2, <2>4, <1>2, <1>5, NoHeader
  <2> QED  BY <2>5, <1>4, BackTaken
<1>9. CASE (at > 2 /\ RemoveArchive) \/ (at > 1 /\ RenameMain)
  <2>1. ~HasHeader(disk'["data"][Main]) /\ ~HasHeader(disk'["world"][Main])
    <3>1. disk["data"][Main] = Opened(started)
      BY <1>1, <1>2, <1>9 DEF MoveInv
    <3>2. at > 2 => disk["world"][Main] = Opened(started)
      BY <1>1, <1>2 DEF MoveInv
    <3>3. RenameMain /\ at = 2 => disk'["world"][Main] = None
      BY <1>1, <1>2 DEF RenameMain
    <3>4. \A k \in Kinds : \/ disk'[k][Main] = disk[k][Main]
                           \/ ~HasHeader(disk'[k][Main])
      BY MainMoved
    <3> QED  BY <3>1, <3>2, <3>3, <3>4, <1>1, <1>2, <1>9, NoHeader
  <2>2. First' = 0
    <3>1. /\ ~HasHeader(Under(Main)'["data"])
          /\ ~HasHeader(Under(Main)'["world"])
      BY <2>1, <1>2 DEF Under
    <3> QED  BY <3>1, LeadFrom DEF First
  <2> QED  BY <2>2
<1> QED  BY <1>1, <1>6, <1>7, <1>8, <1>9
LEMMA BackMove ==
  ASSUME FilesTypeOK, NEW m \in Nat, FilesAt(m), BackInv,
         RemoveArchive \/ RenameMain \/ OpenMain
  PROVE  BackInv'
<1>1. /\ Moving /\ ~Writing /\ saveCount' = saveCount /\ saveCount \in Nat
      /\ MoveInv(m)
      /\ doing' \in {"remove", "rename", "open", "head"}
  BY DEF RemoveArchive, RenameMain, OpenMain, Unmoved, Moving, Writing,
     FilesTypeOK, FilesAt
<1>2. PICK s \in Nat : s = saveCount
  BY <1>1
<1>3. PICK g \in Nat : CountIs(g)
  BY <1>1 DEF BackInv, OneCount
<1>4. \A c \in Nat \ {0} :
        saveCount = c => BackFrom(Sources, Under(BackupName(c + 1)), c)
  BY <1>1 DEF BackInv, BackMoving
<1>5. ASSUME NEW x \in Names, x # Main, x # BackupName(s)
      PROVE  Under(x)' = Under(x)
  BY <1>2, <1>5, SourceStays DEF Under
<1>6. \A c \in Nat : /\ BackupName(c) \in Names /\ BackupName(c) # Main
                     /\ BackupName(c + 1) # BackupName(c)
                     /\ BackupName(c + 2) # BackupName(c)
  BY ArchiveNames, NextNames
<1>7. /\ Under(BackupName(s + 1))' = Under(BackupName(s + 1))
      /\ Under(BackupName(s + 2))' = Under(BackupName(s + 2))
  BY <1>5, <1>6
<1>8. CASE Moving'
  <2>1. s > 0 => \A k \in Kinds : Source(k)' = Source(k)
    BY <1>2, <1>8, SourceStays
  <2>2. s = 0 => \A k \in Kinds : Source(k)' = disk'[k][Main]
    BY <1>1, <1>2 DEF Source
  <2>3. CountIs(g)'
    <3>1. ASSUME NEW k \in Kinds, HasHeader(disk'[k][Main])
          PROVE  disk'[k][Main].count = g
      <4>1. disk'[k][Main] = disk[k][Main]
        BY <3>1, <1>1, MainMoved
      <4> QED  BY <4>1, <3>1, <1>3 DEF CountIs
    <3>2. ASSUME NEW k \in Kinds, HasHeader(Source(k)')
          PROVE  Source(k)'.count = g
      BY <3>1, <3>2, <2>1, <2>2, <1>1, <1>2, <1>3 DEF CountIs
    <3> QED  BY <3>1, <3>2 DEF CountIs
  <2>4. ASSUME NEW c \in Nat \ {0}, saveCount' = c
        PROVE  BackFrom(Sources', Under(BackupName(c + 1))', c)
    <3>1. c = s /\ s > 0
      BY <2>4, <1>1, <1>2
    <3>2. Sources' = Sources
      BY <3>1, <2>1 DEF Sources
    <3> QED  BY <3>1, <3>2, <1>2, <1>4, <1>7
  <2>5. \/ MainLoads' \/ First' = 0
        \/ \E h \in Nat \ {0} : LeadsBack(h)' /\ saveCount' \in {h - 1, h}
    <3>1. SUFFICES ASSUME ~MainLoads', First' # 0
                   PROVE  \E h \in Nat \ {0} : /\ LeadsBack(h)'
                                               /\ saveCount' \in {h - 1, h}
      OBVIOUS
    <3>2. First' = First /\ ~MainLoads
      BY <3>1, <1>1, MainMoved DEF MainLoads, First
    <3>3. PICK h \in Nat \ {0} : LeadsBack(h) /\ saveCount \in {h - 1, h}
      BY <3>1, <3>2, <1>1 DEF BackInv, BackMoving
    <3>4. CASE s = h
      <4>1. BackFrom(Under(BackupName(s))', Under(BackupName(s + 1)), s)
        BY <3>1, <3>3, <3>4, <1>1, <1>2, <1>3, ArchiveGivenUp
      <4>2. Back(h)'
        BY <4>1, <3>4, <1>7 DEF Back
      <4> QED  BY <4>2, <3>1, <3>2, <3>3, <1>1 DEF LeadsBack
    <3>5. CASE s = h - 1
      <4>1. s + 1 = h /\ s + 2 = h + 1
        BY <3>5
      <4>2. Back(h)
        BY <3>3 DEF LeadsBack
      <4>3. Back(h)'
        BY <4>1, <4>2, <1>7 DEF Back
      <4> QED  BY <4>3, <3>1, <3>2, <3>3, <1>1 DEF LeadsBack
    <3> QED  BY <3>3, <3>4, <3>5, <1>2
  <2>6. BackMoving'
    BY <2>4, <2>5 DEF BackMoving
  <2> QED  BY <2>3, <2>6, <1>8
             DEF BackInv, OneCount, BackLoading, BackRunning, BackWriting,
                 Moving, Writing
<1>9. CASE ~Moving'
  <2>1. OpenMain /\ at = 4 /\ doing = "open" /\ doing' = "head"
    BY <1>1, <1>9, OrderFacts
       DEF RemoveArchive, RenameMain, OpenMain, Moving, FilesTypeOK
  <2>2. ASSUME NEW c \in Nat \ {0}, saveCount' = c PROVE Back(c)'
    <3>1. c = s /\ saveCount > 0
      BY <2>2, <1>1, <1>2
    <3>2. Sources = Under(BackupName(s))
      <4>1. \A k \in Kinds : Gone(k)
        BY <2>1, PlaceFacts DEF Gone
      <4> QED  BY <4>1, <3>1, <1>2 DEF Source, Sources, Under
    <3>3. Under(BackupName(s))' = Under(BackupName(s))
      <4>1. BackupName(s) \in Names /\ BackupName(s) # Main
        BY <1>6
      <4>2. \A k \in Kinds : disk'[k][BackupName(s)] = disk[k][BackupName(s)]
        BY <4>1, <2>1 DEF OpenMain, FilesTypeOK
      <4> QED  BY <4>2 DEF Under
    <3> QED  BY <3>1, <3>2, <3>3, <1>2, <1>4, <1>7 DEF Back
  <2> QED  BY <2>1, <2>2
             DEF BackInv, OneCount, BackLoading, BackRunning, BackMoving,
                 BackWriting, Moving, Writing
<1> QED  BY <1>8, <1>9

LEMMA BackWrite ==
  ASSUME FilesTypeOK, NEW m \in Nat, FilesAt(m), BackInv,
         WriteHeader \/ WriteWorld \/ WriteEof
  PROVE  BackInv'
<1>1. /\ Writing /\ saveCount \in Nat /\ at \in 1 .. 4 /\ Len(Order) = 4
      /\ disk \in [Kinds -> [Names -> Contents]]
  BY OrderFacts DEF WriteHeader, WriteWorld, WriteEof, Writing, FilesTypeOK
<1>2. CASE Writing'
  <2>1. saveCount' = saveCount
    BY <1>2 DEF WriteHeader, WriteWorld, WriteEof, Unmoved, Writing
  <2>2. ASSUME NEW c \in Nat PROVE Under(BackupName(c))' = Under(BackupName(c))
    <3>1. BackupName(c) \in Names /\ BackupName(c) # Main
      BY ArchiveNames
    <3>2. \A k \in Kinds : disk'[k][BackupName(c)] = disk[k][BackupName(c)]
      BY <3>1, <1>1 DEF WriteHeader, WriteWorld, WriteEof
    <3> QED  BY <3>2 DEF Under
  <2>3. ASSUME NEW c \in Nat \ {0}, saveCount' = c PROVE Back(c)'
    <3>1. Back(c) /\ c + 1 \in Nat
      BY <2>1, <2>3, <1>1 DEF BackInv, BackWriting
    <3> QED  BY <3>1, <2>2 DEF Back
  <2> QED  BY <2>3, <1>2
             DEF BackInv, OneCount, BackLoading, BackRunning, BackMoving,
                 BackWriting, Moving, Writing
<1>3. CASE ~Writing'
  <2>1. /\ WriteEof /\ at = 4 /\ doing' = "run"
        /\ saveCount' = saveCount + 1
    BY <1>1, <1>3 DEF WriteHeader, WriteWorld, WriteEof, Writing, Unmoved
  <2>2. \A k \in Kinds : IsWhole(disk'[k][Main]) /\ disk'[k][Main].count = saveCount
    BY <2>1, EndMarks
  <2>3. PICK s \in Nat : s = saveCount
    BY <1>1
  <2>4. ~Moving'
    BY <2>1 DEF Moving
  <2>5. CountIs(s)'
    BY <2>2, <2>3, <2>4 DEF CountIs
  <2>6. /\ \A k \in Kinds : Under(Main)'[k] = disk'[k][Main]
        /\ Kinds = {"data", "world", "chars", "multis"}
        /\ Restored \subseteq Kinds
    BY OrderFacts DEF Under, Restored
  <2>7. MainLoads'
    BY <2>2, <2>6 DEF MainLoads, Loads
  <2>8. First' = s
    <3>1. HasHeader(Under(Main)'["world"])
      BY <2>2, <2>6 DEF IsWhole, HasHeader
    <3> QED  BY <3>1, <2>2, <2>3, <2>6, LeadFrom DEF First
  <2>9. BackRunning'
    BY <2>1, <2>3, <2>7, <2>8 DEF BackRunning
  <2> QED  BY <2>1, <2>5, <2>9
             DEF BackInv, OneCount, BackLoading, BackMoving, BackWriting,
                 Moving, Writing
<1> QED  BY <1>2, <1>3

LEMMA BackStop ==
  ASSUME FilesTypeOK, NEW m \in Nat, FilesAt(m), BackInv, Crash \/ Stop
  PROVE  BackInv'
<1>1. /\ doing' = "load" /\ saveCount' = 0 /\ Named(Main)' /\ disk' = disk
      /\ doing \in Steps /\ saveCount \in Nat
  BY DEF Crash, Stop, StartServer, Named, FilesTypeOK
<1>2. ~Moving' /\ ~Writing'
  BY <1>1 DEF Moving, Writing
<1>3. CASE ~Writing
  <2>1. PICK g \in Nat : CountIs(g)
    BY <1>3 DEF BackInv, OneCount
  <2>2. CountIs(g)'
    BY <2>1, <1>1, <1>2 DEF CountIs
  <2>3. MainLoads \/ First = 0 \/ \E h \in Nat \ {0} : LeadsBack(h)
    BY <1>1, <1>3 DEF BackInv, BackLoading, BackRunning, BackMoving, Steps,
       Moving, Writing
  <2>4. BackLoading'
    BY <2>3, <1>1, BackSameDisk DEF BackLoading
  <2> QED  BY <2>2, <2>4, <1>1, <1>2
             DEF BackInv, OneCount, BackRunning, BackMoving, BackWriting
<1>4. CASE Writing
  <2>1. PICK s \in Nat : s = saveCount
    BY <1>1
  <2>2. ASSUME NEW k \in Kinds, HasHeader(disk[k][Main])
        PROVE  disk[k][Main].count = s
    BY <2>1, <2>2, <1>4, WrittenParts DEF FilesAt, WriteInv
  <2>3. ~Moving
    BY <1>4 DEF Moving, Writing
  <2>4. CountIs(s) /\ CountIs(s)'
    BY <2>2, <2>3, <1>1, <1>2 DEF CountIs
  <2>5. First = 0 \/ First = s
    BY <2>4, FirstCount
  <2>6. s # 0 => Back(s)
    BY <2>1, <1>4 DEF BackInv, BackWriting
  <2>7. MainLoads \/ First = 0 \/ \E h \in Nat \ {0} : LeadsBack(h)
    BY <2>5, <2>6 DEF LeadsBack
  <2>8. BackLoading'
    BY <2>7, <1>1, BackSameDisk DEF BackLoading
  <2> QED  BY <2>4, <2>8, <1>1, <1>2
             DEF BackInv, OneCount, BackRunning, BackMoving, BackWriting
<1> QED  BY <1>3, <1>4

LEMMA BackInit == FilesInit => BackInv
<1> SUFFICES ASSUME FilesInit PROVE BackInv
  OBVIOUS
<1>1. \A k \in Kinds : ~HasHeader(disk[k][Main])
  BY MainIsName, NoHeader DEF FilesInit
<1>2. /\ doing = "load" /\ saveCount = 0 /\ Named(Main) /\ ~Moving /\ ~Writing
  BY DEF FilesInit, Named, Moving, Writing
<1>3. First = 0
  BY <1>1, FirstCount, OrderFacts
<1>4. CountIs(0)
  BY <1>1, <1>2 DEF CountIs
<1> QED  BY <1>2, <1>3, <1>4
           DEF BackInv, OneCount, BackLoading, BackRunning, BackMoving, BackWriting

LEMMA BackNext ==
  ASSUME FilesTypeOK, DiskInv, BackInv, [FilesNext]_fileVars
  PROVE  BackInv'
<1>1. PICK m \in Nat : FilesAt(m)
  BY DEF DiskInv
<1>2. CASE UNCHANGED fileVars
  <2>1. disk' = disk /\ UNCHANGED <<doing, at, saveCount, names>>
    BY <1>2 DEF fileVars
  <2>2. /\ \A k : Source(k)' = Source(k)
        /\ \A n : Named(n)' <=> Named(n)
        /\ (Moving' <=> Moving) /\ (Writing' <=> Writing)
    BY <2>1 DEF Source, Gone, Named, Moving, Writing
  <2>3. Sources' = Sources /\ \A h : CountIs(h)' <=> CountIs(h)
    BY <2>1, <2>2 DEF Sources, CountIs
  <2>4. /\ OneCount' <=> OneCount
        /\ BackLoading' <=> BackLoading
        /\ BackRunning' <=> BackRunning
    BY <2>1, <2>2, <2>3, BackSameDisk DEF OneCount, BackLoading, BackRunning
  <2>5. /\ BackMoving' <=> BackMoving
        /\ BackWriting' <=> BackWriting
    BY <2>1, <2>2, <2>3, BackSameDisk DEF BackMoving, BackWriting
  <2> QED  BY <2>4, <2>5 DEF BackInv
<1> QED  BY <1>1, <1>2, BackLoad, BackBegin, BackMove, BackWrite, BackStop
         DEF FilesNext, SaveStep

\* LoadWorld goes back at most twice, whatever number of crashes, in whatever
\* steps, the disk has seen: to the archive that the main files name and, if that
\* was cut short too, to the one that it names, and that one is whole.  So the
\* loop of LoadWorld ends ("break endless loop", CWorld.cpp:1422).
THEOREM AtMostTwoBackAlways == FilesSpec => AtMostTwoBack
<1>1. ASSUME FilesTypeOK, BackInv, LoadPrevious, names["world"] # Main
      PROVE  LoadSucceeds'
  <2>1. /\ doing = "load" /\ ~LoadSucceeds /\ disk' = disk
        /\ names' = [k \in Kinds |-> BackupName(CountRead)]
        /\ \A k \in Kinds : names[k] # BackupName(CountRead)
        /\ "world" \in Kinds /\ Restored \subseteq Kinds
    BY <1>1, OrderFacts DEF LoadPrevious, Restored
  <2>2. ~Named(Main)
    BY <2>1, <1>1 DEF Named
  <2>3. PICK h \in Nat \ {0} : /\ LeadsBack(h)
          /\ \/ Named(BackupName(h)) /\ saveCount = h
             \/ /\ Named(BackupName(h + 1)) /\ saveCount = h + 1
                /\ Loads(Under(BackupName(h + 1)))
    BY <2>1, <2>2, <1>1 DEF BackInv, BackLoading
  <2>4. Named(BackupName(h)) /\ saveCount = h
    BY <2>1, <2>3, <1>1, LoadReads, ArchiveNames
  <2>5. (LoadSucceeds <=> Loads(Under(BackupName(h))))
        /\ CountRead = Lead(Under(BackupName(h)), h)
    BY <2>4, <1>1, LoadReads, ArchiveNames
  <2>6. CountRead # h
    BY <2>1, <2>4 DEF Named
  <2>7. CountRead = h + 1 /\ Loads(Under(BackupName(h + 1)))
    BY <2>1, <2>3, <2>5, <2>6 DEF LeadsBack, Back, BackFrom
  <2>8. \A k \in Restored : IsWhole(disk'[k][names'[k]])
    BY <2>1, <2>7 DEF Loads, Under
  <2> QED  BY <2>8 DEF LoadSucceeds, Content, Restored
<1> QED  BY <1>1, BackInit, BackNext, FilesInvariant, PTL
           DEF FilesSpec, AtMostTwoBack
=============================================================================
