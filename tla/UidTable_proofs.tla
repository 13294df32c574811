-------------------------- MODULE UidTable_proofs --------------------------
(***************************************************************************)
(* Proofs about UidTable, for every set of objects, every size of the      *)
(* table and every size of the free list.                                  *)
(***************************************************************************)
EXTENDS UidTable, FiniteSetTheorems, WellFoundedInduction, TLAPS

\* An object that does not exist bears no UID.
NoneHasNoUid == \A o \in Objs : state[o] = "none" => uid[o] = 0

\* Reading the free list from its offset on ends at once.
ListSpent == freeOffset < FreeUidsSize => freeUids[freeOffset] = 0

IInv == TypeOK /\ LinkedBothWays /\ NoneHasNoUid /\ ListSpent

----------------------------------------------------------------------------
(* The search for a slot.                                                  *)

\* A set of natural numbers has a least one.
LEMMA LeastExists ==
  ASSUME NEW S \in SUBSET Nat, S # {}
  PROVE  \E n \in S : \A m \in S : n <= m
<1>1. \E x \in S : \A y \in S : ~(<<y, x>> \in OpToRel(<, Nat))
  BY NatLessThanWellFounded, WFMin
<1>2. PICK x \in S : \A y \in S : ~(<<y, x>> \in OpToRel(<, Nat))
  BY <1>1
<1>3. \A y \in S : ~(y < x)
  BY <1>2 DEF OpToRel
<1> QED
  BY <1>3

\* The list of free UIDs is never read: no entry from the offset on counts.
LEMMA NothingListed ==
  ASSUME IInv
  PROVE  Listed = {} /\ ListedFree = {}
<1>1. \A i \in freeOffset .. FreeUidsSize - 1 : \E j \in freeOffset .. i : freeUids[j] = 0
  BY SizeAssumption DEF IInv, TypeOK, ListSpent
<1> QED
  BY <1>1 DEF Listed, ListedFree

\* A probe of AllocUID is a slot of the table.
LEMMA ProbeIsUid ==
  ASSUME IInv, NEW k \in 0 .. size - 2
  PROVE  Probe(k) \in Uids
BY DEF IInv, TypeOK, Probe, Uids

\* The probes reach every slot.
LEMMA ProbesReachAll ==
  ASSUME IInv, NEW u \in Uids
  PROVE  \E k \in 0 .. size - 2 : Probe(k) = u
<1>1. CASE u <= last
  <2>1. last - u \in 0 .. size - 2 /\ Probe(last - u) = u
    BY <1>1 DEF IInv, TypeOK, Probe, Uids
  <2> QED
    BY <2>1
<1>2. CASE u > last
  <2>1. last - u + size - 1 \in 0 .. size - 2 /\ Probe(last - u + size - 1) = u
    BY <1>2 DEF IInv, TypeOK, Probe, Uids
  <2> QED
    BY <2>1
<1> QED
  BY <1>1, <1>2 DEF IInv, TypeOK, Uids

\* AllocUID(0) gives a free slot, or the first one behind the table when
\* there is none.
LEMMA AutoSlotIsFree ==
  ASSUME IInv
  PROVE  \/ AutoSlot \in Uids /\ table[AutoSlot] = Null
         \/ AutoSlot = size /\ \A u \in Uids : table[u] # Null
<1>1. CASE FreeProbes = {}
  <2>1. AutoSlot = size
    BY <1>1, NothingListed DEF AutoSlot
  <2>2. \A u \in Uids : table[u] # Null
    BY <1>1, ProbesReachAll DEF FreeProbes
  <2> QED
    BY <2>1, <2>2
<1>2. CASE FreeProbes # {}
  <2>1. FreeProbes \in SUBSET Nat
    BY DEF FreeProbes, IInv, TypeOK
  <2>2. \E k \in FreeProbes : \A j \in FreeProbes : k <= j
    BY <1>2, <2>1, LeastExists
  <2> DEFINE first == CHOOSE k \in FreeProbes : \A j \in FreeProbes : k <= j
  <2>3. first \in FreeProbes
    BY <2>2
  <2>4. AutoSlot = Probe(first)
    BY <1>2, NothingListed DEF AutoSlot
  <2>5. Probe(first) \in Uids /\ table[Probe(first)] = Null
    BY <2>3, ProbeIsUid DEF FreeProbes
  <2> QED
    BY <2>4, <2>5
<1> QED
  BY <1>1, <1>2

\* The table grows beyond the slot it grows for, and never shrinks.
LEMMA SizeForHolds ==
  ASSUME IInv, NEW u \in Nat
  PROVE  /\ SizeFor(u) \in Nat
         /\ SizeFor(u) > u
         /\ SizeFor(u) >= size
<1>1. CASE u < size
  BY <1>1 DEF SizeFor, IInv, TypeOK
<1>2. CASE u >= size
  <2> DEFINE q == (u + Block) \div Block
             r == (u + Block) % Block
  <2>1. Block \in Nat /\ Block > 0
    BY SizeAssumption
  <2>2. q \in Nat /\ r \in 0 .. Block - 1
    BY <2>1
  <2>3. u + Block = Block * q + r
    BY <2>1
  <2>4. Block * q \in Nat /\ q * Block = Block * q
    BY <2>1, <2>2
  <2>5. SizeFor(u) = q * Block
    BY <1>2 DEF SizeFor, IInv, TypeOK
  <2> HIDE DEF q, r
  <2>6. q * Block > u
    BY <2>1, <2>2, <2>3, <2>4
  <2> QED
    BY <1>2, <2>4, <2>5, <2>6 DEF IInv, TypeOK
<1> QED
  BY <1>1, <1>2 DEF IInv, TypeOK

----------------------------------------------------------------------------
(* What the steps do to the table.                                         *)

\* Putting o in slot u changes that slot, and adds free ones.
LEMMA PutChangesOneSlot ==
  ASSUME IInv, NEW tbl \in [Uids -> Objs \cup {Null, Held}],
         NEW o \in Objs, NEW u \in Nat \ {0}, Put(tbl, o, u)
  PROVE  /\ size' \in Nat /\ size' >= size /\ last' = u /\ u \in Uids'
         /\ table' \in [Uids' -> Objs \cup {Null, Held}]
         /\ table'[u] = o
         /\ \A v \in Uids' : v # u => table'[v] = IF v \in Uids THEN tbl[v] ELSE Null
         /\ \A v \in Uids : v \in Uids'
<1>1. SizeFor(u) \in Nat /\ SizeFor(u) > u /\ SizeFor(u) >= size
  BY SizeForHolds
<1>2. size \in Nat /\ size' = SizeFor(u) /\ last' = u
  BY DEF Put, IInv, TypeOK
<1>3. Uids' = 1 .. SizeFor(u) - 1
  BY <1>2 DEF Uids
<1>4. u \in Uids' /\ \A v \in Uids : v \in Uids'
  BY <1>1, <1>2, <1>3 DEF Uids
<1>5. table' = [v \in Uids' |-> IF v = u THEN o ELSE IF v < size THEN tbl[v] ELSE Null]
  BY <1>3 DEF Put
<1>6. \A v \in Uids' : v < size <=> v \in Uids
  BY <1>1, <1>2, <1>3 DEF Uids
<1>7. table' = [v \in Uids' |-> IF v = u THEN o ELSE IF v \in Uids THEN tbl[v] ELSE Null]
  BY <1>5, <1>6
<1> QED
  BY <1>1, <1>2, <1>4, <1>7

\* Destroying objects of the table leaves the slots of the others alone.
LEMMA DestroyKeepsLinks ==
  ASSUME IInv, NEW gone \in SUBSET Objs, Destroy(gone),
         UNCHANGED <<saving, broken>>
  PROVE  /\ size' = size /\ Uids' = Uids /\ last' = last
         /\ table' \in [Uids -> Objs \cup {Null, Held}]
         /\ uid' \in [Objs -> Nat]
         /\ state' \in [Objs -> {"none", "new", "placed", "deleted"}]
         /\ LinkedBothWays' /\ NoneHasNoUid'
<1>1. size' = size /\ Uids' = Uids /\ last' = last
  BY DEF Destroy, Uids
<1>2. table' = [u \in Uids |-> IF table[u] \in gone THEN Freed ELSE table[u]]
  BY DEF Destroy, TableWithout, IInv, LinkedBothWays
<1>3. Freed \in {Null, Held} /\ Freed \notin Objs
  BY ObjsAssumption DEF Freed
<1>4. table' \in [Uids -> Objs \cup {Null, Held}]
  BY <1>2, <1>3 DEF IInv, TypeOK
<1>5. /\ uid' = [o \in Objs |-> IF o \in gone THEN 0 ELSE uid[o]]
      /\ state' = [o \in Objs |-> IF o \in gone THEN "none" ELSE state[o]]
  BY DEF Destroy
<1>6. /\ uid' \in [Objs -> Nat]
      /\ state' \in [Objs -> {"none", "new", "placed", "deleted"}]
  BY <1>5 DEF IInv, TypeOK
<1>7. NoneHasNoUid'
  BY <1>5 DEF NoneHasNoUid, IInv, TypeOK
<1>8. Alive' = Alive \ gone
  BY <1>5 DEF Alive, IInv, TypeOK
<1>9. \A o \in Alive' : uid'[o] \in Uids' /\ table'[uid'[o]] = o
  BY <1>1, <1>2, <1>5, <1>8 DEF IInv, LinkedBothWays, Alive
<1>10. \A u \in Uids' : table'[u] \in Objs => table'[u] \in Alive' /\ uid'[table'[u]] = u
  BY <1>1, <1>2, <1>3, <1>5, <1>8 DEF IInv, LinkedBothWays, Alive
<1> QED
  BY <1>1, <1>4, <1>6, <1>7, <1>9, <1>10 DEF LinkedBothWays

----------------------------------------------------------------------------
(* Every step keeps the invariant.                                         *)

\* A new object gets a slot of its own (CObjBase::CObjBase).
LEMMA CreateKeeps ==
  ASSUME IInv, NEW o \in Objs, Create(o)
  PROVE  IInv'
<1> DEFINE u == AutoSlot
<1>1. u \in Nat \ {0}
  BY AutoSlotIsFree DEF IInv, TypeOK, Uids
<1>2. table \in [Uids -> Objs \cup {Null, Held}]
  BY DEF IInv, TypeOK
<1>3. u \in Uids => table[u] = Null
  BY AutoSlotIsFree DEF IInv, TypeOK, Uids
<1>4. Put(table, o, u)
  BY DEF Create
<1>5. /\ uid' = [uid EXCEPT ![o] = u] /\ state' = [state EXCEPT ![o] = "new"]
      /\ freeOffset' = FreeUidsSize /\ UNCHANGED <<freeUids, saving, broken>>
      /\ state[o] = "none"
  BY NothingListed DEF Create
<1> HIDE DEF u
<1>6. /\ size' \in Nat /\ size' >= size /\ last' = u /\ u \in Uids'
      /\ table' \in [Uids' -> Objs \cup {Null, Held}]
      /\ table'[u] = o
      /\ \A v \in Uids' : v # u => table'[v] = IF v \in Uids THEN table[v] ELSE Null
      /\ \A v \in Uids : v \in Uids'
  BY <1>1, <1>2, <1>4, PutChangesOneSlot
<1>7. TypeOK'
  BY <1>1, <1>5, <1>6, SizeAssumption DEF IInv, TypeOK
<1>8. Alive' = Alive \cup {o} /\ o \notin Alive
  BY <1>5 DEF Alive, IInv, TypeOK
<1>9. \A p \in Alive' : uid'[p] \in Uids' /\ table'[uid'[p]] = p
  <2>1. \A p \in Alive : uid[p] # u
    BY <1>3, ObjsAssumption DEF IInv, LinkedBothWays, Alive
  <2> QED
    BY <2>1, <1>5, <1>6, <1>8 DEF IInv, TypeOK, LinkedBothWays, Alive
<1>10. \A v \in Uids' : table'[v] \in Objs => table'[v] \in Alive' /\ uid'[table'[v]] = v
  BY <1>5, <1>6, <1>8, ObjsAssumption DEF IInv, TypeOK, LinkedBothWays
<1>11. NoneHasNoUid'
  BY <1>5 DEF IInv, TypeOK, NoneHasNoUid
<1>12. ListSpent'
  BY <1>5, SizeAssumption DEF ListSpent
<1> QED
  BY <1>7, <1>9, <1>10, <1>11, <1>12 DEF IInv, LinkedBothWays

\* An object that is given a UID leaves its own and destroys the bearer of
\* the new one (CObjBase::SetUID).
LEMMA SetUidKeeps ==
  ASSUME IInv, NEW o \in Objs, NEW u \in 1 .. MaxSize - 1, SetUID(o, u)
  PROVE  IInv'
<1> DEFINE rest == [v \in Uids |-> IF v = uid[o] THEN Freed ELSE table[v]]
           prev == {p \in Objs : u \in Uids /\ rest[u] = p}
<1>1. u \in Nat \ {0}
  BY SizeAssumption
<1>2. Freed = Null /\ Null \notin Objs /\ Held \notin Objs
  BY ObjsAssumption DEF SetUID, Freed
<1>3. rest \in [Uids -> Objs \cup {Null, Held}]
  BY <1>2 DEF IInv, TypeOK
<1>4. /\ Put(rest, o, u)
      /\ uid' = [p \in Objs |-> IF p = o THEN u ELSE IF p \in prev THEN 0 ELSE uid[p]]
      /\ state' = [p \in Objs |->
           IF p = o THEN IF state[o] = "none" THEN "new" ELSE state[o]
           ELSE IF p \in prev THEN "none" ELSE state[p]]
      /\ UNCHANGED <<freeUids, freeOffset, saving, broken>>
  BY DEF SetUID
<1>5. \A v \in Uids : rest[v] # o
  BY <1>2 DEF IInv, LinkedBothWays
<1>6. \A v \in Uids : rest[v] \in Objs => rest[v] = table[v]
  BY <1>2
<1>7. \A p \in Alive : p # o => uid[p] \in Uids /\ rest[uid[p]] = p
  <2>1. ASSUME NEW p \in Alive, p # o
        PROVE  uid[p] # uid[o]
    <3>1. uid[p] \in Uids /\ table[uid[p]] = p
      BY DEF IInv, LinkedBothWays
    <3>2. CASE o \in Alive
      BY <2>1, <3>1, <3>2 DEF IInv, LinkedBothWays
    <3>3. CASE o \notin Alive
      BY <3>1, <3>3 DEF IInv, NoneHasNoUid, Alive, Uids, TypeOK
    <3> QED
      BY <3>2, <3>3
  <2> QED
    BY <2>1 DEF IInv, LinkedBothWays
<1>8. \A p \in Objs : p \in prev <=> u \in Uids /\ rest[u] = p
  OBVIOUS
<1>9. prev \subseteq Objs
  OBVIOUS
<1> HIDE DEF rest, prev
<1>10. /\ size' \in Nat /\ size' >= size /\ last' = u /\ u \in Uids'
       /\ table' \in [Uids' -> Objs \cup {Null, Held}]
       /\ table'[u] = o
       /\ \A v \in Uids' : v # u => table'[v] = IF v \in Uids THEN rest[v] ELSE Null
       /\ \A v \in Uids : v \in Uids'
  BY <1>1, <1>3, <1>4, PutChangesOneSlot
<1>11. TypeOK'
  BY <1>1, <1>4, <1>10 DEF IInv, TypeOK
<1>12. Alive' = (Alive \ prev) \cup {o}
  BY <1>4 DEF Alive, IInv, TypeOK
<1>13. \A p \in Alive' : uid'[p] \in Uids' /\ table'[uid'[p]] = p
  <2>1. ASSUME NEW p \in Alive', p # o
        PROVE  uid'[p] \in Uids' /\ table'[uid'[p]] = p
    <3>1. p \in Alive /\ p \notin prev /\ p \in Objs
      BY <2>1, <1>12 DEF Alive
    <3>2. uid'[p] = uid[p] /\ uid[p] \in Uids /\ rest[uid[p]] = p
      BY <2>1, <3>1, <1>4, <1>7
    <3>3. uid[p] # u
      BY <3>1, <3>2, <1>8
    <3> QED
      BY <3>2, <3>3, <1>10
  <2>2. uid'[o] \in Uids' /\ table'[uid'[o]] = o
    BY <1>4, <1>10
  <2> QED
    BY <2>1, <2>2
<1>14. \A v \in Uids' : table'[v] \in Objs => table'[v] \in Alive' /\ uid'[table'[v]] = v
  <2>1. ASSUME NEW v \in Uids', v # u, table'[v] \in Objs
        PROVE  table'[v] \in Alive' /\ uid'[table'[v]] = v
    <3>1. v \in Uids /\ table'[v] = rest[v] /\ rest[v] = table[v]
      BY <2>1, <1>2, <1>6, <1>10
    <3>2. table[v] \in Alive /\ uid[table[v]] = v /\ table[v] # o
      BY <2>1, <3>1, <1>5 DEF IInv, LinkedBothWays
    <3>3. table[v] \notin prev
      <4>1. ASSUME table[v] \in prev
            PROVE  FALSE
        <5>1. u \in Uids /\ rest[u] = table[v] /\ table[v] \in Objs
          BY <4>1, <1>8, <1>9
        <5>2. table[u] = table[v]
          BY <5>1, <1>6
        <5> QED
          BY <2>1, <5>1, <5>2, <3>2 DEF IInv, LinkedBothWays
      <4> QED
        BY <4>1
    <3> QED
      BY <2>1, <3>1, <3>2, <3>3, <1>4, <1>12
  <2> QED
    BY <2>1, <1>4, <1>10, <1>12
<1>15. NoneHasNoUid'
  BY <1>4 DEF IInv, TypeOK, NoneHasNoUid
<1>16. ListSpent'
  BY <1>4 DEF IInv, ListSpent
<1> QED
  BY <1>11, <1>13, <1>14, <1>15, <1>16 DEF IInv, LinkedBothWays

\* The garbage collection leaves a list that is read from its end on
\* (CWorldThread::GarbageCollection_UIDs).
LEMMA CollectKeeps ==
  ASSUME IInv, NEW weird \in SUBSET Objs, CollectGarbage(weird)
  PROVE  IInv'
<1> DEFINE gone == Unplaced \cup weird
           holes == {u \in Uids : TableWithout(gone)[u] = Null}
           found == Cardinality(holes)
           listed == IF found <= FreeUidsSize - 1 THEN found ELSE FreeUidsSize - 1
<1>1. gone \in SUBSET Objs /\ Destroy(gone) /\ UNCHANGED <<saving, broken>>
  BY DEF CollectGarbage, Unplaced
<1>2. IsFiniteSet(Uids)
  BY FS_Interval DEF Uids, IInv, TypeOK
<1>3. found \in Nat
  BY <1>2, FS_Subset, FS_CardinalityType
<1>4. /\ freeOffset' = listed
      /\ freeUids' = [i \in 0 .. FreeUidsSize - 1 |-> IF i < listed THEN Nth(holes, i) ELSE 0]
  BY DEF CollectGarbage
<1> HIDE DEF found
<1>5. listed \in 0 .. FreeUidsSize - 1
  BY <1>3, SizeAssumption
<1>6. ListSpent'
  BY <1>4, <1>5 DEF ListSpent
<1> HIDE DEF listed, gone
<1>7. /\ size' = size /\ Uids' = Uids /\ last' = last
      /\ table' \in [Uids -> Objs \cup {Null, Held}]
      /\ uid' \in [Objs -> Nat]
      /\ state' \in [Objs -> {"none", "new", "placed", "deleted"}]
      /\ LinkedBothWays' /\ NoneHasNoUid'
  BY <1>1, DestroyKeepsLinks
<1>8. TypeOK'
  BY <1>1, <1>4, <1>5, <1>7, SizeAssumption DEF IInv, TypeOK
<1> QED
  BY <1>6, <1>7, <1>8 DEF IInv

\* Destructors without a garbage collection (CSObjCont::ClearContainer).
LEMMA DestroyKeeps ==
  ASSUME IInv, NEW gone \in SUBSET Objs, Destroy(gone),
         UNCHANGED <<freeUids, freeOffset, saving, broken>>
  PROVE  IInv'
<1>1. /\ size' = size /\ Uids' = Uids /\ last' = last
      /\ table' \in [Uids -> Objs \cup {Null, Held}]
      /\ uid' \in [Objs -> Nat]
      /\ state' \in [Objs -> {"none", "new", "placed", "deleted"}]
      /\ LinkedBothWays' /\ NoneHasNoUid'
  BY DestroyKeepsLinks
<1>2. TypeOK' /\ ListSpent'
  BY <1>1 DEF IInv, TypeOK, ListSpent
<1> QED
  BY <1>1, <1>2 DEF IInv

\* Placing and deleting an object, and the steps of a save.
LEMMA OtherStepsKeep ==
  ASSUME IInv,
         \/ \E o \in Objs : Place(o) \/ Delete(o)
         \/ StartSave \/ EndSave \/ BreakSave
  PROVE  IInv'
<1>1. CASE \E o \in Objs : Place(o) \/ Delete(o)
  <2>1. PICK o \in Objs : Place(o) \/ Delete(o)
    BY <1>1
  <2>2. UNCHANGED tableVars /\ UNCHANGED <<saving, broken>>
    BY <2>1 DEF Place, Delete
  <2>3. state[o] # "none" /\ \E s \in {"placed", "deleted"} : state' = [state EXCEPT ![o] = s]
    BY <2>1 DEF Place, Delete
  <2>4. Alive' = Alive
    BY <2>3 DEF Alive, IInv, TypeOK
  <2>5. TypeOK' /\ NoneHasNoUid'
    BY <2>2, <2>3 DEF tableVars, IInv, TypeOK, NoneHasNoUid, Uids
  <2>6. LinkedBothWays' /\ ListSpent'
    BY <2>2, <2>4 DEF tableVars, IInv, LinkedBothWays, ListSpent, Uids
  <2> QED
    BY <2>5, <2>6 DEF IInv
<1>2. CASE StartSave \/ BreakSave
  <2>1. UNCHANGED tableVars /\ state' = state /\ saving' \in BOOLEAN
    BY <1>2 DEF StartSave, BreakSave
  <2>2. broken' = broken \/ (broken < MaxBroken /\ broken' = broken + 1)
    BY <1>2 DEF StartSave, BreakSave
  <2>3. broken' \in 0 .. MaxBroken
    BY <2>2, SizeAssumption DEF IInv, TypeOK
  <2>4. UNCHANGED tableVars /\ state' = state /\ saving' \in BOOLEAN /\ broken' \in 0 .. MaxBroken
    BY <2>1, <2>3
  <2>5. TypeOK' /\ NoneHasNoUid' /\ LinkedBothWays' /\ ListSpent'
    BY <2>4 DEF tableVars, IInv, TypeOK, NoneHasNoUid, LinkedBothWays, ListSpent, Uids, Alive
  <2> QED
    BY <2>5 DEF IInv
<1>3. CASE EndSave
  <2>1. Uids' = Uids /\ Alive' = Alive
    BY <1>3 DEF EndSave, Uids, Alive
  <2>2. table' \in [Uids -> Objs \cup {Null, Held}] /\ \A u \in Uids, o \in Objs : table'[u] = o <=> table[u] = o
    BY <1>3, ObjsAssumption DEF EndSave, IInv, TypeOK
  <2>3. TypeOK' /\ NoneHasNoUid' /\ ListSpent'
    BY <1>3, <2>1, <2>2 DEF EndSave, IInv, TypeOK, NoneHasNoUid, ListSpent
  <2>4. LinkedBothWays'
    BY <1>3, <2>1, <2>2 DEF EndSave, IInv, LinkedBothWays, Alive
  <2> QED
    BY <2>3, <2>4 DEF IInv
<1> QED
  BY <1>1, <1>2, <1>3

\* Every step keeps the invariant.
LEMMA NextKeeps ==
  ASSUME IInv, [Next]_vars
  PROVE  IInv'
<1>1. ASSUME NEW o \in Objs, Create(o)
      PROVE  IInv'
  BY <1>1, CreateKeeps
<1>2. ASSUME NEW o \in Objs, NEW u \in 1 .. MaxSize - 1, SetUID(o, u)
      PROVE  IInv'
  BY <1>2, SetUidKeeps
<1>3. CASE ClearDeleted
  <2>1. Scheduled \in SUBSET Objs
    BY DEF Scheduled
  <2> QED
    BY <1>3, <2>1, DestroyKeeps DEF ClearDeleted
<1>4. CASE FirstStage
  <2>1. Unplaced \in SUBSET Objs
    BY DEF Unplaced
  <2> QED
    BY <1>4, <2>1, DestroyKeeps DEF FirstStage
<1>5. ASSUME NEW weird \in SUBSET Objs, CollectGarbage(weird)
      PROVE  IInv'
  BY <1>5, CollectKeeps
<1>6. CASE \/ \E o \in Objs : Place(o) \/ Delete(o)
           \/ StartSave \/ EndSave \/ BreakSave
  BY <1>6, OtherStepsKeep
<1>7. CASE UNCHANGED vars
  BY <1>7 DEF vars, IInv, TypeOK, LinkedBothWays, NoneHasNoUid, ListSpent, Uids, Alive
<1> QED
  BY <1>1, <1>2, <1>3, <1>4, <1>5, <1>6, <1>7 DEF Next

\* The table at the start (CWorldThread::InitUIDs).
LEMMA InitHolds ==
  ASSUME Init
  PROVE  IInv
<1>1. size \in Nat /\ size >= 2 /\ last \in Uids
      /\ freeOffset \in 0 .. FreeUidsSize /\ broken \in 0 .. MaxBroken
  BY SizeAssumption DEF Init, Uids
<1>2. table = [u \in Uids |-> Null] /\ \A u \in Uids : table[u] \notin Objs
  BY ObjsAssumption DEF Init, Uids
<1>3. /\ table \in [Uids -> Objs \cup {Null, Held}]
      /\ DOMAIN freeUids = 0 .. FreeUidsSize - 1
      /\ uid \in [Objs -> Nat]
      /\ state \in [Objs -> {"none", "new", "placed", "deleted"}]
      /\ saving \in BOOLEAN
  BY <1>2 DEF Init
<1>4. LinkedBothWays /\ NoneHasNoUid
  BY <1>2 DEF Init, LinkedBothWays, NoneHasNoUid, Alive
<1>5. ListSpent
  BY SizeAssumption DEF Init, ListSpent
<1> QED
  BY <1>1, <1>3, <1>4, <1>5 DEF IInv, TypeOK

----------------------------------------------------------------------------
(* The theorems.                                                           *)

\* The inductive invariant holds of every behaviour of CWorldThread's table.
THEOREM UidInvariant == Spec => []IInv
<1>1. Init => IInv
  BY InitHolds
<1>2. IInv /\ [Next]_vars => IInv'
  BY NextKeeps
<1> QED
  BY <1>1, <1>2, PTL DEF Spec

\* FindUID finds every object by its UID and nothing else (CWorld.cpp:302).
THEOREM UidsAreLinked == Spec => []LinkedBothWays
<1>1. IInv => LinkedBothWays
  BY DEF IInv
<1> QED
  BY <1>1, UidInvariant, PTL

\* The list the garbage collection fills is never read (CWorld.cpp:333): no
\* entry from the offset on counts.
THEOREM FreeListIsDead == Spec => [](ListedFree = {})
<1>1. IInv => ListedFree = {}
  BY NothingListed
<1> QED
  BY <1>1, UidInvariant, PTL

\* A UID in use while a save is under way is given to no other object before
\* the save is over (CWorldThread::FreeUID).
THEOREM UidsAreKept == Spec => UidsLastForTheSave
<1> DEFINE Kept == saving /\ saving' =>
             \A u \in Uids : table[u] # Null => table'[u] \in {table[u], Held}
<1>1. ASSUME IInv, [Next]_vars
      PROVE  Kept
  <2> SUFFICES ASSUME saving, saving', NEW u \in Uids, table[u] # Null
               PROVE  table'[u] \in {table[u], Held}
    OBVIOUS
  <2>1. ASSUME NEW o \in Objs, Create(o)
        PROVE  table'[u] = table[u]
    <3>1. AutoSlot \in Nat \ {0} /\ u # AutoSlot
      BY <1>1, AutoSlotIsFree DEF IInv, TypeOK, Uids
    <3>2. Put(table, o, AutoSlot) /\ table \in [Uids -> Objs \cup {Null, Held}]
      BY <1>1, <2>1 DEF Create, IInv, TypeOK
    <3> QED
      BY <1>1, <3>1, <3>2, PutChangesOneSlot
  <2>2. ASSUME NEW gone \in SUBSET Objs, Destroy(gone)
        PROVE  table'[u] \in {table[u], Held}
    BY <2>2 DEF Destroy, TableWithout, Freed
  <2>3. ASSUME NEW weird \in SUBSET Objs, CollectGarbage(weird)
        PROVE  table'[u] \in {table[u], Held}
    BY <2>2, <2>3 DEF CollectGarbage, Unplaced
  <2>4. CASE ClearDeleted \/ FirstStage
    BY <2>2, <2>4 DEF ClearDeleted, FirstStage, Scheduled, Unplaced
  <2>5. CASE \E o \in Objs : Place(o) \/ Delete(o)
    BY <2>5 DEF Place, Delete, tableVars
  <2>6. ASSUME NEW o \in Objs, NEW v \in 1 .. MaxSize - 1, SetUID(o, v)
        PROVE  FALSE
    BY <2>6 DEF SetUID
  <2>7. CASE StartSave \/ EndSave \/ BreakSave
    BY <2>7 DEF StartSave, EndSave, BreakSave
  <2>8. CASE UNCHANGED vars
    BY <2>8 DEF vars
  <2> QED
    BY <1>1, <2>1, <2>3, <2>4, <2>5, <2>6, <2>7, <2>8 DEF Next
<1>2. IInv /\ [Next]_vars => [Kept]_vars
  BY <1>1
<1> QED
  BY <1>2, UidInvariant, PTL DEF Spec, UidsLastForTheSave

\* A new object makes the table grow only when every slot is taken
\* (CWorldThread::AllocUID).
THEOREM TableGrowsWhenFull == Spec => GrowsOnlyWhenFull
<1> DEFINE Full == (\E o \in Objs : Create(o)) /\ size' # size =>
             \A u \in Uids : table[u] # Null
<1>1. ASSUME IInv
      PROVE  Full
  <2> SUFFICES ASSUME NEW o \in Objs, Create(o), size' # size
               PROVE  \A u \in Uids : table[u] # Null
    OBVIOUS
  <2>1. size' = SizeFor(AutoSlot)
    BY DEF Create, Put
  <2>2. AutoSlot \notin Uids
    BY <1>1, <2>1 DEF SizeFor, Uids, IInv, TypeOK
  <2> QED
    BY <1>1, <2>2, AutoSlotIsFree
<1>2. IInv => [Full]_vars
  BY <1>1
<1> QED
  BY <1>2, UidInvariant, PTL DEF GrowsOnlyWhenFull
=============================================================================
