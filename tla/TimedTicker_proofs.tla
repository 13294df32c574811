------------------------- MODULE TimedTicker_proofs -------------------------
(***************************************************************************)
(* Proofs about TimedTicker, for every set of objects, every delay and     *)
(* every horizon.  The inductive invariant IInv says that the flags and    *)
(* the vectors agree; everything else follows from it.                     *)
(***************************************************************************)
EXTENDS TimedTicker, FiniteSetTheorems, TLAPS

\* The vectors and flags have their types.
ListsTypeOK ==
  /\ inList \in [Objs -> BOOLEAN]
  /\ inAdd \in [Objs -> BOOLEAN]
  /\ main \subseteq Entry
  /\ addReq \subseteq Entry
  /\ eraseReq \subseteq Objs

\* The agreement of the flags with the vectors.
ListsAgree ==
  /\ ListsTypeOK
  /\ FlagsTellLists
  /\ Single(main)
  /\ Single(addReq)
  /\ EraseWithinMain

\* Outside the loop the buffer is empty, and it never has two entries of one
\* object.
BufferOK ==
  /\ Single(buffer)
  /\ pc \in {"loading", "idle", "ticked"} => buffer = {}
  /\ pc \notin {"callback", "returning"} => cur = {}

\* An object that does not exist is registered nowhere, and the loop has a
\* pointer to it only if garbage was collected in this tick.
GoneUnlisted ==
  \A o \in Objs : life[o] = "gone" =>
    /\ ~inList[o] /\ ~inAdd[o]
    /\ o \in ObjsOf(buffer) \cup cur => collected

IInv == TypeOK /\ ListsAgree /\ BufferOK /\ GoneUnlisted

----------------------------------------------------------------------------
(* The request operations keep the agreement.                              *)

\* AddTimedObject (CWorldTicker.cpp) keeps flags and vectors in agreement.
LEMMA AddKeepsAgreement ==
  ASSUME ListsAgree, NEW o \in Objs, NEW t \in Nat \ {0}, AddTimedObject(o, t)
  PROVE  ListsAgree'
<1>1. ListsTypeOK'
  BY DEF ListsAgree, ListsTypeOK, AddTimedObject, Entry, Of
<1>2. Single(main)' /\ EraseWithinMain'
  BY DEF ListsAgree, ListsTypeOK, FlagsTellLists, EraseWithinMain, Single,
         AddTimedObject, ObjsOf
<1>3. \A e \in addReq' : e = <<t, o>> \/ (e \in addReq /\ e[2] # o)
  BY DEF ListsAgree, FlagsTellLists, AddTimedObject, Of, ObjsOf
<1>4. \A e \in addReq : e[2] # o => e \in addReq'
  BY DEF AddTimedObject, Of
<1>5. <<t, o>> \in addReq'
  BY DEF AddTimedObject
<1>6. Single(addReq)'
  BY <1>3 DEF ListsAgree, Single
<1>7. \A p \in Objs : p \in ObjsOf(addReq') <=> (p = o \/ p \in ObjsOf(addReq))
  BY <1>3, <1>4, <1>5 DEF ObjsOf
<1>8. FlagsTellLists'
  BY <1>7 DEF ListsAgree, ListsTypeOK, FlagsTellLists, EraseWithinMain,
              AddTimedObject, ObjsOf
<1>. QED  BY <1>1, <1>2, <1>6, <1>8 DEF ListsAgree

\* DelTimedObject (CWorldTicker.cpp) of any set of objects keeps it too, and
\* none of them stays registered.
LEMMA DelKeepsAgreement ==
  ASSUME ListsAgree, NEW S \in SUBSET Objs, DelTimedObjects(S)
  PROVE  ListsAgree' /\ \A o \in S : ~inList'[o] /\ ~inAdd'[o]
<1>. DEFINE waiting == { o \in S : TickingActive(o) /\ inAdd[o] }
            listed == { o \in S : TickingActive(o) /\ ~inAdd[o] }
<1>1. /\ addReq' = { e \in addReq : e[2] \notin waiting }
      /\ eraseReq' = eraseReq \cup listed
      /\ inAdd' = [o \in Objs |-> inAdd[o] /\ o \notin S]
      /\ inList' = [o \in Objs |-> inList[o] /\ o \notin S]
      /\ main' = main
  BY Zenon DEF DelTimedObjects, TickingActive, ListsAgree, ListsTypeOK
<1>2. ListsTypeOK'
  BY <1>1 DEF ListsAgree, ListsTypeOK
<1>3. Single(main)' /\ Single(addReq)'
  BY <1>1 DEF ListsAgree, Single
<1>4. \A o \in listed : inList[o]
  BY DEF TickingActive
<1>5. EraseWithinMain'
  BY <1>1, <1>4 DEF ListsAgree, FlagsTellLists, EraseWithinMain
<1>6. \A o \in Objs : inAdd'[o] <=> o \in ObjsOf(addReq')
  <2>1. ObjsOf(addReq') = ObjsOf(addReq) \ waiting
    BY <1>1 DEF ObjsOf
  <2>2. \A o \in Objs : o \in waiting <=> o \in S /\ inAdd[o]
    BY DEF TickingActive
  <2>. QED  BY <1>1, <2>1, <2>2 DEF ListsAgree, FlagsTellLists
<1>7. \A o \in Objs : inList'[o] <=> o \in ObjsOf(main') \ eraseReq'
  BY <1>1 DEF ListsAgree, FlagsTellLists, TickingActive
<1>8. FlagsTellLists'
  BY <1>1, <1>6, <1>7 DEF ListsAgree, FlagsTellLists
<1>. QED  BY <1>1, <1>2, <1>3, <1>5, <1>8 DEF ListsAgree

----------------------------------------------------------------------------
(* The merge at the start of a tick.                                       *)

\* The main vector is finite: it holds one entry per object.
LEMMA MainFinite ==
  ASSUME ListsAgree
  PROVE  IsFiniteSet(main)
<1>. DEFINE f == [e \in main |-> e[2]]
<1>1. f \in Injection(main, Objs)
  BY DEF ListsAgree, ListsTypeOK, Entry, Single, Injection, IsInjective
<1>. QED  BY <1>1, FS_Injection, FiniteAssumption

\* reserve(main.size() - erase.size()) in UnsortedVecDifference never wraps:
\* the merge always happens.
LEMMA ReserveNeverWraps ==
  ASSUME ListsAgree
  PROVE  MergeFits
<1>. DEFINE g == [o \in eraseReq |-> CHOOSE e \in main : e[2] = o]
<1>1. \A o \in eraseReq : g[o] \in main /\ g[o][2] = o
  BY DEF ListsAgree, EraseWithinMain, ObjsOf
<1>2. g \in Injection(eraseReq, main)
  BY <1>1 DEF Injection, IsInjective
<1>. QED  BY <1>2, FS_Injection, MainFinite DEF MergeFits

\* What is merged: an object has an entry exactly when one of its flags holds,
\* and only one.
LEMMA MergedAgrees ==
  ASSUME ListsAgree
  PROVE  /\ Merged \subseteq Entry
         /\ Single(Merged)
         /\ \A o \in Objs : o \in ObjsOf(Merged) <=> TickingActive(o)
<1>1. Merged = { e \in main : e[2] \notin eraseReq } \cup addReq
  BY ReserveNeverWraps DEF Merged
<1>2. Merged \subseteq Entry
  BY <1>1 DEF ListsAgree, ListsTypeOK
<1>3. \A e \in main : e[2] \notin eraseReq => inList[e[2]] /\ ~inAdd[e[2]]
  BY DEF ListsAgree, ListsTypeOK, FlagsTellLists, ObjsOf, Entry
<1>4. \A e \in addReq : inAdd[e[2]]
  BY DEF ListsAgree, ListsTypeOK, FlagsTellLists, ObjsOf, Entry
<1>5. Single(Merged)
  BY <1>1, <1>3, <1>4 DEF ListsAgree, Single
<1>6. \A o \in Objs : o \in ObjsOf(Merged) <=> TickingActive(o)
  BY <1>1 DEF ListsAgree, FlagsTellLists, TickingActive, ObjsOf
<1>. QED  BY <1>2, <1>5, <1>6

\* The start of a tick: selection moves the due entries to the buffer and the
\* flags follow.
LEMMA StartTickKeepsIInv ==
  ASSUME IInv, StartTick
  PROVE  IInv'
<1>1. /\ ListsAgree /\ TypeOK
      /\ Merged \subseteq Entry
      /\ Single(Merged)
      /\ \A o \in Objs : o \in ObjsOf(Merged) <=> TickingActive(o)
  BY MergedAgrees DEF IInv
<1>2. /\ now' = now + 1
      /\ buffer' \subseteq Merged
      /\ main' = Merged \ buffer'
      /\ addReq' = {} /\ eraseReq' = {}
      /\ pc' = "loop"
      /\ inList' = [o \in Objs |-> /\ inList[o] \/ o \in ObjsOf(addReq)
                                   /\ o \notin ObjsOf(buffer')]
      /\ inAdd' = [o \in Objs |-> inAdd[o] /\ o \notin ObjsOf(addReq)]
      /\ UNCHANGED <<life, timeout, asleep, cur, collected>>
  BY DEF StartTick, Due, objVars
<1>3. ListsTypeOK'
  BY <1>1, <1>2 DEF ListsTypeOK
<1>4. TypeOK'
  <2>1. now' \in Nat \ {0} /\ buffer' \subseteq Entry /\ pc' \in Phases
    BY <1>1, <1>2 DEF TypeOK, Phases
  <2>. QED  BY <1>1, <1>2, <1>3, <2>1 DEF TypeOK, ListsTypeOK
<1>5. Single(main') /\ Single(buffer') /\ Single(addReq')
  BY <1>1, <1>2 DEF Single
<1>6. \A o \in Objs : o \in ObjsOf(main') <=> TickingActive(o) /\ o \notin ObjsOf(buffer')
  <2>1. \A o \in Objs : o \in ObjsOf(main') => o \notin ObjsOf(buffer')
    BY <1>1, <1>2 DEF Single, ObjsOf
  <2>2. \A o : o \in ObjsOf(Merged) <=> o \in ObjsOf(main') \/ o \in ObjsOf(buffer')
    BY <1>2 DEF ObjsOf
  <2>. QED  BY <1>1, <2>1, <2>2
<1>7. \A o \in Objs : TickingActive(o) <=> inList[o] \/ o \in ObjsOf(addReq)
  BY <1>1 DEF ListsAgree, FlagsTellLists, TickingActive
<1>8. \A o \in Objs : inList'[o] <=> o \in ObjsOf(main') \ eraseReq'
  BY <1>2, <1>6, <1>7
<1>9. \A o \in Objs : ~inAdd'[o] /\ o \notin ObjsOf(addReq')
  BY <1>1, <1>2 DEF ListsAgree, FlagsTellLists, ObjsOf
<1>10. FlagsTellLists'
  BY <1>8, <1>9 DEF FlagsTellLists
<1>11. EraseWithinMain'
  BY <1>2 DEF EraseWithinMain
<1>12. GoneUnlisted'
  <2>1. \A o \in Objs : TickingActive(o) => life[o] # "gone"
    BY DEF IInv, GoneUnlisted, TickingActive
  <2>2. \A o \in Objs : o \in ObjsOf(buffer') => TickingActive(o)
    BY <1>1, <1>2 DEF ObjsOf
  <2>3. \A o \in Objs : inList'[o] => TickingActive(o)
    BY <1>2, <1>7
  <2>4. cur' = {}
    BY <1>2 DEF IInv, BufferOK, StartTick
  <2>. QED  BY <1>2, <1>9, <2>1, <2>2, <2>3, <2>4 DEF GoneUnlisted
<1>. QED
  BY <1>2, <1>3, <1>4, <1>5, <1>10, <1>11, <1>12
     DEF IInv, ListsAgree, BufferOK, StartTick

\* ClearTickingLists after a failed load leaves no flag and no entry.
LEMMA FailLoadKeepsIInv ==
  ASSUME IInv, FailLoad
  PROVE  IInv'
<1>1. main' = {} /\ addReq' = {} /\ eraseReq' = {}
  BY DEF FailLoad
<1>2. \A o \in Objs : ~inList'[o] /\ ~inAdd'[o]
  BY DEF IInv, ListsAgree, FlagsTellLists, FailLoad
<1>3. TypeOK'
  BY DEF IInv, TypeOK, FailLoad, Entry
<1>4. ListsAgree'
  BY <1>1, <1>2, <1>3
     DEF ListsAgree, ListsTypeOK, FlagsTellLists, EraseWithinMain, Single,
         ObjsOf, TypeOK
<1>5. BufferOK'
  BY DEF IInv, BufferOK, FailLoad
<1>6. GoneUnlisted'
  BY <1>2 DEF IInv, BufferOK, FailLoad, GoneUnlisted, ObjsOf
<1>. QED  BY <1>3, <1>4, <1>5, <1>6 DEF IInv

----------------------------------------------------------------------------
(* The invariant.                                                          *)

LEMMA InitIInv == Init => IInv
<1>4. Init => collected \in BOOLEAN
  BY Zenon DEF Init
<1>1. Init => TypeOK
  BY <1>4 DEF Init, TypeOK, Entry, Phases
<1>2. Init => ListsAgree
  BY DEF Init, ListsAgree, ListsTypeOK, FlagsTellLists, EraseWithinMain, Single,
         ObjsOf, Entry
<1>3. Init => BufferOK /\ GoneUnlisted
  BY DEF Init, BufferOK, GoneUnlisted, Single, ObjsOf
<1>. QED  BY <1>1, <1>2, <1>3 DEF IInv

\* Arming an object (CTimedObject::_SetTimeout) with any delay.
LEMMA ArmKeepsAgreement ==
  ASSUME TypeOK, ListsAgree, NEW o \in Objs, NEW d \in Nat, Arm(o, d)
  PROVE  ListsAgree' /\ timeout' \in [Objs -> Nat]
<1>1. now + d \in Nat \ {0}
  BY DEF TypeOK
<1>2. ListsAgree'
  BY <1>1, AddKeepsAgreement DEF Arm
<1>. QED  BY <1>1, <1>2 DEF Arm, TypeOK


\* Operations of game code and the destructors change neither the buffer nor
\* the main list; this collects what is left to show about each of them.
LEMMA RequestStep ==
  ASSUME IInv, ListsAgree',
         UNCHANGED <<now, buffer, cur>>, pc' \in Phases, collected' \in BOOLEAN,
         pc' \in {"loading", "idle", "ticked"} => buffer = {},
         timeout' \in [Objs -> Nat], asleep' \in [Objs -> BOOLEAN],
         life' \in [Objs -> {"gone", "live", "deleting"}],
         pc' \notin {"callback", "returning"} => cur = {},
         \A o \in Objs : life'[o] = "gone" =>
            /\ ~inList'[o] /\ ~inAdd'[o]
            /\ o \in ObjsOf(buffer) \cup cur => collected'
  PROVE  IInv'
<1>1. TypeOK'
  BY DEF IInv, ListsAgree, ListsTypeOK, TypeOK
<1>2. BufferOK' /\ GoneUnlisted'
  BY DEF IInv, BufferOK, GoneUnlisted
<1>. QED  BY <1>1, <1>2 DEF IInv

\* An object that is asked for something exists: nothing that does not exist
\* becomes registered.
LEMMA OthersKeepFlags ==
  ASSUME IInv, NEW o \in Objs, life[o] # "gone",
         life' = life,
         \A p \in Objs \ {o} : inList'[p] = inList[p] /\ inAdd'[p] = inAdd[p]
  PROVE  \A p \in Objs : life'[p] = "gone" =>
            /\ ~inList'[p] /\ ~inAdd'[p]
            /\ p \in ObjsOf(buffer) \cup cur => collected
  BY DEF IInv, GoneUnlisted

\* The destructors of any objects keep the invariant, if what the buffer still
\* points to of them is owned up to in collected.
LEMMA DestructionKeepsIInv ==
  ASSUME IInv, NEW doomed \in SUBSET Objs, DelTimedObjects(doomed),
         life' = [o \in Objs |-> IF o \in doomed THEN "gone" ELSE life[o]],
         UNCHANGED <<now, timeout, asleep, buffer, cur>>,
         pc' \in Phases, collected' \in BOOLEAN,
         pc' \in {"loading", "idle", "ticked"} => buffer = {},
         pc' \notin {"callback", "returning"} => cur = {},
         collected' \/ ObjsOf(buffer) \cup cur = {}
  PROVE  IInv'
<1>a. TypeOK /\ ListsAgree /\ GoneUnlisted
  BY DEF IInv
<1>1. ListsAgree' /\ \A o \in doomed : ~inList'[o] /\ ~inAdd'[o]
  BY <1>a, DelKeepsAgreement
<1>2. \A o \in Objs : (inList'[o] => inList[o]) /\ (inAdd'[o] => inAdd[o])
  BY DEF DelTimedObjects
<1>3. \A o \in Objs : life'[o] = "gone" => o \in doomed \/ life[o] = "gone"
  OBVIOUS
<1>4. \A o \in Objs : life'[o] = "gone" =>
        /\ ~inList'[o] /\ ~inAdd'[o]
        /\ o \in ObjsOf(buffer) \cup cur => collected'
  BY <1>1, <1>2, <1>3, <1>a DEF GoneUnlisted
<1>5. life' \in [Objs -> {"gone", "live", "deleting"}]
  BY <1>a DEF TypeOK
<1>. QED  BY <1>1, <1>4, <1>5, <1>a, RequestStep DEF TypeOK

LEMMA NextIInv == IInv /\ [Next]_vars => IInv'
<1>. SUFFICES ASSUME IInv, [Next]_vars PROVE IInv'
  OBVIOUS
<1>a. TypeOK /\ ListsAgree /\ BufferOK /\ GoneUnlisted
  BY DEF IInv
<1>t. Delays \subseteq Nat /\ NpcDelay \in Nat
  BY TimeAssumption
<1>k. Npcs \subseteq Objs /\ Items \subseteq Objs /\ Chars \subseteq Objs
  BY KindAssumption DEF Objs
<1>1. ASSUME NEW o \in Objs, Create(o) PROVE IInv'
  <2>1. life[o] = "gone" /\ ~inList[o] /\ ~inAdd[o]
    BY <1>a, <1>1 DEF Create, GoneUnlisted
  <2>2. inList' = inList /\ inAdd' = inAdd
    BY <1>a, <1>1, <2>1 DEF Create, TypeOK
  <2>3. ListsAgree'
    BY <1>a, <1>1, <2>2 DEF Create, ListsAgree, ListsTypeOK, FlagsTellLists,
                         EraseWithinMain
  <2>4. /\ timeout' \in [Objs -> Nat] /\ asleep' \in [Objs -> BOOLEAN]
        /\ life' \in [Objs -> {"gone", "live", "deleting"}]
        /\ \A p \in Objs : life'[p] = "gone" => life[p] = "gone"
    BY <1>a, <1>1 DEF Create, TypeOK
  <2>. QED
    BY <1>1, <1>a, <2>2, <2>3, <2>4, RequestStep
       DEF Create, TypeOK, BufferOK, GoneUnlisted
<1>2. ASSUME NEW o \in Objs, NEW d \in Delays, SetTimeout(o, d) PROVE IInv'
  <2>1. ListsAgree' /\ timeout' \in [Objs -> Nat]
    BY <1>2, <1>a, <1>t, ArmKeepsAgreement DEF SetTimeout
  <2>2. \A p \in Objs \ {o} : inList'[p] = inList[p] /\ inAdd'[p] = inAdd[p]
    BY <1>2, <1>a DEF SetTimeout, Arm, AddTimedObject, TypeOK
  <2>. QED
    BY <1>2, <1>a, <2>1, <2>2, OthersKeepFlags, RequestStep
       DEF SetTimeout, TypeOK, BufferOK
<1>3. ASSUME NEW o \in Objs, ClearTimeout(o) PROVE IInv'
  <2>1. ListsAgree'
    BY <1>3, <1>a, DelKeepsAgreement DEF ClearTimeout
  <2>2. \A p \in Objs \ {o} : inList'[p] = inList[p] /\ inAdd'[p] = inAdd[p]
    BY <1>3, <1>a DEF ClearTimeout, DelTimedObjects, TypeOK
  <2>. QED
    BY <1>3, <1>a, <2>1, <2>2, OthersKeepFlags, RequestStep
       DEF ClearTimeout, TypeOK, BufferOK
<1>4. ASSUME NEW o \in Objs, GoAwake(o) PROVE IInv'
  <2>1. ListsAgree' /\ timeout' \in [Objs -> Nat]
    <3>1. CASE TimerSet(o) /\ AddTimedObject(o, timeout[o]) /\ UNCHANGED timeout
      BY <3>1, <1>a, AddKeepsAgreement DEF TypeOK, TimerSet
    <3>2. ASSUME NEW d \in Delays, Arm(o, d) PROVE ListsAgree' /\ timeout' \in [Objs -> Nat]
      BY <3>2, <1>a, <1>t, ArmKeepsAgreement
    <3>3. CASE UNCHANGED <<timeout, listVars>>
      BY <3>3, <1>a DEF listVars, TypeOK, ListsAgree, ListsTypeOK,
                        FlagsTellLists, EraseWithinMain
    <3>. QED  BY <1>4, <3>1, <3>2, <3>3 DEF GoAwake
  <2>2. \A p \in Objs \ {o} : inList'[p] = inList[p] /\ inAdd'[p] = inAdd[p]
    BY <1>4, <1>a DEF GoAwake, Arm, AddTimedObject, listVars, TypeOK
  <2>. QED
    BY <1>4, <1>a, <2>1, <2>2, OthersKeepFlags, RequestStep
       DEF GoAwake, TypeOK, BufferOK
<1>5. ASSUME NEW o \in Objs, GoSleep(o) PROVE IInv'
  <2>1. ListsAgree'
    BY <1>5, <1>a, DelKeepsAgreement DEF GoSleep
  <2>2. \A p \in Objs \ {o} : inList'[p] = inList[p] /\ inAdd'[p] = inAdd[p]
    BY <1>5, <1>a DEF GoSleep, DelTimedObjects, TypeOK
  <2>. QED
    BY <1>5, <1>a, <2>1, <2>2, OthersKeepFlags, RequestStep
       DEF GoSleep, TypeOK, BufferOK
<1>6. ASSUME NEW o \in Objs, NEW d \in Delays, NEW canTick \in BOOLEAN,
             LoadTimer(o, d, canTick)
      PROVE  IInv'
  <2>1. ListsAgree' /\ timeout' \in [Objs -> Nat]
    <3>1. CASE DelTimedObjects({o}) /\ timeout' = [timeout EXCEPT ![o] = 0]
      BY <3>1, <1>a, DelKeepsAgreement DEF TypeOK
    <3>2. CASE Arm(o, d)
      BY <3>2, <1>a, <1>t, ArmKeepsAgreement
    <3>. QED  BY <1>6, <3>1, <3>2 DEF LoadTimer
  <2>2. \A p \in Objs \ {o} : inList'[p] = inList[p] /\ inAdd'[p] = inAdd[p]
    BY <1>6, <1>a DEF LoadTimer, Arm, AddTimedObject, DelTimedObjects, TypeOK
  <2>. QED
    BY <1>6, <1>a, <2>1, <2>2, OthersKeepFlags, RequestStep
       DEF LoadTimer, TypeOK, BufferOK
<1>7. ASSUME NEW o \in Objs, Unlink(o), life[o] # "gone",
             UNCHANGED <<now, buffer, collected>>,
             \/ UNCHANGED <<pc, cur>>
             \/ pc \in {"callback", "returning"} /\ pc' = "loop" /\ cur' = {}
      PROVE  IInv'
  <2>1. ListsAgree' /\ ~inList'[o] /\ ~inAdd'[o]
    BY <1>7, <1>a, DelKeepsAgreement DEF Unlink
  <2>2. \A p \in Objs \ {o} : inList'[p] = inList[p] /\ inAdd'[p] = inAdd[p]
    BY <1>7, <1>a DEF Unlink, DelTimedObjects, TypeOK
  <2>3. \A p \in Objs : life'[p] = "gone" => life[p] = "gone" /\ p # o
    BY <1>7, <1>a DEF Unlink, TypeOK
  <2>4. TypeOK'
    BY <1>7, <1>a, <2>1 DEF Unlink, TypeOK, ListsAgree, ListsTypeOK, Phases
  <2>5. BufferOK' /\ GoneUnlisted'
    BY <1>7, <1>a, <2>2, <2>3 DEF BufferOK, GoneUnlisted
  <2>. QED  BY <2>1, <2>4, <2>5 DEF IInv
<1>8. ASSUME NEW o \in Objs, Delete(o) PROVE IInv'
  BY <1>7, <1>8 DEF Delete
<1>9. CASE FailLoad
  BY <1>9, FailLoadKeepsIInv
<1>10. CASE FinishLoad
  BY <1>10, <1>a
     DEF FinishLoad, IInv, TypeOK, Phases, ListsAgree, ListsTypeOK,
         FlagsTellLists, EraseWithinMain, BufferOK, GoneUnlisted, objVars,
         listVars
<1>11. CASE StartTick
  BY <1>11, StartTickKeepsIInv
<1>12. ASSUME NEW o \in Objs, BeginTick(o) PROVE IInv'
  <2>1. buffer' \subseteq buffer /\ pc' \in {"callback", "returning"}
    BY <1>12 DEF BeginTick
  <2>2. TypeOK'
    BY <1>12, <1>a, <2>1 DEF BeginTick, TypeOK, Phases, listVars
  <2>3. ListsAgree'
    BY <1>12, <1>a DEF BeginTick, ListsAgree, ListsTypeOK, FlagsTellLists,
                       EraseWithinMain, listVars
  <2>4. BufferOK'
    BY <1>a, <2>1 DEF BufferOK, Single
  <2>5. GoneUnlisted'
    BY <1>12, <1>a, <2>1 DEF BeginTick, GoneUnlisted, ObjsOf, listVars
  <2>. QED  BY <2>2, <2>3, <2>4, <2>5 DEF IInv
<1>13. CASE EndTickKeep
  <2>1. ASSUME NEW o \in Objs, life[o] = "live", Arm(o, NpcDelay) PROVE IInv'
    <3>1. ListsAgree' /\ timeout' \in [Objs -> Nat]
      BY <2>1, <1>a, <1>t, ArmKeepsAgreement
    <3>2. \A p \in Objs \ {o} : inList'[p] = inList[p] /\ inAdd'[p] = inAdd[p]
      BY <2>1, <1>a DEF Arm, AddTimedObject, TypeOK
    <3>3. TypeOK'
      BY <1>13, <1>a, <3>1 DEF EndTickKeep, TypeOK, ListsAgree, ListsTypeOK, Phases
    <3>4. BufferOK' /\ GoneUnlisted'
      BY <1>13, <2>1, <1>a, <3>2 DEF EndTickKeep, BufferOK, GoneUnlisted
    <3>. QED  BY <3>1, <3>3, <3>4 DEF IInv
  <2>2. CASE UNCHANGED <<timeout, listVars>>
    BY <1>13, <2>2, <1>a
       DEF EndTickKeep, IInv, TypeOK, Phases, ListsAgree, ListsTypeOK,
           FlagsTellLists, EraseWithinMain, BufferOK, GoneUnlisted, listVars
  <2>. QED  BY <1>13, <1>a, <2>1, <2>2 DEF EndTickKeep, TypeOK
<1>14. CASE EndTickDelete
  <2>1. PICK o \in Objs : life[o] # "gone" /\ Unlink(o)
    BY <1>14, <1>a DEF EndTickDelete, TypeOK
  <2>. QED  BY <1>14, <2>1, <1>7 DEF EndTickDelete
<1>15. CASE EndTickThrow
  BY <1>15, <1>a
     DEF EndTickThrow, IInv, TypeOK, Phases, ListsAgree, ListsTypeOK,
         FlagsTellLists, EraseWithinMain, BufferOK, GoneUnlisted, objVars,
         listVars
<1>16. CASE EndLoop
  <2>1. TypeOK' /\ ListsAgree'
    BY <1>16, <1>a
       DEF EndLoop, TypeOK, Phases, ListsAgree, ListsTypeOK, FlagsTellLists,
           EraseWithinMain, objVars, listVars
  <2>2. BufferOK' /\ GoneUnlisted'
    BY <1>16, <1>a
       DEF EndLoop, BufferOK, GoneUnlisted, ObjsOf, objVars, listVars
  <2>. QED  BY <2>1, <2>2 DEF IInv
<1>17. CASE DestroyDeleted
  <2>1. PICK doomed \in SUBSET Objs :
          /\ DelTimedObjects(doomed) /\ pc = "ticked" /\ pc' = "idle"
          /\ life' = [o \in Objs |-> IF o \in doomed THEN "gone" ELSE life[o]]
          /\ UNCHANGED <<now, timeout, asleep, buffer, cur, collected>>
    BY <1>17 DEF DestroyDeleted
  <2>2. buffer = {} /\ cur = {} /\ ObjsOf(buffer) = {}
    BY <2>1, <1>a DEF BufferOK, ObjsOf
  <2>. QED
    BY <2>1, <2>2, <1>a, DestructionKeepsIInv DEF TypeOK, Phases
<1>20. ASSUME NEW weird \in SUBSET Objs, CollectGarbage(weird) PROVE IInv'
  <2>1. PICK doomed \in SUBSET Objs :
          /\ DelTimedObjects(doomed)
          /\ life' = [o \in Objs |-> IF o \in doomed THEN "gone" ELSE life[o]]
          /\ GameCode /\ collected' = (collected \/ pc = "callback")
          /\ UNCHANGED <<now, timeout, asleep, buffer, pc, cur>>
    BY <1>20 DEF CollectGarbage
  <2>2. CASE pc = "callback"
    BY <2>1, <2>2, <1>a, DestructionKeepsIInv DEF TypeOK, BufferOK
  <2>3. CASE pc # "callback"
    <3>1. buffer = {} /\ cur = {} /\ ObjsOf(buffer) = {}
      BY <2>1, <2>3, <1>a DEF BufferOK, GameCode, ObjsOf
    <3>. QED
      BY <2>1, <3>1, <1>a, DestructionKeepsIInv DEF TypeOK
  <2>. QED  BY <2>2, <2>3
<1>21. CASE TickDestroyed \/ ReturnToDestroyed
  BY <1>21, <1>a
     DEF TickDestroyed, ReturnToDestroyed, IInv, TypeOK, Phases, ListsAgree,
         ListsTypeOK, FlagsTellLists, EraseWithinMain, BufferOK, GoneUnlisted,
         objVars, listVars
<1>18. CASE EndTickAsleep
  <2>1. PICK o \in Objs : /\ life[o] = "live" /\ DelTimedObjects({o})
                         /\ \E d \in Delays : timeout' = [timeout EXCEPT ![o] = now + d]
                         /\ asleep' = [asleep EXCEPT ![o] = TRUE]
    BY <1>18, <1>a DEF EndTickAsleep, TypeOK
  <2>2. ListsAgree' /\ timeout' \in [Objs -> Nat]
    BY <2>1, <1>a, <1>t, DelKeepsAgreement DEF TypeOK
  <2>3. \A p \in Objs \ {o} : inList'[p] = inList[p] /\ inAdd'[p] = inAdd[p]
    BY <2>1, <1>a DEF DelTimedObjects, TypeOK
  <2>4. TypeOK'
    BY <1>18, <1>a, <2>1, <2>2
       DEF EndTickAsleep, TypeOK, ListsAgree, ListsTypeOK, Phases
  <2>5. BufferOK' /\ GoneUnlisted'
    BY <1>18, <2>1, <2>3, <1>a DEF EndTickAsleep, BufferOK, GoneUnlisted
  <2>. QED  BY <2>2, <2>4, <2>5 DEF IInv
<1>19. CASE Wild \/ UNCHANGED vars
  BY <1>19, <1>a
     DEF Wild, vars, IInv, TypeOK, Phases, ListsAgree, ListsTypeOK,
         FlagsTellLists, EraseWithinMain, BufferOK, GoneUnlisted, objVars,
         listVars
<1>. QED
  BY <1>1, <1>2, <1>3, <1>4, <1>5, <1>6, <1>8, <1>9, <1>10, <1>11, <1>12,
     <1>13, <1>14, <1>15, <1>16, <1>17, <1>18, <1>19, <1>20, <1>21
     DEF Next, GameOps, Tick, EndTick

----------------------------------------------------------------------------
(* The theorems.                                                           *)

\* IInv is an invariant of every behaviour of TimedTicker.
THEOREM IInvariant == Spec => []IInv
  BY InitIInv, NextIInv, PTL DEF Spec

\* Type correctness: the entries are of objects and times, the requests
\* within their lists, the phases of a tick and the deletions in their order.
THEOREM TypeCorrect == Spec => []TypeOK
<1>1. IInv => TypeOK
  BY DEF IInv
<1>. QED  BY <1>1, IInvariant, PTL

\* The flags of CTimedObject tell, at any moment, the vectors of CWorldTicker
\* the object is in.
THEOREM FlagsAreRight == Spec => []FlagsTellLists
  BY IInvariant, PTL DEF IInv, ListsAgree

\* No vector of CWorldTicker holds two entries of one object.
THEOREM NoDoubleEntry == Spec => []OneEntry
<1>1. IInv => OneEntry
  BY DEF IInv, ListsAgree, BufferOK, OneEntry
<1>. QED  BY <1>1, IInvariant, PTL

\* Every erase request names an entry of the main vector, so that the size
\* passed to reserve in UnsortedVecDifference never wraps.
THEOREM EraseIsWithinMain == Spec => [](EraseWithinMain /\ MergeFits)
<1>1. IInv => EraseWithinMain /\ MergeFits
  BY ReserveNeverWraps DEF IInv, ListsAgree
<1>. QED  BY <1>1, IInvariant, PTL

\* The destructors leave no entry of an object in the lists that a merge would
\* keep, and none in the buffer unless garbage was collected in this tick.
THEOREM NothingDangles == Spec => []NoDanglingEntry
<1>1. IInv => NoDanglingEntry
  BY DEF IInv, ListsAgree, FlagsTellLists, GoneUnlisted, NoDanglingEntry
<1>. QED  BY <1>1, IInvariant, PTL

----------------------------------------------------------------------------
(* No timer of an awake object is forgotten.                               *)

\* An object is on schedule: registered, or in the buffer.
OnSchedule(o) == TickingActive(o) \/ o \in ObjsOf(buffer)
Armed(o) == life[o] = "live" /\ ~asleep[o] /\ TimerSet(o)

\* What a request does to the schedule of every object: arming puts the
\* object on schedule and nobody else off it.
LEMMA AddSchedules ==
  ASSUME IInv, NEW o \in Objs, NEW t, AddTimedObject(o, t), buffer' = buffer
  PROVE  OnSchedule(o)' /\ \A p \in Objs : OnSchedule(p) => OnSchedule(p)'
  BY DEF AddTimedObject, OnSchedule, TickingActive, IInv, TypeOK

LEMMA DelUnschedules ==
  ASSUME IInv, NEW S \in SUBSET Objs, DelTimedObjects(S), buffer' = buffer
  PROVE  \A p \in Objs \ S : OnSchedule(p) => OnSchedule(p)'
  BY DEF DelTimedObjects, OnSchedule, TickingActive

LEMMA NextArmed == IInv /\ ArmedIsScheduled /\ [Next]_vars => ArmedIsScheduled'
<1>. SUFFICES ASSUME IInv, ArmedIsScheduled, [Next]_vars,
                     NEW p \in Objs, Armed(p)'
              PROVE  OnSchedule(p)'
  BY DEF ArmedIsScheduled, Armed, OnSchedule
<1>a. Armed(p) => OnSchedule(p)
  BY DEF ArmedIsScheduled, Armed, OnSchedule
<1>b. TypeOK
  BY DEF IInv
<1>1. ASSUME NEW o \in Objs, Create(o) PROVE OnSchedule(p)'
  BY <1>1, <1>a, <1>b
     DEF Create, Armed, OnSchedule, TickingActive, TimerSet, TypeOK
<1>2. ASSUME NEW o \in Objs, NEW d, Arm(o, d), buffer' = buffer, life' = life,
             \A q \in Objs \ {o} : asleep'[q] = asleep[q]
      PROVE  OnSchedule(p)'
  <2>1. CASE p = o
    BY <1>2, <2>1, AddSchedules DEF Arm
  <2>2. CASE p # o
    BY <1>2, <2>2, <1>a, <1>b, AddSchedules DEF Arm, Armed, TimerSet, TypeOK
  <2>. QED  BY <2>1, <2>2
<1>3. ASSUME NEW o \in Objs, DelTimedObjects({o}), buffer' = buffer,
             \A q \in Objs \ {o} : asleep'[q] = asleep[q] /\ life'[q] = life[q]
                                   /\ timeout'[q] = timeout[q],
             ~Armed(o)'
      PROVE  OnSchedule(p)'
  BY <1>3, <1>a, DelUnschedules DEF Armed, TimerSet
<1>4. ASSUME NEW o \in Objs, NEW d \in Delays, SetTimeout(o, d) PROVE OnSchedule(p)'
  BY <1>2, <1>4 DEF SetTimeout
<1>5. ASSUME NEW o \in Objs, ClearTimeout(o) PROVE OnSchedule(p)'
  BY <1>3, <1>5, <1>b DEF ClearTimeout, Armed, TimerSet, TypeOK
<1>6. ASSUME NEW o \in Objs, GoAwake(o) PROVE OnSchedule(p)'
  <2>1. CASE TimerSet(o) /\ AddTimedObject(o, timeout[o]) /\ UNCHANGED timeout
    <3>1. p # o => Armed(p)
      BY <1>6, <2>1, <1>b DEF GoAwake, Armed, TimerSet, TypeOK
    <3>. QED  BY <1>6, <2>1, <3>1, <1>a, AddSchedules DEF GoAwake
  <2>2. ASSUME NEW d \in Delays, Arm(o, d) PROVE OnSchedule(p)'
    BY <1>2, <1>6, <2>2, <1>b DEF GoAwake, TypeOK
  <2>3. CASE ~TimerSet(o) /\ UNCHANGED <<timeout, listVars>>
    BY <1>6, <2>3, <1>a, <1>b
       DEF GoAwake, Armed, OnSchedule, TickingActive, TimerSet, TypeOK, listVars
  <2>. QED  BY <1>6, <2>1, <2>2, <2>3 DEF GoAwake
<1>7. ASSUME NEW o \in Objs, GoSleep(o) PROVE OnSchedule(p)'
  BY <1>3, <1>7, <1>b DEF GoSleep, Armed, TypeOK
<1>8. ASSUME NEW o \in Objs, Unlink(o), buffer' = buffer PROVE OnSchedule(p)'
  BY <1>3, <1>8, <1>b DEF Unlink, Armed, TypeOK
<1>9. ASSUME NEW o \in Objs, NEW d \in Delays, NEW canTick \in BOOLEAN,
             LoadTimer(o, d, canTick)
      PROVE  OnSchedule(p)'
  <2>1. CASE DelTimedObjects({o}) /\ timeout' = [timeout EXCEPT ![o] = 0]
             /\ UNCHANGED asleep
    BY <1>3, <1>9, <2>1, <1>b DEF LoadTimer, Armed, TimerSet, TypeOK
  <2>2. CASE Arm(o, d) /\ asleep' = [asleep EXCEPT ![o] = FALSE]
    BY <1>2, <1>9, <2>2, <1>b DEF LoadTimer, TypeOK
  <2>. QED  BY <1>9, <2>1, <2>2 DEF LoadTimer
<1>10. CASE FailLoad
  BY <1>10 DEF FailLoad, Armed
<1>11. CASE StartTick
  <2>1. OnSchedule(p)
    BY <1>11, <1>a DEF StartTick, Armed, TimerSet, objVars
  <2>2. ObjsOf(buffer) = {}
    BY <1>11 DEF StartTick, IInv, BufferOK, ObjsOf
  <2>3. inList[p] \/ p \in ObjsOf(addReq)
    BY <2>1, <2>2 DEF OnSchedule, TickingActive, IInv, ListsAgree, FlagsTellLists
  <2>. QED  BY <1>11, <2>3 DEF StartTick, OnSchedule, TickingActive
<1>12. ASSUME NEW o \in Objs, BeginTick(o) PROVE OnSchedule(p)'
  <2>1. p # o /\ Armed(p)
    BY <1>12, <1>b DEF BeginTick, Armed, TimerSet, TypeOK
  <2>2. p \in ObjsOf(buffer) => p \in ObjsOf(buffer')
    BY <1>12, <2>1 DEF BeginTick, ObjsOf
  <2>. QED
    BY <1>12, <2>1, <2>2, <1>a DEF BeginTick, OnSchedule, TickingActive, listVars
<1>13. CASE EndTickKeep
  <2>1. CASE UNCHANGED <<timeout, listVars>>
    BY <1>13, <2>1, <1>a
       DEF EndTickKeep, Armed, OnSchedule, TickingActive, TimerSet, listVars
  <2>2. ASSUME NEW o \in Objs, Arm(o, NpcDelay) PROVE OnSchedule(p)'
    BY <1>2, <1>13, <2>2 DEF EndTickKeep
  <2>. QED  BY <1>13, <1>b, <2>1, <2>2 DEF EndTickKeep, TypeOK
<1>14. CASE EndTickDelete
  BY <1>8, <1>14, <1>b DEF EndTickDelete, TypeOK
<1>15. CASE \/ FinishLoad \/ EndTickThrow \/ EndLoop \/ TickDestroyed
            \/ ReturnToDestroyed \/ Wild \/ UNCHANGED vars
  BY <1>15, <1>a
     DEF FinishLoad, EndTickThrow, EndLoop, TickDestroyed, ReturnToDestroyed,
         Wild, vars, objVars, listVars, Armed,
         OnSchedule, TickingActive, TimerSet
<1>16. ASSUME NEW doomed \in SUBSET Objs, DelTimedObjects(doomed),
              life' = [o \in Objs |-> IF o \in doomed THEN "gone" ELSE life[o]],
              UNCHANGED <<timeout, asleep, buffer>>
       PROVE  OnSchedule(p)'
  <2>1. p \notin doomed /\ Armed(p)
    BY <1>16, <1>b DEF Armed, TimerSet, TypeOK
  <2>. QED  BY <1>16, <2>1, <1>a, DelUnschedules
<1>18. ASSUME NEW weird \in SUBSET Objs, CollectGarbage(weird) PROVE OnSchedule(p)'
  <2>. DEFINE doomed == { o \in Objs : life[o] = "deleting" } \cup weird
  <2>1. doomed \in SUBSET Objs
    OBVIOUS
  <2>. QED  BY <2>1, <1>16, <1>18 DEF CollectGarbage
<1>19. CASE DestroyDeleted
  <2>. DEFINE doomed == { o \in Objs : life[o] = "deleting" }
  <2>1. doomed \in SUBSET Objs
    OBVIOUS
  <2>. QED  BY <2>1, <1>16, <1>19 DEF DestroyDeleted
<1>17. CASE EndTickAsleep
  BY <1>3, <1>17, <1>b DEF EndTickAsleep, Armed, TypeOK
<1>. QED
  BY <1>1, <1>4, <1>5, <1>6, <1>7, <1>8, <1>9, <1>10, <1>11, <1>12, <1>13,
     <1>14, <1>15, <1>17, <1>18, <1>19
     DEF Next, GameOps, Tick, EndTick, Delete

\* A live, awake object whose timer is set (CTimedObject::_IsTimerSet) is
\* registered or about to tick: no interleaving of arming, sleeping, waking,
\* deleting and ticking forgets it.
THEOREM ArmedStaysScheduled == Spec => []ArmedIsScheduled
<1>1. Init => ArmedIsScheduled
  BY DEF Init, ArmedIsScheduled
<1>. QED  BY <1>1, NextArmed, IInvariant, PTL DEF Spec

----------------------------------------------------------------------------
(* The entry that counts has the time of the timer.                        *)

Carries(o) ==
  /\ inAdd[o] => <<timeout[o], o>> \in addReq \/ timeout[o] = 0
  /\ inList[o] => <<timeout[o], o>> \in main \/ timeout[o] = 0

\* A request leaves the entries of the others alone; arming enters the time
\* that the timer has then, and who is withdrawn has no entry that counts.
LEMMA AddCarries ==
  ASSUME IInv, EntryCarriesTimeout, NEW o \in Objs, AddTimedObject(o, timeout'[o]),
         \A p \in Objs \ {o} : timeout'[p] = timeout[p]
  PROVE  EntryCarriesTimeout'
<1>. SUFFICES ASSUME NEW p \in Objs PROVE Carries(p)'
  BY DEF EntryCarriesTimeout, Carries
<1>1. CASE p = o
  BY <1>1 DEF AddTimedObject, Carries, IInv, TypeOK
<1>2. CASE p # o
  <2>1. inAdd'[p] = inAdd[p] /\ inList'[p] = inList[p] /\ timeout'[p] = timeout[p]
    BY <1>2 DEF AddTimedObject, IInv, TypeOK
  <2>2. <<timeout[p], p>> \in addReq => <<timeout[p], p>> \in addReq'
    BY <1>2 DEF AddTimedObject, Of
  <2>3. Carries(p)
    BY DEF EntryCarriesTimeout, Carries
  <2>. QED  BY <2>1, <2>2, <2>3 DEF AddTimedObject, Carries
<1>. QED  BY <1>1, <1>2

LEMMA DelCarries ==
  ASSUME IInv, EntryCarriesTimeout, NEW S \in SUBSET Objs, DelTimedObjects(S),
         \A p \in Objs \ S : timeout'[p] = timeout[p]
  PROVE  EntryCarriesTimeout'
<1>. SUFFICES ASSUME NEW p \in Objs PROVE Carries(p)'
  BY DEF EntryCarriesTimeout, Carries
<1>1. CASE p \in S
  BY <1>1, DelKeepsAgreement DEF Carries, IInv
<1>2. CASE p \notin S
  <2>1. /\ inAdd'[p] => inAdd[p]
        /\ inList'[p] => inList[p]
        /\ timeout'[p] = timeout[p]
    BY <1>2 DEF DelTimedObjects
  <2>2. <<timeout[p], p>> \in addReq => <<timeout[p], p>> \in addReq'
    BY <1>2 DEF DelTimedObjects
  <2>3. Carries(p)
    BY DEF EntryCarriesTimeout, Carries
  <2>. QED  BY <2>1, <2>2, <2>3 DEF DelTimedObjects, Carries
<1>. QED  BY <1>1, <1>2

\* The merge hands the entries on as they are.
LEMMA MergeCarries == ASSUME IInv, EntryCarriesTimeout, StartTick PROVE EntryCarriesTimeout'
<1>. SUFFICES ASSUME NEW p \in Objs, inList'[p], timeout[p] # 0
              PROVE  <<timeout[p], p>> \in main'
  BY DEF EntryCarriesTimeout, StartTick, objVars, IInv, ListsAgree, FlagsTellLists
<1>1. /\ main' = Merged \ buffer' /\ p \notin ObjsOf(buffer')
      /\ inList[p] \/ p \in ObjsOf(addReq)
  BY DEF StartTick
<1>2. ListsAgree /\ Carries(p)
  BY DEF IInv, EntryCarriesTimeout, Carries
<1>3. Merged = { e \in main : e[2] \notin eraseReq } \cup addReq
  BY <1>2, ReserveNeverWraps DEF Merged
<1>4. inAdd[p] \/ (inList[p] /\ p \notin eraseReq)
  BY <1>1, <1>2 DEF ListsAgree, FlagsTellLists
<1>5. <<timeout[p], p>> \in addReq \/ (<<timeout[p], p>> \in main /\ p \notin eraseReq)
  BY <1>2, <1>4 DEF Carries
<1>6. <<timeout[p], p>> \in Merged
  BY <1>3, <1>5
<1>. QED  BY <1>1, <1>6 DEF ObjsOf

LEMMA NextCarries == IInv /\ EntryCarriesTimeout /\ [Next]_vars => EntryCarriesTimeout'
<1>. SUFFICES ASSUME IInv, EntryCarriesTimeout, [Next]_vars PROVE EntryCarriesTimeout'
  OBVIOUS
<1>a. TypeOK /\ ListsAgree
  BY DEF IInv
<1>k. Npcs \subseteq Objs /\ Items \subseteq Objs /\ Chars \subseteq Objs
  BY KindAssumption DEF Objs
<1>1. ASSUME NEW o \in Objs, NEW d, Arm(o, d) PROVE EntryCarriesTimeout'
  BY <1>1, <1>a, AddCarries DEF Arm, TypeOK
<1>2. ASSUME NEW o \in Objs, DelTimedObjects({o}),
             \A p \in Objs \ {o} : timeout'[p] = timeout[p]
      PROVE  EntryCarriesTimeout'
  BY <1>2, DelCarries
<1>3. CASE UNCHANGED <<timeout, listVars>>
  BY <1>3 DEF EntryCarriesTimeout, listVars
<1>4. ASSUME NEW o \in Objs, Create(o) PROVE EntryCarriesTimeout'
  BY <1>4, <1>a DEF Create, TypeOK, EntryCarriesTimeout
<1>5. ASSUME NEW o \in Objs, NEW d \in Delays, SetTimeout(o, d) PROVE EntryCarriesTimeout'
  BY <1>1, <1>5 DEF SetTimeout
<1>6. ASSUME NEW o \in Objs, ClearTimeout(o) PROVE EntryCarriesTimeout'
  BY <1>2, <1>6, <1>a DEF ClearTimeout, TypeOK
<1>7. ASSUME NEW o \in Objs, GoAwake(o) PROVE EntryCarriesTimeout'
  <2>1. CASE AddTimedObject(o, timeout[o]) /\ UNCHANGED timeout
    BY <2>1, AddCarries
  <2>2. ASSUME NEW d \in Delays, Arm(o, d) PROVE EntryCarriesTimeout'
    BY <2>2, <1>1
  <2>. QED  BY <1>7, <1>3, <2>1, <2>2 DEF GoAwake
<1>8. ASSUME NEW o \in Objs, GoSleep(o) \/ Unlink(o) PROVE EntryCarriesTimeout'
  BY <1>2, <1>8 DEF GoSleep, Unlink
<1>9. ASSUME NEW o \in Objs, NEW d \in Delays, NEW canTick \in BOOLEAN,
             LoadTimer(o, d, canTick)
      PROVE  EntryCarriesTimeout'
  <2>1. CASE DelTimedObjects({o}) /\ timeout' = [timeout EXCEPT ![o] = 0]
    BY <2>1, <1>2, <1>a DEF TypeOK
  <2>2. CASE Arm(o, d)
    BY <2>2, <1>1
  <2>. QED  BY <1>9, <2>1, <2>2 DEF LoadTimer
<1>10. CASE FailLoad
  BY <1>10, <1>a DEF FailLoad, EntryCarriesTimeout, ListsAgree, FlagsTellLists
<1>11. ASSUME NEW o \in Objs, BeginTick(o) PROVE EntryCarriesTimeout'
  BY <1>11, <1>a DEF BeginTick, TypeOK, EntryCarriesTimeout, listVars
<1>12. CASE EndTickKeep
  <2>1. ASSUME NEW o \in Objs, Arm(o, NpcDelay) PROVE EntryCarriesTimeout'
    BY <2>1, <1>1
  <2>. QED  BY <1>12, <1>3, <1>a, <2>1 DEF EndTickKeep, TypeOK
<1>13. CASE EndTickAsleep \/ EndTickDelete
  <2>1. PICK o \in Objs : \/ Unlink(o)
                         \/ /\ DelTimedObjects({o})
                            /\ \E d \in Delays : timeout' = [timeout EXCEPT ![o] = now + d]
    BY <1>13, <1>a DEF EndTickAsleep, EndTickDelete, TypeOK
  <2>. QED  BY <2>1, <1>2, <1>8, <1>a DEF TypeOK
<1>14. CASE \/ FinishLoad \/ EndTickThrow \/ EndLoop \/ TickDestroyed
            \/ ReturnToDestroyed \/ Wild \/ UNCHANGED vars
  BY <1>3, <1>14
     DEF FinishLoad, EndTickThrow, EndLoop, TickDestroyed, ReturnToDestroyed,
         Wild, vars, objVars
<1>15. CASE DestroyDeleted \/ \E weird \in SUBSET Objs : CollectGarbage(weird)
  <2>1. PICK doomed \in SUBSET Objs : UNCHANGED timeout /\ DelTimedObjects(doomed)
    BY <1>15 DEF DestroyDeleted, CollectGarbage
  <2>. QED  BY <2>1, DelCarries
<1>. QED
  BY <1>4, <1>5, <1>6, <1>7, <1>8, <1>9, <1>10, <1>11, <1>12, <1>13, <1>14, <1>15,
     MergeCarries
     DEF Next, GameOps, Tick, EndTick, Delete

\* Whoever is registered is registered for the time its timer shows, unless the
\* timer was cleared as the object ticked: neither the deferred requests nor
\* sleep, which keeps the timer and drops the entry, let the two drift apart.
THEOREM EntriesOnTime == Spec => []EntryCarriesTimeout
<1>1. Init => EntryCarriesTimeout
  BY DEF Init, EntryCarriesTimeout
<1>. QED  BY <1>1, NextCarries, IInvariant, PTL DEF Spec

----------------------------------------------------------------------------
(* The refinement.                                                         *)

\* What IsTimeoutRegistered returns, by the flags.
LEMMA RegisteredTime ==
  ASSUME ListsAgree, NEW o \in Objs
  PROVE  /\ inAdd[o] => \E e \in addReq : e[2] = o /\ e[1] = IsTimeoutRegistered(o)
         /\ inList[o] => \E e \in main : e[2] = o /\ e[1] = IsTimeoutRegistered(o)
         /\ ~TickingActive(o) => IsTimeoutRegistered(o) = 0
         /\ \A e \in addReq : e[2] = o => e[1] = IsTimeoutRegistered(o)
         /\ \A e \in main : e[2] = o /\ inList[o] => e[1] = IsTimeoutRegistered(o)
         /\ TickingActive(o) => IsTimeoutRegistered(o) \in Nat \ {0}
<1>1. inAdd[o] => \E e \in addReq : e[2] = o /\ e[1] = IsTimeoutRegistered(o)
  BY DEF ListsAgree, FlagsTellLists, IsTimeoutRegistered, ObjsOf
<1>2. inList[o] => \E e \in main : e[2] = o /\ e[1] = IsTimeoutRegistered(o)
  BY DEF ListsAgree, FlagsTellLists, IsTimeoutRegistered, ObjsOf
<1>3. ~TickingActive(o) => IsTimeoutRegistered(o) = 0
  BY DEF ListsAgree, FlagsTellLists, IsTimeoutRegistered, TickingActive
<1>4. \A e \in addReq : e[2] = o => e[1] = IsTimeoutRegistered(o)
  BY <1>1 DEF ListsAgree, FlagsTellLists, Single, ObjsOf
<1>5. \A e \in main : e[2] = o /\ inList[o] => e[1] = IsTimeoutRegistered(o)
  BY <1>2 DEF ListsAgree, Single
<1>6. TickingActive(o) => IsTimeoutRegistered(o) \in Nat \ {0}
  BY <1>1, <1>2 DEF ListsAgree, ListsTypeOK, Entry, TickingActive
<1>. QED  BY <1>1, <1>2, <1>3, <1>4, <1>5, <1>6

\* Adding an object registers it for the time asked, whatever was pending, and
\* leaves every other registration alone.
LEMMA AddRegisters ==
  ASSUME ListsAgree, NEW o \in Objs, NEW t \in Nat \ {0}, AddTimedObject(o, t)
  PROVE  /\ IsTimeoutRegistered(o)' = t
         /\ \A p \in Objs \ {o} : IsTimeoutRegistered(p)' = IsTimeoutRegistered(p)
<1>1. ListsAgree'
  BY AddKeepsAgreement
<1>2. inAdd'[o] /\ <<t, o>> \in addReq'
  BY DEF AddTimedObject, ListsAgree, ListsTypeOK
<1>3. IsTimeoutRegistered(o)' = t
  BY <1>1, <1>2 DEF ListsAgree, FlagsTellLists, IsTimeoutRegistered, ObjsOf, Single
<1>4. ASSUME NEW p \in Objs \ {o}
      PROVE  IsTimeoutRegistered(p)' = IsTimeoutRegistered(p)
  <2>1. inAdd'[p] = inAdd[p] /\ inList'[p] = inList[p] /\ main' = main
    BY DEF AddTimedObject, ListsAgree, ListsTypeOK
  <2>2. \A e : e[2] = p => (e \in addReq' <=> e \in addReq)
    BY DEF AddTimedObject, Of
  <2>3. CASE inAdd[p]
    <3>1. PICK e \in addReq : e[2] = p /\ e[1] = IsTimeoutRegistered(p)
      BY <2>3, RegisteredTime
    <3>2. e \in addReq'
      BY <2>2, <3>1
    <3>3. p \in ObjsOf(addReq')
      BY <3>1, <3>2 DEF ObjsOf
    <3>4. \A f \in addReq' : f[2] = p => f = e
      BY <1>1, <3>1, <3>2 DEF ListsAgree, Single
    <3>5. (CHOOSE f \in addReq' : f[2] = p) = e
      BY <3>1, <3>2, <3>4
    <3>. QED  BY <3>1, <3>3, <3>5 DEF IsTimeoutRegistered
  <2>4. CASE inList[p]
    <3>1. p \notin ObjsOf(addReq) /\ p \in ObjsOf(main) \ eraseReq
      BY <2>4 DEF ListsAgree, FlagsTellLists
    <3>2. p \notin ObjsOf(addReq') /\ p \in ObjsOf(main') \ eraseReq'
      BY <1>1, <2>1, <2>4 DEF ListsAgree, FlagsTellLists
    <3>3. IsTimeoutRegistered(p) = (CHOOSE e \in main : e[2] = p)[1]
      BY <3>1, Zenon DEF IsTimeoutRegistered
    <3>4. IsTimeoutRegistered(p)' = (CHOOSE e \in main' : e[2] = p)[1]
      BY <3>2, Zenon DEF IsTimeoutRegistered
    <3>. QED  BY <2>1, <3>3, <3>4, Zenon
  <2>5. CASE ~TickingActive(p)
    BY <1>1, <2>1, <2>5
       DEF ListsAgree, FlagsTellLists, IsTimeoutRegistered, TickingActive
  <2>. QED  BY <2>3, <2>4, <2>5 DEF TickingActive
<1>. QED  BY <1>3, <1>4

\* Withdrawing removes the registrations of the objects of S and no other.
LEMMA DelWithdraws ==
  ASSUME ListsAgree, NEW S \in SUBSET Objs, DelTimedObjects(S)
  PROVE  \A p \in Objs :
           IsTimeoutRegistered(p)' = IF p \in S THEN 0 ELSE IsTimeoutRegistered(p)
<1>1. ListsAgree' /\ \A o \in S : ~inList'[o] /\ ~inAdd'[o]
  BY DelKeepsAgreement
<1>2. ASSUME NEW p \in S PROVE IsTimeoutRegistered(p)' = 0
  BY <1>1 DEF ListsAgree, FlagsTellLists, IsTimeoutRegistered
<1>3. ASSUME NEW p \in Objs \ S
      PROVE  IsTimeoutRegistered(p)' = IsTimeoutRegistered(p)
  <2>1. inAdd'[p] = inAdd[p] /\ inList'[p] = inList[p] /\ main' = main
    BY DEF DelTimedObjects, ListsAgree, ListsTypeOK
  <2>2. \A e : e[2] = p => (e \in addReq' <=> e \in addReq)
    BY DEF DelTimedObjects
  <2>3. CASE inAdd[p]
    <3>1. PICK e \in addReq : e[2] = p /\ e[1] = IsTimeoutRegistered(p)
      BY <2>3, RegisteredTime
    <3>2. e \in addReq'
      BY <2>2, <3>1
    <3>3. p \in ObjsOf(addReq')
      BY <3>1, <3>2 DEF ObjsOf
    <3>4. \A f \in addReq' : f[2] = p => f = e
      BY <1>1, <3>1, <3>2 DEF ListsAgree, Single
    <3>5. (CHOOSE f \in addReq' : f[2] = p) = e
      BY <3>1, <3>2, <3>4
    <3>. QED  BY <3>1, <3>3, <3>5 DEF IsTimeoutRegistered
  <2>4. CASE inList[p]
    <3>1. p \notin ObjsOf(addReq) /\ p \in ObjsOf(main) \ eraseReq
      BY <2>4 DEF ListsAgree, FlagsTellLists
    <3>2. p \notin ObjsOf(addReq') /\ p \in ObjsOf(main') \ eraseReq'
      BY <1>1, <2>1, <2>4 DEF ListsAgree, FlagsTellLists
    <3>3. IsTimeoutRegistered(p) = (CHOOSE e \in main : e[2] = p)[1]
      BY <3>1, Zenon DEF IsTimeoutRegistered
    <3>4. IsTimeoutRegistered(p)' = (CHOOSE e \in main' : e[2] = p)[1]
      BY <3>2, Zenon DEF IsTimeoutRegistered
    <3>. QED  BY <2>1, <3>3, <3>4, Zenon
  <2>5. CASE ~TickingActive(p)
    BY <1>1, <2>1, <2>5
       DEF ListsAgree, FlagsTellLists, IsTimeoutRegistered, TickingActive
  <2>. QED  BY <2>3, <2>4, <2>5 DEF TickingActive
<1>. QED  BY <1>2, <1>3

\* The registry's state, as the refinement mapping computes it.
reg == [o \in Objs |-> IsTimeoutRegistered(o)]
ready == [o \in Objs |-> life[o] = "live" /\ ~asleep[o] /\ TimerSet(o)]

LEMMA SimulateRegister ==
  ASSUME ListsAgree, NEW o \in Objs, NEW t \in Nat \ {0}, AddTimedObject(o, t),
         UNCHANGED <<now, buffer>>
  PROVE  Registry!Next
<1>1. /\ reg'[o] = t
      /\ \A p \in Objs \ {o} : reg'[p] = reg[p]
  BY AddRegisters DEF reg
<1>2. ready' \in [Objs -> BOOLEAN]
  BY DEF ready
<1>3. Registry!Register(o)
  BY <1>1, <1>2 DEF Registry!Register, reg, ready
<1>. QED  BY <1>3 DEF Registry!Next

LEMMA SimulateWithdraw ==
  ASSUME ListsAgree, NEW S \in SUBSET Objs, DelTimedObjects(S),
         UNCHANGED <<now, buffer>>
  PROVE  Registry!Next
<1>1. reg' = [o \in Objs |-> IF o \in S THEN 0 ELSE reg[o]]
  BY DelWithdraws DEF reg
<1>2. ready' \in [Objs -> BOOLEAN]
  BY DEF ready
<1>3. Registry!Withdraw(S)
  BY <1>1, <1>2 DEF Registry!Withdraw, reg, ready
<1>. QED  BY <1>3 DEF Registry!Next

\* A step that leaves the vectors alone may only change which objects are ready.
LEMMA SimulateReady ==
  ASSUME UNCHANGED <<now, buffer, main, addReq, eraseReq>>
  PROVE  Registry!Next
<1>1. \A o : IsTimeoutRegistered(o)' = IsTimeoutRegistered(o)
  BY DEF IsTimeoutRegistered, ObjsOf
<1>2. reg' = [o \in Objs |-> IF o \in {} THEN 0 ELSE reg[o]]
  BY <1>1 DEF reg
<1>3. ready' \in [Objs -> BOOLEAN]
  BY DEF ready
<1>4. Registry!Withdraw({})
  BY <1>2, <1>3 DEF Registry!Withdraw, reg, ready
<1>. QED  BY <1>4 DEF Registry!Next

\* The merge and the selection together are one Dispatch of the registry.
LEMMA SimulateDispatch ==
  ASSUME IInv, StartTick
  PROVE  Registry!Next
<1>a. ListsAgree /\ TypeOK /\ BufferOK /\ IInv'
  BY StartTickKeepsIInv DEF IInv
<1>1. /\ Merged = { e \in main : e[2] \notin eraseReq } \cup addReq
      /\ Merged \subseteq Entry
      /\ Single(Merged)
      /\ \A o \in Objs : o \in ObjsOf(Merged) <=> TickingActive(o)
  BY <1>a, ReserveNeverWraps, MergedAgrees DEF Merged
<1>2. \A e \in Merged : e[2] \in Objs /\ e[1] = reg[e[2]] /\ e = <<e[1], e[2]>>
  <2>1. \A e \in Merged : e[2] \in Objs /\ e = <<e[1], e[2]>>
    BY <1>1 DEF Entry
  <2>2. ASSUME NEW e \in addReq PROVE e[1] = IsTimeoutRegistered(e[2])
    BY <1>1, <2>1, <1>a, RegisteredTime
  <2>3. ASSUME NEW e \in main, e[2] \notin eraseReq
        PROVE  e[1] = IsTimeoutRegistered(e[2])
    <3>1. e[2] \in Objs /\ inList[e[2]]
      BY <1>1, <2>1, <2>3, <1>a DEF ListsAgree, FlagsTellLists, ObjsOf
    <3>. QED  BY <3>1, <1>a, RegisteredTime
  <2>. QED  BY <1>1, <2>1, <2>2, <2>3 DEF reg
<1>3. \A o \in Objs : reg[o] # 0 <=> o \in ObjsOf(Merged)
  <2>1. \A o \in Objs : reg[o] # 0 <=> TickingActive(o)
    BY <1>a, RegisteredTime DEF reg
  <2>. QED  BY <1>1, <2>1
<1>4. \A e \in Merged : e \in buffer' <=> (reg[e[2]] < now' /\ ready[e[2]])
  BY <1>2 DEF StartTick, Due, ready
<1>5. buffer' \subseteq Merged
  BY DEF StartTick, Due
<1>. DEFINE Taken == { o \in Objs : reg[o] # 0 /\ reg[o] < now' /\ ready[o] }
<1>6. Taken = ObjsOf(buffer')
  <2>1. ASSUME NEW o \in Taken PROVE o \in ObjsOf(buffer')
    <3>1. PICK e \in Merged : e[2] = o
      BY <1>3 DEF ObjsOf
    <3>. QED  BY <3>1, <1>4 DEF ObjsOf
  <2>2. ASSUME NEW o \in ObjsOf(buffer') PROVE o \in Taken
    <3>1. PICK e \in buffer' : e[2] = o
      BY DEF ObjsOf
    <3>2. o \in Objs /\ o \in ObjsOf(Merged)
      BY <3>1, <1>2, <1>5 DEF ObjsOf
    <3>. QED  BY <3>1, <3>2, <1>3, <1>4, <1>5
  <2>. QED  BY <2>1, <2>2
<1>7. buffer' = { <<reg[o], o>> : o \in Taken }
  <2>1. \A e \in buffer' : e = <<reg[e[2]], e[2]>> /\ e[2] \in Taken
    BY <1>2, <1>5, <1>6 DEF ObjsOf
  <2>2. \A o \in Taken : <<reg[o], o>> \in buffer'
    BY <1>2, <1>5, <1>6 DEF ObjsOf
  <2>. QED  BY <2>1, <2>2
<1>8. \A o \in Objs : IsTimeoutRegistered(o)' =
                        IF o \in Taken THEN 0 ELSE IsTimeoutRegistered(o)
  <2>1. addReq' = {} /\ eraseReq' = {} /\ main' = Merged \ buffer'
    BY DEF StartTick
  <2>2. \A o : o \notin ObjsOf(addReq')
    BY <2>1 DEF ObjsOf
  <2>3. ASSUME NEW o \in Objs, o \in Taken PROVE IsTimeoutRegistered(o)' = 0
    <3>1. o \notin ObjsOf(main')
      BY <1>1, <1>5, <1>6, <2>1, <2>3 DEF ObjsOf, Single
    <3>. QED  BY <2>2, <3>1, Zenon DEF IsTimeoutRegistered
  <2>4. ASSUME NEW o \in Objs, o \notin Taken, o \in ObjsOf(Merged)
        PROVE  IsTimeoutRegistered(o)' = IsTimeoutRegistered(o)
    <3>1. PICK e \in Merged : e[2] = o
      BY <2>4 DEF ObjsOf
    <3>2. e \in main' /\ o \in ObjsOf(main')
      BY <3>1, <2>1, <1>6, <2>4 DEF ObjsOf
    <3>3. \A f \in main' : f[2] = o => f = e
      BY <3>1, <1>1, <2>1 DEF Single
    <3>4. (CHOOSE f \in main' : f[2] = o) = e
      BY <3>1, <3>2, <3>3
    <3>5. IsTimeoutRegistered(o)' = (CHOOSE f \in main' : f[2] = o)[1]
      BY <2>1, <2>2, <3>2, Zenon DEF IsTimeoutRegistered
    <3>. QED  BY <3>1, <3>4, <3>5, <1>2 DEF reg
  <2>5. ASSUME NEW o \in Objs, o \notin ObjsOf(Merged)
        PROVE  IsTimeoutRegistered(o)' = 0 /\ IsTimeoutRegistered(o) = 0
    <3>1. o \notin ObjsOf(main')
      BY <2>1, <2>5 DEF ObjsOf
    <3>2. IsTimeoutRegistered(o)' = 0
      BY <2>2, <3>1, Zenon DEF IsTimeoutRegistered
    <3>. QED  BY <3>2, <2>5, <1>3 DEF reg
  <2>. QED  BY <2>3, <2>4, <2>5
<1>9. reg' = [o \in Objs |-> IF o \in Taken THEN 0 ELSE reg[o]]
  BY <1>8 DEF reg
<1>10. buffer = {} /\ now' = now + 1 /\ ready' = ready
  BY <1>a DEF StartTick, BufferOK, ready, TimerSet, objVars
<1>11. Registry!Dispatch
  BY <1>7, <1>9, <1>10 DEF Registry!Dispatch, Registry!Taken, reg, ready
<1>. QED  BY <1>11 DEF Registry!Next

\* Every step of the ticker is a step of the registry, or none.
LEMMA NextRefines == IInv /\ [Next]_vars => [Registry!Next]_(Registry!vars)
<1>. SUFFICES ASSUME IInv, [Next]_vars
              PROVE  Registry!Next \/ UNCHANGED Registry!vars
  OBVIOUS
<1>a. TypeOK /\ ListsAgree /\ BufferOK /\ GoneUnlisted
  BY DEF IInv
<1>t. Delays \subseteq Nat /\ NpcDelay \in Nat
  BY TimeAssumption
<1>1. ASSUME NEW o \in Objs, NEW d \in Nat, Arm(o, d), UNCHANGED <<now, buffer>>
      PROVE  Registry!Next
  <2>1. now + d \in Nat \ {0}
    BY <1>a DEF TypeOK
  <2>. QED  BY <1>1, <2>1, <1>a, SimulateRegister DEF Arm
<1>2. ASSUME NEW o \in Objs, DelTimedObjects({o}), UNCHANGED <<now, buffer>>
      PROVE  Registry!Next
  BY <1>2, <1>a, SimulateWithdraw
<1>3. ASSUME NEW o \in Objs, Create(o) PROVE Registry!Next
  BY <1>3, SimulateReady DEF Create
<1>4. ASSUME NEW o \in Objs, NEW d \in Delays, SetTimeout(o, d) PROVE Registry!Next
  BY <1>1, <1>4, <1>t DEF SetTimeout
<1>5. ASSUME NEW o \in Objs, ClearTimeout(o) \/ GoSleep(o) \/ Delete(o)
      PROVE  Registry!Next
  BY <1>2, <1>5 DEF ClearTimeout, GoSleep, Delete, Unlink
<1>6. ASSUME NEW o \in Objs, GoAwake(o) PROVE Registry!Next
  <2>1. CASE TimerSet(o) /\ AddTimedObject(o, timeout[o])
    <3>1. timeout[o] \in Nat \ {0}
      BY <2>1, <1>a DEF TypeOK, TimerSet
    <3>. QED  BY <1>6, <2>1, <3>1, <1>a, SimulateRegister DEF GoAwake
  <2>2. ASSUME NEW d \in Delays, Arm(o, d) PROVE Registry!Next
    BY <1>1, <1>6, <2>2, <1>t DEF GoAwake
  <2>3. CASE UNCHANGED listVars
    BY <1>6, <2>3, SimulateReady DEF GoAwake, listVars
  <2>. QED  BY <1>6, <2>1, <2>2, <2>3 DEF GoAwake
<1>7. ASSUME NEW o \in Objs, NEW d \in Delays, NEW canTick \in BOOLEAN,
             LoadTimer(o, d, canTick)
      PROVE  Registry!Next
  BY <1>1, <1>2, <1>7, <1>t DEF LoadTimer
<1>8. CASE FailLoad
  <2>1. /\ main' = {} /\ addReq' = {} /\ eraseReq' = {}
        /\ UNCHANGED <<now, buffer>>
    BY <1>8 DEF FailLoad
  <2>2. \A o \in Objs : IsTimeoutRegistered(o)' = 0
    BY <2>1 DEF IsTimeoutRegistered, ObjsOf
  <2>3. reg' = [o \in Objs |-> IF o \in Objs THEN 0 ELSE reg[o]]
    BY <2>2 DEF reg
  <2>4. ready' \in [Objs -> BOOLEAN]
    BY DEF ready
  <2>5. Registry!Withdraw(Objs)
    BY <2>1, <2>3, <2>4 DEF Registry!Withdraw, reg, ready
  <2>. QED  BY <2>5 DEF Registry!Next
<1>9. CASE \/ FinishLoad \/ EndTickThrow \/ EndLoop \/ TickDestroyed
           \/ ReturnToDestroyed \/ Wild \/ UNCHANGED vars
  BY <1>9, SimulateReady
     DEF FinishLoad, EndTickThrow, EndLoop, TickDestroyed, ReturnToDestroyed,
         Wild, vars, listVars
<1>10. CASE StartTick
  BY <1>10, SimulateDispatch
<1>11. ASSUME NEW o \in Objs, BeginTick(o) PROVE Registry!Next
  <2>1. \A p : IsTimeoutRegistered(p)' = IsTimeoutRegistered(p)
    BY <1>11 DEF BeginTick, listVars, IsTimeoutRegistered, ObjsOf
  <2>2. reg' = reg /\ ready' \in [Objs -> BOOLEAN] /\ now' = now
    BY <1>11, <2>1 DEF BeginTick, reg, ready
  <2>3. \E e \in buffer : /\ \A f \in buffer : e[1] <= f[1]
                          /\ buffer' = buffer \ {e}
    BY <1>11 DEF BeginTick
  <2>4. Registry!TickOne
    BY <2>2, <2>3 DEF Registry!TickOne, reg, ready
  <2>. QED  BY <2>4 DEF Registry!Next
<1>12. CASE EndTickKeep
  <2>1. CASE UNCHANGED listVars
    BY <1>12, <2>1, SimulateReady DEF EndTickKeep, listVars
  <2>2. ASSUME NEW o \in Objs, Arm(o, NpcDelay) PROVE Registry!Next
    BY <1>1, <1>12, <2>2, <1>t DEF EndTickKeep
  <2>. QED  BY <1>12, <1>a, <2>1, <2>2 DEF EndTickKeep, TypeOK
<1>13. CASE EndTickDelete
  BY <1>2, <1>13, <1>a DEF EndTickDelete, Unlink, TypeOK
<1>14. CASE DestroyDeleted \/ \E weird \in SUBSET Objs : CollectGarbage(weird)
  <2>1. PICK doomed \in SUBSET Objs :
          DelTimedObjects(doomed) /\ UNCHANGED <<now, buffer>>
    BY <1>14 DEF DestroyDeleted, CollectGarbage
  <2>. QED  BY <2>1, <1>a, SimulateWithdraw
<1>15. CASE EndTickAsleep
  BY <1>2, <1>15, <1>a DEF EndTickAsleep, TypeOK
<1>. QED
  BY <1>3, <1>4, <1>5, <1>6, <1>7, <1>8, <1>9, <1>10, <1>11, <1>12, <1>13,
     <1>14, <1>15
     DEF Next, GameOps, Tick, EndTick

\* The vectors, requests and flags of CWorldTicker implement the map from
\* objects to times: this is what its callers may rely on.
THEOREM TickerImplementsRegistry == Spec => ImplementsRegistry
<1>1. Init => Registry!Init
  <2>1. Init => \A o \in Objs : IsTimeoutRegistered(o) = 0
    BY DEF Init, IsTimeoutRegistered, ObjsOf
  <2>2. Init => reg = [o \in Objs |-> 0] /\ ready = [o \in Objs |-> FALSE]
    BY <2>1 DEF Init, reg, ready
  <2>. QED  BY <2>2 DEF Init, Registry!Init, reg, ready
<1>. QED
  BY <1>1, NextRefines, IInvariant, PTL DEF Spec, ImplementsRegistry, Registry!Spec
=============================================================================
