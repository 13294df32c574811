----------------------- MODULE TimedFunctions_proofs ------------------------
(***************************************************************************)
(* RunsOnItsObject of TimedFunctions for any number of objects, functions, *)
(* UIDs, saves and restarts.                                               *)
(*                                                                         *)
(* A function only knows a UID, so the invariant says what a UID means.    *)
(* In the world it names one object.  While a save is under way, a UID     *)
(* that is on file names the object it was written for or is held, so it   *)
(* names no other.  A function that is its object's own has that object:   *)
(* Delete moves all of them to m_ObjDelete before the object, and what     *)
(* destroys the object destroys them with it.                              *)
(***************************************************************************)
EXTENDS TimedFunctions, TLAPS

UidsName ==
  /\ \A o \in Objs : state[o] = "none" <=> uid[o] = NoUid
  /\ \A o, p \in InWorld : uid[o] = uid[p] => o = p
  /\ \A o \in InWorld : uid[o] \notin held

OwnersBear ==
  \A f \in Funcs : Exists(f) /\ fn[f].owner # NoObj =>
     fn[f].owner \in InWorld /\ uid[fn[f].owner] = fn[f].on

OwnHaveOwner ==
  \A f \in Funcs : Exists(f) /\ fn[f].own =>
     /\ fn[f].owner # NoObj
     /\ fn[f].where = "listed" => state[fn[f].owner] = "alive"

(* A file by itself: whose UIDs, and whose functions.                      *)
Sound(F) ==
  /\ \A o, p \in Objs : F.uid[o] = F.uid[p] /\ F.uid[o] # NoUid => o = p
  /\ \A f \in Funcs : F.fn[f] # NoFunc =>
       /\ F.fn[f].where = "listed"
       /\ F.fn[f].owner # NoObj => F.uid[F.fn[f].owner] = F.fn[f].on
       /\ F.fn[f].own => F.fn[f].owner # NoObj

(* The files that are open, and the world.                                 *)
PartFits ==
  /\ ~Saving => part = EmptyFile
  /\ stage # "timerf" => \A f \in Funcs : part.fn[f] = NoFunc
  /\ \A o \in Objs : part.uid[o] # NoUid =>
       \/ o \in InWorld /\ uid[o] = part.uid[o]
       \/ part.uid[o] \in held

IInv ==
  /\ TypeOK /\ UidsName /\ OwnersBear /\ OwnHaveOwner
  /\ Sound(part) /\ Sound(file) /\ PartFits

-----------------------------------------------------------------------------
(* A record of Func is not NoFunc, and moving it or taking its object away *)
(* leaves a record of Func.                                                *)
LEMMA FuncFacts ==
  /\ NoFunc \notin Func
  /\ NoFunc.where = "none"
  /\ \A g \in Func : g.where \in {"listed", "deleted"} /\ g.on \in Uids
                     /\ g.owner \in Objs \cup {NoObj} /\ g.own \in BOOLEAN
  BY DEF Func, NoFunc

(* What ClearUID makes of a function: it is moved or left.                 *)
LEMMA ClearUIDFacts ==
  ASSUME TypeOK, NEW U
  PROVE  /\ ClearUID(U) \in [Funcs -> Func \cup {NoFunc}]
         /\ \A f \in Funcs :
              LET g == ClearUID(U)[f]
              IN  /\ Exists(f) <=> g # NoFunc
                  /\ g.on = fn[f].on /\ g.owner = fn[f].owner /\ g.own = fn[f].own
                  /\ g.where = IF fn[f].where = "listed" /\ fn[f].on \in U
                               THEN "deleted" ELSE fn[f].where
  <1>1. ASSUME NEW f \in Funcs, fn[f].where = "listed"
        PROVE  LET g == [fn[f] EXCEPT !.where = "deleted"]
               IN  /\ fn[f] \in Func /\ g \in Func
                   /\ g.on = fn[f].on /\ g.owner = fn[f].owner /\ g.own = fn[f].own
                   /\ g.where = "deleted"
    <2>1. fn[f] \in Func BY <1>1, FuncFacts DEF TypeOK
    <2> QED BY <2>1 DEF Func
  <1>2. ASSUME NEW f \in Funcs
        PROVE  ClearUID(U)[f] = IF fn[f].where = "listed" /\ fn[f].on \in U
                                THEN [fn[f] EXCEPT !.where = "deleted"] ELSE fn[f]
    BY DEF ClearUID
  <1>3. \A f \in Funcs : ClearUID(U)[f] \in Func \cup {NoFunc}
    BY <1>1, <1>2 DEF TypeOK
  <1>4. ClearUID(U) \in [Funcs -> Func \cup {NoFunc}] BY <1>3 DEF ClearUID
  <1>5. ASSUME NEW f \in Funcs, fn[f].where = "listed", fn[f].on \in U
        PROVE  Exists(f) /\ ClearUID(U)[f] # NoFunc
    BY <1>1, <1>2, <1>5, FuncFacts DEF Exists
  <1> QED BY <1>1, <1>2, <1>4, <1>5 DEF Exists

(* What Bereft makes of a function.                                        *)
LEMMA BereftFacts ==
  ASSUME NEW g \in Func \cup {NoFunc}, NEW gone \in SUBSET Objs
  PROVE  /\ Bereft(g, gone) \in Func \cup {NoFunc}
         /\ g = NoFunc <=> Bereft(g, gone) = NoFunc
         /\ Bereft(g, gone).on = g.on /\ Bereft(g, gone).own = g.own
         /\ Bereft(g, gone).where = g.where
         /\ Bereft(g, gone).owner = IF g.owner \in gone THEN NoObj ELSE g.owner
  <1>1. CASE g = NoFunc BY <1>1, FunctionsAssumption DEF Bereft, NoFunc
  <1>2. CASE g \in Func
    <2>1. [g EXCEPT !.owner = NoObj] \in Func BY <1>2 DEF Func
    <2> QED BY <1>2, <2>1, FuncFacts DEF Bereft, Func
  <1> QED BY <1>1, <1>2

(* Destroying objects keeps what UIDs mean, in the world and on file.      *)
LEMMA DestroyStep ==
  ASSUME TypeOK, UidsName, PartFits, NEW gone \in SUBSET InWorld,
         Destroy(gone), UNCHANGED <<stage, part>>
  PROVE  /\ state' \in [Objs -> {"none", "alive", "deleted"}]
         /\ uid' \in [Objs -> Uids \cup {NoUid}]
         /\ held' \subseteq Uids
         /\ UidsName' /\ PartFits'
         /\ InWorld' = InWorld \ gone
  <1>1. state' \in [Objs -> {"none", "alive", "deleted"}] BY DEF TypeOK, Destroy
  <1>2. uid' \in [Objs -> Uids \cup {NoUid}] BY DEF TypeOK, Destroy
  <1>3. InWorld' = InWorld \ gone BY DEF TypeOK, Destroy, InWorld
  <1>4. held' \subseteq Uids
    BY FunctionsAssumption DEF TypeOK, Destroy, HeldAfter, UidsName, InWorld
  <1>5. UidsName'
    BY <1>3, FunctionsAssumption DEF TypeOK, Destroy, HeldAfter, UidsName, InWorld
  <1>6. PartFits'
    <2>1. ASSUME NEW o \in Objs, part.uid[o] # NoUid
          PROVE  (o \in InWorld /\ uid[o] = part.uid[o])' \/ part.uid[o] \in held'
      <3>1. Saving BY <2>1 DEF PartFits, EmptyFile
      <3> QED BY <1>3, <2>1, <3>1 DEF TypeOK, Destroy, HeldAfter, PartFits, InWorld
    <2> QED BY <2>1 DEF PartFits, Saving
  <1> QED BY <1>1, <1>2, <1>3, <1>4, <1>5, <1>6

(* The garbage collection: own functions go with their object.             *)
LEMMA CollectStep ==
  ASSUME TypeOK, UidsName, OwnersBear, OwnHaveOwner,
         NEW weird \in SUBSET InWorld, Collect(weird)
  PROVE  /\ fn' \in [Funcs -> Func \cup {NoFunc}]
         /\ OwnersBear' /\ OwnHaveOwner'
  <1> DEFINE gone == Scheduled \cup weird
             U == {uid[o] : o \in gone}
             moved == ClearUID(U)
  <1>1. gone \subseteq InWorld BY DEF Scheduled, InWorld
  <1>2. Destroy(gone) BY DEF Collect
  <1>3. InWorld' = InWorld \ gone BY <1>2 DEF TypeOK, Destroy, InWorld
  <1>4. fn' = [f \in Funcs |-> IF moved[f].where = "deleted" THEN NoFunc
                               ELSE Bereft(fn[f], gone)]
    BY DEF Collect
  <1> HIDE DEF gone
  <1>5. gone \in SUBSET Objs BY <1>1 DEF InWorld
  <1>6. \A f \in Funcs : fn[f] \in Func \cup {NoFunc} BY DEF TypeOK
  <1>7. ASSUME NEW f \in Funcs
        PROVE  /\ fn'[f] \in Func \cup {NoFunc}
               /\ fn'[f] # NoFunc =>
                    /\ Exists(f) /\ moved[f].where # "deleted"
                    /\ fn'[f].on = fn[f].on /\ fn'[f].own = fn[f].own
                    /\ fn'[f].where = fn[f].where
                    /\ fn'[f].owner = IF fn[f].owner \in gone THEN NoObj ELSE fn[f].owner
    <2>1. fn'[f] = IF moved[f].where = "deleted" THEN NoFunc ELSE Bereft(fn[f], gone)
      BY <1>4
    <2>2. fn[f] \in Func \cup {NoFunc} BY <1>6
    <2>3. /\ Bereft(fn[f], gone) \in Func \cup {NoFunc}
          /\ fn[f] = NoFunc <=> Bereft(fn[f], gone) = NoFunc
          /\ Bereft(fn[f], gone).on = fn[f].on /\ Bereft(fn[f], gone).own = fn[f].own
          /\ Bereft(fn[f], gone).where = fn[f].where
          /\ Bereft(fn[f], gone).owner = IF fn[f].owner \in gone THEN NoObj ELSE fn[f].owner
      BY <1>5, <2>2, BereftFacts
    <2> HIDE DEF moved
    <2> QED BY <2>1, <2>3 DEF Exists
  <1>8. fn' \in [Funcs -> Func \cup {NoFunc}] BY <1>4, <1>7
  <1>9. OwnersBear'
    <2> SUFFICES ASSUME NEW f \in Funcs, fn'[f] # NoFunc, fn'[f].owner # NoObj
                 PROVE  fn'[f].owner \in InWorld' /\ uid'[fn'[f].owner] = fn'[f].on
      BY DEF OwnersBear, Exists
    <2>1. /\ Exists(f) /\ fn'[f].on = fn[f].on /\ fn'[f].owner = fn[f].owner
          /\ fn[f].owner \notin gone
      BY <1>7
    <2>2. fn[f].owner \in InWorld /\ uid[fn[f].owner] = fn[f].on
      BY <2>1 DEF OwnersBear
    <2> QED BY <1>2, <1>3, <2>1, <2>2 DEF Destroy, InWorld
  <1>10. OwnHaveOwner'
    <2> SUFFICES ASSUME NEW f \in Funcs, fn'[f] # NoFunc, fn'[f].own
                 PROVE  /\ fn'[f].owner # NoObj
                        /\ fn'[f].where = "listed" => state'[fn'[f].owner] = "alive"
      BY DEF OwnHaveOwner, Exists
    <2>1. /\ Exists(f) /\ fn[f].own /\ fn[f].owner # NoObj
          /\ fn[f].owner \in InWorld /\ uid[fn[f].owner] = fn[f].on
      BY <1>7 DEF OwnHaveOwner, OwnersBear
    <2>2. fn[f].where = "listed" /\ fn[f].on \notin U
      <3>1. moved[f].where # "deleted" BY <1>7
      <3>2. moved[f].where = IF fn[f].where = "listed" /\ fn[f].on \in U
                             THEN "deleted" ELSE fn[f].where
        BY ClearUIDFacts
      <3>3. fn[f].where \in {"listed", "deleted"} BY <1>6, <2>1, FuncFacts DEF Exists
      <3> HIDE DEF moved, U
      <3> QED BY <3>1, <3>2, <3>3
    <2>3. fn[f].owner \notin gone BY <2>1, <2>2
    <2>4. state[fn[f].owner] = "alive" BY <2>1, <2>2 DEF OwnHaveOwner
    <2> QED BY <1>2, <1>7, <2>1, <2>3, <2>4 DEF Destroy, InWorld
  <1> QED BY <1>8, <1>9, <1>10

(* The end of the tick: what is in m_ObjDelete goes, its own functions     *)
(* with it.                                                                *)
LEMMA EndTickStep == ASSUME IInv, EndTick PROVE IInv'
  <1> USE DEF IInv
  <1> DEFINE moved == ClearUID({uid[o] : o \in Scheduled})
  <1>1. Scheduled \in SUBSET InWorld /\ Scheduled \in SUBSET Objs
    BY DEF Scheduled, InWorld
  <1>2. Destroy(Scheduled) /\ UNCHANGED saveVars BY DEF EndTick
  <1>3. /\ state' \in [Objs -> {"none", "alive", "deleted"}]
        /\ uid' \in [Objs -> Uids \cup {NoUid}]
        /\ held' \subseteq Uids
        /\ UidsName' /\ PartFits'
        /\ InWorld' = InWorld \ Scheduled
    BY <1>1, <1>2, DestroyStep DEF saveVars
  <1>4. ASSUME NEW f \in Funcs
        PROVE  /\ fn'[f] \in Func \cup {NoFunc}
               /\ fn'[f] # NoFunc =>
                    /\ Exists(f) /\ fn[f].where = "listed"
                    /\ fn'[f].on = fn[f].on /\ fn'[f].own = fn[f].own
                    /\ fn'[f].where = moved[f].where
                    /\ fn'[f].owner = IF fn[f].owner \in Scheduled THEN NoObj ELSE fn[f].owner
    <2>1. fn'[f] = IF fn[f].where = "deleted" THEN NoFunc ELSE Bereft(moved[f], Scheduled)
      BY DEF EndTick
    <2>2. moved[f] \in Func \cup {NoFunc} /\ fn[f] \in Func \cup {NoFunc}
      BY ClearUIDFacts DEF TypeOK
    <2>3. /\ Exists(f) <=> moved[f] # NoFunc
          /\ moved[f].on = fn[f].on /\ moved[f].owner = fn[f].owner
          /\ moved[f].own = fn[f].own
      BY ClearUIDFacts
    <2>4. /\ Bereft(moved[f], Scheduled) \in Func \cup {NoFunc}
          /\ moved[f] = NoFunc <=> Bereft(moved[f], Scheduled) = NoFunc
          /\ Bereft(moved[f], Scheduled).on = moved[f].on
          /\ Bereft(moved[f], Scheduled).own = moved[f].own
          /\ Bereft(moved[f], Scheduled).where = moved[f].where
          /\ Bereft(moved[f], Scheduled).owner =
               IF moved[f].owner \in Scheduled THEN NoObj ELSE moved[f].owner
      BY <1>1, <2>2, BereftFacts
    <2>5. Exists(f) => fn[f].where \in {"listed", "deleted"}
      BY <2>2, FuncFacts DEF Exists
    <2> HIDE DEF moved
    <2> QED BY <2>1, <2>3, <2>4, <2>5
  <1>5. fn' \in [Funcs -> Func \cup {NoFunc}]
    <2>1. fn' = [f \in Funcs |-> fn'[f]] BY DEF EndTick
    <2> QED BY <1>4, <2>1
  <1>6. TypeOK' BY <1>2, <1>3, <1>5 DEF TypeOK, EndTick, saveVars
  <1>7. OwnersBear'
    <2> SUFFICES ASSUME NEW f \in Funcs, fn'[f] # NoFunc, fn'[f].owner # NoObj
                 PROVE  fn'[f].owner \in InWorld' /\ uid'[fn'[f].owner] = fn'[f].on
      BY DEF OwnersBear, Exists
    <2>1. /\ Exists(f) /\ fn'[f].on = fn[f].on /\ fn'[f].owner = fn[f].owner
          /\ fn[f].owner \notin Scheduled
      BY <1>4
    <2>2. fn[f].owner \in InWorld /\ uid[fn[f].owner] = fn[f].on
      BY <2>1 DEF OwnersBear
    <2> QED BY <1>2, <1>3, <2>1, <2>2 DEF Destroy, InWorld
  <1>8. OwnHaveOwner'
    <2> SUFFICES ASSUME NEW f \in Funcs, fn'[f] # NoFunc, fn'[f].own
                 PROVE  /\ fn'[f].owner # NoObj
                        /\ fn'[f].where = "listed" => state'[fn'[f].owner] = "alive"
      BY DEF OwnHaveOwner, Exists
    <2>1. /\ Exists(f) /\ fn[f].own /\ fn[f].owner # NoObj
          /\ fn[f].owner \in InWorld /\ state[fn[f].owner] = "alive"
      BY <1>4 DEF OwnHaveOwner, OwnersBear
    <2>2. fn[f].owner \notin Scheduled BY <2>1 DEF Scheduled
    <2> QED BY <1>2, <1>4, <2>1, <2>2 DEF Destroy, InWorld
  <1>9. Sound(part)' /\ Sound(file)' BY <1>2 DEF saveVars, Sound
  <1> QED BY <1>3, <1>6, <1>7, <1>8, <1>9

LEMMA InitIInv == Init => IInv
  <1> SUFFICES ASSUME Init PROVE IInv OBVIOUS
  <1> USE DEF Init
  <1>1. EmptyFile \in Files BY DEF EmptyFile, Files
  <1>2. TypeOK BY <1>1 DEF TypeOK
  <1>3. UidsName /\ OwnersBear /\ OwnHaveOwner
    BY DEF UidsName, OwnersBear, OwnHaveOwner, Exists, InWorld
  <1>4. Sound(EmptyFile) BY DEF Sound, EmptyFile
  <1>5. PartFits BY DEF PartFits, EmptyFile, Saving
  <1> QED BY <1>2, <1>3, <1>4, <1>5 DEF IInv

(* The steps that touch no object, no file and no function but by ClearUID *)
(* or by taking one away.                                                  *)
LEMMA QuietStep ==
  ASSUME IInv, UNCHANGED <<objVars, stage, part, file>>,
         fn' \in [Funcs -> Func \cup {NoFunc}],
         due' \subseteq Objs, saves' \in Nat, restarts' \in Nat,
         buffer' \subseteq Funcs, pc' \in {"game", "tick", "wild"},
         \A f \in Funcs : fn'[f] # NoFunc =>
           /\ Exists(f) /\ fn'[f].on = fn[f].on
           /\ fn'[f].owner = fn[f].owner /\ fn'[f].own = fn[f].own
           /\ fn'[f].where = "listed" => fn[f].where = "listed"
  PROVE  IInv'
  <1> USE DEF IInv, objVars
  <1>1. TypeOK' BY DEF TypeOK
  <1>2. UidsName' /\ PartFits' /\ InWorld' = InWorld
    BY DEF UidsName, PartFits, InWorld, Saving
  <1>3. OwnersBear' BY <1>2 DEF OwnersBear, Exists
  <1>4. OwnHaveOwner' BY DEF OwnHaveOwner, Exists
  <1>5. Sound(part)' /\ Sound(file)' BY DEF Sound
  <1> QED BY <1>1, <1>2, <1>3, <1>4, <1>5

LEMMA CreateStep ==
  ASSUME IInv, NEW o \in Objs, NEW u \in Uids, Create(o, u)
  PROVE  IInv'
  <1> USE DEF IInv, Create, saveVars
  <1>1. TypeOK' BY DEF TypeOK
  <1>2. InWorld' = InWorld \cup {o} /\ o \notin InWorld BY DEF TypeOK, InWorld
  <1>3. UidsName'
    BY <1>2, FunctionsAssumption DEF TypeOK, UidsName, InWorld, Borne
  <1>4. OwnersBear' BY <1>2 DEF OwnersBear, Exists, TypeOK, InWorld
  <1>5. OwnHaveOwner' BY <1>2 DEF OwnersBear, OwnHaveOwner, Exists, TypeOK, InWorld
  <1>6. PartFits' BY <1>2 DEF PartFits, TypeOK, Saving, InWorld
  <1>7. Sound(part)' /\ Sound(file)' BY DEF Sound
  <1> QED BY <1>1, <1>3, <1>4, <1>5, <1>6, <1>7

LEMMA DeleteStep ==
  ASSUME IInv, NEW o \in Objs, Delete(o)
  PROVE  IInv'
  <1> USE DEF IInv
  <1>1. fn' = ClearUID({uid[o]}) BY DEF Delete
  <1>2. TypeOK' BY <1>1, ClearUIDFacts DEF TypeOK, Delete
  <1>3. InWorld' = InWorld /\ UNCHANGED <<uid, held, stage, part, file>>
    BY DEF Delete, TypeOK, InWorld
  <1>4. UidsName' BY <1>3 DEF UidsName, Delete, TypeOK
  <1>5. ASSUME NEW f \in Funcs, Exists(f)'
        PROVE  /\ Exists(f) /\ fn'[f].on = fn[f].on
               /\ fn'[f].owner = fn[f].owner /\ fn'[f].own = fn[f].own
               /\ fn'[f].where = IF fn[f].where = "listed" /\ fn[f].on = uid[o]
                                 THEN "deleted" ELSE fn[f].where
    BY <1>1, <1>5, ClearUIDFacts DEF Exists
  <1>6. OwnersBear' BY <1>3, <1>5 DEF OwnersBear
  <1>7. OwnHaveOwner'
    <2> SUFFICES ASSUME NEW f \in Funcs, Exists(f)', fn'[f].own
                 PROVE  /\ fn'[f].owner # NoObj
                        /\ fn'[f].where = "listed" => state'[fn'[f].owner] = "alive"
      BY DEF OwnHaveOwner
    <2>1. /\ fn[f].owner # NoObj /\ fn[f].owner \in InWorld
          /\ uid[fn[f].owner] = fn[f].on
          /\ fn[f].where = "listed" => state[fn[f].owner] = "alive"
      BY <1>5 DEF OwnHaveOwner, OwnersBear
    <2>2. fn'[f].where = "listed" => fn[f].where = "listed" /\ fn[f].owner # o
      BY <1>5, <2>1
    <2>3. \A p \in Objs : p # o => state'[p] = state[p] BY DEF Delete, TypeOK
    <2>4. fn'[f].owner = fn[f].owner BY <1>5
    <2>5. fn[f].owner \in Objs BY <2>1 DEF InWorld
    <2> QED BY <2>1, <2>2, <2>3, <2>4, <2>5
  <1>8. PartFits' BY <1>3 DEF PartFits, Saving
  <1>9. Sound(part)' /\ Sound(file)' BY <1>3 DEF Sound
  <1> QED BY <1>2, <1>4, <1>6, <1>7, <1>8, <1>9

LEMMA AddStep ==
  ASSUME IInv, NEW o \in Objs, NEW f \in Funcs, NEW delay \in 0 .. MaxDelay,
         Add(o, f, delay)
  PROVE  IInv'
  <1> USE DEF IInv, Add, objVars, saveVars
  <1> DEFINE g == [where |-> "listed", on |-> uid[o], left |-> delay,
                   owner |-> o, own |-> state[o] = "alive"]
  <1>1. o \in InWorld /\ uid[o] \in Uids BY DEF InWorld, TypeOK, UidsName
  <1>2. g \in Func BY <1>1 DEF Func
  <1>3. fn' = [fn EXCEPT ![f] = g] OBVIOUS
  <1>4. TypeOK' BY <1>2, <1>3 DEF TypeOK
  <1>5. UidsName' /\ PartFits' /\ InWorld' = InWorld
    BY DEF UidsName, PartFits, InWorld, Saving
  <1>6. \A h \in Funcs : fn'[h] = IF h = f THEN g ELSE fn[h] BY <1>3 DEF TypeOK
  <1>7. OwnersBear'
    <2> SUFFICES ASSUME NEW h \in Funcs, fn'[h] # NoFunc, fn'[h].owner # NoObj
                 PROVE  fn'[h].owner \in InWorld /\ uid[fn'[h].owner] = fn'[h].on
      BY <1>5 DEF OwnersBear, Exists
    <2>1. CASE h = f
      <3>1. fn'[h].owner = o /\ fn'[h].on = uid[o] BY <1>6, <2>1
      <3> QED BY <1>1, <3>1
    <2>2. CASE h # f BY <1>6, <2>2 DEF OwnersBear, Exists
    <2> QED BY <2>1, <2>2
  <1>8. OwnHaveOwner'
    <2> SUFFICES ASSUME NEW h \in Funcs, fn'[h] # NoFunc, fn'[h].own
                 PROVE  /\ fn'[h].owner # NoObj
                        /\ fn'[h].where = "listed" => state[fn'[h].owner] = "alive"
      BY DEF OwnHaveOwner, Exists
    <2>1. CASE h = f
      <3>1. fn'[h] = g BY <1>6, <2>1
      <3>2. g.owner = o /\ g.own = (state[o] = "alive") OBVIOUS
      <3> HIDE DEF g
      <3>3. state[o] = "alive" BY <3>1, <3>2
      <3> QED BY <3>1, <3>2, <3>3, FunctionsAssumption
    <2>2. CASE h # f BY <1>6, <2>2 DEF OwnHaveOwner, Exists
    <2> QED BY <2>1, <2>2
  <1>9. Sound(part)' /\ Sound(file)' BY DEF Sound
  <1> QED BY <1>4, <1>5, <1>7, <1>8, <1>9

LEMMA StopStep ==
  ASSUME IInv, NEW o \in Objs, NEW fitting \in SUBSET Funcs, Stop(o, fitting)
  PROVE  IInv'
  <1>1. TypeOK BY DEF IInv
  <1> DEFINE moved == ClearUID({uid[o]})
  <1>2. \A f \in Funcs : fn'[f] = IF f \in fitting THEN moved[f] ELSE fn[f]
    BY DEF Stop
  <1>3. \A f \in Funcs : moved[f] \in Func \cup {NoFunc} BY <1>1, ClearUIDFacts
  <1>4. \A f \in Funcs :
          /\ Exists(f) <=> moved[f] # NoFunc
          /\ moved[f].on = fn[f].on /\ moved[f].owner = fn[f].owner
          /\ moved[f].own = fn[f].own
          /\ moved[f].where = "listed" => fn[f].where = "listed"
    BY <1>1, ClearUIDFacts
  <1> HIDE DEF moved
  <1>5. fn' \in [Funcs -> Func \cup {NoFunc}]
    <2>1. fn' = [f \in Funcs |-> fn'[f]] BY DEF Stop
    <2> QED BY <1>1, <1>2, <1>3, <2>1 DEF TypeOK
  <1>6. UNCHANGED <<objVars, stage, part, file, due, saves, restarts, buffer, pc>>
    BY DEF Stop, saveVars
  <1> QED BY <1>1, <1>2, <1>4, <1>5, <1>6, QuietStep DEF TypeOK, Exists

LEMMA CollectGarbageStep ==
  ASSUME IInv, NEW weird \in SUBSET Objs, CollectGarbage(weird)
  PROVE  IInv'
  <1> USE DEF IInv, CollectGarbage, saveVars
  <1>1. weird \in SUBSET InWorld /\ Scheduled \cup weird \in SUBSET InWorld
    BY DEF Scheduled, InWorld
  <1>2. Destroy(Scheduled \cup weird) BY DEF Collect
  <1>3. /\ state' \in [Objs -> {"none", "alive", "deleted"}]
        /\ uid' \in [Objs -> Uids \cup {NoUid}]
        /\ held' \subseteq Uids
        /\ UidsName' /\ PartFits'
    BY <1>1, <1>2, DestroyStep
  <1>4. fn' \in [Funcs -> Func \cup {NoFunc}] /\ OwnersBear' /\ OwnHaveOwner'
    BY <1>1, CollectStep
  <1>5. TypeOK' BY <1>3, <1>4 DEF TypeOK
  <1>6. Sound(part)' /\ Sound(file)' BY DEF Sound
  <1> QED BY <1>3, <1>4, <1>5, <1>6

-----------------------------------------------------------------------------
(* The tick.                                                               *)

LEMMA BeginTickStep == ASSUME IInv, BeginTick PROVE IInv'
  <1>1. TypeOK BY DEF IInv
  <1>2. ASSUME NEW f \in Funcs
        PROVE  /\ fn'[f] \in Func \cup {NoFunc}
               /\ fn'[f] # NoFunc =>
                    /\ Exists(f) /\ fn'[f].on = fn[f].on
                    /\ fn'[f].owner = fn[f].owner /\ fn'[f].own = fn[f].own
                    /\ fn'[f].where = fn[f].where
    <2>1. fn'[f] = IF Exists(f) /\ fn[f].left > 0
                   THEN [fn[f] EXCEPT !.left = fn[f].left - 1] ELSE fn[f]
      BY DEF BeginTick
    <2>2. CASE Exists(f) /\ fn[f].left > 0
      <3>1. fn[f] \in Func BY <1>1, <2>2 DEF TypeOK, Exists
      <3>2. fn[f].left - 1 \in 0 .. MaxDelay
        BY <2>2, <3>1, FunctionsAssumption DEF Func
      <3> QED BY <2>1, <2>2, <3>1, <3>2 DEF Func
    <2>3. CASE ~(Exists(f) /\ fn[f].left > 0)
      BY <1>1, <2>1, <2>3 DEF TypeOK, Exists
    <2> QED BY <2>2, <2>3
  <1>3. fn' \in [Funcs -> Func \cup {NoFunc}]
    <2>1. fn' = [f \in Funcs |-> fn'[f]] BY DEF BeginTick
    <2> QED BY <1>2, <2>1
  <1>4. UNCHANGED <<objVars, stage, part, file, due, saves, restarts>>
    BY DEF BeginTick, saveVars
  <1>5. pc' = "tick" /\ buffer' \subseteq Funcs BY DEF BeginTick
  <1> QED BY <1>1, <1>2, <1>3, <1>4, <1>5, QuietStep DEF TypeOK

LEMMA RunStep ==
  ASSUME IInv, NEW f \in Funcs, Run(f) \/ RunDestroyed(f)
  PROVE  IInv'
  <1>1. TypeOK BY DEF IInv
  <1>2. \A h \in Funcs : fn'[h] \in {fn[h], NoFunc} BY <1>1 DEF Run, RunDestroyed, TypeOK
  <1>3. fn' \in [Funcs -> Func \cup {NoFunc}] BY <1>1 DEF Run, RunDestroyed, TypeOK
  <1>4. UNCHANGED <<objVars, stage, part, file, due, saves, restarts>>
    BY DEF Run, RunDestroyed, saveVars
  <1>5. pc' \in {"game", "tick", "wild"} /\ buffer' \subseteq Funcs
    BY <1>1 DEF Run, RunDestroyed, TypeOK
  <1> QED BY <1>1, <1>2, <1>3, <1>4, <1>5, QuietStep DEF TypeOK, Exists

-----------------------------------------------------------------------------
(* The save and the restart.                                               *)

LEMMA StartSaveStep ==
  ASSUME IInv, NEW weird \in SUBSET Objs, StartSave(weird)
  PROVE  IInv'
  <1> USE DEF IInv, StartSave
  <1> DEFINE gone == Scheduled \cup weird
  <1>1. weird \in SUBSET InWorld /\ gone \in SUBSET InWorld
    BY DEF Scheduled, InWorld
  <1>2. Destroy(gone) BY DEF Collect
  <1>3. fn' \in [Funcs -> Func \cup {NoFunc}] /\ OwnersBear' /\ OwnHaveOwner'
    BY <1>1, CollectStep
  <1> HIDE DEF gone
  <1>4. EmptyFile \in Files /\ Sound(EmptyFile) BY DEF EmptyFile, Files, Sound
  <1>5. InWorld' = InWorld \ gone BY <1>2 DEF TypeOK, Destroy, InWorld
  <1>6. held' = held BY <1>2 DEF Destroy, HeldAfter
  <1>7. TypeOK' BY <1>2, <1>3, <1>4, <1>6 DEF TypeOK, Destroy, InWorld
  <1>8. UidsName'
    BY <1>2, <1>5, <1>6, FunctionsAssumption DEF TypeOK, Destroy, UidsName, InWorld
  <1>9. PartFits' BY DEF PartFits, EmptyFile, Saving
  <1>10. Sound(part)' /\ Sound(file)' BY <1>4 DEF Sound
  <1> QED BY <1>3, <1>7, <1>8, <1>9, <1>10

LEMMA SaveObjectStep ==
  ASSUME IInv, NEW o \in Objs, SaveObject(o)
  PROVE  IInv'
  <1> USE DEF IInv, SaveObject, objVars
  <1>1. \A p \in Objs : part'.uid[p] = IF p = o THEN uid[o] ELSE part.uid[p]
    BY DEF TypeOK, Files
  <1>2. part'.fn = part.fn /\ part' \in Files BY DEF TypeOK, Files
  <1>3. TypeOK' BY <1>2 DEF TypeOK
  <1>4. o \in InWorld /\ InWorld' = InWorld BY DEF InWorld
  <1>5. UidsName' /\ OwnersBear' /\ OwnHaveOwner'
    BY <1>4 DEF UidsName, OwnersBear, OwnHaveOwner, Exists
  <1>6. PartFits' BY <1>1, <1>2, <1>4 DEF PartFits, Saving
  <1>7. Sound(part)'
    <2>1. \A f \in Funcs : part'.fn[f] = NoFunc BY <1>2 DEF PartFits
    <2>2. \A p \in Objs : part.uid[p] = uid[o] /\ uid[o] # NoUid => p = o
      BY <1>4 DEF PartFits, UidsName
    <2> QED BY <1>1, <2>1, <2>2 DEF Sound
  <1>8. Sound(file)' BY DEF Sound
  <1> QED BY <1>3, <1>5, <1>6, <1>7, <1>8

LEMMA SaveTimersStep == ASSUME IInv, SaveTimers PROVE IInv'
  <1> USE DEF IInv, objVars
  <1> DEFINE onFile(f) == \E o \in Objs : part.uid[o] = fn[f].on
             owner(f) == IF Owned(f) THEN fn[f].owner ELSE NoObj
  <1>1. part'.uid = part.uid BY DEF SaveTimers, TypeOK, Files
  <1>2. ASSUME NEW f \in Funcs
        PROVE  /\ part'.fn[f] \in Func \cup {NoFunc}
               /\ part'.fn[f] # NoFunc =>
                    /\ Exists(f) /\ fn[f].where = "listed"
                    /\ part'.fn[f].where = "listed" /\ part'.fn[f].on = fn[f].on
                    /\ part'.fn[f].owner = owner(f)
                    /\ part'.fn[f].own => fn[f].own /\ onFile(f)
    <2> DEFINE g == [fn[f] EXCEPT !.owner = owner(f), !.own = fn[f].own /\ onFile(f)]
    <2>1. part'.fn[f] = IF fn[f].where # "listed" THEN NoFunc ELSE g
      BY DEF SaveTimers, TypeOK, Files
    <2>2. CASE fn[f].where = "listed"
      <3>1. fn[f] \in Func BY <2>2, FuncFacts DEF TypeOK
      <3>2. owner(f) \in Objs \cup {NoObj} BY <3>1, FuncFacts
      <3>3. (fn[f].own /\ onFile(f)) \in BOOLEAN OBVIOUS
      <3> HIDE DEF owner, onFile
      <3>4. /\ g \in Func /\ g.where = fn[f].where /\ g.on = fn[f].on
            /\ g.owner = owner(f) /\ g.own = (fn[f].own /\ onFile(f))
        BY <3>1, <3>2, <3>3 DEF Func
      <3> QED BY <2>1, <2>2, <3>1, <3>4, FuncFacts DEF Exists
    <2>3. CASE fn[f].where # "listed" BY <2>1, <2>3
    <2> QED BY <2>2, <2>3
  <1>3. part' \in Files
    <2>1. part' = [part EXCEPT !.fn = part'.fn] BY DEF SaveTimers, TypeOK, Files
    <2>2. part'.fn = [f \in Funcs |-> part'.fn[f]] BY DEF SaveTimers, TypeOK, Files
    <2>3. part'.fn \in [Funcs -> Func \cup {NoFunc}] BY <1>2, <2>2
    <2> QED BY <2>1, <2>3 DEF TypeOK, Files
  <1>4. TypeOK' BY <1>3 DEF SaveTimers, TypeOK
  <1>5. UidsName' /\ OwnersBear' /\ OwnHaveOwner' /\ InWorld' = InWorld
    BY DEF SaveTimers, UidsName, OwnersBear, OwnHaveOwner, Exists, InWorld
  <1>6. PartFits'
    <2>1. stage' = "timerf" /\ uid' = uid /\ held' = held BY DEF SaveTimers
    <2>2. \A o \in Objs : part.uid[o] # NoUid =>
            (o \in InWorld /\ uid[o] = part.uid[o]) \/ part.uid[o] \in held
      BY DEF PartFits
    <2> QED BY ONLY <1>1, <1>5, <2>1, <2>2 DEF PartFits, Saving
  <1>7. Sound(part)'
    <2>1. ASSUME NEW f \in Funcs, part'.fn[f] # NoFunc
          PROVE  /\ part'.fn[f].where = "listed"
                 /\ part'.fn[f].owner # NoObj
                      => part'.uid[part'.fn[f].owner] = part'.fn[f].on
                 /\ part'.fn[f].own => part'.fn[f].owner # NoObj
      <3>1. /\ Exists(f) /\ part'.fn[f].where = "listed"
            /\ part'.fn[f].on = fn[f].on /\ part'.fn[f].owner = owner(f)
            /\ part'.fn[f].own => fn[f].own /\ onFile(f)
        BY <1>2, <2>1
      <3>2. owner(f) # NoObj => part.uid[owner(f)] = fn[f].on BY DEF Owned
      <3>3. ASSUME fn[f].own, onFile(f) PROVE owner(f) # NoObj
        <4>1. /\ fn[f].owner # NoObj /\ fn[f].owner \in InWorld
              /\ uid[fn[f].owner] = fn[f].on
          BY <3>1, <3>3 DEF OwnHaveOwner, OwnersBear
        <4>2. PICK o \in Objs : part.uid[o] = fn[f].on BY <3>3
        <4>3. fn[f].on # NoUid /\ fn[f].on \notin held
          BY <4>1 DEF UidsName, InWorld
        <4>4. o \in InWorld /\ uid[o] = fn[f].on BY <4>2, <4>3 DEF PartFits
        <4>5. o = fn[f].owner BY <4>1, <4>4 DEF UidsName
        <4> QED BY <4>1, <4>2, <4>5 DEF Owned
      <3> QED BY <1>1, <3>1, <3>2, <3>3
    <2> QED BY <1>1, <2>1 DEF Sound
  <1>8. Sound(file)' BY DEF SaveTimers, Sound
  <1> QED BY <1>4, <1>5, <1>6, <1>7, <1>8

LEMMA EndSaveStep == ASSUME IInv, EndSave PROVE IInv'
  <1> USE DEF IInv, EndSave
  <1>1. EmptyFile \in Files /\ Sound(EmptyFile) BY DEF EmptyFile, Files, Sound
  <1>2. TypeOK' BY <1>1 DEF TypeOK
  <1>3. UidsName' /\ OwnersBear' /\ OwnHaveOwner'
    BY DEF UidsName, OwnersBear, OwnHaveOwner, Exists, InWorld
  <1>4. PartFits' BY DEF PartFits, EmptyFile, Saving
  <1>5. Sound(part)' /\ Sound(file)' BY <1>1 DEF Sound
  <1> QED BY <1>2, <1>3, <1>4, <1>5

LEMMA RestartStep == ASSUME IInv, Restart PROVE IInv'
  <1> USE DEF IInv, Restart
  <1>1. EmptyFile \in Files /\ Sound(EmptyFile) BY DEF EmptyFile, Files, Sound
  <1>2. file.uid \in [Objs -> Uids \cup {NoUid}]
        /\ file.fn \in [Funcs -> Func \cup {NoFunc}]
    BY DEF TypeOK, Files
  <1>3. TypeOK' BY <1>1, <1>2 DEF TypeOK
  <1>4. \A o \in Objs : o \in InWorld' <=> file.uid[o] # NoUid
    <2>1. \A o \in Objs : state'[o] = IF file.uid[o] = NoUid THEN "none" ELSE "alive"
      OBVIOUS
    <2>2. \A o \in Objs : o \in InWorld' <=> state'[o] # "none" BY DEF InWorld
    <2> QED BY <2>1, <2>2
  <1>5. UidsName'
    <2>1. \A o \in Objs : state'[o] = "none" <=> file.uid[o] = NoUid OBVIOUS
    <2>2. \A o, p \in Objs : file.uid[o] = file.uid[p] /\ file.uid[o] # NoUid => o = p
      BY DEF Sound
    <2>3. uid' = file.uid /\ held' = {} OBVIOUS
    <2>4. InWorld' \subseteq Objs BY DEF InWorld
    <2> QED BY ONLY <1>4, <2>1, <2>2, <2>3, <2>4 DEF UidsName
  <1>6. ASSUME NEW f \in Funcs, file.fn[f] # NoFunc, file.fn[f].owner # NoObj
        PROVE  /\ file.fn[f].owner \in InWorld'
               /\ file.uid[file.fn[f].owner] = file.fn[f].on
               /\ state'[file.fn[f].owner] = "alive"
    <2>1. file.fn[f] \in Func BY <1>2, <1>6
    <2>2. file.fn[f].owner \in Objs /\ file.fn[f].on \in Uids
      BY <1>6, <2>1, FuncFacts
    <2>3. file.uid[file.fn[f].owner] = file.fn[f].on BY <1>6 DEF Sound
    <2> QED BY <1>4, <2>2, <2>3, FunctionsAssumption
  <1>7. OwnersBear' BY <1>6 DEF OwnersBear, Exists
  <1>8. OwnHaveOwner' BY <1>6 DEF OwnHaveOwner, Exists, Sound
  <1>9. PartFits' BY DEF PartFits, EmptyFile, Saving
  <1>10. Sound(part)' /\ Sound(file)' BY <1>1 DEF Sound
  <1> QED BY <1>3, <1>5, <1>7, <1>8, <1>9, <1>10

-----------------------------------------------------------------------------

LEMMA NextStep == ASSUME IInv, [Next]_vars PROVE IInv'
  <1>1. ASSUME NEW o \in Objs, NEW u \in Uids, Create(o, u) PROVE IInv'
    BY <1>1, CreateStep
  <1>2. ASSUME NEW o \in Objs, Delete(o) PROVE IInv' BY <1>2, DeleteStep
  <1>3. ASSUME NEW o \in Objs, SaveObject(o) PROVE IInv' BY <1>3, SaveObjectStep
  <1>4. ASSUME NEW o \in Objs, NEW f \in Funcs, NEW delay \in 0 .. MaxDelay,
               Add(o, f, delay)
        PROVE  IInv'
    BY <1>4, AddStep
  <1>5. ASSUME NEW o \in Objs, NEW fitting \in SUBSET Funcs, Stop(o, fitting)
        PROVE  IInv'
    BY <1>5, StopStep
  <1>6. ASSUME NEW weird \in SUBSET Objs, CollectGarbage(weird) PROVE IInv'
    BY <1>6, CollectGarbageStep
  <1>7. ASSUME NEW weird \in SUBSET Objs, StartSave(weird) PROVE IInv'
    BY <1>7, StartSaveStep
  <1>8. CASE SaveTimers BY <1>8, SaveTimersStep
  <1>9. CASE EndSave BY <1>9, EndSaveStep
  <1>10. CASE Game
    BY <1>1, <1>2, <1>3, <1>4, <1>5, <1>6, <1>7, <1>8, <1>9, <1>10 DEF Game
  <1>11. CASE BeginTick BY <1>11, BeginTickStep
  <1>12. CASE RunBuffer BY <1>12, RunStep DEF RunBuffer
  <1>13. CASE EndTick BY <1>13, EndTickStep
  <1>14. CASE Restart BY <1>14, RestartStep
  <1>15. CASE UNCHANGED vars
    BY <1>15, QuietStep DEF vars, objVars, saveVars, IInv, TypeOK, Exists
  <1>16. CASE Wild BY <1>15, <1>16 DEF Wild
  <1> QED BY <1>10, <1>11, <1>12, <1>13, <1>14, <1>15, <1>16 DEF Next

(* The invariant: what a UID names in the world and on file, and that a    *)
(* function's own object is there as long as the function is.              *)
THEOREM FunctionsInvariant == Spec => []IInv
  <1> QED BY InitIInv, NextStep, PTL DEF Spec

(* A command is run on the object it was meant for or on none, whatever is *)
(* deleted, stopped, collected, created, saved and loaded between TIMERF   *)
(* and the tick that runs it (_ExecTimedFunction).                         *)
THEOREM CommandsHitTheirObject == Spec => RunsOnItsObject
  <1>1. ASSUME IInv, NEW f \in Funcs, Run(f), fn[f].own
        PROVE  Bearers(fn[f].on) \subseteq {fn[f].owner}
    <2>1. /\ fn[f].owner # NoObj /\ fn[f].owner \in InWorld
          /\ uid[fn[f].owner] = fn[f].on
      BY <1>1 DEF IInv, OwnHaveOwner, OwnersBear, Run
    <2> QED BY <1>1, <2>1 DEF IInv, UidsName, Bearers
  <1>2. IInv => [\A f \in Funcs : Run(f) /\ fn[f].own
                   => Bearers(fn[f].on) \subseteq {fn[f].owner}]_vars
    BY <1>1
  <1> QED BY <1>2, FunctionsInvariant, PTL DEF RunsOnItsObject

(* What CommandsHitTheirObject is about is the usual case: unless it was   *)
(* added to an object being deleted or loaded without its object, a        *)
(* function has its object in the world, and that alone bears its UID,     *)
(* from TIMERF to its end (DeleteCleanup).                                 *)
THEOREM FunctionsKeepTheirObject ==
  Spec => [](\A f \in Funcs : Exists(f) /\ fn[f].own => Bearers(fn[f].on) = {fn[f].owner})
  <1>1. IInv => \A f \in Funcs : Exists(f) /\ fn[f].own
                                   => Bearers(fn[f].on) = {fn[f].owner}
    BY DEF IInv, OwnHaveOwner, OwnersBear, UidsName, Bearers
  <1> QED BY <1>1, FunctionsInvariant, PTL
=============================================================================
