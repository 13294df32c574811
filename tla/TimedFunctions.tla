--------------------------- MODULE TimedFunctions ---------------------------
(***************************************************************************)
(* The timed functions of scripts, "TIMERF 10,f_close" (CTimedFunction.cpp *)
(* and CTimedFunctionHandler.cpp in src/src/game): a command that is run   *)
(* on an object when its time has come.  A function does not point to its  *)
(* object, it names it by its UID, and it ends by destroying itself before *)
(* its command runs.  Stopping one, or deleting its object, does not take  *)
(* it out of the ticker: it is moved to m_ObjDelete and destroyed when the *)
(* tick of the world is over (CWorld::_OnTick) or garbage is collected.    *)
(*                                                                         *)
(* The module composes the functions with what they depend on: objects     *)
(* that are deleted and destroyed and whose UIDs are given to new ones     *)
(* (UidTable), the buffer of the tick (TimedTicker), and the save, which   *)
(* writes the objects first and the functions after the last sector while  *)
(* the game goes on (WorldSave), and from which a restart begins.          *)
(*                                                                         *)
(* The game is one thread; between two steps of the tick stands what the   *)
(* command just run, or the callback of another timed object, has done.    *)
(* Abstracted: commands and their patterns; time, counted in ticks; which  *)
(* free UID AllocUID finds.  ForceGarbageCollect is 1, its default, and    *)
(* SERIAL is what the loader uses, not a running script.                   *)
(***************************************************************************)
EXTENDS Integers, FiniteSets

CONSTANTS
  Objs, Funcs,   \* identities of objects and of CTimedFunctions
  Uids,          \* the UIDs of the table
  NoObj, NoUid,  \* nullptr, UID_UNUSED
  MaxDelay,      \* bound: ticks a function waits at most
  MaxSaves,      \* bound: number of saves
  MaxRestarts    \* bound: number of times the process ends and is started

ASSUME FunctionsAssumption ==
  /\ NoObj \notin Objs /\ NoUid \notin Uids
  /\ MaxDelay \in Nat /\ MaxSaves \in Nat /\ MaxRestarts \in Nat

VARIABLES
  state,     \* of each object: "none", "alive", "deleted" in m_ObjDelete
  uid,       \* its UID
  held,      \* UIDs freed while a save is under way: UID_PLACE_HOLDER
  fn,        \* the functions
  buffer,    \* _vTimedObjsTimeoutsBuffer, the functions in it
  pc,        \* "game", "tick", or "wild" after a destroyed function was run
  stage,     \* of the save: "none", "sectors", "timerf" written
  part,      \* what the open files hold
  file,      \* what the files of the last complete save hold
  due,       \* objects in the world since the save began, not yet written
  saves, restarts

objVars  == <<state, uid, held>>
saveVars == <<stage, part, file, due, saves>>
vars == <<objVars, fn, buffer, pc, saveVars, restarts>>

(* A function is in _timedFunctions ("listed") or in m_ObjDelete           *)
(* ("deleted"), and in the ticker in both.  History: owner, the object it  *)
(* was added to while that exists, and own, that it was added to an object *)
(* not being deleted, or loaded together with it.                          *)
Func == [where : {"listed", "deleted"}, on : Uids, left : 0 .. MaxDelay,
         owner : Objs \cup {NoObj}, own : BOOLEAN]
NoFunc == [where |-> "none", on |-> NoUid, left |-> 0, owner |-> NoObj, own |-> FALSE]
Exists(f) == fn[f] # NoFunc

(* What is on file: the UIDs of the objects written, and the functions.    *)
EmptyFile == [uid |-> [o \in Objs |-> NoUid], fn |-> [f \in Funcs |-> NoFunc]]
Files == [uid : [Objs -> Uids \cup {NoUid}], fn : [Funcs -> Func \cup {NoFunc}]]

TypeOK ==
  /\ state \in [Objs -> {"none", "alive", "deleted"}]
  /\ uid \in [Objs -> Uids \cup {NoUid}]
  /\ held \subseteq Uids
  /\ fn \in [Funcs -> Func \cup {NoFunc}]
  /\ buffer \subseteq Funcs
  /\ pc \in {"game", "tick", "wild"}
  /\ stage \in {"none", "sectors", "timerf"}
  /\ part \in Files /\ file \in Files
  /\ due \subseteq Objs
  /\ saves \in Nat /\ restarts \in Nat

-----------------------------------------------------------------------------
(* Objects and their functions.                                            *)

InWorld == {o \in Objs : state[o] # "none"}
Borne == {uid[o] : o \in InWorld}
Scheduled == {o \in Objs : state[o] = "deleted"}
Saving == stage # "none"

(* uid.ObjFind(): an object that is being deleted is found as well.        *)
Bearers(u) == {o \in InWorld : uid[o] = u}

\* Mutant of ClearUID: the functions stay.
ClearUIDNothing(U) == fn

(* ClearUID on the UIDs U: ScheduleObjDeletion for each function in the    *)
(* list, which leaves the list, not the ticker.                            *)
ClearUID(U) ==
  [f \in Funcs |-> IF fn[f].where = "listed" /\ fn[f].on \in U
                   THEN [fn[f] EXCEPT !.where = "deleted"] ELSE fn[f]]

\* The object of a function is no more.
Bereft(g, gone) == IF g.owner \in gone THEN [g EXCEPT !.owner = NoObj] ELSE g

(* FreeUID: a place holder while a save is under way.                      *)
HeldAfter(gone) == IF Saving THEN held \cup {uid[o] : o \in gone} ELSE held

(* The destructors of objects.                                             *)
Destroy(gone) ==
  /\ state' = [o \in Objs |-> IF o \in gone THEN "none" ELSE state[o]]
  /\ uid' = [o \in Objs |-> IF o \in gone THEN NoUid ELSE uid[o]]
  /\ held' = HeldAfter(gone)

(* GarbageCollection_UIDs: the objects scheduled, those never placed and   *)
(* the weird ones are destroyed; m_ObjDelete is cleared before and after,  *)
(* so the functions their destructors put there go too.                    *)
Collect(weird) ==
  LET gone == Scheduled \cup weird
      moved == ClearUID({uid[o] : o \in gone})
  IN  /\ Destroy(gone)
      /\ fn' = [f \in Funcs |-> IF moved[f].where = "deleted" THEN NoFunc
                                ELSE Bereft(fn[f], gone)]

-----------------------------------------------------------------------------
(* What scripts, players and callbacks do, between ticks and within them.  *)

Playing == pc \in {"game", "tick"}

(* The constructor of CObjBase.                                            *)
Create(o, u) ==
  /\ Playing /\ state[o] = "none" /\ u \in Uids \ (Borne \cup held)
  /\ state' = [state EXCEPT ![o] = "alive"]
  /\ uid' = [uid EXCEPT ![o] = u]
  /\ UNCHANGED <<held, fn, buffer, pc, saveVars, restarts>>

(* CObjBase::Delete: DeleteCleanup, ScheduleObjDeletion.                   *)
Delete(o) ==
  /\ Playing /\ state[o] = "alive"
  /\ state' = [state EXCEPT ![o] = "deleted"]
  /\ fn' = ClearUID({uid[o]})
  /\ due' = due \ {o}
  /\ UNCHANGED <<uid, held, buffer, pc, stage, part, file, saves, restarts>>

(* TIMERF delay,command: also on an object deleted a line before.          *)
Add(o, f, delay) ==
  /\ Playing /\ state[o] # "none" /\ ~Exists(f) /\ f \notin buffer
  /\ fn' = [fn EXCEPT ![f] = [where |-> "listed", on |-> uid[o], left |-> delay,
                              owner |-> o, own |-> state[o] = "alive"]]
  /\ UNCHANGED <<objVars, buffer, pc, saveVars, restarts>>

(* TIMERF STOP,command: the functions of o whose command fits; TIMERF      *)
(* CLEAR: all of them.                                                     *)
Stop(o, fitting) ==
  /\ Playing /\ state[o] # "none"
  /\ fn' = [f \in Funcs |-> IF f \in fitting THEN ClearUID({uid[o]})[f] ELSE fn[f]]
  /\ fn' # fn
  /\ UNCHANGED <<objVars, buffer, pc, saveVars, restarts>>

(* SERV.GARBAGE, from the console or from a script; not during a save.     *)
CollectGarbage(weird) ==
  /\ Playing /\ ~Saving /\ weird \subseteq InWorld
  /\ Collect(weird)
  /\ UNCHANGED <<buffer, pc, saveVars, restarts>>

-----------------------------------------------------------------------------
(* The tick of the world.                                                  *)

(* The functions whose time has come leave the ticker for the buffer.      *)
BeginTick ==
  /\ pc = "game"
  /\ pc' = "tick"
  /\ buffer' = {f \in Funcs : Exists(f) /\ fn[f].left = 0}
  /\ fn' = [f \in Funcs |-> IF Exists(f) /\ fn[f].left > 0
                            THEN [fn[f] EXCEPT !.left = @ - 1] ELSE fn[f]]
  /\ UNCHANGED <<objVars, saveVars, restarts>>

\* Mutant of Run: the function is not deleted.
RunKeeps(f) ==
  /\ pc = "tick" /\ f \in buffer /\ Exists(f)
  /\ buffer' = buffer \ {f}
  /\ UNCHANGED <<objVars, fn, pc, saveVars, restarts>>

(* CTimedFunction::_OnTick: "delete this", then the command on the object  *)
(* that bears the UID, if there is one.                                    *)
Run(f) ==
  /\ pc = "tick" /\ f \in buffer /\ Exists(f)
  /\ buffer' = buffer \ {f}
  /\ fn' = [fn EXCEPT ![f] = NoFunc]
  /\ UNCHANGED <<objVars, pc, saveVars, restarts>>

(* The buffer holds a pointer to a function that a garbage collection      *)
(* within the tick has destroyed: whatever comes of it stands for itself.  *)
RunDestroyed(f) ==
  /\ pc = "tick" /\ f \in buffer /\ ~Exists(f)
  /\ pc' = "wild"
  /\ UNCHANGED <<objVars, fn, buffer, saveVars, restarts>>

(* m_ObjDelete is cleared: the copy of it that is destroyed does not hold  *)
(* what the destructors of the objects in it append.                       *)
EndTick ==
  /\ pc = "tick" /\ buffer = {}
  /\ pc' = "game"
  /\ Destroy(Scheduled)
  /\ LET moved == ClearUID({uid[o] : o \in Scheduled})
     IN  fn' = [f \in Funcs |-> IF fn[f].where = "deleted" THEN NoFunc
                                ELSE Bereft(moved[f], Scheduled)]
  /\ UNCHANGED <<buffer, saveVars, restarts>>

-----------------------------------------------------------------------------
(* Saves, a stage at a time or at once, also from a script (SERV.SAVE).    *)

StartSave(weird) ==
  /\ Playing /\ ~Saving /\ saves < MaxSaves /\ weird \subseteq InWorld
  /\ saves' = saves + 1
  /\ stage' = "sectors" /\ part' = EmptyFile
  /\ Collect(weird)
  /\ due' = InWorld \ (Scheduled \cup weird)
  /\ UNCHANGED <<buffer, pc, file, restarts>>

(* An object is written with its sector, also one created since the save   *)
(* began, unless its sector was written before.                            *)
SaveObject(o) ==
  /\ Playing /\ stage = "sectors" /\ state[o] = "alive" /\ part.uid[o] = NoUid
  /\ part' = [part EXCEPT !.uid[o] = uid[o]]
  /\ due' = due \ {o}
  /\ UNCHANGED <<objVars, fn, buffer, pc, stage, file, saves, restarts>>

\* History: the owner of a function on file is on file too.
Owned(f) == fn[f].owner # NoObj /\ part.uid[fn[f].owner] = fn[f].on

(* The stage after the sectors: CTimedFunctionHandler::r_Write.            *)
SaveTimers ==
  /\ Playing /\ stage = "sectors" /\ due = {}
  /\ stage' = "timerf"
  /\ part' = [part EXCEPT !.fn = [f \in Funcs |->
       IF fn[f].where # "listed" THEN NoFunc
       ELSE [fn[f] EXCEPT !.owner = IF Owned(f) THEN @ ELSE NoObj,
                          !.own = @ /\ \E o \in Objs : part.uid[o] = fn[f].on]]]
  /\ UNCHANGED <<objVars, fn, buffer, pc, file, due, saves, restarts>>

(* The end marks; SaveThreadClose frees what has been held.                *)
EndSave ==
  /\ Playing /\ stage = "timerf"
  /\ stage' = "none" /\ file' = part /\ part' = EmptyFile
  /\ held' = {}
  /\ UNCHANGED <<state, uid, fn, buffer, pc, due, saves, restarts>>

(* The process ends, at any time, and is started: the objects of the last  *)
(* complete save with their UIDs, and CTimedFunctionHandler::Load.         *)
Restart ==
  /\ restarts < MaxRestarts
  /\ restarts' = restarts + 1
  /\ state' = [o \in Objs |-> IF file.uid[o] = NoUid THEN "none" ELSE "alive"]
  /\ uid' = file.uid
  /\ fn' = file.fn
  /\ held' = {} /\ buffer' = {} /\ pc' = "game"
  /\ stage' = "none" /\ part' = EmptyFile /\ due' = {}
  /\ UNCHANGED <<file, saves>>

Wild == pc = "wild" /\ UNCHANGED vars

Init ==
  /\ state = [o \in Objs |-> "none"] /\ uid = [o \in Objs |-> NoUid] /\ held = {}
  /\ fn = [f \in Funcs |-> NoFunc] /\ buffer = {} /\ pc = "game"
  /\ stage = "none" /\ part = EmptyFile /\ file = EmptyFile /\ due = {}
  /\ saves = 0 /\ restarts = 0

Game ==
  \/ \E o \in Objs, u \in Uids : Create(o, u)
  \/ \E o \in Objs : Delete(o) \/ SaveObject(o)
  \/ \E o \in Objs, f \in Funcs, delay \in 0 .. MaxDelay : Add(o, f, delay)
  \/ \E o \in Objs, fitting \in SUBSET Funcs : Stop(o, fitting)
  \/ \E weird \in SUBSET Objs : CollectGarbage(weird) \/ StartSave(weird)
  \/ SaveTimers \/ EndSave

RunBuffer == \E f \in Funcs : Run(f) \/ RunDestroyed(f)

Next == Game \/ BeginTick \/ RunBuffer \/ EndTick \/ Restart \/ Wild

Spec == Init /\ [][Next]_vars

(* The main loop calls CWorld::_OnTick again and again, and a tick goes    *)
(* through its buffer to the end.                                          *)
FairSpec == Spec /\ WF_vars(BeginTick) /\ WF_vars(RunBuffer) /\ WF_vars(EndTick)

-----------------------------------------------------------------------------
(* Properties.                                                             *)

(* A command is run on the object it was meant for or on none, though the  *)
(* function only knows the UID, its object may be deleted and destroyed,   *)
(* its UID given to another, and the process restarted meanwhile           *)
(* (_ExecTimedFunction).  Not so for a function added to an object already *)
(* deleted, or one on file without its object: see NoStrangers.            *)
RunsOnItsObject ==
  [][\A f \in Funcs : Run(f) /\ fn[f].own => Bearers(fn[f].on) \subseteq {fn[f].owner}]_vars

(* Every function ends: it runs or it is destroyed, within the ticks it    *)
(* has left ("delete this", CTimedFunction.cpp:64, and m_ObjDelete).       *)
EveryFunctionEnds ==
  \A f \in Funcs : Exists(f) ~> ~Exists(f) \/ pc = "wild"

(* Do not hold: no command is ever run on a stranger; a function that was  *)
(* stopped does not run ("TIMERF STOP,functionname to stop a specific      *)
(* timerf", Changelog-56c-PreRelease.txt:24); the tick never meets a       *)
(* destroyed function; a function on file has its object on file.          *)
NoStrangers ==
  [][\A f \in Funcs : Run(f) => Bearers(fn[f].on) \subseteq {fn[f].owner}]_vars
StoppedStaysStopped ==
  [][\A f \in Funcs : Run(f) => fn[f].where = "listed"]_vars
NoneDangles == \A f \in buffer : Exists(f)
OnFileWithObject ==
  \A f \in Funcs : file.fn[f] # NoFunc => \E o \in Objs : file.uid[o] = file.fn[f].on
=============================================================================
