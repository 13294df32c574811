--------------------------- MODULE StatusUpdates ---------------------------
(***************************************************************************)
(* The status updates of CWorldTicker: objects in containers, or with an   *)
(* expired timer, have no tick of their own that would resend a changed    *)
(* tooltip, so they are queued and updated once at the start of the next   *)
(* tick.                                                                   *)
(*                                                                         *)
(* The queue has an add list, a main list that is non-empty only while the *)
(* lists are merged and selected, an erase list, and two flags per object. *)
(* An object is a slot of memory here: one that is destroyed may be        *)
(* allocated again.  The destructors run at the end of a tick and when     *)
(* garbage is collected; a script that an update runs may ask for that, and *)
(* what the loop does with a pointer to a destroyed object is not modelled  *)
(* (phase is "wild").  Names that PeriodicTicker has too are told apart, so *)
(* that one module may extend both.                                        *)
(***************************************************************************)
EXTENDS Naturals, Sequences, SequencesExt

CONSTANTS
  Objs,
  MaxFailedLoads   \* bound: saves that do not load before one does

ASSUME LoadAssumption == MaxFailedLoads \in Nat

VARIABLES
  objLife,         \* "gone", "live", or "deleting" (in m_ObjDelete)
  dirty,           \* m_fStatusUpdate has SU_UPDATE_TOOLTIP
  inAdd,           \* _fIsInStatusUpdatesAddList
  inList,          \* _fIsInStatusUpdatesList
  updateReq,       \* _vObjStatusUpdatesAddRequests
  updateEraseReq,  \* _vObjStatusUpdatesEraseRequests
  updateBuffer,    \* what is left to update of _vObjStatusUpdatesTickBuffer:
                   \* the objects with the places they had in the add list
  updating,        \* whose update runs, or was the last to run: none or one
  phase,           \* where the main thread is
  failures,        \* saves that did not load so far
  owed,            \* history: an update of the object was asked for, not
                   \* withdrawn, and has not begun since
  swept            \* history: garbage was collected while this buffer is updated

queueVars == <<inAdd, inList, updateReq, updateEraseReq>>
updateVars == <<objLife, dirty, queueVars, updateBuffer, updating, phase,
                failures, owed, swept>>

UpdatesTypeOK ==
  /\ objLife \in [Objs -> {"gone", "live", "deleting"}]
  /\ dirty \in [Objs -> BOOLEAN]
  /\ inAdd \in [Objs -> BOOLEAN]
  /\ inList \in [Objs -> BOOLEAN]
  /\ updateReq \in Seq(Objs) /\ updateEraseReq \in Seq(Objs)
  /\ updateBuffer \subseteq (Nat \ {0}) \X Objs
  /\ updating \subseteq Objs
  /\ phase \in {"loading", "idle", "updates", "sending", "ticking", "cleanup",
               "wild"}
  /\ phase \notin {"updates", "sending", "wild"} => updateBuffer = {} /\ updating = {}
  /\ failures \in 0 .. MaxFailedLoads
  /\ owed \in [Objs -> BOOLEAN]
  /\ swept \in BOOLEAN

WaitingObjs == { e[2] : e \in updateBuffer }

\* Game code runs everywhere but in the destructors at the end of a tick: in
\* the updates too, as @ClientTooltip of the object that is sent ("sending"),
\* or of the status window of a damaged item.
ObjGameCode == phase \notin {"cleanup", "wild"}

IsStatusUpdatePending(o) == inList[o] \/ inAdd[o]

\* CWorldTicker::AddObjStatusUpdate; the callers test that none is pending.
AddObjStatusUpdate(o) ==
  /\ updateReq' = Append(updateReq, o)
  /\ inAdd' = [inAdd EXCEPT ![o] = TRUE]
  /\ UNCHANGED <<inList, updateEraseReq>>

\* Mutant of DelObjStatusUpdate: the flag stays set.
DelObjStatusUpdateKeepsFlag(o) ==
  /\ updateReq' = RemoveFirst(updateReq, o)
  /\ UNCHANGED <<inAdd, inList, updateEraseReq>>

\* CWorldTicker::DelObjStatusUpdate; the caller tests that one is pending.
DelObjStatusUpdate(o) ==
  IF inAdd[o]
  THEN /\ updateReq' = RemoveFirst(updateReq, o)
       /\ inAdd' = [inAdd EXCEPT ![o] = FALSE]
       /\ UNCHANGED <<inList, updateEraseReq>>
  ELSE /\ updateEraseReq' = Append(updateEraseReq, o)
       /\ inList' = [inList EXCEPT ![o] = FALSE]
       /\ UNCHANGED <<inAdd, updateReq>>

DelUpdateIfPending(o) ==
  IF IsStatusUpdatePending(o)
  THEN DelObjStatusUpdate(o)
  ELSE UNCHANGED queueVars

\* Only who waits for its turn in this tick is updated after a withdrawal.
OweOnlyTurn(o) == owed' = [owed EXCEPT ![o] = @ /\ o \in WaitingObjs]

----------------------------------------------------------------------------
(* Game code: the callbacks of the updates included.                       *)

CreateObj(o) ==
  /\ ObjGameCode /\ objLife[o] = "gone"
  /\ objLife' = [objLife EXCEPT ![o] = "live"]
  /\ dirty' = [dirty EXCEPT ![o] = FALSE]
  /\ inAdd' = [inAdd EXCEPT ![o] = FALSE]
  /\ inList' = [inList EXCEPT ![o] = FALSE]
  /\ UNCHANGED <<updateReq, updateEraseReq, updateBuffer, updating, phase,
                 failures, owed, swept>>

\* CObjBase::UpdatePropertyFlag: nothing while the world loads; an object on
\* the ground whose timer runs waits for its own tick.  An object that is
\* being deleted is queued like any other.
UpdatePropertyFlag(o, ownTick) ==
  /\ ObjGameCode /\ objLife[o] # "gone" /\ phase # "loading"
  /\ dirty' = [dirty EXCEPT ![o] = TRUE]
  /\ IF IsStatusUpdatePending(o) \/ ownTick
     THEN UNCHANGED queueVars
     ELSE AddObjStatusUpdate(o)
  /\ owed' = [owed EXCEPT ![o] = @ \/ ~ownTick]
  /\ UNCHANGED <<objLife, updateBuffer, updating, phase, failures, swept>>

\* CItem::_GoAwake on an item that is not on the ground.
ObjGoAwake(o) ==
  /\ ObjGameCode /\ objLife[o] = "live" /\ ~IsStatusUpdatePending(o)
  /\ AddObjStatusUpdate(o)
  /\ owed' = [owed EXCEPT ![o] = TRUE]
  /\ UNCHANGED <<objLife, dirty, updateBuffer, updating, phase, failures, swept>>

\* CObjBase::_GoSleep.
ObjGoSleep(o) ==
  /\ ObjGameCode /\ objLife[o] = "live"
  /\ DelUpdateIfPending(o)
  /\ OweOnlyTurn(o)
  /\ UNCHANGED <<objLife, dirty, updateBuffer, updating, phase, failures, swept>>

\* CObjBase::Delete: _GoSleep, then the object waits in m_ObjDelete.
DeleteObj(o) ==
  /\ ObjGameCode /\ objLife[o] # "gone"
  /\ objLife' = [objLife EXCEPT ![o] = "deleting"]
  /\ DelUpdateIfPending(o)
  /\ OweOnlyTurn(o)
  /\ UNCHANGED <<dirty, updateBuffer, updating, phase, failures, swept>>

\* Mutant of DestroyedObj: the destructor trusts what Delete has withdrawn.
DestroyedObjOnly(o) ==
  /\ objLife' = [objLife EXCEPT ![o] = "gone"]
  /\ owed' = [owed EXCEPT ![o] = FALSE]
  /\ UNCHANGED <<dirty, queueVars, updateBuffer, updating, phase, failures>>

\* The destructor withdraws what is pending in the lists.
DestroyedObj(o) ==
  /\ objLife' = [objLife EXCEPT ![o] = "gone"]
  /\ DelUpdateIfPending(o)
  /\ owed' = [owed EXCEPT ![o] = FALSE]
  /\ UNCHANGED <<dirty, updateBuffer, updating, phase, failures>>

\* One object of those that CWorld::GarbageCollection destroys: it is being
\* deleted, or was never placed, or FixObj finds it broken.  Game code asks for
\* the collection by SERV.GARBAGE, or by SERV.SAVE, which begins with one; that
\* it may go on between two of the destructors is more than the code does.
CollectObj(o) ==
  /\ ObjGameCode /\ objLife[o] # "gone"
  /\ DestroyedObj(o)
  /\ swept' = (swept \/ phase \in {"updates", "sending"})

----------------------------------------------------------------------------
(* The server.                                                             *)

\* CWorld::LoadWorld, a save that does not load: ClearTickingLists, then every
\* object is destroyed.
FailLoadObjs ==
  /\ phase = "loading" /\ failures < MaxFailedLoads
  /\ failures' = failures + 1
  /\ inAdd' = [o \in Objs |-> inAdd[o] /\ o \notin ToSet(updateReq)]
  /\ updateEraseReq' = <<>>
  /\ objLife' = [o \in Objs |-> "gone"]
  /\ owed' = [o \in Objs |-> FALSE]
  /\ UNCHANGED <<dirty, inList, updateReq, updateBuffer, updating, phase, swept>>

FinishLoadObjs ==
  /\ phase = "loading"
  /\ phase' = "idle"
  /\ UNCHANGED <<objLife, dirty, queueVars, updateBuffer, updating, failures,
                 owed, swept>>

\* Who is not being deleted is selected.
Selection == { <<i, updateReq[i]>> :
                 i \in { j \in DOMAIN updateReq : objLife[updateReq[j]] # "deleting" } }

\* Mutant of StartUpdates: the add flag is left set.
StartUpdatesKeepsAddFlag ==
  /\ phase = "idle"
  /\ updateBuffer' = Selection
  /\ updateReq' = <<>> /\ updateEraseReq' = <<>>
  /\ phase' = "updates"
  /\ UNCHANGED <<objLife, dirty, inAdd, inList, updating, failures, owed, swept>>

\* ProcessObjStatusUpdates up to the loop.  The main list is empty before.
StartUpdates ==
  /\ phase = "idle"
  /\ inAdd' = [o \in Objs |-> inAdd[o] /\ o \notin ToSet(updateReq)]
  /\ inList' = [o \in Objs |-> inList[o] /\ o \notin ToSet(updateReq)]
  /\ updateBuffer' = Selection
  /\ updateReq' = <<>> /\ updateEraseReq' = <<>>
  /\ phase' = "updates"
  /\ UNCHANGED <<objLife, dirty, updating, failures, owed, swept>>

\* Nobody destroyed the object whose update runs under its feet.
UpdatingExists == \A o \in updating : objLife[o] # "gone"

\* The loop of ProcessObjStatusUpdates: the object is not in the queue any
\* more when CObjBase::OnTickStatusUpdate looks at its flag.
OnTickStatusUpdate(o) ==
  /\ phase = "updates" /\ UpdatingExists /\ objLife[o] # "gone"
  /\ \E e \in updateBuffer : /\ e[2] = o
                             /\ \A f \in updateBuffer : e[1] <= f[1]
                             /\ updateBuffer' = updateBuffer \ {e}
  /\ updating' = {o}
  /\ owed' = [owed EXCEPT ![o] = FALSE]
  /\ phase' = IF dirty[o] THEN "sending" ELSE "updates"
  /\ UNCHANGED <<objLife, dirty, queueVars, failures, swept>>

\* CObjBase::ResendTooltip: the flag is cleared at the end, and only if some
\* client was there to get the tooltip.
ResendTooltip(sentLeastOnce) ==
  /\ phase = "sending" /\ UpdatingExists
  /\ dirty' = [o \in Objs |-> dirty[o] /\ ~(sentLeastOnce /\ o \in updating)]
  /\ phase' = "updates"
  /\ UNCHANGED <<objLife, queueVars, updateBuffer, updating, failures, owed, swept>>

\* The object of the update was destroyed by a script that it ran, or the next
\* one in the buffer is: the program goes on with freed memory.
UpdateDestroyed ==
  /\ phase \in {"updates", "sending"}
  /\ \/ ~UpdatingExists
     \/ /\ phase = "updates"
        /\ \E e \in updateBuffer : /\ objLife[e[2]] = "gone"
                                   /\ \A f \in updateBuffer : e[1] <= f[1]
  /\ phase' = "wild"
  /\ UNCHANGED <<objLife, dirty, queueVars, updateBuffer, updating, failures,
                 owed, swept>>

WildUpdate == phase = "wild" /\ UNCHANGED updateVars

EndUpdates ==
  /\ phase = "updates" /\ updateBuffer = {} /\ UpdatingExists
  /\ phase' = "ticking"
  /\ updating' = {} /\ swept' = FALSE
  /\ UNCHANGED <<objLife, dirty, queueVars, updateBuffer, failures, owed>>

\* CChar::OnTickPeriodic: an awake character's tooltip is tried again there.
SendOnOwnTick(o) ==
  /\ phase = "ticking" /\ objLife[o] = "live"
  /\ dirty' = [dirty EXCEPT ![o] = FALSE]
  /\ UNCHANGED <<objLife, queueVars, updateBuffer, updating, phase, failures,
                 owed, swept>>

\* The timers and the periodic ticks are done.
EndTick ==
  /\ phase = "ticking"
  /\ phase' = "cleanup"
  /\ UNCHANGED <<objLife, dirty, queueVars, updateBuffer, updating, failures,
                 owed, swept>>

\* m_ObjDelete.ClearContainer at the end of the tick.
DestroyObj(o) ==
  /\ phase = "cleanup" /\ objLife[o] = "deleting"
  /\ DestroyedObj(o)
  /\ UNCHANGED swept

EndObjCleanup ==
  /\ phase = "cleanup" /\ \A o \in Objs : objLife[o] # "deleting"
  /\ phase' = "idle"
  /\ UNCHANGED <<objLife, dirty, queueVars, updateBuffer, updating, failures,
                 owed, swept>>

----------------------------------------------------------------------------
UpdatesInit ==
  /\ objLife = [o \in Objs |-> "gone"]
  /\ dirty = [o \in Objs |-> FALSE]
  /\ inAdd = [o \in Objs |-> FALSE]
  /\ inList = [o \in Objs |-> FALSE]
  /\ updateReq = <<>> /\ updateEraseReq = <<>> /\ updateBuffer = {}
  /\ updating = {}
  /\ phase = "loading"
  /\ failures = 0
  /\ owed = [o \in Objs |-> FALSE]
  /\ swept = FALSE

ObjOps ==
  \E o \in Objs :
    \/ CreateObj(o) \/ ObjGoAwake(o) \/ ObjGoSleep(o) \/ DeleteObj(o)
    \/ CollectObj(o)
    \/ \E ownTick \in BOOLEAN : UpdatePropertyFlag(o, ownTick)

UpdatesTick ==
  \/ StartUpdates
  \/ \E o \in Objs : OnTickStatusUpdate(o) \/ DestroyObj(o)
  \/ \E sentLeastOnce \in BOOLEAN : ResendTooltip(sentLeastOnce)
  \/ UpdateDestroyed \/ EndUpdates \/ EndTick \/ EndObjCleanup

UpdatesNext ==
  \/ ObjOps \/ FailLoadObjs \/ FinishLoadObjs \/ UpdatesTick
  \/ \E o \in Objs : SendOnOwnTick(o)
  \/ WildUpdate

UpdatesSpec == UpdatesInit /\ [][UpdatesNext]_updateVars

\* The main loop runs for ever and callbacks return.
UpdatesFairSpec ==
  UpdatesSpec /\ WF_updateVars(FinishLoadObjs) /\ WF_updateVars(UpdatesTick)

----------------------------------------------------------------------------
(* ClearTickingLists clears the flags of what _vObjStatusUpdatesAddRequests *)
(* holds and the other two vectors, but not that one: after a save that did *)
(* not load, the queue holds destroyed objects.  The safety properties are  *)
(* about a server whose first save loads.                                   *)

\* The flag of an object says whether the add list has it, and the list has
\* it once ("We don't want duplicates", CWorldTicker.cpp).
FlagTellsQueue ==
  failures = 0 =>
    /\ IsInjective(updateReq)
    /\ \A o \in Objs : inAdd[o] <=> o \in ToSet(updateReq)

\* No object is queued after its destruction, and none waits for its turn in
\* the buffer but by a garbage collection in the middle of these updates.
NoDanglingUpdate ==
  failures = 0 =>
    \A o \in Objs :
      objLife[o] = "gone" =>
        o \notin ToSet(updateReq) /\ (o \in WaitingObjs => swept)

\* The erase list of the status updates is never used: whenever an update is
\* withdrawn, it is still in the add list.
NothingToErase == updateEraseReq = <<>> /\ \A o \in Objs : ~inList[o]

\* An update that was asked for is not lost: the object is queued, or waits for
\* its turn, or is being deleted.
OwedIsQueued ==
  failures = 0 =>
    \A o \in Objs :
      owed[o] => inAdd[o] \/ o \in WaitingObjs \/ objLife[o] = "deleting"

\* Whoever asks for an update gets one that begins after the request, also
\* when it is made while the object waits for its turn or is being updated;
\* unless the request is withdrawn or the object destroyed.
RequestsAreServed == \A o \in Objs : owed[o] ~> ~owed[o] \/ phase = "wild"

\* What this does not promise, and what does not hold, is that the change is
\* sent in the end: "we need to check again until there's some client to send
\* it to" (CObjBase.cpp), but an item whose update found no client is in no
\* queue any more, and only another change of it asks for a new update.
ChangeIsSent ==
  \A o \in Objs :
    dirty[o] /\ owed[o] ~> ~dirty[o] \/ objLife[o] # "live" \/ phase = "wild"
=============================================================================
