------------------------------ MODULE Threads ------------------------------
(***************************************************************************)
(* The life of AbstractThread objects (src/src/sphere/threads.cpp): start, *)
(* run, terminate and waitForClose, the registry ThreadHolder, the flags   *)
(* and events by which the thread that controls an object and the OS       *)
(* thread that runs it talk to each other, and the monitor that restarts   *)
(* an object whose tick hangs.                                             *)
(*                                                                         *)
(* One thread, here called the boss, starts and closes all the objects:    *)
(* the main thread, or the bootstrap thread that monitors it.  A step of   *)
(* the model ends where the other side can see the difference.  The plain  *)
(* members m_handle and m_fTerminateRequested are read and written by both *)
(* sides without a lock; their accesses are taken to be atomic.            *)
(* POSIX threads with glibc, where a cancelled C++ thread is unwound.      *)
(***************************************************************************)
EXTENDS Integers, SequencesExt

CONSTANTS
  Objects,    \* the AbstractSphereThread objects
  MaxThreads, \* bound: OS threads; each is used for one start
  Timed,      \* objects whose tick period is finite
  Hangers,    \* objects whose tick may never return
  NoThread,   \* std::nullopt
  NoObject

ASSUME ThreadsAssumption ==
  /\ MaxThreads \in Nat /\ NoThread \notin Nat /\ NoObject \notin Objects
  /\ Timed \subseteq Objects /\ Hangers \subseteq Objects

OsThreads == 1 .. MaxThreads

VARIABLES
  registered,  \* ThreadHolder::m_threads
  threadCount, \* ThreadHolder::m_threadCount
  holderId,    \* m_threadHolderId
  handle,      \* m_handle
  termReq,     \* m_fTerminateRequested
  uiState,     \* m_uiState
  hangCheck,   \* m_uiHangCheck: 0, 1 for 0xDEAD, 2 for 0xDEADDEAD
  sleepEvent,  \* m_sleepEvent is signalled
  ended,       \* m_terminateEvent is signalled
  exitFlag,    \* CServer::GetExitFlag() # 0
  of,          \* the object an OS thread was created for
  at,          \* where an OS thread is
  cancelled,   \* OS threads that pthread_cancel was called for
  boss,        \* what the boss is doing
  exiting,     \* Sphere_ExitServer is past f_onserver_exit
  late,        \* history: OS threads whose handle was not yet entered when
               \* the exit flag was set
  aborted      \* an exception left the thread function: the process is gone

holder  == <<registered, threadCount, holderId>>
flags   == <<termReq, uiState, hangCheck, sleepEvent, ended>>
osVars  == <<of, at, cancelled, late>>
server  == <<exitFlag, exiting>>
threadVars == <<holder, handle, flags, osVars, boss, server, aborted>>

(* "born": created, has not run yet.  "pushed": in onStart, registered and  *)
(* not yet marked as started.  "bound": after onStart.  "loop": at  *)
(* the top of the loop of run().  "leaving": after the loop.  "closing":   *)
(* in terminate, the handle is gone and the event not yet set.             *)
InRun     == {"bound", "loop", "tick", "hung", "sleep", "leaving"}
Locations == InRun \cup {"free", "born", "pushed", "closing", "over"}
(* "made": pthread_create has returned; "handled": m_handle is set; "wait": *)
(* waits for m_terminateEvent; "restart": waitForClose is done, start is    *)
(* not (checkStuck only).                                                   *)
BossAt    == {"idle", "made", "handled", "wait", "restart"}

ThreadsTypeOK ==
  /\ registered \in Seq(Objects) /\ threadCount \in Nat
  /\ holderId \in [Objects -> -1 .. threadCount]
  /\ handle \in [Objects -> OsThreads \cup {NoThread}]
  /\ termReq \in [Objects -> BOOLEAN]
  /\ uiState \in [Objects -> {"NeverStarted", "Running", "Closing"}]
  /\ hangCheck \in [Objects -> 0 .. 2]
  /\ sleepEvent \in [Objects -> BOOLEAN] /\ ended \in [Objects -> BOOLEAN]
  /\ exitFlag \in BOOLEAN /\ aborted \in BOOLEAN
  /\ of \in [OsThreads -> Objects \cup {NoObject}]
  /\ at \in [OsThreads -> Locations]
  /\ cancelled \subseteq OsThreads /\ late \subseteq OsThreads
  /\ exiting \in BOOLEAN
  /\ boss \in [at : BossAt, obj : Objects \cup {NoObject},
               os : OsThreads \cup {NoThread}, again : BOOLEAN]

Idle == [at |-> "idle", obj |-> NoObject, os |-> NoThread, again |-> FALSE]

Active(o) == handle[o] # NoThread

\* Mutant of ShouldExit: AbstractThread::shouldExit is not overridden.
ShouldExitUnasked(o) == uiState[o] = "Closing" \/ termReq[o]
(* AbstractSphereThread::shouldExit. *)
ShouldExit(o) == exitFlag \/ uiState[o] = "Closing" \/ termReq[o]

-----------------------------------------------------------------------------
(* ThreadHolder. *)

IsRegistered(o) == o \in ToSet(registered)
SlotOf(o)       == (CHOOSE i \in DOMAIN registered : registered[i] = o) - 1
HasSlot(id)     == id + 1 \in DOMAIN registered

(* push: a known object gets the index of its slot, a new one the count of *)
(* all the objects that were ever registered.                              *)
Push(o) ==
  IF IsRegistered(o)
  THEN /\ holderId' = [holderId EXCEPT ![o] = SlotOf(o)]
       /\ UNCHANGED <<registered, threadCount>>
  ELSE /\ registered' = Append(registered, o)
       /\ holderId' = [holderId EXCEPT ![o] = threadCount]
       /\ threadCount' = threadCount + 1

(* remove: the slots behind move down, the count stays. *)
Deregister(o) ==
  /\ registered' = Remove(registered, o)
  /\ holderId' = [holderId EXCEPT ![o] = -1]
  /\ UNCHANGED threadCount

-----------------------------------------------------------------------------
(* The OS thread t: runner calls run() and terminate(true). *)

(* onStart, up to the unlock in push. *)
OnStart(t) ==
  /\ at[t] = "born"
  /\ Push(of[t])
  /\ at' = [at EXCEPT ![t] = "pushed"]
  /\ UNCHANGED <<handle, flags, of, cancelled, late, boss, server, aborted>>

(* The rest of onStart: a slot number that is none, or is none any more,    *)
(* makes markThreadStarted throw where nothing catches it.                  *)
MarkStarted(t) ==
  /\ at[t] = "pushed"
  /\ aborted' = ~HasSlot(holderId[of[t]])
  /\ at' = [at EXCEPT ![t] = "bound"]
  /\ UNCHANGED <<holder, handle, flags, of, cancelled, late, boss, server>>

(* run clears a request to terminate, whoever made it. *)
BeginRun(t) ==
  /\ at[t] = "bound"
  /\ termReq' = [termReq EXCEPT ![of[t]] = FALSE]
  /\ uiState' = [uiState EXCEPT ![of[t]] = "Running"]
  /\ at' = [at EXCEPT ![t] = "loop"]
  /\ UNCHANGED <<holder, handle, hangCheck, sleepEvent, ended, of, cancelled,
                 late, boss, server, aborted>>

ExitLoop(t) ==
  /\ uiState' = [uiState EXCEPT ![of[t]] = "Closing"]
  /\ at' = [at EXCEPT ![t] = "leaving"]

BeginTick(t) ==
  /\ at[t] = "loop"
  /\ IF ShouldExit(of[t])
     THEN ExitLoop(t) /\ UNCHANGED hangCheck
     ELSE /\ hangCheck' = [hangCheck EXCEPT ![of[t]] = 0]
          /\ at' = [at EXCEPT ![t] = "tick"]
          /\ UNCHANGED uiState
  /\ UNCHANGED <<holder, handle, termReq, sleepEvent, ended, of, cancelled,
                 late, boss, server, aborted>>

(* tick() has returned or thrown. *)
EndTick(t) ==
  /\ at[t] = "tick"
  /\ IF ShouldExit(of[t])
     THEN ExitLoop(t)
     ELSE at' = [at EXCEPT ![t] = "sleep"] /\ UNCHANGED uiState
  /\ UNCHANGED <<holder, handle, termReq, hangCheck, sleepEvent, ended, of,
                 cancelled, late, boss, server, aborted>>

(* tick() hangs, or returns after all. *)
Hang(t) ==
  /\ of[t] \in Hangers
  /\ \/ at[t] = "tick" /\ at' = [at EXCEPT ![t] = "hung"]
     \/ at[t] = "hung" /\ at' = [at EXCEPT ![t] = "tick"]
  /\ UNCHANGED <<holder, handle, flags, of, cancelled, late, boss, server, aborted>>

(* m_sleepEvent->wait(m_uiTickPeriod): an event that was signalled before   *)
(* the wait is not lost.                                                    *)
WakeUp(t) ==
  /\ at[t] = "sleep"
  /\ sleepEvent[of[t]] \/ of[t] \in Timed
  /\ sleepEvent' = [sleepEvent EXCEPT ![of[t]] = FALSE]
  /\ at' = [at EXCEPT ![t] = "loop"]
  /\ UNCHANGED <<holder, handle, termReq, uiState, hangCheck, ended, of,
                 cancelled, late, boss, server, aborted>>

(* terminate(true), up to the reset of the handle. *)
Leave(t) ==
  /\ at[t] = "leaving"
  /\ IF Active(of[t])
     THEN /\ Deregister(of[t])
          /\ handle' = [handle EXCEPT ![of[t]] = NoThread]
          /\ at' = [at EXCEPT ![t] = "closing"]
     ELSE /\ at' = [at EXCEPT ![t] = "over"]
          /\ UNCHANGED <<holder, handle>>
  /\ UNCHANGED <<flags, of, cancelled, late, boss, server, aborted>>

SetEnded(t) ==
  /\ at[t] = "closing"
  /\ ended' = [ended EXCEPT ![of[t]] = TRUE]
  /\ at' = [at EXCEPT ![t] = "over"]
  /\ UNCHANGED <<holder, handle, termReq, uiState, hangCheck, sleepEvent, of,
                 cancelled, late, boss, server, aborted>>

(* A cancelled thread is unwound at a cancellation point: through the       *)
(* catch (...) of run, which does not throw on, or out of wait, which is    *)
(* noexcept.  The runtime aborts the process for either.                    *)
Unwind(t) ==
  /\ t \in cancelled /\ at[t] \in {"tick", "hung", "sleep"}
  /\ aborted' = TRUE
  /\ UNCHANGED <<holder, handle, flags, osVars, boss, server>>

(* What a thread does beside its tick. *)
RunStep(t) ==
  OnStart(t) \/ MarkStarted(t) \/ BeginRun(t) \/ BeginTick(t) \/ WakeUp(t) \/ Leave(t) \/ SetEnded(t)

-----------------------------------------------------------------------------
(* The boss. *)

(* start(): pthread_create; the thread may run from here on. *)
Create(o, t) ==
  /\ at[t] = "free" /\ \A u \in 1 .. t - 1 : at[u] # "free"
  /\ of' = [of EXCEPT ![t] = o] /\ at' = [at EXCEPT ![t] = "born"]
  /\ late' = IF exitFlag THEN late \cup {t} ELSE late
  /\ boss' = [at |-> "made", obj |-> o, os |-> t, again |-> FALSE]
  /\ UNCHANGED <<holder, handle, flags, cancelled, server, aborted>>

Start(o) == boss = Idle /\ ~Active(o) /\ \E t \in OsThreads : Create(o, t)

SetHandle ==
  /\ boss.at = "made"
  /\ handle' = [handle EXCEPT ![boss.obj] = boss.os]
  /\ boss' = [boss EXCEPT !.at = "handled"]
  /\ UNCHANGED <<holder, flags, osVars, server, aborted>>

ResetEnded ==
  /\ boss.at = "handled"
  /\ ended' = [ended EXCEPT ![boss.obj] = FALSE]
  /\ boss' = Idle
  /\ UNCHANGED <<holder, handle, termReq, uiState, hangCheck, sleepEvent,
                 osVars, server, aborted>>

\* Mutant of RequestClose: the thread is not awakened.
RequestCloseAsleep(o, again) ==
  /\ Active(o)
  /\ termReq' = [termReq EXCEPT ![o] = TRUE]
  /\ boss' = [at |-> "wait", obj |-> o, os |-> NoThread, again |-> again]
  /\ UNCHANGED <<holder, handle, uiState, hangCheck, sleepEvent, ended, osVars,
                 server, aborted>>

(* waitForClose, up to the wait. *)
RequestClose(o, again) ==
  /\ Active(o)
  /\ termReq' = [termReq EXCEPT ![o] = TRUE]
  /\ sleepEvent' = [sleepEvent EXCEPT ![o] = TRUE]
  /\ boss' = [at |-> "wait", obj |-> o, os |-> NoThread, again |-> again]
  /\ UNCHANGED <<holder, handle, uiState, hangCheck, ended, osVars, server, aborted>>

(* The thread of o ends by itself.  A tick that does not hang takes less    *)
(* than THREAD_JOIN_TIMEOUT.                                                *)
OnItsWay(o) == \E t \in OsThreads :
  /\ of[t] = o
  /\ \/ at[t] \in {"leaving", "closing"}
     \/ at[t] \in {"born", "pushed", "bound"} /\ exitFlag
     \/ at[t] \in {"loop", "tick"} /\ ShouldExit(o)
     \/ at[t] = "sleep" /\ ShouldExit(o) /\ (o \in Timed \/ sleepEvent[o])

(* The wait is over, by the event or by the time; terminate(false). *)
CloseEnds ==
  /\ boss.at = "wait"
  /\ ended[boss.obj] \/ ~OnItsWay(boss.obj)
  /\ IF Active(boss.obj)
     THEN /\ cancelled' = cancelled \cup {handle[boss.obj]}
          /\ Deregister(boss.obj)
          /\ handle' = [handle EXCEPT ![boss.obj] = NoThread]
          /\ ended' = [ended EXCEPT ![boss.obj] = TRUE]
     ELSE UNCHANGED <<cancelled, holder, handle, ended>>
  /\ boss' = IF boss.again THEN [boss EXCEPT !.at = "restart"] ELSE Idle
  /\ UNCHANGED <<termReq, uiState, hangCheck, sleepEvent, of, at, late, server, aborted>>

(* checkStuck, called by the monitor.  A tick that does not hang is over    *)
(* before the next check.                                                   *)
CheckStuck(o) ==
  /\ boss = Idle /\ Active(o) /\ ~exitFlag
  /\ hangCheck[o] > 0 => \E t \in OsThreads : of[t] = o /\ at[t] = "hung"
  /\ IF hangCheck[o] < 2
     THEN /\ hangCheck' = [hangCheck EXCEPT ![o] = @ + 1]
          /\ UNCHANGED <<holder, handle, termReq, uiState, sleepEvent, ended,
                         osVars, boss, server, aborted>>
     ELSE RequestClose(o, TRUE)

Restart == boss.at = "restart" /\ \E t \in OsThreads : Create(boss.obj, t)

SetExitFlag ==
  /\ ~exitFlag /\ exitFlag' = TRUE
  /\ late' = IF boss.at = "made" THEN late \cup {boss.os} ELSE late
  /\ UNCHANGED <<holder, handle, flags, of, at, cancelled, boss, exiting, aborted>>

(* Sphere_ExitServer, once the loops that test the exit flag have ended. *)
BeginExit ==
  /\ boss = Idle /\ exitFlag /\ ~exiting
  /\ exiting' = TRUE
  /\ UNCHANGED <<holder, handle, flags, osVars, boss, exitFlag, aborted>>

Close(o) == boss = Idle /\ exiting /\ RequestClose(o, FALSE)

-----------------------------------------------------------------------------
ThreadsInit ==
  /\ registered = <<>> /\ threadCount = 0 /\ holderId = [o \in Objects |-> -1]
  /\ handle = [o \in Objects |-> NoThread]
  /\ termReq = [o \in Objects |-> TRUE]
  /\ uiState = [o \in Objects |-> "NeverStarted"]
  /\ hangCheck = [o \in Objects |-> 0]
  /\ sleepEvent = [o \in Objects |-> FALSE] /\ ended = [o \in Objects |-> FALSE]
  /\ of = [t \in OsThreads |-> NoObject] /\ at = [t \in OsThreads |-> "free"]
  /\ cancelled = {} /\ late = {}
  /\ boss = Idle /\ exitFlag = FALSE /\ exiting = FALSE /\ aborted = FALSE

BossStep ==
  \/ SetHandle \/ ResetEnded \/ CloseEnds \/ Restart \/ SetExitFlag \/ BeginExit
  \/ \E o \in Objects : (~exiting /\ Start(o)) \/ Close(o) \/ CheckStuck(o)

ThreadsNext ==
  /\ ~aborted
  /\ \/ BossStep
     \/ \E t \in OsThreads : RunStep(t) \/ EndTick(t) \/ Hang(t) \/ Unwind(t)

ThreadsSpec == ThreadsInit /\ [][ThreadsNext]_threadVars

(* The monitor restarts an object that hangs ("Time before restarting when  *)
(* server appears hung", sphere.ini): its new thread gets a slot of         *)
(* ThreadHolder and runs.  It does not: push numbers it behind the last     *)
(* slot and markThreadStarted throws.                                       *)
RestartedRuns == \A t \in OsThreads :
  ~exitFlag /\ at[t] = "bound" => holderId[of[t]] < Len(registered)
=============================================================================
