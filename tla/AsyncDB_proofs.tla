--------------------------- MODULE AsyncDB_proofs ---------------------------
(***************************************************************************)
(* Proofs about AsyncDB, for any objects, OS threads, queries and losses   *)
(* of the link.  The inductive invariant has three parts.  ThreadInv is    *)
(* about the protocol of start, run, terminate and waitForClose, which has *)
(* no lock: whose thread the handle is, and what is still true before the  *)
(* exit flag is set.  QueryInv is about the way of a query, and rests on   *)
(* one thread at a time being in the tick of the helper.  ConnectionInv is *)
(* about the connection that both sides use.                               *)
(***************************************************************************)
EXTENDS AsyncDB, FiniteSetTheorems, TLAPS

\* An OS thread that is in runner() and has not come to the end of run().
Live == (InRun \ {"hung"}) \cup {"born", "pushed"}

\* The types, without those of the registry of threads: what Remove leaves
\* of a sequence is defined by recursion.
ThreadTypes ==
  /\ handle \in [Objects -> OsThreads \cup {NoThread}]
  /\ termReq \in [Objects -> BOOLEAN]
  /\ uiState \in [Objects -> {"NeverStarted", "Running", "Closing"}]
  /\ hangCheck \in [Objects -> 0 .. 2]
  /\ sleepEvent \in [Objects -> BOOLEAN] /\ ended \in [Objects -> BOOLEAN]
  /\ exitFlag \in BOOLEAN /\ aborted \in BOOLEAN
  /\ of \in [OsThreads -> Objects \cup {NoObject}]
  /\ at \in [OsThreads -> Locations]
  /\ cancelled \subseteq OsThreads /\ late \subseteq OsThreads
  /\ exiting \in BOOLEAN
  /\ boss \in [at : BossAt, obj : Objects \cup {NoObject},
               os : OsThreads \cup {NoThread}, again : BOOLEAN]
QueryTypes ==
  /\ asked \in 0 .. MaxQueries /\ todo \in Seq(QueryIds)
  /\ job \in [OsThreads -> 0 .. MaxQueries] /\ doing \in [OsThreads -> Doing]
  /\ results \in Seq(QueryIds) /\ delivered \in Seq(QueryIds)

\* What the boss is doing, and when.
BossInv ==
  /\ exiting => exitFlag
  /\ cancelled # {} => exiting
  /\ boss.at \in {"idle", "made", "handled", "wait"} /\ ~boss.again
  /\ boss.at = "idle" => boss = Idle
  /\ boss.at = "wait" => exiting /\ boss.obj \in Objects
  /\ boss.at \in {"made", "handled"} => ~exiting /\ boss.obj \in Objects
  /\ boss.at = "made" =>
       /\ boss.os \in OsThreads /\ of[boss.os] = boss.obj
       /\ at[boss.os] \notin {"free", "closing"}
       /\ ~Active(boss.obj)
       /\ exitFlag => boss.os \in late

\* A thread that runs is the one of the handle, or its handle is not entered
\* yet, or waitForClose gave up on it.
RunnerInv ==
  /\ \A t \in OsThreads :
       /\ at[t] = "free" <=> of[t] = NoObject
       /\ at[t] # "hung"
       /\ at[t] \in Live => \/ handle[of[t]] = t
                            \/ boss.at = "made" /\ boss.os = t
                            \/ t \in cancelled
  /\ \A o \in Objects : Active(o) => of[handle[o]] = o
  /\ \A t \in cancelled : at[t] # "free" /\ ~Active(of[t])
  /\ \A t, u \in cancelled : of[t] = of[u] => t = u

\* Before the exit flag is set nothing makes a thread leave its loop.
ExitInv ==
  /\ \A t \in OsThreads :
       /\ at[t] \in {"leaving", "closing", "over"} => exitFlag
       /\ at[t] \in {"loop", "tick", "sleep"} => uiState[of[t]] = "Running"
       /\ at[t] \in {"loop", "tick", "sleep"} /\ termReq[of[t]] => exiting
  /\ \A o \in Objects : ended[o] => exitFlag

\* The handle of a thread that was started in time is that of a thread that
\* will signal the end itself, and nobody else will or has.
HandleInv == \A o \in Objects : Active(o) =>
  /\ at[handle[o]] # "closing"
  /\ handle[o] \notin late =>
       /\ at[handle[o]] # "over" /\ ~ended[o]
       /\ \A t \in OsThreads : of[t] = o => t = handle[o]

\* Whoever is waited for is awake, or will wake up.
WaitInv ==
  boss.at = "wait" /\ Active(boss.obj) /\ at[handle[boss.obj]] = "sleep" =>
    boss.obj \in Timed \/ sleepEvent[boss.obj]

ThreadInv == ThreadTypes /\ BossInv /\ RunnerInv /\ ExitInv /\ HandleInv /\ WaitInv

\* A query is in hand only between two points of one tick of the helper.
JobInv == \A t \in OsThreads :
  /\ doing[t] # "take" => InTick(t)
  /\ job[t] # 0 <=> doing[t] \in {"test", "use", "report"}

\* The places of a query on its way hold consecutive numbers.
Behind(n) == Len(delivered) + Len(results) + n
Working   == IF AtWork = {} THEN 0 ELSE 1
OrderInv ==
  /\ \A i \in 1 .. Len(delivered) : delivered[i] = i
  /\ \A i \in 1 .. Len(results) : results[i] = Len(delivered) + i
  /\ \A t \in AtWork : job[t] = Behind(1)
  /\ \A i \in 1 .. Len(todo) : todo[i] = Behind(Working + i)
  /\ Behind(Working + Len(todo)) <= asked
  /\ ~exiting => Behind(Working + Len(todo)) = asked
  /\ asking => asked < MaxQueries /\ ~exiting

QueryInv == QueryTypes /\ JobInv /\ OrderInv

ConnectionInv ==
  connected \in BOOLEAN /\ link \in {"null", "open", "lost"} /\ ConnectedHasLink

IInv == ThreadInv /\ QueryInv /\ ConnectionInv
-----------------------------------------------------------------------------
(* The threads. *)

LEMMA NoThreadIsNone == NoThread \notin OsThreads /\ NoObject \notin Objects
  BY ThreadsAssumption DEF OsThreads

\* What is a thread of an object, and whose it is.
LEMMA LiveOf ==
  ASSUME ThreadInv, NEW t \in OsThreads, at[t] # "free"
  PROVE  of[t] \in Objects
  BY NoThreadIsNone DEF ThreadInv, ThreadTypes, RunnerInv

LEMMA HandleOf ==
  ASSUME ThreadInv, NEW o \in Objects, Active(o)
  PROVE  handle[o] \in OsThreads /\ of[handle[o]] = o /\ at[handle[o]] # "free"
  BY NoThreadIsNone DEF ThreadInv, ThreadTypes, RunnerInv, Active

LEMMA OneLive ==
  ASSUME ThreadInv, NEW t \in OsThreads, NEW u \in OsThreads,
         of[t] = of[u], at[t] \in Live, at[u] \in Live
  PROVE  t = u
<1>1. of[t] \in Objects
  BY LiveOf DEF Live, InRun
<1>2. \A v \in {t, u} :
        handle[of[t]] = v \/ (boss.at = "made" /\ boss.os = v) \/ v \in cancelled
  BY DEF ThreadInv, RunnerInv
<1>3. cancelled # {} => boss.at # "made"
  BY DEF ThreadInv, BossInv
<1>4. boss.at = "made" => ~Active(boss.obj) /\ of[boss.os] = boss.obj
  BY DEF ThreadInv, BossInv
<1>5. /\ \A v \in cancelled : ~Active(of[v])
      /\ \A v, w \in cancelled : of[v] = of[w] => v = w
  BY DEF ThreadInv, RunnerInv
<1> QED  BY <1>1, <1>2, <1>3, <1>4, <1>5, NoThreadIsNone DEF Active

LEMMA ThreadInit == Init => ThreadInv
<1> SUFFICES ASSUME Init PROVE ThreadInv
  OBVIOUS
<1> USE NoThreadIsNone DEF Init, ThreadsInit, Idle
<1>1. ThreadTypes
  <2>1. boss \in [at : BossAt, obj : Objects \cup {NoObject},
                  os : OsThreads \cup {NoThread}, again : BOOLEAN]
    BY DEF BossAt
  <2>2. at \in [OsThreads -> Locations]
    BY DEF Locations, InRun
  <2>3. hangCheck \in [Objects -> 0 .. 2]
    OBVIOUS
  <2> QED  BY <2>1, <2>2, <2>3 DEF ThreadTypes
<1>2. BossInv /\ WaitInv
  BY DEF BossInv, WaitInv
<1>3. RunnerInv /\ ExitInv /\ HandleInv
  BY DEF RunnerInv, ExitInv, HandleInv, Active, Live, InRun
<1> QED  BY <1>1, <1>2, <1>3 DEF ThreadInv

\* One lemma per action of the thread.
LEMMA OnStartKeeps ==
  ASSUME ThreadInv, NEW t \in OsThreads, OnStart(t)
  PROVE  ThreadInv'
<1> USE NoThreadIsNone, LiveOf DEF OnStart, Live, InRun, Active, flags, server
<1>1. ThreadTypes'
  BY DEF ThreadInv, ThreadTypes, Locations, InRun, BossAt
<1>2. BossInv'
  BY DEF ThreadInv, ThreadTypes, BossInv, RunnerInv, ExitInv, HandleInv, WaitInv
<1>3. RunnerInv'
  BY DEF ThreadInv, ThreadTypes, BossInv, RunnerInv, ExitInv, HandleInv, WaitInv
<1>4. ExitInv'
  BY DEF ThreadInv, ThreadTypes, BossInv, RunnerInv, ExitInv, HandleInv, WaitInv
<1>5. HandleInv'
  BY DEF ThreadInv, ThreadTypes, BossInv, RunnerInv, ExitInv, HandleInv, WaitInv
<1>6. WaitInv'
  BY DEF ThreadInv, ThreadTypes, BossInv, RunnerInv, ExitInv, HandleInv, WaitInv
<1> QED  BY <1>1, <1>2, <1>3, <1>4, <1>5, <1>6 DEF ThreadInv

LEMMA MarkStartedKeeps ==
  ASSUME ThreadInv, NEW t \in OsThreads, MarkStarted(t)
  PROVE  ThreadInv'
<1> USE NoThreadIsNone, LiveOf DEF MarkStarted, Live, InRun, Active, holder, flags, server
<1>1. ThreadTypes'
  BY DEF ThreadInv, ThreadTypes, Locations, InRun, BossAt
<1>2. BossInv'
  BY DEF ThreadInv, ThreadTypes, BossInv, RunnerInv, ExitInv, HandleInv, WaitInv
<1>3. RunnerInv'
  BY DEF ThreadInv, ThreadTypes, BossInv, RunnerInv, ExitInv, HandleInv, WaitInv
<1>4. ExitInv'
  BY DEF ThreadInv, ThreadTypes, BossInv, RunnerInv, ExitInv, HandleInv, WaitInv
<1>5. HandleInv'
  BY DEF ThreadInv, ThreadTypes, BossInv, RunnerInv, ExitInv, HandleInv, WaitInv
<1>6. WaitInv'
  BY DEF ThreadInv, ThreadTypes, BossInv, RunnerInv, ExitInv, HandleInv, WaitInv
<1> QED  BY <1>1, <1>2, <1>3, <1>4, <1>5, <1>6 DEF ThreadInv

LEMMA BeginRunKeeps ==
  ASSUME ThreadInv, NEW t \in OsThreads, BeginRun(t)
  PROVE  ThreadInv'
<1> USE NoThreadIsNone, LiveOf DEF BeginRun, Live, InRun, Active, holder, server
<1>1. ThreadTypes'
  BY DEF ThreadInv, ThreadTypes, Locations, InRun, BossAt
<1>2. BossInv'
  BY DEF ThreadInv, ThreadTypes, BossInv, RunnerInv, ExitInv, HandleInv, WaitInv
<1>3. RunnerInv'
  BY DEF ThreadInv, ThreadTypes, BossInv, RunnerInv, ExitInv, HandleInv, WaitInv
<1>4. ExitInv'
  BY DEF ThreadInv, ThreadTypes, BossInv, RunnerInv, ExitInv, HandleInv, WaitInv
<1>5. HandleInv'
  BY DEF ThreadInv, ThreadTypes, BossInv, RunnerInv, ExitInv, HandleInv, WaitInv
<1>6. WaitInv'
  BY DEF ThreadInv, ThreadTypes, BossInv, RunnerInv, ExitInv, HandleInv, WaitInv
<1> QED  BY <1>1, <1>2, <1>3, <1>4, <1>5, <1>6 DEF ThreadInv


LEMMA BeginTickKeeps ==
  ASSUME ThreadInv, NEW t \in OsThreads, BeginTick(t)
  PROVE  ThreadInv'
<1> USE NoThreadIsNone, LiveOf, OneLive DEF BeginTick, ExitLoop, ShouldExit,
    Live, InRun, Active, holder, server
<1>1. ThreadTypes'
  BY DEF ThreadInv, ThreadTypes, Locations, InRun, BossAt
<1>2. BossInv'
  BY DEF ThreadInv, ThreadTypes, BossInv, RunnerInv, ExitInv, HandleInv, WaitInv
<1>3. RunnerInv'
  BY DEF ThreadInv, ThreadTypes, BossInv, RunnerInv, ExitInv, HandleInv, WaitInv
<1>4. ExitInv'
  BY DEF ThreadInv, ThreadTypes, BossInv, RunnerInv, ExitInv, HandleInv, WaitInv
<1>5. HandleInv'
  BY DEF ThreadInv, ThreadTypes, BossInv, RunnerInv, ExitInv, HandleInv, WaitInv
<1>6. WaitInv'
  BY DEF ThreadInv, ThreadTypes, BossInv, RunnerInv, ExitInv, HandleInv, WaitInv
<1> QED  BY <1>1, <1>2, <1>3, <1>4, <1>5, <1>6 DEF ThreadInv


LEMMA EndTickKeeps ==
  ASSUME ThreadInv, NEW t \in OsThreads, EndTick(t)
  PROVE  ThreadInv'
<1> USE NoThreadIsNone, LiveOf, OneLive DEF EndTick, ExitLoop, ShouldExit,
    Live, InRun, Active, holder, server
<1>1. ThreadTypes'
  BY DEF ThreadInv, ThreadTypes, Locations, InRun, BossAt
<1>2. BossInv'
  BY DEF ThreadInv, ThreadTypes, BossInv, RunnerInv, ExitInv, HandleInv, WaitInv
<1>3. RunnerInv'
  BY DEF ThreadInv, ThreadTypes, BossInv, RunnerInv, ExitInv, HandleInv, WaitInv
<1>4. ExitInv'
  BY DEF ThreadInv, ThreadTypes, BossInv, RunnerInv, ExitInv, HandleInv, WaitInv
<1>5. HandleInv'
  BY DEF ThreadInv, ThreadTypes, BossInv, RunnerInv, ExitInv, HandleInv, WaitInv
<1>6. WaitInv'
  BY DEF ThreadInv, ThreadTypes, BossInv, RunnerInv, ExitInv, HandleInv, WaitInv
<1> QED  BY <1>1, <1>2, <1>3, <1>4, <1>5, <1>6 DEF ThreadInv


LEMMA WakeUpKeeps ==
  ASSUME ThreadInv, NEW t \in OsThreads, WakeUp(t)
  PROVE  ThreadInv'
<1> USE NoThreadIsNone, LiveOf, OneLive DEF WakeUp, Live, InRun, Active,
    holder, server
<1>1. ThreadTypes'
  BY DEF ThreadInv, ThreadTypes, Locations, InRun, BossAt
<1>2. BossInv'
  BY DEF ThreadInv, ThreadTypes, BossInv, RunnerInv, ExitInv, HandleInv, WaitInv
<1>3. RunnerInv'
  BY DEF ThreadInv, ThreadTypes, BossInv, RunnerInv, ExitInv, HandleInv, WaitInv
<1>4. ExitInv'
  BY DEF ThreadInv, ThreadTypes, BossInv, RunnerInv, ExitInv, HandleInv, WaitInv
<1>5. HandleInv'
  BY DEF ThreadInv, ThreadTypes, BossInv, RunnerInv, ExitInv, HandleInv, WaitInv
<1>6. WaitInv'
  BY DEF ThreadInv, ThreadTypes, BossInv, RunnerInv, ExitInv, HandleInv, WaitInv
<1> QED  BY <1>1, <1>2, <1>3, <1>4, <1>5, <1>6 DEF ThreadInv


LEMMA LeaveKeeps ==
  ASSUME ThreadInv, NEW t \in OsThreads, Leave(t)
  PROVE  ThreadInv'
<1> USE NoThreadIsNone, LiveOf DEF Leave, Live, InRun, Active, flags, server
<1>1. ThreadTypes'
  BY DEF ThreadInv, ThreadTypes, Locations, InRun, BossAt
<1>2. BossInv'
  BY DEF ThreadInv, ThreadTypes, BossInv, RunnerInv, ExitInv, HandleInv, WaitInv
<1>3. RunnerInv'
  BY DEF ThreadInv, ThreadTypes, BossInv, RunnerInv, ExitInv, HandleInv, WaitInv
<1>4. ExitInv'
  BY DEF ThreadInv, ThreadTypes, BossInv, RunnerInv, ExitInv, HandleInv, WaitInv
<1>5. HandleInv'
  BY DEF ThreadInv, ThreadTypes, BossInv, RunnerInv, ExitInv, HandleInv, WaitInv
<1>6. WaitInv'
  BY DEF ThreadInv, ThreadTypes, BossInv, RunnerInv, ExitInv, HandleInv, WaitInv
<1> QED  BY <1>1, <1>2, <1>3, <1>4, <1>5, <1>6 DEF ThreadInv


LEMMA SetEndedKeeps ==
  ASSUME ThreadInv, NEW t \in OsThreads, SetEnded(t)
  PROVE  ThreadInv'
<1> USE NoThreadIsNone, LiveOf DEF SetEnded, Live, InRun, Active, holder, server
<1>1. ThreadTypes'
  BY DEF ThreadInv, ThreadTypes, Locations, InRun, BossAt
<1>2. BossInv'
  BY DEF ThreadInv, ThreadTypes, BossInv, RunnerInv, ExitInv, HandleInv, WaitInv
<1>3. RunnerInv'
  BY DEF ThreadInv, ThreadTypes, BossInv, RunnerInv, ExitInv, HandleInv, WaitInv
<1>4. ExitInv'
  BY DEF ThreadInv, ThreadTypes, BossInv, RunnerInv, ExitInv, HandleInv, WaitInv
<1>5. HandleInv'
  BY DEF ThreadInv, ThreadTypes, BossInv, RunnerInv, ExitInv, HandleInv, WaitInv
<1>6. WaitInv'
  BY DEF ThreadInv, ThreadTypes, BossInv, RunnerInv, ExitInv, HandleInv, WaitInv
<1> QED  BY <1>1, <1>2, <1>3, <1>4, <1>5, <1>6 DEF ThreadInv

\* One lemma per action of the boss.  Nothing is started during the shutdown.
LEMMA CreateKeeps ==
  ASSUME ThreadInv, NEW o \in Objects, NEW t \in OsThreads,
         boss = Idle, ~Active(o), ~exiting, Create(o, t)
  PROVE  ThreadInv'
<1> USE NoThreadIsNone, LiveOf, HandleOf DEF Create, Idle, Live, InRun, Active,
    flags, server
<1>1. ThreadTypes'
  BY DEF ThreadInv, ThreadTypes, Locations, InRun, BossAt
<1>2. BossInv'
  BY DEF ThreadInv, ThreadTypes, BossInv, RunnerInv, ExitInv, HandleInv, WaitInv
<1>3. RunnerInv'
  BY DEF ThreadInv, ThreadTypes, BossInv, RunnerInv, ExitInv, HandleInv, WaitInv
<1>4. ExitInv'
  BY DEF ThreadInv, ThreadTypes, BossInv, RunnerInv, ExitInv, HandleInv, WaitInv
<1>5. HandleInv'
  BY DEF ThreadInv, ThreadTypes, BossInv, RunnerInv, ExitInv, HandleInv, WaitInv
<1>6. WaitInv'
  BY DEF ThreadInv, ThreadTypes, BossInv, RunnerInv, ExitInv, HandleInv, WaitInv
<1> QED  BY <1>1, <1>2, <1>3, <1>4, <1>5, <1>6 DEF ThreadInv

LEMMA SetHandleKeeps ==
  ASSUME ThreadInv, SetHandle
  PROVE  ThreadInv'
<1> USE NoThreadIsNone, LiveOf, HandleOf DEF SetHandle, Live, InRun, Active,
    flags, server, osVars
<1>1. ThreadTypes'
  BY DEF ThreadInv, ThreadTypes, Locations, InRun, BossAt
<1>2. BossInv'
  BY DEF ThreadInv, ThreadTypes, BossInv, RunnerInv, ExitInv, HandleInv, WaitInv
<1>3. RunnerInv'
  BY DEF ThreadInv, ThreadTypes, BossInv, RunnerInv, ExitInv, HandleInv, WaitInv
<1>4. ExitInv'
  BY DEF ThreadInv, ThreadTypes, BossInv, RunnerInv, ExitInv, HandleInv, WaitInv
<1>5. HandleInv'
  <2> DEFINE o == boss.obj
             t == boss.os
  <2>1. /\ o \in Objects /\ t \in OsThreads /\ of[t] = o /\ ~Active(o)
        /\ at[t] \notin {"free", "closing"} /\ (exitFlag => t \in late) /\ ~exiting
    BY DEF ThreadInv, BossInv
  <2>2. \A p \in Objects : handle'[p] = IF p = o THEN t ELSE handle[p]
    BY <2>1 DEF ThreadInv, ThreadTypes
  <2>3. ASSUME t \notin late
        PROVE  /\ at[t] # "over" /\ ~ended[o]
               /\ \A u \in OsThreads : of[u] = o => u = t
    <3>1. ~exitFlag /\ cancelled = {} /\ at[t] # "over" /\ ~ended[o]
      BY <2>1, <2>3 DEF ThreadInv, BossInv, ExitInv
    <3>2. ASSUME NEW u \in OsThreads, of[u] = o PROVE at[u] \in Live
      BY <2>1, <3>1, <3>2 DEF ThreadInv, ThreadTypes, RunnerInv, ExitInv,
         Locations
    <3> QED  BY <2>1, <3>1, <3>2 DEF ThreadInv, RunnerInv
  <2> QED  BY <2>1, <2>2, <2>3 DEF ThreadInv, HandleInv
<1>6. WaitInv'
  BY DEF ThreadInv, ThreadTypes, BossInv, RunnerInv, ExitInv, HandleInv, WaitInv
<1> QED  BY <1>1, <1>2, <1>3, <1>4, <1>5, <1>6 DEF ThreadInv

LEMMA ResetEndedKeeps ==
  ASSUME ThreadInv, ResetEnded
  PROVE  ThreadInv'
<1> USE NoThreadIsNone, HandleOf DEF ResetEnded, Idle, Live, InRun, Active,
    holder, osVars, server
<1>1. ThreadTypes'
  BY DEF ThreadInv, ThreadTypes, Locations, InRun, BossAt
<1>2. BossInv'
  BY DEF ThreadInv, ThreadTypes, BossInv, RunnerInv, ExitInv, HandleInv, WaitInv
<1>3. RunnerInv'
  BY DEF ThreadInv, ThreadTypes, BossInv, RunnerInv, ExitInv, HandleInv, WaitInv
<1>4. ExitInv'
  BY DEF ThreadInv, ThreadTypes, BossInv, RunnerInv, ExitInv, HandleInv, WaitInv
<1>5. HandleInv'
  BY DEF ThreadInv, ThreadTypes, BossInv, RunnerInv, ExitInv, HandleInv, WaitInv
<1>6. WaitInv'
  BY DEF ThreadInv, ThreadTypes, BossInv, RunnerInv, ExitInv, HandleInv, WaitInv
<1> QED  BY <1>1, <1>2, <1>3, <1>4, <1>5, <1>6 DEF ThreadInv

LEMMA RequestCloseKeeps ==
  ASSUME ThreadInv, NEW o \in Objects, boss = Idle, exiting, RequestClose(o, FALSE)
  PROVE  ThreadInv'
<1> USE NoThreadIsNone, HandleOf DEF RequestClose, Idle, Live, InRun, Active,
    holder, osVars, server
<1>1. ThreadTypes'
  BY DEF ThreadInv, ThreadTypes, Locations, InRun, BossAt
<1>2. BossInv'
  BY DEF ThreadInv, ThreadTypes, BossInv, RunnerInv, ExitInv, HandleInv, WaitInv
<1>3. RunnerInv'
  BY DEF ThreadInv, ThreadTypes, BossInv, RunnerInv, ExitInv, HandleInv, WaitInv
<1>4. ExitInv'
  BY DEF ThreadInv, ThreadTypes, BossInv, RunnerInv, ExitInv, HandleInv, WaitInv
<1>5. HandleInv'
  BY DEF ThreadInv, ThreadTypes, BossInv, RunnerInv, ExitInv, HandleInv, WaitInv
<1>6. WaitInv'
  BY DEF ThreadInv, ThreadTypes, BossInv, RunnerInv, ExitInv, HandleInv, WaitInv
<1> QED  BY <1>1, <1>2, <1>3, <1>4, <1>5, <1>6 DEF ThreadInv

LEMMA CloseEndsKeeps ==
  ASSUME ThreadInv, CloseEnds
  PROVE  ThreadInv'
<1> USE NoThreadIsNone, LiveOf, HandleOf DEF CloseEnds, Idle, Live, InRun,
    Active, server
<1>1. ThreadTypes'
  <2>1. boss.obj \in Objects /\ boss' = Idle
    BY DEF ThreadInv, BossInv
  <2>2. boss' \in [at : BossAt, obj : Objects \cup {NoObject},
                   os : OsThreads \cup {NoThread}, again : BOOLEAN]
    BY <2>1 DEF BossAt
  <2>3. CASE Active(boss.obj)
    <3>1. /\ handle' \in [Objects -> OsThreads \cup {NoThread}]
          /\ ended' \in [Objects -> BOOLEAN]
      BY <2>1, <2>3 DEF ThreadInv, ThreadTypes
    <3>2. cancelled' \subseteq OsThreads
      BY <2>1, <2>3 DEF ThreadInv, ThreadTypes
    <3> QED  BY <2>2, <2>3, <3>1, <3>2 DEF ThreadInv, ThreadTypes
  <2>4. CASE ~Active(boss.obj)
    BY <2>2, <2>4 DEF ThreadInv, ThreadTypes
  <2> QED  BY <2>3, <2>4
<1>2. BossInv'
  BY DEF ThreadInv, ThreadTypes, BossInv, RunnerInv, ExitInv, HandleInv, WaitInv
<1>3. RunnerInv'
  BY DEF ThreadInv, ThreadTypes, BossInv, RunnerInv, ExitInv, HandleInv, WaitInv
<1>4. ExitInv'
  BY DEF ThreadInv, ThreadTypes, BossInv, RunnerInv, ExitInv, HandleInv, WaitInv
<1>5. HandleInv'
  BY DEF ThreadInv, ThreadTypes, BossInv, RunnerInv, ExitInv, HandleInv, WaitInv
<1>6. WaitInv'
  BY DEF ThreadInv, ThreadTypes, BossInv, RunnerInv, ExitInv, HandleInv, WaitInv
<1> QED  BY <1>1, <1>2, <1>3, <1>4, <1>5, <1>6 DEF ThreadInv

LEMMA SetExitFlagKeeps ==
  ASSUME ThreadInv, SetExitFlag
  PROVE  ThreadInv'
<1> USE NoThreadIsNone, LiveOf, HandleOf DEF SetExitFlag, Live, InRun, Active,
    flags, holder
<1>1. ThreadTypes'
  BY DEF ThreadInv, ThreadTypes, BossInv, BossAt
<1>2. BossInv'
  BY DEF ThreadInv, ThreadTypes, BossInv, RunnerInv, ExitInv, HandleInv, WaitInv
<1>3. RunnerInv'
  BY DEF ThreadInv, ThreadTypes, BossInv, RunnerInv, ExitInv, HandleInv, WaitInv
<1>4. ExitInv'
  BY DEF ThreadInv, ThreadTypes, BossInv, RunnerInv, ExitInv, HandleInv, WaitInv
<1>5. HandleInv'
  BY DEF ThreadInv, ThreadTypes, BossInv, RunnerInv, ExitInv, HandleInv, WaitInv
<1>6. WaitInv'
  BY DEF ThreadInv, ThreadTypes, BossInv, RunnerInv, ExitInv, HandleInv, WaitInv
<1> QED  BY <1>1, <1>2, <1>3, <1>4, <1>5, <1>6 DEF ThreadInv

LEMMA BeginExitKeeps ==
  ASSUME ThreadInv, BeginExit
  PROVE  ThreadInv'
<1> USE NoThreadIsNone, LiveOf, HandleOf DEF BeginExit, Idle, Live, InRun,
    Active, flags, holder, osVars
<1>1. ThreadTypes'
  BY DEF ThreadInv, ThreadTypes, Locations, InRun, BossAt
<1>2. BossInv'
  BY DEF ThreadInv, ThreadTypes, BossInv, RunnerInv, ExitInv, HandleInv, WaitInv
<1>3. RunnerInv'
  BY DEF ThreadInv, ThreadTypes, BossInv, RunnerInv, ExitInv, HandleInv, WaitInv
<1>4. ExitInv'
  BY DEF ThreadInv, ThreadTypes, BossInv, RunnerInv, ExitInv, HandleInv, WaitInv
<1>5. HandleInv'
  BY DEF ThreadInv, ThreadTypes, BossInv, RunnerInv, ExitInv, HandleInv, WaitInv
<1>6. WaitInv'
  BY DEF ThreadInv, ThreadTypes, BossInv, RunnerInv, ExitInv, HandleInv, WaitInv
<1> QED  BY <1>1, <1>2, <1>3, <1>4, <1>5, <1>6 DEF ThreadInv

\* Steps of the connection and of the shutdown of the process touch none of it.
LEMMA OthersKeep ==
  ASSUME ThreadInv, UNCHANGED <<holder, handle, flags, osVars, boss, server>>,
         aborted' \in BOOLEAN
  PROVE  ThreadInv'
<1> USE DEF holder, flags, osVars, server, Active
<1>1. ThreadTypes' /\ BossInv'
  BY DEF ThreadInv, ThreadTypes, BossInv
<1>2. RunnerInv' /\ ExitInv'
  BY DEF ThreadInv, RunnerInv, ExitInv
<1>3. HandleInv' /\ WaitInv'
  BY DEF ThreadInv, HandleInv, WaitInv
<1> QED  BY <1>1, <1>2, <1>3 DEF ThreadInv

LEMMA ThreadNext ==
  ASSUME ThreadInv, [Next]_vars
  PROVE  ThreadInv'
<1>1. CASE UNCHANGED threadVars
  <2> QED  BY <1>1, OthersKeep DEF threadVars, ThreadInv, ThreadTypes
<1>2. ASSUME NEW o \in Objects, Start(o), MainFree PROVE ThreadInv'
  BY <1>2, CreateKeeps DEF Start, MainFree
<1>3. ASSUME NEW o \in Objects, Close(o) PROVE ThreadInv'
  BY <1>3, RequestCloseKeeps DEF Close
<1>4. CASE AddQuery
  BY <1>1, <1>2, <1>4, AsyncAssumption DEF AddQuery
<1>5. CASE CloseHelper
  BY <1>1, <1>3, <1>5, AsyncAssumption DEF CloseHelper
<1>6. CASE Query \/ Ping
  BY <1>6, OthersKeep DEF Query, Ping, UseLink
<1>7. ASSUME NEW t \in OsThreads, TickStep(t) PROVE ThreadInv'
  <2>1. CASE RunQuery(t)
    BY <2>1, OthersKeep DEF RunQuery, UseLink
  <2>2. CASE TickReturns(t)
    BY <2>2, EndTickKeeps DEF TickReturns
  <2>3. CASE TakeQuery(t) \/ TestConnected(t) \/ Report(t)
    BY <1>1, <2>3 DEF TakeQuery, TestConnected, Report
  <2> QED  BY <1>7, <2>1, <2>2, <2>3 DEF TickStep
<1>8. CASE \/ Started \/ BeginQuery \/ CloseVerb \/ ConnectVerb
           \/ BeginPing \/ Reconnect \/ Deliver \/ LoseLink
  BY <1>1, <1>8 DEF Started, BeginQuery, CloseVerb, ConnectVerb,
     BeginPing, Reconnect, Deliver, LoseLink
<1>9. CASE ThreadStep
  <2>1. CASE SetHandle \/ ResetEnded \/ CloseEnds \/ SetExitFlag
    BY <2>1, SetHandleKeeps, ResetEndedKeeps, CloseEndsKeeps, SetExitFlagKeeps
  <2>2. CASE EnterExit
    BY <2>2, BeginExitKeeps DEF EnterExit
  <2>3. ASSUME NEW o \in Objects, StartOther(o) \/ CloseOther(o) PROVE ThreadInv'
    BY <1>2, <1>3, <2>3 DEF StartOther, CloseOther
  <2>4. ASSUME NEW t \in OsThreads, RunStep(t) PROVE ThreadInv'
    BY <2>4, OnStartKeeps, MarkStartedKeeps, BeginRunKeeps, BeginTickKeeps, WakeUpKeeps,
       LeaveKeeps,
       SetEndedKeeps DEF RunStep
  <2>5. ASSUME NEW t \in OsThreads, Unwind(t) PROVE ThreadInv'
    BY <2>5, OthersKeep DEF Unwind
  <2> QED  BY <1>9, <2>1, <2>2, <2>3, <2>4, <2>5 DEF ThreadStep
<1>10. CASE UNCHANGED vars
  BY <1>1, <1>10 DEF vars
<1> QED  BY <1>4, <1>5, <1>6, <1>7, <1>8, <1>9, <1>10 DEF Next, DbStep

\* Every interleaving of the thread that starts and closes with the threads
\* that are started and closed keeps ThreadInv.
THEOREM ThreadInvariant == Spec => []ThreadInv
  BY ThreadInit, ThreadNext, PTL DEF Spec

\* No object is run by two OS threads at once (AbstractThread::start,
\* terminate): between the check of isActive and the entry of the handle only
\* the one thread that start() created can be without its handle, and threads
\* that waitForClose gave up on are left behind only when nothing is started.
THEOREM OneThreadEachAlways == Spec => []OneThreadEach
<1>1. ThreadInv => OneThreadEach
  <2> SUFFICES ASSUME ThreadInv, NEW t \in OsThreads, NEW u \in OsThreads,
                      of[t] = of[u], {at[t], at[u]} \subseteq InRun \cup {"born", "pushed"}
               PROVE  t = u
    BY DEF OneThreadEach
  <2>1. at[t] \in Live /\ at[u] \in Live
    BY DEF Live, ThreadInv, RunnerInv
  <2> QED  BY <2>1, OneLive
<1> QED  BY <1>1, ThreadInvariant, PTL

\* waitForClose cancels no thread that had its handle before the exit flag was
\* set (AbstractThread::waitForClose, terminate): as long as such a thread is
\* active it is on its way to the end of run(), asleep it has the event or a
\* period, and m_terminateEvent cannot be signalled by another thread.
THEOREM NoThreadIsCancelledAlways == Spec => []NoThreadIsCancelled
<1>1. ASSUME ThreadInv, NoThreadIsCancelled, CloseEnds
      PROVE  NoThreadIsCancelled'
  <2> DEFINE o == boss.obj
             t == handle[o]
  <2>1. o \in Objects /\ exitFlag /\ boss.at = "wait"
    BY <1>1 DEF CloseEnds, ThreadInv, BossInv
  <2>2. CASE ~Active(o)
    BY <1>1, <2>2 DEF CloseEnds, osVars, NoThreadIsCancelled
  <2>3. CASE Active(o)
    <3>1. t \in OsThreads /\ of[t] = o /\ at[t] # "free"
      BY <1>1, <2>1, <2>3, HandleOf
    <3>2. SUFFICES ASSUME t \notin late PROVE FALSE
      BY <1>1, <2>3 DEF CloseEnds, NoThreadIsCancelled
    <3>3. ~ended[o] /\ at[t] \notin {"over", "closing", "hung"}
      BY <1>1, <2>1, <2>3, <3>1, <3>2 DEF ThreadInv, HandleInv, RunnerInv
    <3>4. at[t] \in {"leaving", "born", "pushed", "bound", "loop", "tick", "sleep"}
      BY <1>1, <3>1, <3>3 DEF ThreadInv, ThreadTypes, Locations, InRun
    <3>5. at[t] = "sleep" => o \in Timed \/ sleepEvent[o]
      BY <1>1, <2>1, <2>3 DEF ThreadInv, WaitInv
    <3>6. OnItsWay(o)
      BY <2>1, <3>1, <3>4, <3>5 DEF OnItsWay, ShouldExit
    <3> QED  BY <1>1, <3>3, <3>6 DEF CloseEnds
  <2> QED  BY <2>2, <2>3
<1>2. ASSUME NoThreadIsCancelled, UNCHANGED cancelled, late \subseteq late'
      PROVE  NoThreadIsCancelled'
  BY <1>2 DEF NoThreadIsCancelled
<1>3. ASSUME ThreadInv, NoThreadIsCancelled, [Next]_vars
      PROVE  NoThreadIsCancelled'
  <2>1. CASE UNCHANGED threadVars \/ UNCHANGED osVars
    BY <1>2, <1>3, <2>1 DEF threadVars, osVars
  <2>2. ASSUME NEW o \in Objects, Start(o) PROVE NoThreadIsCancelled'
    BY <1>2, <1>3, <2>2 DEF Start, Create
  <2>3. ASSUME NEW o \in Objects, Close(o) PROVE NoThreadIsCancelled'
    BY <2>1, <2>3 DEF Close, RequestClose
  <2>4. ASSUME NEW t \in OsThreads, TickStep(t) PROVE NoThreadIsCancelled'
    BY <1>2, <1>3, <2>1, <2>4 DEF TickStep, TakeQuery, TestConnected, RunQuery,
       Report, TickReturns, EndTick
  <2>5. CASE DbStep
    BY <2>1, <2>2, <2>3, <2>4, <2>5, AsyncAssumption DEF DbStep, AddQuery,
       Started,
       BeginQuery, Query, CloseVerb, ConnectVerb, BeginPing, Ping,
       Reconnect, Deliver, CloseHelper, LoseLink
  <2>6. CASE SetHandle \/ ResetEnded \/ SetExitFlag \/ EnterExit
    BY <1>2, <1>3, <2>6 DEF SetHandle, ResetEnded, SetExitFlag, EnterExit,
       BeginExit,
       osVars
  <2>7. ASSUME NEW t \in OsThreads, RunStep(t) \/ Unwind(t) PROVE NoThreadIsCancelled'
    BY <1>2, <1>3, <2>7 DEF RunStep, OnStart, MarkStarted, BeginRun, BeginTick, WakeUp,
       Leave,
       SetEnded, Unwind, osVars
  <2>8. CASE ThreadStep
    BY <1>1, <1>3, <2>2, <2>3, <2>6, <2>7, <2>8 DEF ThreadStep, StartOther,
       CloseOther
  <2>9. CASE UNCHANGED vars
    BY <2>1, <2>9 DEF vars
  <2> QED  BY <1>3, <2>5, <2>8, <2>9 DEF Next
<1>4. Init => NoThreadIsCancelled
  BY DEF Init, ThreadsInit, NoThreadIsCancelled
<1> QED  BY <1>3, <1>4, ThreadInvariant, PTL DEF Spec

-----------------------------------------------------------------------------
(* The queries. *)

LEMMA MaxQueriesNat == MaxQueries \in Nat
  BY AsyncAssumption

LEMMA QueryInit == Init => QueryInv
<1> SUFFICES ASSUME Init PROVE QueryInv
  OBVIOUS
<1>1. /\ asked = 0 /\ todo = <<>> /\ results = <<>> /\ delivered = <<>> /\ ~asking
      /\ job = [t \in OsThreads |-> 0] /\ doing = [t \in OsThreads |-> "take"]
  BY DEF Init
<1>2. QueryTypes /\ JobInv
  BY <1>1, MaxQueriesNat DEF QueryTypes, JobInv, Doing
<1>3. AtWork = {}
  BY <1>1 DEF AtWork
<1>4. OrderInv
  BY <1>1, <1>3 DEF OrderInv, Working, Behind
<1> QED  BY <1>2, <1>4 DEF QueryInv

\* One thread at a time is in the tick of the helper.
LEMMA OneInTick ==
  ASSUME ThreadInv, NEW t \in OsThreads, NEW u \in OsThreads, InTick(t), InTick(u)
  PROVE  t = u
  BY OneLive DEF InTick, Live, InRun

\* The steps that take no query a place further.
LEMMA QueriesStay ==
  ASSUME QueryInv, UNCHANGED <<asked, todo, job, doing, results, delivered>>,
         \A t \in OsThreads : doing[t] # "take" /\ InTick(t) => InTick(t)',
         exiting => exiting', asking' => asked < MaxQueries /\ ~exiting'
  PROVE  QueryInv'
<1>1. QueryTypes' /\ JobInv'
  BY DEF QueryInv, QueryTypes, JobInv
<1>2. AtWork' = AtWork
  BY DEF AtWork
<1>3. OrderInv'
  BY <1>2 DEF QueryInv, OrderInv, Working, Behind
<1> QED  BY <1>1, <1>3 DEF QueryInv

\* A query that is in hand goes on in it.
LEMMA DoingKeeps ==
  ASSUME QueryInv, NEW t \in OsThreads, InTick(t), InTick(t)',
         UNCHANGED <<of, at, asked, todo, job, results, delivered, exiting, asking>>,
         NEW d \in {"test", "use", "report"}, job[t] # 0,
         doing' = [doing EXCEPT ![t] = d]
  PROVE  QueryInv'
<1>1. QueryTypes' /\ JobInv'
  BY DEF QueryInv, QueryTypes, JobInv, InTick, Doing
<1>2. AtWork' = AtWork
  BY DEF AtWork
<1>3. OrderInv'
  BY <1>2 DEF QueryInv, OrderInv, Working, Behind
<1> QED  BY <1>1, <1>3 DEF QueryInv

LEMMA TakeQueryKeeps ==
  ASSUME ThreadInv, QueryInv, NEW t \in OsThreads, TakeQuery(t)
  PROVE  QueryInv'
<1> USE MaxQueriesNat DEF QueryInv
<1>1. AtWork = {} /\ InTick(t) /\ doing[t] = "take"
  BY OneInTick DEF TakeQuery, JobInv, AtWork
<1>4. UNCHANGED <<of, at, asked, results, delivered, asking, exiting>>
  BY DEF TakeQuery, threadVars, osVars, server
<1>2. CASE todo = <<>>
  <2>4. UNCHANGED <<job, todo>> /\ doing' = [doing EXCEPT ![t] = "done"]
    BY <1>2 DEF TakeQuery
  <2>1. QueryTypes' /\ JobInv'
    BY <1>1, <1>4, <2>4 DEF QueryTypes, JobInv, InTick, Doing
  <2>2. AtWork' = AtWork
    BY <2>4 DEF AtWork
  <2>3. OrderInv'
    BY <1>4, <2>2, <2>4 DEF OrderInv, Working, Behind
  <2> QED  BY <2>1, <2>3
<1>3. CASE todo # <<>>
  <2>0. /\ job' = [job EXCEPT ![t] = Head(todo)] /\ todo' = Tail(todo)
        /\ doing' = [doing EXCEPT ![t] = "test"]
    BY <1>3 DEF TakeQuery
  <2>1. /\ Head(todo) \in QueryIds /\ Head(todo) = todo[1] /\ Len(todo) > 0
        /\ Tail(todo) \in Seq(QueryIds) /\ Len(Tail(todo)) = Len(todo) - 1
        /\ \A i \in 1 .. Len(Tail(todo)) : Tail(todo)[i] = todo[i + 1]
    BY <1>3 DEF QueryTypes
  <2>2. QueryTypes' /\ JobInv'
    <3>1. QueryTypes'
      <4>1. job' \in [OsThreads -> 0 .. MaxQueries] /\ doing' \in [OsThreads -> Doing]
        BY <2>0, <2>1 DEF QueryTypes, Doing, QueryIds
      <4> QED  BY <1>4, <2>0, <2>1, <4>1 DEF QueryTypes
    <3>2. /\ \A u \in OsThreads : job'[u] = IF u = t THEN Head(todo) ELSE job[u]
          /\ \A u \in OsThreads : doing'[u] = IF u = t THEN "test" ELSE doing[u]
          /\ Head(todo) # 0
      BY <2>0, <2>1 DEF QueryTypes, QueryIds
    <3> QED  BY <1>1, <1>4, <3>1, <3>2 DEF JobInv, InTick
  <2>3. AtWork' = {t}
    BY <1>1, <2>0, <2>1 DEF QueryTypes, AtWork, QueryIds
  <2>4. OrderInv'
    <3>1. Working = 0 /\ Working' = 1
      BY <1>1, <2>3 DEF Working
    <3>2. /\ Len(delivered) \in Nat /\ Len(results) \in Nat /\ Len(todo) \in Nat
          /\ asked \in Nat
      BY DEF QueryTypes
    <3>3. job'[t] = todo[1]
      BY <2>0, <2>1 DEF QueryTypes
    <3>4. /\ Len(todo') = Len(todo) - 1
          /\ \A i \in 1 .. Len(todo') : todo'[i] = todo[i + 1]
          /\ UNCHANGED <<asked, results, delivered, asking, exiting>>
      BY <1>4, <2>0, <2>1
    <3>5. \A i \in 1 .. Len(todo) : todo[i] = Len(delivered) + Len(results) + i
      <4> SUFFICES ASSUME NEW i \in 1 .. Len(todo)
                   PROVE  todo[i] = Len(delivered) + Len(results) + i
        OBVIOUS
      <4>1. todo[i] = Behind(Working + i) /\ i \in Nat
        BY <3>2 DEF OrderInv
      <4> QED  BY <3>1, <3>2, <4>1 DEF Behind
    <3>6. \A i \in 1 .. Len(todo') : todo'[i] = Behind(Working + i)'
      BY <3>1, <3>2, <3>4, <3>5 DEF Behind
    <3>7. Behind(Working + Len(todo))' = Behind(Working + Len(todo))
      BY <3>1, <3>2, <3>4 DEF Behind
    <3>8. job'[t] = Behind(1)'
      BY <2>1, <3>2, <3>3, <3>4, <3>5 DEF Behind
    <3> QED  BY <2>3, <3>4, <3>6, <3>7, <3>8 DEF OrderInv
  <2> QED  BY <2>2, <2>4
<1> QED  BY <1>2, <1>3

LEMMA ReportKeeps ==
  ASSUME ThreadInv, QueryInv, NEW t \in OsThreads, Report(t)
  PROVE  QueryInv'
<1> USE MaxQueriesNat DEF Report, threadVars, osVars, server, QueryInv
<1>1. AtWork = {t}
  BY OneInTick DEF JobInv, AtWork
<1>2. job[t] \in QueryIds
  BY <1>1 DEF QueryTypes, AtWork, QueryIds
<1>3. QueryTypes' /\ JobInv'
  BY <1>2 DEF QueryTypes, JobInv, InTick, Doing, QueryIds
<1>4. AtWork' = {}
  BY <1>1 DEF QueryTypes, AtWork
<1>5. Working = 1 /\ Working' = 0
  BY <1>1, <1>4 DEF Working
<1>6. /\ Len(delivered) \in Nat /\ Len(results) \in Nat /\ Len(todo) \in Nat
      /\ asked \in Nat
  BY DEF QueryTypes
<1>7. /\ Len(results') = Len(results) + 1
      /\ \A i \in 1 .. Len(results') :
           results'[i] = IF i = Len(results) + 1 THEN job[t] ELSE results[i]
  BY <1>2 DEF QueryTypes
<1>8. OrderInv'
  BY <1>1, <1>4, <1>5, <1>6, <1>7 DEF OrderInv, Behind
<1> QED  BY <1>3, <1>8

LEMMA EnqueueKeeps ==
  ASSUME QueryInv, Enqueue, asked < MaxQueries, ~exiting, ~asking',
         UNCHANGED <<of, at, job, doing, results, delivered, exiting>>
  PROVE  QueryInv'
<1> USE MaxQueriesNat DEF Enqueue, QueryInv
<1>1. asked + 1 \in QueryIds
  BY DEF QueryTypes, QueryIds
<1>2. QueryTypes' /\ JobInv'
  BY <1>1 DEF QueryTypes, JobInv, InTick, QueryIds
<1>3. AtWork' = AtWork /\ Working' = Working
  BY DEF AtWork, Working
<1>4. /\ Len(delivered) \in Nat /\ Len(results) \in Nat /\ Len(todo) \in Nat
      /\ asked \in Nat /\ Working \in Nat
  BY DEF QueryTypes, Working
<1>5. /\ Len(todo') = Len(todo) + 1
      /\ \A i \in 1 .. Len(todo') :
           todo'[i] = IF i = Len(todo) + 1 THEN asked + 1 ELSE todo[i]
  BY <1>1 DEF QueryTypes
<1>6. OrderInv'
  BY <1>3, <1>4, <1>5 DEF OrderInv, Behind
<1> QED  BY <1>2, <1>6

LEMMA DeliverKeeps ==
  ASSUME QueryInv, Deliver
  PROVE  /\ QueryInv'
         /\ delivered' = Append(delivered, Len(delivered) + 1)
         /\ Len(delivered) < asked
<1> USE MaxQueriesNat DEF Deliver, threadVars, osVars, server, work, QueryInv
<1>1. /\ Head(results) \in QueryIds /\ Head(results) = results[1] /\ Len(results) > 0
      /\ Tail(results) \in Seq(QueryIds) /\ Len(Tail(results)) = Len(results) - 1
      /\ \A i \in 1 .. Len(Tail(results)) : Tail(results)[i] = results[i + 1]
  BY DEF QueryTypes
<1>2. QueryTypes' /\ JobInv'
  BY <1>1 DEF QueryTypes, JobInv, InTick
<1>3. AtWork' = AtWork /\ Working' = Working
  BY DEF AtWork, Working
<1>4. /\ Len(delivered) \in Nat /\ Len(results) \in Nat /\ Len(todo) \in Nat
      /\ asked \in Nat /\ Working \in Nat
  BY DEF QueryTypes, Working
<1>5. /\ Len(delivered') = Len(delivered) + 1
      /\ \A i \in 1 .. Len(delivered') :
           delivered'[i] = IF i = Len(delivered) + 1 THEN results[1] ELSE delivered[i]
  BY <1>1 DEF QueryTypes
<1>6. results[1] = Len(delivered) + 1 /\ Len(delivered) < asked
  BY <1>1, <1>4 DEF OrderInv, Behind
<1>7. /\ Len(results') = Len(results) - 1
      /\ \A i \in 1 .. Len(results') : results'[i] = results[i + 1]
      /\ \A n \in Nat : Behind(n)' = Behind(n)
  BY <1>1, <1>4, <1>5 DEF Behind
<1>8. OrderInv'
  <2>1. \A i \in 1 .. Len(delivered') : delivered'[i] = i
    BY <1>4, <1>5, <1>6 DEF OrderInv
  <2>2. \A i \in 1 .. Len(results') : results'[i] = Len(delivered') + i
    BY <1>1, <1>4, <1>5, <1>7 DEF OrderInv
  <2>3. \A t \in AtWork' : job'[t] = Behind(1)'
    BY <1>3, <1>7 DEF OrderInv
  <2>4. \A i \in 1 .. Len(todo') : todo'[i] = Behind(Working + i)'
    BY <1>3, <1>4, <1>5, <1>7 DEF OrderInv, Behind
  <2>5. Behind(Working + Len(todo))' = Behind(Working + Len(todo))
    BY <1>3, <1>4, <1>5, <1>7 DEF Behind
  <2> QED  BY <2>1, <2>2, <2>3, <2>4, <2>5 DEF OrderInv
<1> QED  BY <1>1, <1>2, <1>6, <1>8

\* waitForClose empties the queue; there is no more coming.
LEMMA CloseHelperKeeps ==
  ASSUME QueryInv, CloseHelper
  PROVE  QueryInv'
<1> USE DEF QueryInv
<1>1. todo' = <<>> /\ exiting
      /\ UNCHANGED <<of, at, asked, job, doing, results, delivered, asking, exiting>>
  BY DEF CloseHelper, Close, RequestClose, threadVars, osVars, server, work
<1>2. QueryTypes' /\ JobInv'
  BY <1>1 DEF QueryTypes, JobInv, InTick
<1>3. AtWork' = AtWork /\ Working' = Working
  BY <1>1 DEF AtWork, Working
<1>4. /\ Len(delivered) \in Nat /\ Len(results) \in Nat /\ Len(todo) \in Nat
      /\ asked \in Nat /\ Working \in Nat
  BY MaxQueriesNat DEF QueryTypes, Working
<1>5. OrderInv'
  BY <1>1, <1>3, <1>4 DEF OrderInv, Behind
<1> QED  BY <1>2, <1>5

LEMMA QueryNext ==
  ASSUME ThreadInv, QueryInv, [Next]_vars
  PROVE  QueryInv' /\ [Service!QueryNext]_<<asked, delivered>>
<1> DEFINE Goal == QueryInv' /\ [Service!QueryNext]_<<asked, delivered>>
<1> SUFFICES Goal
  OBVIOUS
<1> HIDE DEF Goal
<1> USE DEF threadVars, osVars, server, work
<1>1. ASSUME UNCHANGED <<asked, todo, job, doing, results, delivered, asking>>,
             exiting => exiting', asking => ~exiting',
             \A t \in OsThreads : doing[t] # "take" /\ InTick(t) => InTick(t)'
      PROVE  Goal
  BY <1>1, QueriesStay DEF Goal, QueryInv, OrderInv
<1>2. ASSUME QueryInv', UNCHANGED <<asked, delivered>> PROVE Goal
  BY <1>2 DEF Goal
<1>3. ASSUME QueryInv', Enqueue, UNCHANGED delivered PROVE Goal
  BY <1>3 DEF Goal, Enqueue, Service!QueryNext, Service!Ask
<1>4. ~asking \/ ~exiting
  BY DEF QueryInv, OrderInv
<1>5. ASSUME UNCHANGED dbVars, UNCHANGED <<of, at, exiting>> PROVE Goal
  BY <1>1, <1>4, <1>5 DEF dbVars, InTick
<1>6. ASSUME NEW o \in Objects, NEW t \in OsThreads, Create(o, t), ~exiting,
             UNCHANGED <<asked, todo, job, doing, results, delivered>>,
             asking' => asked < MaxQueries
      PROVE  Goal
  <2>1. /\ of' = [of EXCEPT ![t] = o] /\ at' = [at EXCEPT ![t] = "born"]
        /\ at[t] = "free" /\ UNCHANGED exiting
    BY <1>6 DEF Create
  <2>2. \A u \in OsThreads : doing[u] # "take" /\ InTick(u) => InTick(u)'
    BY <2>1 DEF InTick
  <2> QED  BY <1>2, <1>6, <2>1, <2>2, QueriesStay
<1>7. CASE AddQuery
  <2>1. CASE Active(Helper)
    BY <1>3, <1>7, <2>1, EnqueueKeeps DEF AddQuery, MainFree
  <2>2. CASE ~Active(Helper)
    BY <1>6, <1>7, <2>2, AsyncAssumption DEF AddQuery, MainFree, Start
  <2> QED  BY <2>1, <2>2
<1>8. CASE Started
  BY <1>3, <1>8, EnqueueKeeps DEF Started, QueryInv, OrderInv
<1>9. CASE Deliver
  BY <1>9, DeliverKeeps DEF Deliver, Goal, Service!QueryNext, Service!Answer
<1>10. CASE CloseHelper
  BY <1>2, <1>10, CloseHelperKeeps DEF CloseHelper
<1>11. CASE \/ BeginQuery \/ Query \/ CloseVerb \/ ConnectVerb
            \/ BeginPing \/ Ping \/ Reconnect \/ LoseLink
  BY <1>1, <1>4, <1>11 DEF BeginQuery, Query, CloseVerb, ConnectVerb,
     BeginPing, Ping, Reconnect, LoseLink, InTick
<1>12. ASSUME NEW t \in OsThreads, TickStep(t) PROVE Goal
  <2>1. CASE TakeQuery(t)
    BY <1>2, <2>1, TakeQueryKeeps DEF TakeQuery
  <2>2. CASE Report(t)
    BY <1>2, <2>2, ReportKeeps DEF Report
  <2>3. CASE TestConnected(t) \/ RunQuery(t)
    <3>1. /\ InTick(t) /\ InTick(t)' /\ job[t] # 0
          /\ UNCHANGED <<of, at, asked, todo, job, results, delivered, exiting, asking>>
      BY <2>3 DEF TestConnected, RunQuery, QueryInv, JobInv, InTick
    <3>2. \E d \in {"test", "use", "report"} : doing' = [doing EXCEPT ![t] = d]
      BY <2>3 DEF TestConnected, RunQuery
    <3> QED  BY <1>2, <3>1, <3>2, DoingKeeps
  <2>4. CASE TickReturns(t)
    <3>1. /\ doing[t] \in {"take", "done"} /\ doing' = [doing EXCEPT ![t] = "take"]
          /\ \A u \in OsThreads : u # t /\ InTick(u) => InTick(u)'
          /\ UNCHANGED <<asked, todo, job, results, delivered, asking, exiting>>
      BY <2>4 DEF TickReturns, EndTick, ExitLoop, QueryInv, JobInv, InTick,
         ThreadInv, ThreadTypes
    <3>2. QueryTypes' /\ JobInv'
      BY <3>1 DEF QueryInv, QueryTypes, JobInv, Doing
    <3>3. AtWork' = AtWork
      BY <3>1 DEF AtWork
    <3>4. OrderInv'
      BY <3>1, <3>3 DEF QueryInv, OrderInv, Working, Behind
    <3> QED  BY <1>2, <3>1, <3>2, <3>4 DEF QueryInv
  <2> QED  BY <1>12, <2>1, <2>2, <2>3, <2>4 DEF TickStep
<1>13. CASE ThreadStep
  <2>1. CASE SetHandle \/ ResetEnded \/ CloseEnds \/ SetExitFlag
    BY <1>5, <1>13, <2>1 DEF ThreadStep, SetHandle, ResetEnded, CloseEnds,
       SetExitFlag
  <2>2. CASE EnterExit
    BY <1>1, <1>13, <2>2 DEF ThreadStep, EnterExit, BeginExit, MainFree,
       dbVars, InTick
  <2>3. ASSUME NEW o \in Objects, StartOther(o) PROVE Goal
    BY <1>6, <1>13, <2>3 DEF ThreadStep, StartOther, MainFree, Start, dbVars
  <2>4. ASSUME NEW o \in Objects, CloseOther(o) PROVE Goal
    BY <1>5, <1>13, <2>4 DEF ThreadStep, CloseOther, Close, RequestClose
  <2>5. ASSUME NEW t \in OsThreads, RunStep(t) \/ Unwind(t) PROVE Goal
    <3>1. UNCHANGED <<of, exiting>>
      BY <2>5 DEF RunStep, OnStart, MarkStarted, BeginRun, BeginTick, ExitLoop, WakeUp,
         Leave,
         SetEnded, Unwind
    <3>2. \A u \in OsThreads : InTick(u) => InTick(u)'
      BY <2>5, <3>1 DEF RunStep, OnStart, MarkStarted, BeginRun, BeginTick, ExitLoop,
         WakeUp, Leave,
         SetEnded, Unwind, InTick, ThreadInv, ThreadTypes
    <3> QED  BY <1>1, <1>4, <1>13, <3>1, <3>2 DEF ThreadStep, dbVars
  <2> QED  BY <1>13, <2>1, <2>2, <2>3, <2>4, <2>5 DEF ThreadStep
<1>14. CASE UNCHANGED vars
  BY <1>5, <1>14 DEF vars
<1> QED
  BY <1>7, <1>8, <1>9, <1>10, <1>11, <1>12, <1>13, <1>14 DEF Next, DbStep

\* Every interleaving of the main thread with the ticks of the helper keeps
\* the numbers of the queries in order along their way.
THEOREM QueryInvariant == Spec => []QueryInv
  BY QueryInit, QueryNext, ThreadInvariant, PTL DEF Spec

\* The code between the script and the database is a queue of answers
\* (addQuery, tick, addQueryResult, _OnTick): what is delivered is always the
\* oldest query that was not, and only an Enqueue asks for another.
THEOREM DatabaseImplementsQueryService == Spec => ImplementsQueryService
<1>1. Init => Service!QueryInit
  BY DEF Init, Service!QueryInit
<1> QED  BY <1>1, QueryNext, ThreadInvariant, QueryInvariant, PTL
         DEF Spec, ImplementsQueryService, Service!QuerySpec

LEMMA ConcatLen ==
  \A s, t \in Seq(Nat) : s \o t \in Seq(Nat) /\ Len(s \o t) = Len(s) + Len(t)
  OBVIOUS

LEMMA ConcatAt ==
  ASSUME NEW s \in Seq(Nat), NEW t \in Seq(Nat), NEW i \in 1 .. Len(s) + Len(t)
  PROVE  (s \o t)[i] = IF i <= Len(s) THEN s[i] ELSE t[i - Len(s)]
  OBVIOUS

\* No query is lost, asked for twice or overtaken on its way through the queue,
\* the helper and the results: end to end they are the numbers from 1, and up
\* to the shutdown all that were asked.
THEOREM QueriesKeptAlways == Spec => []QueriesKept
<1>1. ASSUME ThreadInv, QueryInv PROVE QueriesKept
  <2> DEFINE w == CHOOSE t \in AtWork : TRUE
             mid == IF AtWork = {} THEN <<>> ELSE InHand(w)
  <2>1. \A t, u \in AtWork : t = u
    BY <1>1, OneInTick DEF QueryInv, JobInv, AtWork
  <2>2. AtWork = {} \/ AtWork = {w}
    BY <2>1
  <2>3. Cardinality(AtWork) <= 1
    <3>1. Cardinality({}) = 0 /\ Cardinality({w}) = 1
      BY FS_EmptySet, FS_Singleton
    <3> QED  BY <2>2, <3>1
  <2>4. mid \in Seq(Nat) /\ Len(mid) = Working /\ (AtWork # {} => mid[1] = Behind(1))
    <3>1. CASE AtWork = {}
      BY <3>1 DEF Working
    <3>2. CASE AtWork # {}
      <4>1. w \in AtWork /\ job[w] # 0 /\ job[w] = Behind(1) /\ job[w] \in Nat
        BY <1>1, <3>2, MaxQueriesNat DEF AtWork, QueryInv, OrderInv, QueryTypes
      <4> QED  BY <3>2, <4>1 DEF InHand, Working
    <3> QED  BY <3>1, <3>2
  <2>5. /\ delivered \in Seq(Nat) /\ results \in Seq(Nat) /\ todo \in Seq(Nat)
        /\ asked \in Nat
    BY <1>1, MaxQueriesNat DEF QueryInv, QueryTypes, QueryIds
  <2> DEFINE d == Len(delivered)
             r == Len(results)
  <2> HIDE DEF mid
  <2>6. OnTheWay = ((delivered \o results) \o mid) \o todo
    BY DEF OnTheWay, mid
  <2>7. d \in Nat /\ r \in Nat /\ Len(todo) \in Nat /\ Working \in {0, 1}
    BY <2>5 DEF Working
  <2>8. /\ Len(OnTheWay) = d + r + Working + Len(todo)
        /\ DOMAIN OnTheWay = 1 .. Len(OnTheWay)
    <3>1. delivered \o results \in Seq(Nat) /\ Len(delivered \o results) = d + r
      BY <2>5, ConcatLen
    <3>2. /\ (delivered \o results) \o mid \in Seq(Nat)
          /\ Len((delivered \o results) \o mid) = (d + r) + Len(mid)
      BY <2>4, <3>1, ConcatLen
    <3>3. /\ OnTheWay \in Seq(Nat)
          /\ Len(OnTheWay) = ((d + r) + Len(mid)) + Len(todo)
      BY <2>5, <2>6, <3>2, ConcatLen
    <3> QED  BY <2>4, <3>3
  <2>9. ASSUME NEW i \in DOMAIN OnTheWay
        PROVE  OnTheWay[i] = i
    <3> DEFINE two == delivered \o results
               three == two \o mid
    <3>a. two \in Seq(Nat) /\ Len(two) = d + r
      BY <2>5, ConcatLen
    <3>b. three \in Seq(Nat) /\ Len(three) = d + r + Working
      BY <2>4, <3>a, ConcatLen
    <3>c. i \in Nat /\ 1 <= i /\ i <= d + r + Working + Len(todo)
      BY <2>7, <2>8
    <3>d. OnTheWay[i] = IF i <= d + r + Working THEN three[i]
                        ELSE todo[i - (d + r + Working)]
      BY <2>5, <2>6, <2>7, <3>b, <3>c, ConcatAt
    <3>e. i <= d + r + Working => three[i] = IF i <= d + r THEN two[i] ELSE mid[i - (d + r)]
      BY <2>4, <2>7, <3>a, <3>c, ConcatAt
    <3>f. i <= d + r => two[i] = IF i <= d THEN delivered[i] ELSE results[i - d]
      BY <2>5, <2>7, <3>c, ConcatAt
    <3> HIDE DEF two, three
    <3>1. OnTheWay[i] = IF i <= d THEN delivered[i]
                        ELSE IF i <= d + r THEN results[i - d]
                        ELSE IF i <= d + r + Working THEN mid[i - (d + r)]
                        ELSE todo[i - (d + r + Working)]
      BY <2>7, <3>c, <3>d, <3>e, <3>f
    <3>2. CASE i <= d
      BY <1>1, <2>7, <2>8, <3>1, <3>2 DEF QueryInv, OrderInv
    <3>3. CASE d < i /\ i <= d + r
      <4>1. i - d \in 1 .. r
        BY <2>7, <2>8, <3>3
      <4>2. results[i - d] = d + (i - d)
        BY <1>1, <4>1 DEF QueryInv, OrderInv
      <4> QED  BY <2>7, <2>8, <3>1, <3>3, <4>2
    <3>4. CASE d + r < i /\ i <= d + r + Working
      BY <2>4, <2>7, <2>8, <3>1, <3>4 DEF Behind, Working
    <3>5. CASE d + r + Working < i
      <4>1. i - (d + r + Working) \in 1 .. Len(todo)
        BY <2>7, <2>8, <3>5
      <4>2. todo[i - (d + r + Working)] = Behind(Working + (i - (d + r + Working)))
        BY <1>1, <4>1 DEF QueryInv, OrderInv
      <4>3. OnTheWay[i] = todo[i - (d + r + Working)]
        BY <2>7, <3>1, <3>5, <3>c
      <4>4. todo[i - (d + r + Working)] = d + r + (Working + (i - (d + r + Working)))
        BY <4>2 DEF Behind
      <4> QED  BY <2>7, <3>c, <4>3, <4>4
    <3> QED  BY <2>7, <2>8, <3>2, <3>3, <3>4, <3>5
  <2>10. Len(OnTheWay) = Behind(Working + Len(todo))
    BY <2>7, <2>8 DEF Behind
  <2> QED  BY <1>1, <2>3, <2>9, <2>10 DEF QueriesKept, QueryInv, OrderInv
<1> QED  BY <1>1, ThreadInvariant, QueryInvariant, PTL

-----------------------------------------------------------------------------
(* The connection. *)

LEMMA ConnectionNext ==
  ASSUME ConnectionInv, [Next]_vars
  PROVE  ConnectionInv'
<1>1. ASSUME UNCHANGED connection PROVE ConnectionInv'
  BY <1>1 DEF ConnectionInv, ConnectedHasLink, connection
<1>2. ASSUME CloseLink \/ \E ok \in BOOLEAN : Connected(ok) PROVE ConnectionInv'
  <2>1. CASE CloseLink
    BY <2>1 DEF CloseLink, ConnectionInv, ConnectedHasLink
  <2>2. CASE Connected(TRUE) \/ Connected(FALSE)
    BY <2>2 DEF Connected, ConnectionInv, ConnectedHasLink
  <2> QED  BY <1>2, <2>1, <2>2
<1>3. CASE \/ AddQuery \/ Started \/ BeginQuery \/ Query \/ CloseVerb
           \/ ConnectVerb \/ BeginPing \/ Ping \/ Reconnect \/ Deliver \/ CloseHelper
  BY <1>1, <1>2, <1>3 DEF AddQuery, Started, BeginQuery, Query, UseLink,
     CloseVerb, ConnectVerb, BeginPing, Ping, Reconnect, Deliver, CloseHelper
<1>4. CASE LoseLink
  BY <1>4 DEF LoseLink, ConnectionInv, ConnectedHasLink
<1>5. ASSUME NEW t \in OsThreads, TickStep(t) PROVE ConnectionInv'
  BY <1>1, <1>2, <1>5 DEF TickStep, TakeQuery, TestConnected, RunQuery, UseLink,
     Report, TickReturns
<1>6. CASE ThreadStep \/ UNCHANGED vars
  BY <1>1, <1>6 DEF ThreadStep, vars, dbVars
<1> QED  BY <1>3, <1>4, <1>5, <1>6 DEF Next, DbStep

\* m_fConnected, which both threads read without the mutex, is never set while
\* there is no pointer behind it (CDataBase::Connect, Close, query, exec,
\* _OnTick): a call that follows the test at once does not use a null pointer.
THEOREM ConnectedHasLinkAlways == Spec => []ConnectedHasLink
<1>1. Init => ConnectionInv
  BY DEF Init, ConnectionInv, ConnectedHasLink
<1>2. ConnectionInv => ConnectedHasLink
  BY DEF ConnectionInv
<1> QED  BY <1>1, <1>2, ConnectionNext, PTL DEF Spec

=============================================================================
