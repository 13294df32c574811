------------------------------ MODULE AsyncDB ------------------------------
(***************************************************************************)
(* The asynchronous queries of the database (src/src/sphere/asyncdb.cpp    *)
(* and src/src/common/CDataBase.cpp): the main thread, which is the boss   *)
(* of Threads, puts queries into a queue and starts the thread             *)
(* T_AsyncDBHelper if it is not active; a tick of that thread takes one    *)
(* query, runs it over the connection that it shares with the main thread, *)
(* and leaves the result for the tick of the main thread, which calls the  *)
(* function named with the query.                                          *)
(*                                                                         *)
(* Each section under a mutex is one step; only the reconnection of a lost *)
(* link, during which the connection is seen as closed, is two.  In the    *)
(* POSIX build the second unlock of the queue's mutex at the end of tick   *)
(* has no effect: the mutex is recursive, so it knows its owner.           *)
(* MariaDB is enabled (m_fMySql).  Abstracted: the text of queries and     *)
(* results, and the clock that paces pings and answers.                    *)
(***************************************************************************)
EXTENDS Threads

CONSTANTS
  Helper,     \* g_asyncHdb
  MaxQueries, \* bound: queries asked
  MaxLosses   \* bound: how often the link to the database is lost

ASSUME AsyncAssumption ==
  Helper \in Objects /\ Helper \in Timed /\ MaxQueries \in Nat /\ MaxLosses \in Nat

VARIABLES
  asked,      \* queries asked; the n-th one is called n
  todo,       \* m_queriesTodo
  job,        \* the query an OS thread of Helper is working on, or 0
  doing,      \* where in tick() it is
  results,    \* m_QueryArgs
  delivered,  \* the queries whose function was called
  asking,     \* addQuery waits for start() to return
  connected,  \* m_fConnected
  link,       \* _myData->ptr: "null", "open", or "lost": open, server gone
  mainAt,     \* where the main thread is in a call of the database
  losses      \* links lost, for the bound

connection == <<connected, link, losses>>
work       == <<job, doing>>
dbVars     == <<asked, todo, work, results, delivered, asking, mainAt, connection>>
vars       == <<threadVars, dbVars>>

QueryIds == 1 .. MaxQueries
(* "take": about to take a query; "test": has one; "use": has found         *)
(* m_fConnected set; "report": has a result; "done": tick() returns.        *)
Doing == {"take", "test", "use", "report", "done"}
(* "use" likewise in query(); "ping": m_fConnected is found set in _OnTick; *)
(* "reconnect": there, with the mutex of the connection held.               *)
MainAt == {"free", "use", "ping", "reconnect"}

TypeOK ==
  /\ ThreadsTypeOK
  /\ asked \in 0 .. MaxQueries /\ todo \in Seq(QueryIds)
  /\ job \in [OsThreads -> 0 .. MaxQueries] /\ doing \in [OsThreads -> Doing]
  /\ results \in Seq(QueryIds) /\ delivered \in Seq(QueryIds)
  /\ asking \in BOOLEAN /\ connected \in BOOLEAN
  /\ link \in {"null", "open", "lost"} /\ mainAt \in MainAt
  /\ losses \in 0 .. MaxLosses

InTick(t) == of[t] = Helper /\ at[t] = "tick"

-----------------------------------------------------------------------------
(* The connection. *)

ConnectionFree == mainAt # "reconnect"

\* Mutant of CloseLink: m_fConnected stays set.
CloseLinkOnly == link' = "null" /\ UNCHANGED <<connected, losses>>
CloseLink == link' = "null" /\ connected' = FALSE /\ UNCHANGED losses
Connected(ok) ==
  /\ link' = IF ok THEN "open" ELSE "null"
  /\ connected' = ok
  /\ UNCHANGED losses

(* mysql_query and mysql_ping on a null pointer are the end of the process. *)
UseLink == aborted' = (link = "null") /\ UNCHANGED connection

LoseLink ==
  /\ link = "open" /\ losses < MaxLosses
  /\ link' = "lost" /\ losses' = losses + 1
  /\ UNCHANGED <<threadVars, asked, todo, work, results, delivered, asking,
                 mainAt, connected>>

-----------------------------------------------------------------------------
(* The tick of the helper. *)

(* tick(), up to the first unlock. *)
TakeQuery(t) ==
  /\ InTick(t) /\ doing[t] = "take"
  /\ IF todo = <<>>
     THEN doing' = [doing EXCEPT ![t] = "done"] /\ UNCHANGED <<job, todo>>
     ELSE /\ job' = [job EXCEPT ![t] = Head(todo)] /\ todo' = Tail(todo)
          /\ doing' = [doing EXCEPT ![t] = "test"]
  /\ UNCHANGED <<threadVars, asked, results, delivered, asking, mainAt, connection>>

\* Mutant of TestConnected: no result for a query that cannot run.
TestConnectedSilently(t) ==
  /\ InTick(t) /\ doing[t] = "test"
  /\ doing' = [doing EXCEPT ![t] = IF connected THEN "use" ELSE "done"]
  /\ job' = IF connected THEN job ELSE [job EXCEPT ![t] = 0]
  /\ UNCHANGED <<threadVars, asked, todo, results, delivered, asking, mainAt, connection>>

(* query() and exec() test m_fConnected before they take the mutex. *)
TestConnected(t) ==
  /\ InTick(t) /\ doing[t] = "test"
  /\ doing' = [doing EXCEPT ![t] = IF connected THEN "use" ELSE "report"]
  /\ UNCHANGED <<threadVars, asked, todo, job, results, delivered, asking,
                 mainAt, connection>>

(* mysql_query returns 0 or 1, never the codes that query() and exec()      *)
(* compare it with: their Close() is not reached, and a lost link stays     *)
(* until the ping.                                                          *)
RunQuery(t) ==
  /\ InTick(t) /\ doing[t] = "use" /\ ConnectionFree
  /\ UseLink
  /\ doing' = [doing EXCEPT ![t] = "report"]
  /\ UNCHANGED <<holder, handle, flags, osVars, boss, server,
                 asked, todo, job, results, delivered, asking, mainAt>>

(* addQueryResult. *)
Report(t) ==
  /\ InTick(t) /\ doing[t] = "report"
  /\ results' = Append(results, job[t])
  /\ job' = [job EXCEPT ![t] = 0] /\ doing' = [doing EXCEPT ![t] = "done"]
  /\ UNCHANGED <<threadVars, asked, todo, delivered, asking, mainAt, connection>>

TickReturns(t) ==
  /\ of[t] = Helper => doing[t] = "done"
  /\ EndTick(t)
  /\ doing' = [doing EXCEPT ![t] = "take"]
  /\ UNCHANGED <<asked, todo, job, results, delivered, asking, mainAt, connection>>

TickStep(t) ==
  \/ TakeQuery(t) \/ TestConnected(t) \/ RunQuery(t)
  \/ Report(t) \/ TickReturns(t)

-----------------------------------------------------------------------------
(* The main thread. *)

MainFree == boss = Idle /\ ~asking /\ mainAt = "free" /\ ~exiting

\* Mutant of Enqueue: emplace_front.
EnqueueInFront == asked' = asked + 1 /\ todo' = <<asked + 1>> \o todo
Enqueue == asked' = asked + 1 /\ todo' = Append(todo, asked + 1)

\* Mutant of AddQuery: start() whether the helper is active or not.
AddQueryStarts ==
  /\ MainFree /\ asked < MaxQueries
  /\ \E t \in OsThreads : Create(Helper, t)
  /\ asking' = TRUE
  /\ UNCHANGED <<asked, todo, work, results, delivered, mainAt, connection>>

(* AEXECUTE and AQUERY: CDataBase::addQuery. *)
AddQuery ==
  /\ MainFree /\ asked < MaxQueries
  /\ IF Active(Helper)
     THEN Enqueue /\ UNCHANGED <<threadVars, asking>>
     ELSE Start(Helper) /\ asking' = TRUE /\ UNCHANGED <<asked, todo>>
  /\ UNCHANGED <<work, results, delivered, mainAt, connection>>

Started ==
  /\ asking /\ boss = Idle
  /\ Enqueue /\ asking' = FALSE
  /\ UNCHANGED <<threadVars, work, results, delivered, mainAt, connection>>

(* QUERY and EXECUTE on the main thread. *)
BeginQuery ==
  /\ MainFree /\ connected
  /\ mainAt' = "use"
  /\ UNCHANGED <<threadVars, asked, todo, work, results, delivered, asking, connection>>

Query ==
  /\ mainAt = "use"
  /\ UseLink
  /\ mainAt' = "free"
  /\ UNCHANGED <<holder, handle, flags, osVars, boss, server,
                 asked, todo, work, results, delivered, asking>>

(* CLOSE and CONNECT. *)
CloseVerb ==
  /\ MainFree /\ connected
  /\ CloseLink
  /\ UNCHANGED <<threadVars, asked, todo, work, results, delivered, asking, mainAt>>

ConnectVerb ==
  /\ MainFree
  /\ \E ok \in BOOLEAN : Connected(ok)
  /\ UNCHANGED <<threadVars, asked, todo, work, results, delivered, asking, mainAt>>

(* CDataBase::_OnTick: the ping, in three steps, and one answer. *)
BeginPing ==
  /\ MainFree /\ connected
  /\ mainAt' = "ping"
  /\ UNCHANGED <<threadVars, asked, todo, work, results, delivered, asking, connection>>

Ping ==
  /\ mainAt = "ping"
  /\ aborted' = (link = "null")
  /\ IF link = "lost"
     THEN CloseLink /\ mainAt' = "reconnect"
     ELSE mainAt' = "free" /\ UNCHANGED connection
  /\ UNCHANGED <<holder, handle, flags, osVars, boss, server,
                 asked, todo, work, results, delivered, asking>>

Reconnect ==
  /\ mainAt = "reconnect"
  /\ \E ok \in BOOLEAN : Connected(ok)
  /\ mainAt' = "free"
  /\ UNCHANGED <<threadVars, asked, todo, work, results, delivered, asking>>

\* Mutant of Deliver: the result is not popped.
DeliverAgain ==
  /\ MainFree /\ results # <<>> /\ Len(delivered) < MaxQueries
  /\ delivered' = Append(delivered, Head(results))
  /\ UNCHANGED <<threadVars, asked, todo, work, results, asking, mainAt, connection>>

Deliver ==
  /\ MainFree /\ results # <<>>
  /\ delivered' = Append(delivered, Head(results)) /\ results' = Tail(results)
  /\ UNCHANGED <<threadVars, asked, todo, work, asking, mainAt, connection>>

(* CDataBaseAsyncHelper::waitForClose. *)
CloseHelper ==
  /\ boss = Idle /\ exiting
  /\ todo' = <<>>
  /\ IF Active(Helper) THEN Close(Helper) ELSE UNCHANGED threadVars
  /\ UNCHANGED <<asked, work, results, delivered, asking, mainAt, connection>>

(* What the boss does in Threads. *)
StartOther(o) == MainFree /\ ~exitFlag /\ o # Helper /\ Start(o)
CloseOther(o) == o # Helper /\ Close(o)
EnterExit     == MainFree /\ BeginExit

DbStep ==
  \/ AddQuery \/ Started \/ BeginQuery \/ Query \/ CloseVerb
  \/ ConnectVerb \/ BeginPing \/ Ping \/ Reconnect \/ Deliver \/ CloseHelper
  \/ LoseLink \/ \E t \in OsThreads : TickStep(t)

ThreadStep ==
  /\ \/ SetHandle \/ ResetEnded \/ CloseEnds \/ SetExitFlag \/ EnterExit
     \/ \E o \in Objects : StartOther(o) \/ CloseOther(o)
     \/ \E t \in OsThreads : RunStep(t) \/ Unwind(t)
  /\ UNCHANGED dbVars

Init ==
  /\ ThreadsInit
  /\ asked = 0 /\ todo = <<>> /\ results = <<>> /\ delivered = <<>>
  /\ job = [t \in OsThreads |-> 0] /\ doing = [t \in OsThreads |-> "take"]
  /\ asking = FALSE /\ mainAt = "free" /\ losses = 0
  /\ connected \in BOOLEAN /\ link = IF connected THEN "open" ELSE "null"

Next == ~aborted /\ (DbStep \/ ThreadStep)

Spec == Init /\ [][Next]_vars

(* Threads run.  The main thread is sequential: what it has begun it goes   *)
(* on with.  Its loop ticks again and again until the exit flag is set, and *)
(* a tick may deliver; then it exits.                                       *)
OsStep(t) == TickStep(t) \/ (RunStep(t) /\ UNCHANGED dbVars)
GoOn ==
  \/ Started \/ Query \/ Ping \/ Reconnect \/ CloseHelper
  \/ /\ SetHandle \/ ResetEnded \/ CloseEnds \/ \E o \in Objects : CloseOther(o)
     /\ UNCHANGED dbVars
Fairness ==
  /\ \A t \in OsThreads : WF_vars(~aborted /\ OsStep(t))
  /\ WF_vars(~aborted /\ GoOn)
  /\ SF_vars(~aborted /\ Deliver)
  /\ SF_vars(~aborted /\ EnterExit /\ UNCHANGED dbVars)

FairSpec == Spec /\ Fairness

-----------------------------------------------------------------------------
(* Properties. *)

(* No query is lost, asked for twice or overtaken by another on its way     *)
(* from the script through the queue, the helper and the results back to    *)
(* the script, whoever starts and ends the helper; only the shutdown cuts   *)
(* off what still waits (addQuery, tick, addQueryResult, _OnTick).          *)
InHand(t) == IF job[t] = 0 THEN <<>> ELSE <<job[t]>>
AtWork    == { t \in OsThreads : job[t] # 0 }
OnTheWay  == delivered \o results
             \o (IF AtWork = {} THEN <<>> ELSE InHand(CHOOSE t \in AtWork : TRUE)) \o todo
QueriesKept ==
  /\ Cardinality(AtWork) <= 1
  /\ \A i \in DOMAIN OnTheWay : OnTheWay[i] = i
  /\ Len(OnTheWay) <= asked
  /\ ~exiting => Len(OnTheWay) = asked

(* The code between the script and the database is a queue of answers. *)
Service == INSTANCE QueryService WITH answered <- delivered
ImplementsQueryService == Service!QuerySpec

(* Nobody sees the flag of the connection set while the pointer is null,    *)
(* except who read the flag before: Connect, Close and the reconnection in  *)
(* _OnTick change the two so that the unlocked isConnected can be believed  *)
(* at the time it is called.                                                *)
ConnectedHasLink == connected => link # "null"

(* An object is run by one OS thread at a time, although isActive, which    *)
(* start() is guarded with, is set after the thread was created and reset   *)
(* by the thread itself (AbstractThread::start, terminate).                 *)
OneThreadEach == \A t, u \in OsThreads :
  (of[t] = of[u] /\ {at[t], at[u]} \subseteq InRun \cup {"born", "pushed"}) => t = u

(* waitForClose at the shutdown cancels no thread that was started in time: *)
(* the request to terminate, the exit flag and the sleep event reach it     *)
(* wherever it is, also where its tick period is infinite, and its event is *)
(* not taken for that of an earlier thread ("Having set the exit flag, all  *)
(* threads "should" terminate cleanly", CException.cpp).                    *)
NoThreadIsCancelled == cancelled \subseteq late

(* A query is answered, or the server goes down. *)
QueriesAnswered == \A n \in QueryIds :
  asked >= n ~> (Len(delivered) >= n \/ exitFlag \/ aborted)

(* Once the exit flag is set every thread ends. *)
ThreadsEnd == exitFlag ~> (aborted \/ \A t \in OsThreads : at[t] \in {"free", "over"})
=============================================================================
