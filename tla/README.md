# SphereServer X: TLA+ models of the game server

SphereServer X (`src/`) emulates an Ultima Online server: a C++ process that keeps a world of characters and items in
memory, moves it forward by timers, writes it to disk while the game goes on, and reads it back at the next start. This
directory models the parts of it whose correctness depends on the order of steps rather than on formulas: the world
ticker, the world save, the files of the save across crashes, the table of unique identifiers (UIDs), the timed functions
of scripts, the threads and the asynchronous database queries, the hand-over of a client from the login server to a
shard, and the table of network connections.

    TimedTicker, TimerRegistry      timers of items and characters, and the map they implement
    PeriodicTicker                  regeneration ticks of characters
    StatusUpdates                   queue of tooltip updates
    WorldSave                       what a staged save writes while the game goes on
    SaveFiles                       the four files of a save, archives, crash and load
    UidTable                        allocation, deferred release and garbage collection of UIDs
    TimedFunctions                  TIMERF across deletion, reuse of UIDs, the tick, saves and restarts
    Threads                         start, run, end and restart of the thread objects
    AsyncDB, QueryService           database queries over Threads, and the queue of answers they implement
    LoginHandoff, LoginTickets      from the login server to a shard, and the tickets that it implements
    Connections                     network slots, client objects and the counters of addresses
    *_proofs                        theorems checked by TLAPS; TickerQueues_proofs is about PeriodicTicker and StatusUpdates,
                                    WorldSave_proofs about WorldSave and SaveFiles, AsyncDB_proofs about Threads as well,
                                    each of the others about the module of its name
    MC*.tla, MC*.cfg                instances for TLC

How to run: `tlc -config MCTimedTicker.cfg MCTimedTicker`, and `tlapm TimedTicker_proofs.tla`. `PROJECT.json` lists the
runs, the mutants that show that every property can fail, the source lines of every definition, the hazards and the
theorems.

## 1. The execution model

`MT_ENGINES` is 0 (`src/src/common/basic_threading.h:8`), so the whole game runs on the main thread:
`CWorld::_OnTick`, the handling of packets, scripts. Concurrency comes from elsewhere:

- **Callbacks.** A tick calls `_OnTick` of an object, which runs script triggers, which may create, arm, put to sleep or
  delete any other object while the ticker is in the middle of its vectors. This is the interleaving the ticker
  modules are about.
- **Stages.** A background save writes one stage per automatic save; between two stages the game moves, hands over and
  deletes what is written or is not.
- **Crashes.** The save renames and writes four files one after the other.
- **Threads.** The database worker `T_AsyncDBHelper`, the thread `T_InternalApi`, and a login server in Python, a process
  of its own with a thread per client. Each section under a mutex is one step of the models.
- **Deferred destruction.** Objects, UIDs and client objects are given up at once and destroyed later, by a tick of the
  world; what refers to them in between must know.

`ASSERT` is compiled out of a release build, and `EXC_TRY`/`EXC_CATCH` catch every exception in a handler, log it and go
on; a model therefore has an action for "this handler threw here" where that leaves state behind (`EndTickThrow`,
`StageThrows`, `SaveThrows`).

## 2. Inventory

Modelled components first. For the others the table says what they keep and why they are left out or left to later.

### World ticker: timers (`CWorldTicker.cpp`, `CWorldTickingList.cpp`, `CTimedObject.cpp`)

- *State*: a vector of (timeout, object) sorted by time, a vector of add requests and one of erase requests; in each object
  `_iTimeout`, `_fIsInWorldTickList` and `_fIsInWorldTickAddList`; a buffer of the objects that are due.
- *Operations*: `AddTimedObject`, `DelTimedObject`, `ProcessTimedObjects`; their callers `_SetTimeout`, `_ClearTimeout`,
  `_GoAwake`, `_GoSleep`, `Delete`, the loading of `TIMER`, the failure of a load.
- *Interaction*: every object calls it; it calls every object. Objects are deleted in two steps (`Delete` in a callback,
  the destructor in `CWorld::_OnTick` after the tick), so pointers must have left every vector in between. A garbage
  collection does the second step at once, and a script may ask for one inside the tick (`SERV.GARBAGE`, `SERV.SAVE`).
- *Hard*: callbacks change the vectors they are called from; the flags are trusted instead of a search; the sizes
  subtracted in the merge are unsigned.
- *Correct when*: an armed awake object is registered once, with its own time, and ticks; nothing destroyed is touched
  (but for the garbage collection inside a tick, section 4).

### World ticker: periodic ticks (same files, `CCharTimers.cpp`, `CCharAct.cpp`)

- *State*: the same three vectors, for characters, without flags: only `_iTimePeriodicTick` tells whether one is pending.
- *Operations*: `AddCharTicking`, `DelCharTicking`, `ProcessCharPeriodicTicks`, and connecting, disconnecting, sleeping,
  waking, dying and deleting of a character.
- *Hard*: a character that waits in the buffer is "pending" but in no vector.
- *Correct when*: an awake character regenerates exactly once per period.

### World ticker: status updates (same files)

- *State*: a queue of objects whose tooltip or status is to be sent, an add and an erase list, a flag in each object.
- *Operations*: `AddObjStatusUpdate`, `DelObjStatusUpdate`, `ProcessObjStatusUpdates`, and `UpdatePropertyFlag`,
  `OnTickStatusUpdate`, `ResendTooltip` of an object.
- *Hard*: the queue is swapped out before the updates run; an update runs scripts (`@ClientTooltip`), which may queue, delete
  or destroy the object it is about; the lists survive a load that fails.
- *Correct when*: every request for an update is followed by an update that begins after it, and nothing destroyed is
  updated.

### World save: what is written (`CWorld.cpp`, `CSector.cpp`, `CSectorList.cpp`)

- *State*: the save parity of the world, of each sector and of each character; the stage; the open files; the count.
- *Operations*: `Save`, `SaveTry`, `SaveStage`, `SaveForce`, `CSector::r_Write`, `CSector::MoveCharToSector`, and what the
  game does with characters and items between the stages.
- *Hard*: a character walks from an unwritten sector to a written one; items have no parity of their own; a stage
  throws; a file does not open; the save must end.
- *Correct when*: a counted save holds everything that was in the world all the time, once.

### World save: files, backups and load (`CWorld.cpp`)

- *State*: for each of the files `spheredata`, `sphereworld`, `spherechars`, `spheremultis` the current one and its
  archives on the disk; the save count; what was loaded.
- *Operations*: `OpenScriptBackup`, `GetBackupName`, writing of headers and end marks, `LoadFile`, `LoadWorld`, `LoadAll`.
- *Hard*: a crash between any two of these steps, and another crash after the restart.
- *Correct when*: a restart finds the last whole save, all files of the same one.

### UID table (`CWorld.cpp`, `CObjBase.cpp`)

- *State*: the table of objects by UID, the last index, the list of free UIDs, `m_ObjNew` and `m_ObjDelete`.
- *Operations*: `AllocUID`, `FreeUID`, `FindUID`, `SetUID`, `ScheduleObjDeletion`, `GarbageCollection_*`,
  `SaveThreadClose`.
- *Hard*: a UID freed during a save must not be reused before it ends; the search wraps; the table grows.
- *Correct when*: an object and its slot name each other, and a UID means one object for the whole of a save.

### Timed functions (`CTimedFunction.cpp`, `CTimedFunctionHandler.cpp`, `CWorldTimedFunctions.cpp`)

- *State*: the list `_timedFunctions`; each function has the UID of its object, a command and a timer of the world ticker.
- *Operations*: `Add` (`TIMERF delay,command`), `Stop` and `ClearUID` (`TIMERF STOP`, `TIMERF CLEAR`, the deletion of the
  object), `_OnTick`, `r_Write`, `Load`.
- *Interaction*: they tick through the buffer of the world ticker, find their object in the UID table, go to `m_ObjDelete`
  when they are stopped, and are saved after the last sector.
- *Hard*: the object is known by its UID only, which may be another's by the time; a function that was stopped is still in
  the ticker; objects and functions are saved at different moments.
- *Correct when*: a command is run on the object it was meant for or on none, and every function ends.

### Threads (`threads.cpp`, `MainThread.cpp`, `StartupMonitorThread.cpp`, `sresetevents.cpp`)

- *State*: in each `AbstractThread` the handle, the request to terminate, the UI state, two flags of the check for hangs,
  two events; `ThreadHolder` with the registered threads and a counter; the exit flag of the server.
- *Operations*: `start`, `run`, `terminate`, `waitForClose`, `checkStuck`, `ThreadHolder::push`, `remove`,
  `markThreadStarted`; `main` and `Sphere_ExitServer` of the thread that starts and closes the others.
- *Hard*: the two sides of a thread object share plain members without a lock; a thread may end before `start` has
  entered its handle; an object may be started again.
- *Correct when*: one OS thread runs an object at a time, and at the shutdown every thread ends by itself.

### Asynchronous database queries (`asyncdb.cpp`, `CDataBase.cpp`)

- *State*: the queue of queries, the queue of results, the connection (a flag and a pointer), the helper thread.
- *Operations*: `addQuery`, `tick`, `addQueryResult`, `query`, `exec`, `Connect`, `Close`, `_OnTick` with its ping.
- *Interaction*: scripts ask, the helper works, the main loop calls the function named with the query; both threads use
  one connection.
- *Hard*: the helper is started on demand and ends when it is closed; the link to the database is lost at any time;
  `isConnected` is read without the mutex.
- *Correct when*: every query is answered once and in order, until the server goes down.

### Login sessions (`CSessionRegistry.cpp`, `CInternalApiServer.cpp`, `CClientLog.cpp`, `login_server.py`, `session_client.py`)

- *State*: the registry of sessions with their expiry, under a mutex; the requests that wait, are worked on or are
  answered; where each client of the login server is.
- *Operations*: `RegisterSession`, `ConsumeSession`, `PurgeExpired`; the tick of `CInternalApiServer`; `handle_client`,
  `register_session`; the check of the id when the client comes to the shard.
- *Hard*: two processes and three kinds of threads; the clock is read before the lock; ids collide; the answer is late;
  either process is killed.
- *Correct when*: a client enters with a session of its account that nobody has used and that has not expired, and is
  refused only if there is none.

### Network connections (`CNetworkManager.cpp`, `CNetState.cpp`, `CNetworkThread.cpp`, `CNetworkInput.cpp`, `CNetworkOutput.cpp`, `CIPHistoryManager.cpp`, `CClient.cpp`)

- *State*: the table of slots, each with a socket, two flags for what is closed, queues and the client object; the list
  of the thread and the queue of slots that it has to take over; the counters of an address; the objects that wait for
  their destruction.
- *Operations*: accepting, receiving, processing, sending, closing, timing out, clearing, `checkNewStates`,
  `dropInvalidStates`, `~CClient`, and what game code does to a client: a packet, a kick.
- *Hard*: a slot is cleared at the end of a pass and its client object is destroyed by a later tick of the world, which is
  left out if the clock has not moved; meanwhile the slot may be given to somebody else.
- *Correct when*: a slot in use is served, once a pass; nothing reaches anybody but the client of the slot; the counters
  that limit the connections of an address agree with its clients; a connection that is closing ends.

### Other components

| Component | State and role | Why it is not (fully) modelled |
|---|---|---|
| Sectors: sleep, environment | objects of a map square, awake or asleep | parity is in WorldSave, sleep of single objects in the tickers; the sleep of a whole sector is planned |
| Network threads (`NetworkThreads>0`), asynchronous sends | slots served by threads of their own | Connections has the default, where all runs in `T_Main`; the threads themselves are objects of Threads |
| Packets, ping server | encoding of the protocol | data formats |
| Clients, accounts, chat, parties, GM pages | membership lists, menus, text files | mostly translation; a party or channel module is a candidate. The failure of `Account_SaveAll` is an action of WorldSave, the life of a `CClient` is in Connections |
| Guild stones, trade and vendors, spawns, multis | game rules over lists | candidates; that a ship carries players over a border is an action of WorldSave |
| Characters and items: skills, magic, combat, AI | formulas, tables and triggers | their effects on timers, sleep and deletion are the "game code" of the ticker modules |
| Map, regions, search | geometry over read-only data | no control of its own |
| Scripts and expressions | an interpreter of text | its effects are the arbitrary calls of game code |
| Server, configuration, import; crypto; base library; UO files, UltimaLive; consoles; vendored code | parsing, ciphers, containers, I/O, third-party code | no state machine, or not this project's code |

The list with all files is `components` of `PROJECT.json`.

## 3. Modules and code

Every variable is commented with the member it stands for; `map` in `PROJECT.json` gives the source lines of each
definition. In every module one action is one call from outside, run to its end, unless the code calls back into game
code: then the call is cut there (`BeginTick`/`EndTick...`), and what game code may do is allowed in between.

### TimedTicker

Game code (`Create`, `SetTimeout`, `ClearTimeout`, `GoAwake`, `GoSleep`, `Delete`) runs outside the tick and inside each callback
(`GameCode`). `StartTick` is the merge of the requests and the move of the due entries, of objects that are armed and
awake, into the buffer. `BeginTick` clears `_iTimeout` of the next object of the buffer, without a look at its value,
and enters its `_OnTick`; `EndTickKeep`,
`EndTickAsleep`, `EndTickDelete` and `EndTickThrow` are the ways it returns, the deletion requested by a result of
false among them. `DestroyDeleted` is `m_ObjDelete.ClearContainer` after the tick. `LoadTimer` and `FailLoad` are a load and a
load that throws half-way. Times are clock units; the vectors are sets, which is what `OneEntry` justifies.

`CollectGarbage` is a garbage collection: at the end of a load, before a save, or by a script, also of a callback. It
destroys what is in `m_ObjDelete` and whatever it finds unplaced or broken (`weird`: any set of objects). If the object whose
callback runs is among it, `ReturnToDestroyed` is the return into it; if one that waits in the buffer is, `TickDestroyed` is
the loop that comes to its pointer, unless the memory is another object's by then, which ticks instead. Both are undefined
and end the model (`Wild`). `collected` is history: the buffer may have such pointers.

`TimerRegistry` is the contract: a map from objects to the time they are registered for, and the set that is due in the
current tick. `TimedTicker!Registry` maps the three vectors to it (add list first, then the main list without what is
to be erased, which is what `IsTimeoutRegistered` does); `ImplementsRegistry` says that every step of the vectors is a
step of the map.

### PeriodicTicker

As the code has no flags here, an entry may be there twice, and vectors are sequences and bags. `Meddling` says whether a
callback may touch a character that still waits in the buffer. `StartPeriodic` merges and fills the buffer,
`BeginTick`/`EndTick...` tick one character, and it is registered anew at the end of its own tick; `Destroy` ends the life
of the deleted ones after the tick, `Collect` that of anyone a garbage collection finds, one by one and at any time; that of
a waiting character counts as meddling. `RunIntoDestroyed` is the loop, or the end of the callback, on a character that is no
more, after which the model ends (`Wild`).

### StatusUpdates

`UpdatePropertyFlag` queues, `StartUpdates` swaps the queue out, `OnTickStatusUpdate` begins one update, and if the object is
dirty its scripts run until `ResendTooltip` ends it, which clears the flag only if some client got the tooltip
(`sentLeastOnce`). `EndUpdates` leaves the loop, the timers and periodic ticks follow, where an awake character is tried again
(`SendOnOwnTick`), and `EndTick` goes on to the cleanup, where `DestroyObj` destroys one deleted object at a time until
`EndObjCleanup`. `DeleteObj` and the destructor (`DestroyedObj`) withdraw. `CollectObj` is one object of a garbage collection,
which the model, unlike the code, may leave and resume between two objects; `UpdateDestroyed` is an update of a destroyed
object, or the return to one, and ends the model. `FailLoadObjs` destroys all objects but not the lists. `owed` and `swept` are
history: an update was asked for and has not begun; garbage was collected during these updates.
The names differ from those of PeriodicTicker, and those of SaveFiles from WorldSave's, so that one proof module can
extend both.

### WorldSave

A save is started by `StartSave` (`SaveTry`: files open, parity flips), goes on by `ContinueInBackground` (one stage per
automatic save) or by `ForcedSave` and `ForcedStage`, game frozen. `SaveStage` has one disjunct per stage: `CollectNewObjs`,
`SectorStage` (1 + `m_iSaveSectorsPerTick` sectors), `PlainStage`, the accounts, `EofStep`; a stage that throws
(`StageThrows`) may have counted the save if it is the last. `Game` is what happens between stages; a character that walks or
logs in goes through `CompareParity`, which writes it or its new sector if only one of the two is written. `written[o]`
counts how often the open files hold an object, and `due` is what was in the world since the save began: these two are
history, the rest is state of the code. `Faults`, `Ships`, `Reach` switch on what can go wrong; `OverflowStage` and
`WildStage` are `++_iSaveStage` on `INT32_MAX`.

### SaveFiles

The content of a file is (save, count in the header, how far written). A save walks over the files, `RemoveArchive`,
`RenameMain`, `OpenMain` for each, then the headers, the content and the end marks; the process may be killed before each
step named in `CrashAt`. `started` numbers the saves, `saveCount` is the count in the headers, `doing` and `at` say how far
the save or the load has come. `LoadWorld` reads the main files and goes back by the count in the header it read last until all
files are whole, or gives up when the name it would try is the one it tried (`LoadGivesUp`), after which the server saves
the world it has. `BackupName` is `GetBackupName`: the trailing octal zeros of the count, and the digit before them.
`Octal` is the weight of a digit, where the code shifts by three bits.

### UidTable

`Create` is the constructor (`AllocUID(0)`), `SetUID` is `SERIAL` at load, which throws out the bearer, `Delete` and
`ClearDeleted` the two steps of deletion, `CollectGarbage` the visit of all slots with the filling of the free list,
`StartSave`, `FirstStage`, `EndSave` and `BreakSave` what a save does to the table.

### TimedFunctions

`fn[f]` is a `CTimedFunction`: `where` it is ("listed" or on its way to destruction), the UID it is `on`, the ticks that are
`left`; `owner` and `own` are history, the object it was added to. `ClearUID` moves functions to `m_ObjDelete`, and is part
of `Delete`, `Destroy` and `Stop`. `BeginTick` fills the buffer, `Run` is `_OnTick` of one of them, `RunDestroyed` the loop at
a pointer to a function that is no more, `EndTick` clears `m_ObjDelete`. Scripts and callbacks (`Game`) act between any two
of these. The save is cut where the game may come in between: `StartSave` with its garbage collection, `SaveObject`,
`SaveTimers`, `EndSave`. `Restart` loads what the last complete save has. From the other modules it takes that a UID freed
during a save is held (`held`, UidTable) and that a save does not come to its end before it holds what was in the world
all the time (`due`, WorldSave).

### Threads and AsyncDB

`Threads` is a part without a program: the objects, the OS threads that run them (`RunStep`: from `onStart` through the loop
of `run` to `terminate`) and the thread that controls them (`boss`: `Start`, `Close`, `CheckStuck` with `Restart`,
`SetExitFlag`, `BeginExit`). A step ends where the other side can see the difference, so `start` is `Create`, `SetHandle`,
`ResetEnded`, `terminate` is `Leave` and `SetEnded`, and `onStart` is `OnStart` up to the unlock in `push` and `MarkStarted`,
which looks up the slot number without the lock. `of[t]` is the object that an OS thread was created for; `cancelled` are
those that `pthread_cancel` was called for.

`AsyncDB` puts the database on top: the boss is the main thread, and one of the objects is the helper. A tick of the helper
is `TakeQuery`, `TestConnected`, `UseLink`/`RunQuery`, `Report`, `TickReturns`, cut where a mutex is
released; the main thread has `AddQuery` (with `start` in it), `Query`, `CloseVerb`, `ConnectVerb`, `Ping`, `Reconnect`,
`Deliver` and the shutdown. `LoseLink` is the database server; a lost link stays, and queries over it fail, until the ping finds
it (`Reconnect`): `query` and `exec` compare what `mysql_query` returns, 0 or 1, with error codes (`CDataBase.cpp:171`, `218`), so
their `Close` is never called. `QueryService` is the contract, a counter of queries and the
sequence of answers; `ImplementsQueryService` maps `delivered` to it.

### LoginHandoff

A login is a connection to the login server, from `LogIn` (the password is right, `register_session` begins) to
`GetAnswer` or `TimeOut`; `SendBody` is the second segment of the request. `T_InternalApi` takes one request at a time:
`Receive`, `PurgeToRegister`, `Register`, `Reply`. The main thread of the shard: `Present`, `PurgeToConsume`, `Consume`.
`Restart` kills the shard and `LoginServerDies` the other side. `fate` and `until` remember what became of a session.
`LoginTickets` is the contract: a password gives one ticket, a ticket lets one client of its account in.

### Connections

`step` is where `Sphere_OnTick` is: `RunWorld` or `SkipWorld`, then `Destroy` for each object that waits (`CWorld::_OnTick`
after the ticks; also when game code has garbage collected), `Accept`, the loops over the slots of the thread for input and
output (`Inputs`, `Outputs`), the loop of `CNetworkManager::tick` over the table (`Manages`) and `TickThread`, after which
input and output run once more (`inner`). `conn[s]` is the `CNetState` of a slot, `obj[c]` the client object: `net` is its
reference to a slot, which outlives the slot's to the client. `queued` and `listed` count how often a slot is in
`m_assignQueue` and in the list of the thread. A packet, and what was received, is the client it belongs to. `Send` and
`Kick` are game code, allowed while the world, the handlers of packets and the server tick. `overtaken` is history.

## 4. What is checked

| Run | Question | Instance | Distinct states |
|---|---|---|---|
| `timers` | flags, vectors, contract and liveness under every interleaving of game code | 1 item, 1 NPC, delays 0 and 1, 4 time units | 120,148 |
| `periodic` | one tick per period, nothing lost, when callbacks leave waiting characters alone | 2 characters, 5 time units | 218,205 |
| `status` | queue and flags through scripts of the updates, every request served, with a load that fails | 2 objects, 1 failed load | 42,876 |
| `world_save` | a background save holds everything once, and ends | 2 sectors, 2 characters, 1 item, 2 saves | 131,652 |
| `world_save_faults` | no character twice, whatever fails | 2 sectors, 1 character, 1 item, all faults, ships, reach | 162,227 |
| `save_files` | backups kept, recovery, files in sync, coming up | 9 saves, 2 crashes, 1 stop, 1 backup level | 224,007 |
| `uids` | links, reuse during a save, growth, place holders | 2 objects, first 2 slots, blocks of 2, free list of 2, 1 broken save | 110,394 |
| `timed_functions` | a command hits its object or none; every function ends | 2 objects, 2 UIDs, 1 function, delays 0 and 1, 1 save, 1 restart | 80,108 |
| `async_db` | queries kept, in order and answered, threads ended, contract | helper and another object, 3 OS threads, 2 queries, 1 lost link | 412,742 |
| `threads_restart` | *violation*: a thread that the monitor restarts runs | 2 objects, 3 OS threads | |
| `sessions` | the contract of tickets, expiry, refusals, every login ends | 3 logins, 2 accounts, one id, lifetime 2, 1 restart | 830,136 |
| `connections` | slots listed once, nobody else's data, counters, closing ends | 2 slots, 2 addresses, 2 client objects | 561,107 |

**Why these bounds.** *Ticker*: the interesting interleavings need one object whose callback runs and one that waits, sleeps
or is destroyed; with delay 0 an object that is armed in a tick is due in the next one, with delay 1 it lies behind others in
the vector; four units let an object tick, rearm and tick again. *Periodic*: five units are several periods (of 1) after the
first one (of 2) of a fresh character. *Status*: one object in the swapped queue and one in the new one; the invariants were
checked with three objects too (2,227,170 states up to symmetry). *WorldSave*: two sectors are one written and one not; two
characters can hand over the item; two saves let the parity come back to its first value, which a stale bit needs.
*SaveFiles*: nine saves bring the count over 8, where the archive gets a name of the next octal group; two crashes reach
every mixture of two cut saves, and the stop reaches the branch for an archive that is the main file's. *UidTable*: the table
grows twice, once while a slot is held; two objects can take each other's UID. *TimedFunctions*: two objects are the owner of
a function and the one that gets its UID, two UIDs let the second come while the first is there; with delay 1 a function is
saved, loaded and run in a later tick; functions do not touch each other, so one is enough. *AsyncDB*: two queries can be
overtaken or lost, three OS threads let the helper end and start again next to another thread, one lost link meets every step
of a query. *LoginHandoff*: two logins of one account and one of another whose id is the same are all the ways in which
sessions replace each other; the clock passes a lifetime once, and the requests time out before. *Connections*: two slots are
one that is used again and one that is not, two objects are the dead client and the newcomer, two addresses tell whose
counter is changed. Nobody is accepted once a slot was overtaken (`KeepAccepting`).

SaveFiles was also checked with a crash at any step of the save, ten saves, two crashes and a stop (1,015,041 states) and
with five crashes in four saves; the properties hold. `BackupsKept` was also checked with seventy saves, where the names of
the second level come round, one stop and one crash between saves (255,704 states). Connections was also checked with three
client objects and limits of one (about 10.1 million states): the invariants hold, and `LimitsKept`: an address never has
more than one client above its limit. `EntryCarriesTimeout` of TimedTicker and `OneTicketEach` of LoginTickets were checked
on the instances of `timers` and `sessions`. TimedFunctions was also checked with a third object, and with two saves (some
1.7 million states).

**Deadlock** is checked where the main loop never ends; after a crash that ends a model, `Crashed` (WorldSave) stutters. It
is not checked in `async_db` and `threads_restart`, where the server goes down or the process ends, and in `sessions`,
where all clients have come and gone and the clock has stopped at its bound.

### Fairness

- `TimedTicker`, `PeriodicTicker`, `StatusUpdates`: weak fairness of `FinishLoad` and of `Tick`, the disjunction of the
  steps inside `CWorld::_OnTick`. The main loop calls it for ever (`MainThread.cpp:24`), the loops over the
  buffers have no wait, and a callback returns; game code is not fair.
- `WorldSave`: weak fairness of `AutoSave`, which `CWorld::_OnTick` calls whenever the period is over, and of
  `ForcedStage`, a loop of `SaveForce`.
- `SaveFiles`: weak fairness of `LoadWorld \/ SaveStep`, loops without a wait; crashes and saves are not fair.
- `UidTable`: weak fairness of `StartSave` and `EndSave`, for the same reason as in WorldSave.
- `TimedFunctions`: weak fairness of `BeginTick`, `RunBuffer` and `EndTick`: the main loop calls `CWorld::_OnTick` for ever,
  and a tick goes through its buffer without a wait. Scripts, players, saves and restarts are not fair.
- `AsyncDB`: weak fairness of the steps of each OS thread and of what the main thread has begun; strong fairness of `Deliver`
  and `EnterExit`, because the main loop ticks again and again and looks for results and at the exit flag each time, while
  other calls come in between. Queries, losses and the exit flag are not fair.
- `LoginHandoff`: weak fairness of the clock, of the threads of the login server and of `Register`. One assumption is in the
  guard of `Advance`: a thread does not stall for a whole lifetime of a session between its clock reading and the mutex in
  `RegisterSession`.
- `Connections`: weak fairness of `MainLoop`, and strong fairness of `RunWorld`: the clock moves by a millisecond and the
  pause for a resync ends, so `CWorld::_OnTick` is not left out for ever. A send takes what the queue has, or fails, and a
  connection that is being closed gets no packets from others. `Send`, `Kick` and what clients do are not fair.

### Findings

The violation run ends in a state the code reaches and its documents exclude; the steps are in `findings`:

1. *A restart that ends the process* (`threads.cpp:212`): `ThreadHolder::push` numbers threads with a counter of all
   registrations, which `remove` does not lower; the thread that the monitor starts in place of a hanging one gets a number
   behind the end of the list, and `markThreadStarted` throws where nothing catches. The same happens to any thread that
   is registered for the first time after another was removed.

### Definitions that do not hold and are no run

The modules state them, and the constants named here show the counterexample with TLC.

- `TimedTicker!TickOnlyWhenExpired` (`CWorldTicker.cpp:1133`): the buffer is fixed before the first callback and the timeout
  of each object is cleared unread when its turn comes; an object that an earlier callback re-armed for later, or whose
  timer it cleared, ticks at once.
- `PeriodicTicker!OneTickPerPeriod` with `Meddling = TRUE` (`CWorldTicker.cpp:522`): a callback that puts a waiting character
  to sleep and wakes it registers it twice.
- `WorldSave!CountsOnlyUntrapped` with `Faults = {"throw"}` (`CWorld.cpp:938`): a stage that throws is skipped, and the save
  with its hole is counted as complete.
- `WorldSave!CompleteSaveHoldsChars` with `Ships = TRUE` and `Reach = FALSE` (`CCharAct.cpp:5331`): `MoveToChar` moves a logged out
  player with `SetDisconnected`, which puts it in the list of the other sector and compares no parities, as
  `MoveCharToSector` does ("Save out the CChar now. the sector has already been saved.", `CSector.cpp:1035`). Carried by a
  ship from a sector not yet written into a written one, the player is not in the save, which is counted.
- `SaveFiles!GivesUpOnlyWithoutBackup` (`CWorld.cpp:1422`), with `MaxStarted = 5`, `MaxCrashes = 3`: after three cut saves in a
  row the archive of the count in the main files names the same count again, and LoadWorld takes that for an endless loop.
- `Connections!SafelyRemoved`: `~CClient` logs "Client being deleted without being safely removed from the network system."
  (`CClient.cpp:137`). The slot of a connection is cleared at the end of a pass; the next pass begins in the same
  millisecond, so `CWorld::_OnTick` returns at once; a client connects and gets that slot, the table having gone round; the
  next tick of the world destroys the dead client's object. Its destructor finds the newcomer's slot: it lowers the
  counters of the newcomer's address instead of its own (the `ASSERT` at `CClient.cpp:102` may fail in a debug build),
  may close the newcomer for reading (`CharDisconnect`), and logs that line. `CountsAgree` says how far the counters
  still agree: their sums always do, those of an address until `overtaken`.
- `TimedTicker!NoCharTicksAsleep`: a callback puts to sleep a character that waits in the buffer; it ticks asleep.
- `PeriodicTicker!EraseNamesEntry` with `Meddling = TRUE`: withdrawing a waiting character requests an erase that names
  nothing, and the unsigned difference of the sizes may wrap.
- `StatusUpdates!ChangeIsSent` (`CObjBase.cpp:3344`-`3370`): "we need to check again until there's some client to send it to".
  An item whose update finds no client who sees it keeps its dirty flag, but has left the queue, and nothing puts it there
  again before its next change (a character is tried again in its periodic tick). A change that a script makes within the
  object's own update is queued, but its flag is cleared with the one that was sent, so the next update sends nothing; `ChangeIsSent` does not see
  that one.
- `TimedTicker!NoDanglingEntry`, `StatusUpdates!NoDanglingUpdate` and `PeriodicTicker!NoDanglingEntry` without their exceptions
  (`collected`, `swept`, `Meddling = FALSE`): an object is deleted, or in the buffer and found broken, and a callback that
  runs before its turn collects garbage (`CWorld.cpp:572`). Its destructor withdraws it from the lists, not from the buffer
  (`CWorldTicker.cpp:1133`), and the loop goes on to freed memory.
- `StatusUpdates!FlagTellsQueue` and `NoDanglingUpdate` speak of a server whose first load succeeds: after one that failed
  the lists keep pointers to destroyed objects and may hold an object twice.
- `WorldSave!SkippedIsSaved` with `Faults = {"space"}`: the parity is not flipped back when a save is broken off, and the
  next save takes sectors for written.
- `WorldSave!SaveCompletes` with `Background = FALSE` and `Faults = {"accounts"}`: the files stay open and an automatic
  save returns at once, until somebody saves by force.
- `WorldSave!CompleteSaveHoldsItems` with `Reach = TRUE`: an item picked up over the border of a sector that is written
  already, or dropped there, is missing from the save or there twice.
- `UidTable!ListIsUsed`: the offset of the free list is left behind its last entry, so the list that the garbage
  collection fills is never read (theorem `FreeListIsDead`). The search after it finds a slot all the same.
- `TimedFunctions!NoStrangers`: `DeleteCleanup` clears the functions of an object once; a script line after `REMOVE` may add
  another (`r_Verb` does not look at `SF_DELETING`). The object's destructor moves it to `m_ObjDelete` while that is being
  cleared, so it outlives the object by a tick; if the UID is given away within it, its command runs on the newcomer.
- `TimedFunctions!StoppedStaysStopped`: "TIMERF STOP,functionname to stop a specific timerf"
  (`docs/changelogs/Changelog-56c-PreRelease.txt:24`). A function in the buffer of the tick, or due in the tick that
  destroys it, runs all the same: `_OnTick` does not look where it is.
- `TimedFunctions!NoneDangles`: `SERV.GARBAGE`, or the start of a save (`SERV.SAVE`), from a callback clears `m_ObjDelete` in
  the middle of a tick; a function that was stopped and waits in the buffer is destroyed there, and the loop goes on to its
  pointer (`CWorldTicker.cpp:1126`), as it does with any object (TimedTicker).
- `TimedFunctions!OnFileWithObject`: an object that is created in a sector written already, during a background save, is
  left to the next one, its functions are not. After a restart their command finds nobody.
- `AsyncDB!ConnectedHasLink` holds, but is not enough: `isConnected` is read before the mutex (`CDataBase.cpp:102`, `115`).
  The helper finds the flag set, the main thread closes the connection, and `mysql_query` gets a null pointer: `UseLink`
  with `link = "null"` sets `aborted`, which the liveness properties of `async_db` allow for.
- LoginHandoff: that every session which is stored is relayed. The shard reads the request with one `recv`
  (`CInternalApiServer.cpp:247`) and `http.client` sends headers and body as two segments, so a good request may be refused;
  and an answer later than the timeout leaves a session that nobody presents. `ImplementsTickets` allows both.

Seen on the way: a stage writes one sector more than `sphere.ini:181` says; a crash after the world file is emptied and
before its header leaves no count, and LoadWorld gives up at once; the save numbered 0 is overwritten in place by the
one after a restart; a data file that is not whole is loaded (`CWorld.cpp:1394`, a TODO). `RecoversLatest` names the cases
it leaves out. A limit for the connections of an address is compared with `>` before the newcomer is counted
(`CNetworkManager.cpp:158`), so one more is let in than `CONNECTINGMAXIP` or `CLIENTMAXIP` says; a script that returns -1
from `f_onserver_connectreq_ex` ("do not block") finds the socket closed all the same. `ConsumeSession` spends the session
before the password is checked once more; an id of 0, one CRC32 in 2^32, is refused. A connection that says nothing holds
`T_InternalApi` in `recv`. The second unlock of the queue's mutex in `CDataBaseAsyncHelper::tick` has no effect with POSIX
recursive mutexes only. A request to terminate that comes before the first statement of `run` is cleared there
(`threads.cpp:603`); the exit flag, which the loop looks at as well, is what makes `ThreadsEnd` hold.

## 5. What is proved

For every value of the constants that the named assumptions allow, checked by TLAPS to the last leaf.

**TimedTicker_proofs.** The inductive invariant is `TypeOK`, `ListsAgree` (flags against vectors, one entry per object, every
erase request names an entry), `BufferOK` (the buffer has one entry per object and is empty outside the loop) and
`GoneUnlisted` (an object that does not exist has neither flag set, and waits in the buffer or ticks only if garbage was
collected in this tick). The flags alone
are not inductive: an identity may come to life again, and would then start with a flag or an entry of its former life;
and the end of a tick may register the object anew only because it is no longer in the buffer. From
`IInvariant` follow `FlagsAreRight`, `NoDoubleEntry`, `EraseIsWithinMain` (the unsigned difference never wraps),
`NothingDangles`, `ArmedStaysScheduled`, `EntriesOnTime` (flag, entry and timer agree on the time, through sleep, which keeps the
timer and drops the entry, and the deferred merge), and `TickerImplementsRegistry`: each action is mapped to an action of
TimerRegistry or a stutter, with one lemma per kind of step. `TypeCorrect` is `TypeOK` of the module;
type invariants are proved (`FilesTypeCorrect` for SaveFiles, `ConnectionsTypes` for Connections, within the inductive
invariants elsewhere) rather than run.

**TickerQueues_proofs.** For PeriodicTicker under `~Meddling` (no callback touches a character that waits in the buffer; any
number of characters, any periods), `TickInv` says that a character with a pending tick has exactly one place, in an add
request, in the main list without an erase request, or in the buffer, and there the time of that tick (`ListInv`,
`PlaceInv`, `PendingInv`); who waits is due and alive (`TurnInv`). None of the vectors can be spoken of alone: that the erase
of a first match takes the right entry needs that no other vector has one. From there on the bags are sets, and
`RegisteredOnceAlways`, `EraseNamesEntryAlways`, `NoDanglingEntryEver`, `AwakeStaysRegisteredAlways` and
`OneTickPerPeriodAlways` follow. `~Meddling` is needed: see section 4. For StatusUpdates, `ListFlagInv` holds on every server
(nobody has the list flag, so the erase list is never used: `NothingToEraseEver`), `FirstLoadInv` until a load fails (the
flag tells who is in the add list, once, nothing destroyed is queued, nor waits but by a garbage collection, and who is owed
an update is queued, waits, or is being deleted). `FlagTellsQueueAlways`, `NoDanglingUpdateEver` and `OwedIsQueuedAlways`, the
safety half of `RequestsAreServed`, follow. For both modules a garbage collection is one more way to be destroyed, and a step
onto a destroyed object (`RunIntoDestroyed`, `UpdateDestroyed`) touches none of the lists.

**WorldSave_proofs.** Under `Quiet` (files open, stages do not throw, no ship sails; the accounts may fail; any number of
sectors, characters and items), the inductive invariant relates the three parities, the stage and the files: the files are
all open or all closed; between saves every sector has the bit of the world, and during one every sector below the stage has;
a character has the bit of its sector; what was in the world since the save began is in the files once if its sector has the
bit of the world, and not at all otherwise (`CharInv`, and, unless somebody reaches over a border, `ItemInv`, where an item
goes with the character that carries it); characters in `m_ObjNew` have the bit of the world unless the garbage collection is
still to come. `BitOfPlace` and `EveryCharSaved` follow, and with `~Reach` also `EveryItemSaved`. These conditions are
needed: the cases of section 4 with `Ships`, with `Reach` and with the other faults are what happens without them. What holds
without `Quiet` is `NoCharTwiceEver`, from an invariant of its own (`OnceInv`): a character that the files hold has the bit
of the world, so nothing that looks at the bit writes it again.

For SaveFiles, with any number of backup levels, saves, stops and crashes in any steps, `DiskInv` says that there is a count
`m` up to which all archives are sound: the files that can be restored under a name are of one save, and no header leads
beyond `m`. While a save moves the files, the archive of the count is neither old nor new; what is known of it then is said
of the file where its content is at the moment (`Source`), and that a load can begin from the main files only by
their count or finds none. `FilesInSyncAlways` follows. `RecoversLatestAlways` adds `RecoverInv`: after whole saves the main
files have the last one; after one that was cut short they name the archive that has it, or name none, and the second case
is the one that `RecoversLatest` leaves out. `BackupsKeptAlways` is about a process that is not killed while it saves (`Uncut`):
`KeptInv` says which backups a save under way leaves alone, and rests on `NamesRepeat`: counts with the same trailing octal
zeros and the same digit before them are eight times the weight of that digit apart. As the provers know nothing of
powers, the weights are a recursive function, whose existence and values `OctalDefined` and `OctalWeights` prove first.
`AtMostTwoBackAlways` is the safety half of `ServerComesUp`: LoadWorld goes back to the archive that the main files name and,
if that was cut short too, to the one that it names, which is whole. The counts do not fall on the way (after two saves that
were cut short they may go from 1 to 2), so the proof does not go by them: `BackInv` says of every archive that can be named
next that it loads or leads to one that loads (`LeadsBack`), also while a save has moved some of the files. The property
`AtMostTwoBack` is in no run; TLC checked it and `BackInv` with five saves and four crashes (843,873 states).

**UidTable_proofs.** The inductive invariant is `TypeOK`, `LinkedBothWays`, `NoneHasNoUid` (an object that does not exist
has no UID, or its destructor would free the slot of another) and `ListSpent` (the offset of the free list lies behind
its last entry whenever an entry is not 0). `UidsAreLinked`, `UidsAreKept`, `TableGrowsWhenFull` and `FreeListIsDead`
follow; `TableGrowsWhenFull` rests on the lemma `ProbesReachAll`, that the wrapping search visits every slot from
wherever it starts.

**TimedFunctions_proofs.** The inductive invariant says what a UID means: in the world it names one object, which is not held
(`UidsName`); in the open files it names the object it was written for, or is held (`PartFits`); on file it names one
object (`Sound`). A function's owner bears its UID (`OwnersBear`), and a function that is its object's own has an owner,
not deleted as long as the function is listed (`OwnHaveOwner`): that is what the order of steps in `Delete`, the
destructors and the garbage collection must keep. Without `PartFits`, a restart could load a function for an object that
was written for its UID later in the same save. `CommandsHitTheirObject` and `FunctionsKeepTheirObject` follow, for any
number of objects, functions, UIDs, saves and restarts.

**LoginHandoff_proofs.** The inductive invariant says for each party what it may rely on: the login server relays only after
the session was stored (`ReqInv`); a request waits once and has stored nothing (`BacklogInv`); where `T_InternalApi` and the
main thread of the shard are, and that what the latter searches had not expired at its clock reading (`ApiInv`, `GameInv`);
registry and history agree (`SessInv`). `NobodyEntersLate`, `RefusedForCause` and `HandoffImplementsTickets` (each action
maps to one of LoginTickets or a stutter) follow, for any logins, ids, lifetimes and restarts. `EntriesHaveTickets` is then
proved of the contract alone: there is a one-to-one assignment of sessions that are used up to the clients that entered
(`OneTicketEach` of LoginTickets), so no account has more entries than logins with the right password.

**Connections_proofs.** The inductive invariant relates the table, the objects and the list of the thread: a slot in use is
that of an object which refers back to it and does not wait for its destruction, a free slot is closed and empty
(`OwnerInv`); an object has its slot or waits for its destruction (`ObjInv`); a slot in use is queued or listed exactly once
(`ListInv`); the loops come to slots in use only (`TodoInv`); an object finds its own address in its slot unless it was
overtaken (`PeerInv`). `OwnData` is not inductive without `OwnerInv`, which tells why `PacketSend::target` suffices.
`SlotsListedOnce`, `NobodyElsesData` and `AddressesCounted` (the counters of each address, until a slot was overtaken) follow
for any number of slots, clients, addresses and limits. `SameOwners` gathers the actions that leave the owners alone.
`CountersAgree`, all of `CountsAgree`, needs the sums over the addresses as well: each step changes the counters of one
address by one (`SumOfOneMore`) and the client objects by one, even if the address is the wrong one (`TotalInv`), as long as
every object's slot has some address (`PeersKnown`). `LimitsAlwaysKept` (`LimitsKept`, which is in no run) says that the `>`
in the test of the limits costs one client and no more: only `Accept` counts upwards.

**AsyncDB_proofs.** For any objects, OS threads, queries and losses of the link. `ThreadInv` is about start, run, terminate
and waitForClose, which share plain members without a lock: whose thread a handle is, which threads may be without one
(`RunnerInv`), that before the exit flag nothing leaves its loop (`ExitInv`), that a thread started in time signals its end
itself (`HandleInv`) and whoever is waited for is awake or will wake (`WaitInv`). `OneThreadEachAlways` and
`NoThreadIsCancelledAlways` follow. `QueryInv` lays the queries out in one line: delivered, waiting as results, at work (one
at most, because of `OneThreadEach`), in the queue, with consecutive numbers (`OrderInv`); `QueriesKeptAlways` and
`DatabaseImplementsQueryService`, where each step maps to one of QueryService or a stutter, follow. `ConnectedHasLinkAlways`
says that the flag of the connection never stands without the pointer.

Every safety invariant, action property and refinement that a passing run checks is stated by one of these theorems, for
every value of the constants (with `~Meddling`, and `Quiet` and `~Reach`, where the run has them as well).

**Only model-checked**: all liveness (fairness and ENABLED are out of the prover's reach), and the registry of Threads with
its violation, whose `Remove` is a recursive definition of the library. What such a definition computes for every input cannot be
had from the library's induction theorems, which take an operator as parameter; where a proof needs induction over numbers
or finite sets, it takes a smallest counterexample from `WFMin` (`GroupExists`, `WeightsExist`, `FromTheEmptySet`).

## 6. What is abstracted

Names, texts, positions, the layout of files, prices, statistics. Times are small integers and stop at `Horizon`; in the code
they are 64-bit milliseconds that do not wrap in the life of a server. TimedTicker has no ties by the order of pointers:
equal times may tick in any order. WorldSave has no statics and no separate file of accounts. SaveFiles has no file that does
not open (WorldSave has). UidTable leaves out `CloseAllUIDs` and `SERIAL` while a save is under way, where the code takes a
place holder for an object (`CWorld.cpp:387`), which is undefined behaviour. Threads takes the accesses to plain members for
atomic, and the objects for started and closed by one thread; AsyncDB leaves out that `f_onserver_exit` may overlap the last
tick of `T_Main` (`spheresvr.cpp:276`). LoginHandoff leaves out the shared secret, the handshake before the password, and the
status requests. Connections leaves out bans and the count of requests (anyone may be refused), byte quotas, the order of
priorities, which kind of unfinished client is timed out, that a packet of the highest priority still gets to a closing
connection, and an exception in the middle of `CNetworkManager::tick` (`CNetworkManager.cpp:441`-`532`: nothing in its loop
throws by itself), which would leave out the rest of the pass; the tick of the server, which follows the handlers of packets,
falls into the same step. TimedFunctions has `ForceGarbageCollect = 1`, its default, no `SERIAL` in a running script, no save
that fails, and no load that goes back to an archive; of damaged lines only this was seen: after a bad `TimerFNumbers` the
command stays in the buffer of `Load`, the next `TimerFCall` is refused, and its numbers go with the old command
(`CTimedFunctionHandler.cpp:126`).

## 7. Plan

Done, in this order: TimedTicker with TimerRegistry and proofs, PeriodicTicker, StatusUpdates, WorldSave and proofs,
SaveFiles, UidTable and proofs, Threads, AsyncDB with QueryService, LoginHandoff with LoginTickets and proofs, Connections
and proofs, TimedFunctions and proofs, proofs of AsyncDB, PeriodicTicker, StatusUpdates and SaveFiles. Next:

1. **Sector sleep** over TimedTicker: `_CanSleep` and `_GoSleep` of a sector and its objects.
2. **Composition** of WorldSave and UidTable: a deletion between two stages, the place holders and the files.
3. **Connections** with `NetworkThreads>0`: the slots of the table read by another thread while `clear` runs.
4. **Parties, stones**: mutual membership and wars, lists on both sides.

Theorems next: a bound on what is lost when three saves in a row are cut; the theorems of the modules above.
