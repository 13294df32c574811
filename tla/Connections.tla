---------------------------- MODULE Connections ----------------------------
(***************************************************************************)
(* The table of network slots (CNetworkManager.cpp, CNetState.cpp,         *)
(* CNetworkThread.cpp, CNetworkInput.cpp, CNetworkOutput.cpp), the client  *)
(* objects (CClient.cpp) and the counters kept for an address              *)
(* (CIPHistoryManager.cpp), with the settings NetworkThreads=0 and         *)
(* UseAsyncNetwork=0: everything runs in T_Main, one pass after another    *)
(* (Sphere_OnTick).  A pass ticks the world, accepts one connection,       *)
(* receives and processes, ticks the server, sends, clears the slots of    *)
(* closed connections and receives, processes and sends once more.         *)
(*                                                                         *)
(* A slot is cleared at the end of a pass, but its client object is only   *)
(* queued and destroyed by a later tick of the world, which a pass leaves  *)
(* out if the clock has not moved by a millisecond.  Until then the object *)
(* refers to a slot that may be another client's.                          *)
(*                                                                         *)
(* Abstracted: a packet is the client it was made for, received bytes are  *)
(* the client they came from; the priority of a packet (what waits for a   *)
(* closing connection may be of the highest, which is still sent, or not); *)
(* the order of a queue and of the list of the thread; bans and the number *)
(* of connection requests (anyone may be refused at any time); byte quotas;*)
(* which client that has not entered is timed out (in the code, one whose  *)
(* connection is of no known type yet).                                    *)
(* A send takes all that the queue has, or fails.                          *)
(***************************************************************************)
EXTENDS Integers, FiniteSets, Functions

CONSTANTS
  SlotsQty,        \* m_stateCount
  Clients,         \* bound: the client objects that exist at a time
  None,            \* no client
  IPs,
  ConnectingMaxIP, \* 0: no limit
  ClientMaxIP,     \* 0: no limit
  KeepAccepting    \* bound: if FALSE, nobody is accepted once a slot is overtaken

ASSUME ConnectionsAssumption ==
  /\ SlotsQty \in Nat \ {0}
  /\ Clients \subseteq Nat /\ IsFiniteSet(Clients) /\ None \notin Clients
  /\ IsFiniteSet(IPs)
  /\ ConnectingMaxIP \in Nat /\ ClientMaxIP \in Nat
  /\ KeepAccepting \in BOOLEAN

VARIABLES
  step,     \* where Sphere_OnTick is
  inner,    \* CNetworkThread::tick is running
  todo,     \* the slots the running loop has not come to
  lastSlot, \* m_lastGivenSlot
  conn,     \* m_states of the manager: the CNetState of a slot
  queued,   \* how often a slot is in m_assignQueue
  listed,   \* how often a slot is in m_states of the thread
  obj,      \* the CClient objects
  doomed,   \* m_ObjSpecialDelete
  alive,    \* m_iAliveSuccessfulConnections
  pending,  \* m_iPendingConnectionRequests
  overtaken \* history: a slot was given to a client of another address while
            \* an object that waits for its destruction refers to it

pass  == <<step, inner, todo>>
table == <<lastSlot, conn, queued, listed>>
count == <<alive, pending>>
vars  == <<pass, table, obj, doomed, count, overtaken>>

Slots  == 0 .. SlotsQty - 1
Steps  == {"world", "game", "delete", "accept", "process", "output", "manage"}
Types  == {"pre", "full"} \* CONNECT_UNK, CRYPT and LOGIN; GAME, HTTP, TELNET, UOG, AXIS
NetState == [inUse : BOOLEAN, readClosed : BOOLEAN, writeClosed : BOOLEAN,
             client : Clients \cup {None}, peer : IPs \cup {None},
             parent : BOOLEAN, out : SUBSET Clients, in : SUBSET Clients]
Object   == [net : Slots, type : Types, char : BOOLEAN, home : IPs]
NoObject == [net |-> 0, type |-> "none", char |-> FALSE, home |-> None]

TypeOK ==
  /\ step \in Steps /\ inner \in BOOLEAN /\ todo \subseteq Slots
  /\ lastSlot \in Slots \cup {-1}
  /\ conn \in [Slots -> NetState]
  /\ queued \in [Slots -> Nat] /\ listed \in [Slots -> Nat]
  /\ obj \in [Clients -> Object \cup {NoObject}]
  /\ doomed \subseteq Clients
  /\ alive \in [IPs -> Int] /\ pending \in [IPs -> Int]
  /\ overtaken \in BOOLEAN

Exists(c)  == obj[c].type # "none"
PreGame(c) == obj[c].type = "pre"
Peer(c)    == conn[obj[c].net].peer
Closing(s) == conn[s].readClosed \/ conn[s].writeClosed
Closed(s)  == conn[s].readClosed /\ conn[s].writeClosed
InUseBy(s, c) == conn[s].inUse /\ conn[s].client = c
Open(c)    == InUseBy(obj[c].net, c) /\ ~Closing(obj[c].net)
Listed     == {s \in Slots : listed[s] > 0}

(* CNetState::clear: the address and the thread stay. *)
Clear(state) ==
  [state EXCEPT !.inUse = FALSE, !.readClosed = TRUE, !.writeClosed = TRUE,
                !.client = None, !.out = {}, !.in = {}]

InitState(state, c, ip) ==
  [Clear(state) EXCEPT !.inUse = TRUE, !.readClosed = FALSE,
                       !.writeClosed = FALSE, !.client = c, !.peer = ip]

\* Mutant of Target: isInUse() without the client.
TargetInUse(c) == conn[obj[c].net].inUse

(* PacketSend::target: the slot must still be this client's. *)
Target(c) == InUseBy(obj[c].net, c)

(* QueuePacket: nothing is queued on a slot that is closed for writing. *)
Queue(state, c) ==
  IF state.writeClosed THEN state ELSE [state EXCEPT !.out = @ \cup {c}]

MarkReadClosed(state) == [state EXCEPT !.readClosed = TRUE]

(* A client that becomes fully connected is not pending any more. *)
SetConnectType(c, type) ==
  pending' = IF type = "full" /\ PreGame(c)
             THEN [pending EXCEPT ![Peer(c)] = @ - 1]
             ELSE pending
LaterTypes(c) == IF PreGame(c) THEN Types ELSE {"full"}

\* -- The world --------------------------------------------------------------

(* CWorld::_OnTick returns at once if the clock shows the millisecond of the *)
(* last tick, or during the pause for a resync.                              *)
SkipWorld ==
  /\ step = "world"
  /\ step' = "accept"
  /\ UNCHANGED <<inner, todo, table, obj, doomed, count, overtaken>>

RunWorld ==
  /\ step = "world"
  /\ step' = "game"
  /\ UNCHANGED <<inner, todo, table, obj, doomed, count, overtaken>>

WorldTicked ==
  /\ step = "game"
  /\ step' = "delete"
  /\ UNCHANGED <<inner, todo, table, obj, doomed, count, overtaken>>

(* Game code runs in the tick of the world, in the handlers of packets and,  *)
(* when these are done, in the tick of the server.  It finds clients by the iterator, which skips *)
(* slots that are closed or another's, and by the character they play.       *)
GameCode == step \in {"game", "process"}
Found(c) == Exists(c) /\ (obj[c].char \/ Open(c))

Send(c) ==
  /\ GameCode /\ Found(c)
  /\ Target(c) /\ ~Closing(obj[c].net)
  /\ conn' = [conn EXCEPT ![obj[c].net] = Queue(@, c)]
  /\ UNCHANGED <<pass, lastSlot, queued, listed, obj, doomed, count, overtaken>>

(* Whoever ends a connection marks the slot of the client, some after a last *)
(* packet, some after CharDisconnect.  Nobody asks whose the slot is now.    *)
Kick(c) ==
  /\ GameCode /\ Found(c)
  /\ \E told \in {FALSE, Target(c) /\ ~Closing(obj[c].net)} :
       conn' = [conn EXCEPT ![obj[c].net] =
                  MarkReadClosed(IF told THEN Queue(@, c) ELSE @)]
  /\ \E plays \in {FALSE, obj[c].char} : obj' = [obj EXCEPT ![c].char = plays]
  /\ UNCHANGED <<pass, lastSlot, queued, listed, doomed, count, overtaken>>

(* ~CClient: the counters are those of the address that the slot has now;    *)
(* CharDisconnect closes the slot for reading if the character logs out at   *)
(* once (CChar::SetDisconnected).  It runs after the tick of the world, and   *)
(* before it when game code has garbage collected.                           *)
Destroy(c) ==
  /\ step = "delete" \/ GameCode
  /\ c \in doomed
  /\ pending' = IF PreGame(c) THEN [pending EXCEPT ![Peer(c)] = @ - 1] ELSE pending
  /\ alive' = [alive EXCEPT ![Peer(c)] = @ - 1]
  /\ \E atOnce \in {FALSE, obj[c].char} :
       conn' = IF atOnce THEN [conn EXCEPT ![obj[c].net] = MarkReadClosed(@)] ELSE conn
  /\ obj' = [obj EXCEPT ![c] = NoObject]
  /\ doomed' = doomed \ {c}
  /\ UNCHANGED <<pass, lastSlot, queued, listed, overtaken>>

Deleted ==
  /\ step = "delete" /\ doomed = {}
  /\ step' = "accept"
  /\ UNCHANGED <<inner, todo, table, obj, doomed, count, overtaken>>

\* -- Accepting --------------------------------------------------------------

TooMany(ip) ==
  \/ ConnectingMaxIP > 0 /\ pending[ip] > ConnectingMaxIP
  \/ ClientMaxIP > 0 /\ alive[ip] > ClientMaxIP

(* findFreeSlot goes round the table from the slot it gave last. *)
Turn(s) == (s - lastSlot - 1) % SlotsQty
NextFree(s) ==
  /\ ~conn[s].inUse
  /\ \A t \in Slots : conn[t].inUse \/ Turn(s) <= Turn(t)

NextObject(c) == ~Exists(c) /\ \A d \in Clients : Exists(d) \/ c <= d

Accept(ip) ==
  /\ step = "accept" /\ ~TooMany(ip)
  /\ overtaken => KeepAccepting
  /\ \E s \in Slots, c \in Clients :
       /\ NextFree(s) /\ NextObject(c)
       /\ lastSlot' = s
       /\ conn' = [conn EXCEPT ![s] = InitState(@, c, ip)]
       /\ queued' = [queued EXCEPT ![s] = @ + 1]
       /\ obj' = [obj EXCEPT ![c] = [net |-> s, type |-> "pre", char |-> FALSE, home |-> ip]]
       /\ overtaken' = (overtaken \/ \E d \in doomed : obj[d].net = s /\ obj[d].home # ip)
  /\ alive' = [alive EXCEPT ![ip] = @ + 1]
  /\ pending' = [pending EXCEPT ![ip] = @ + 1]
  /\ step' = "process" /\ todo' = Listed
  /\ UNCHANGED <<inner, listed, doomed>>

(* Nobody is there, or is refused: for the limits, a ban, too many requests, *)
(* no free slot.                                                             *)
NoAccept ==
  /\ step = "accept"
  /\ step' = "process" /\ todo' = Listed
  /\ UNCHANGED <<inner, table, obj, doomed, count, overtaken>>

\* -- Input ------------------------------------------------------------------

(* The slots are read and processed one after another, in any order: a slot  *)
(* that is read before others are processed comes first.                     *)
Inputs(s) == step = "process" /\ s \in todo /\ todo' = todo \ {s}

(* The connection is closed for reading, or nothing comes. *)
PassOver(s) ==
  /\ Inputs(s)
  /\ UNCHANGED <<step, inner, table, obj, doomed, count, overtaken>>

(* receiveData: the other side has closed the connection, or there is an error. *)
HangUp(s) ==
  /\ Inputs(s)
  /\ ~Closing(s)
  /\ conn' = [conn EXCEPT ![s] = MarkReadClosed(@)]
  /\ UNCHANGED <<step, inner, lastSlot, queued, listed, obj, doomed, count, overtaken>>

(* What comes waits: the server is loading, or the message is not complete. *)
Keep(s) ==
  /\ Inputs(s)
  /\ ~Closing(s)
  /\ conn' = [conn EXCEPT ![s].in = @ \cup {conn[s].client}]
  /\ UNCHANGED <<step, inner, lastSlot, queued, listed, obj, doomed, count, overtaken>>

(* Nothing has come for DeadSocketTime. *)
Frozen(s) ==
  /\ Inputs(s)
  /\ ~conn[s].readClosed /\ conn[s].in = {}
  /\ conn' = [conn EXCEPT ![s] = MarkReadClosed(Queue(@, @.client))]
  /\ UNCHANGED <<step, inner, lastSlot, queued, listed, obj, doomed, count, overtaken>>

(* processData: the client may become something else, enter with a character *)
(* or leave it, be answered, be refused.                                     *)
Handle(s) ==
  /\ Inputs(s)
  /\ ~conn[s].readClosed /\ (conn[s].in # {} \/ ~Closing(s))
  /\ LET c == conn[s].client IN
       /\ \E type \in LaterTypes(c) : \E plays \in {FALSE, type = "full"} :
            /\ SetConnectType(c, type)
            /\ obj' = [obj EXCEPT ![c] = [@ EXCEPT !.type = type, !.char = plays]]
       /\ \E answered \in BOOLEAN, refused \in BOOLEAN :
            conn' = [conn EXCEPT ![s] =
              [(IF answered THEN Queue(@, c) ELSE @) EXCEPT !.readClosed = refused, !.in = {}]]
  /\ UNCHANGED <<step, inner, lastSlot, queued, listed, doomed, alive, overtaken>>

Processed ==
  /\ step = "process" /\ todo = {}
  /\ step' = "output" /\ todo' = Listed
  /\ UNCHANGED <<inner, table, obj, doomed, count, overtaken>>

\* -- Output -----------------------------------------------------------------

(* In the loops that follow no slot depends on another: one order will do. *)
IsNext(s) == s \in todo /\ \A t \in todo : s <= t

Outputs(s) == step = "output" /\ IsNext(s) /\ todo' = todo \ {s}

NothingToWrite(s) ==
  /\ Outputs(s)
  /\ conn[s].writeClosed
  /\ UNCHANGED <<step, inner, table, obj, doomed, count, overtaken>>

(* checkFlushRequests: nothing, or nothing of the highest priority, is left  *)
(* to be sent to a closing connection.                                       *)
CloseForWriting(s) ==
  /\ Outputs(s)
  /\ Closing(s) /\ ~conn[s].writeClosed
  /\ conn' = [conn EXCEPT ![s].writeClosed = TRUE]
  /\ UNCHANGED <<step, inner, lastSlot, queued, listed, obj, doomed, count, overtaken>>

(* processPacketQueue: the lowest queues may have to wait; a failure empties *)
(* the queues and closes the connection for writing.  The packet that relays *)
(* a client makes it a game client once it is sent.                          *)
WriteQueues(s) ==
  /\ Outputs(s)
  /\ ~conn[s].writeClosed /\ (Closing(s) => conn[s].out # {})
  /\ \E failed \in {FALSE, conn[s].out # {}}, waits \in {FALSE, ~Closing(s)} :
       conn' = [conn EXCEPT ![s].out = IF waits /\ ~failed THEN @ ELSE {},
                            ![s].writeClosed = failed]
  /\ LET c == conn[s].client IN
       \E type \in {obj[c].type} \cup (IF PreGame(c) /\ conn[s].out # {}
                                       THEN {"full"} ELSE {}) :
         SetConnectType(c, type) /\ obj' = [obj EXCEPT ![c].type = type]
  /\ UNCHANGED <<step, inner, lastSlot, queued, listed, doomed, alive, overtaken>>

Written ==
  /\ step = "output" /\ todo = {}
  /\ inner' = FALSE
  /\ IF inner THEN step' = "world" /\ todo' = {}
              ELSE step' = "manage" /\ todo' = {s \in Slots : conn[s].inUse}
  /\ UNCHANGED <<table, obj, doomed, count, overtaken>>

\* -- CNetworkManager::tick --------------------------------------------------

Manages(s) == step = "manage" /\ IsNext(s) /\ todo' = todo \ {s}

ClearSlot(s) ==
  /\ conn' = [conn EXCEPT ![s] = Clear(@)]
  /\ doomed' = doomed \cup {conn[s].client}

TimeOut(s) ==
  /\ Manages(s)
  /\ PreGame(conn[s].client)
  /\ ClearSlot(s)
  /\ UNCHANGED <<step, inner, lastSlot, queued, listed, obj, count, overtaken>>

LeaveOpen(s) ==
  /\ Manages(s)
  /\ ~Closing(s)
  /\ UNCHANGED <<step, inner, table, obj, doomed, count, overtaken>>

(* Something is left to be sent to a closing connection: the thread of the   *)
(* slot, if it has one yet, flushes it.                                      *)
FlushClosing(s) ==
  /\ Manages(s)
  /\ Closing(s) /\ ~conn[s].writeClosed /\ conn[s].out # {}
  /\ \/ conn[s].parent /\ \E failed \in BOOLEAN :
          conn' = [conn EXCEPT ![s].out = {}, ![s].writeClosed = failed]
     \/ ~conn[s].parent /\ UNCHANGED conn
  /\ UNCHANGED <<step, inner, lastSlot, queued, listed, obj, doomed, count, overtaken>>

\* Mutant of FinishClosing: a connection closed for writing only stays.
FinishClosingBoth(s) ==
  /\ Manages(s)
  /\ Closing(s)
  /\ IF Closed(s) THEN ClearSlot(s) ELSE UNCHANGED <<conn, doomed>>
  /\ UNCHANGED <<step, inner, lastSlot, queued, listed, obj, count, overtaken>>

FinishClosing(s) ==
  /\ Manages(s)
  /\ Closing(s)
  /\ IF conn[s].writeClosed
     THEN ClearSlot(s)
     ELSE conn' = [conn EXCEPT ![s] = MarkReadClosed(@)] /\ UNCHANGED doomed
  /\ UNCHANGED <<step, inner, lastSlot, queued, listed, obj, count, overtaken>>

\* Mutant of Forgettable: clients that have entered are not counted.
ForgettableEarly(ip) == pending[ip] = 0

(* An address is forgotten when nobody is connected from it any more. *)
Forgettable(ip) == alive[ip] = 0 /\ pending[ip] = 0

(* checkNewStates, dropInvalidStates: the thread takes over the slots that   *)
(* wait and drops those that are not in use.                                 *)
\* Mutant of Dropped: only slots without this thread are dropped.
DroppedByParent(s) == FALSE
Taken(s)   == listed[s] + queued[s]
Dropped(s) == ~conn[s].inUse

TickThread ==
  /\ step = "manage" /\ todo = {}
  /\ alive' = [ip \in IPs |-> IF Forgettable(ip) THEN 0 ELSE alive[ip]]
  /\ pending' = [ip \in IPs |-> IF Forgettable(ip) THEN 0 ELSE pending[ip]]
  /\ queued' = [s \in Slots |-> 0]
  /\ listed' = [s \in Slots |-> IF Dropped(s) THEN 0 ELSE Taken(s)]
  /\ conn' = [s \in Slots |->
       [conn[s] EXCEPT !.parent = (@ \/ queued[s] > 0) /\ ~(Dropped(s) /\ Taken(s) > 0)]]
  /\ todo' = {s \in Slots : listed'[s] # 0}
  /\ IF todo' = {} THEN step' = "world" /\ UNCHANGED inner
                   ELSE step' = "process" /\ inner' = TRUE
  /\ UNCHANGED <<lastSlot, obj, doomed, overtaken>>

-----------------------------------------------------------------------------
Init ==
  /\ step = "world" /\ inner = FALSE /\ todo = {}
  /\ lastSlot = -1
  /\ conn = [s \in Slots |->
       [inUse |-> FALSE, readClosed |-> TRUE, writeClosed |-> TRUE, client |-> None,
        peer |-> None, parent |-> FALSE, out |-> {}, in |-> {}]]
  /\ queued = [s \in Slots |-> 0] /\ listed = [s \in Slots |-> 0]
  /\ obj = [c \in Clients |-> NoObject] /\ doomed = {}
  /\ alive = [ip \in IPs |-> 0] /\ pending = [ip \in IPs |-> 0]
  /\ overtaken = FALSE

InputStep(s)  == PassOver(s) \/ HangUp(s) \/ Keep(s) \/ Frozen(s) \/ Handle(s)
OutputStep(s) == NothingToWrite(s) \/ CloseForWriting(s) \/ WriteQueues(s)
ManageStep(s) == TimeOut(s) \/ LeaveOpen(s) \/ FlushClosing(s) \/ FinishClosing(s)

MainLoop ==
  \/ SkipWorld \/ RunWorld \/ WorldTicked \/ Deleted \/ NoAccept
  \/ Processed \/ Written \/ TickThread
  \/ \E c \in Clients : Destroy(c)
  \/ \E ip \in IPs : Accept(ip)
  \/ \E s \in Slots : InputStep(s) \/ OutputStep(s) \/ ManageStep(s)

Next == MainLoop \/ \E c \in Clients : Send(c) \/ Kick(c)

Spec == Init /\ [][Next]_vars

(* T_Main goes on with its loop, and the clock moves: the world is ticked    *)
(* again and again.                                                          *)
FairSpec == Spec /\ WF_vars(MainLoop) /\ SF_vars(RunWorld)

-----------------------------------------------------------------------------
(* A slot is with the thread once, on its way in m_assignQueue or in         *)
(* m_states, exactly while it is in use; it knows its thread if it is in     *)
(* m_states.  A slot listed twice would be read and written twice in a pass, *)
(* one that is not listed would never be read, sent to or closed.            *)
SlotsListed ==
  \A s \in Slots :
    /\ queued[s] + listed[s] <= 1
    /\ conn[s].parent <=> listed[s] = 1
    /\ step # "manage" => (conn[s].inUse <=> queued[s] + listed[s] = 1)

(* What waits in a slot, to be sent or to be processed, was made for or came *)
(* from the client that has the slot now, though dead clients are still      *)
(* referred to by their characters and slots are used again.                 *)
OwnData ==
  \A s \in Slots :
    /\ conn[s].out \subseteq {conn[s].client}
    /\ conn[s].in \subseteq {conn[s].client}

(* The counters of all addresses add up to the clients there are; those of   *)
(* an address are its own clients, as long as no slot was given away before  *)
(* the client object of another address was destroyed.                       *)
Objects  == {c \in Clients : Exists(c)}
From(ip) == {c \in Objects : obj[c].home = ip}
PreFrom(ip) == {c \in From(ip) : PreGame(c)}
OwnCounts ==
  overtaken \/ \A ip \in IPs : /\ alive[ip] = Cardinality(From(ip))
                             /\ pending[ip] = Cardinality(PreFrom(ip))
CountsAgree ==
  /\ SumFunction(alive) = Cardinality(Objects)
  /\ SumFunction(pending) = Cardinality({c \in Objects : PreGame(c)})
  /\ OwnCounts

(* No address has more than one client above the limits (the counters are    *)
(* compared with >, CNetworkManager.cpp:157); that is what the counters show,*)
(* and the client objects as long as the counters are those of the address.  *)
LimitsKept ==
  \A ip \in IPs :
    /\ ClientMaxIP > 0 =>
         /\ alive[ip] <= ClientMaxIP + 1
         /\ overtaken \/ Cardinality(From(ip)) <= ClientMaxIP + 1
    /\ ConnectingMaxIP > 0 =>
         /\ pending[ip] <= ConnectingMaxIP + 1
         /\ overtaken \/ Cardinality(PreFrom(ip)) <= ConnectingMaxIP + 1

(* The client of a connection that is being closed is destroyed in the end.  *)
ClosingIsDestroyed ==
  \A c \in Clients :
    (Exists(c) /\ Target(c) /\ Closing(obj[c].net)) ~> ~Exists(c)

(* "Client being deleted without being safely removed from the network       *)
(* system": when an object is destroyed its slot is closed.                  *)
SafelyRemoved ==
  step = "delete" => \A c \in doomed : Closed(obj[c].net)
=============================================================================
