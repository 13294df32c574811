------------------------- MODULE Connections_proofs -------------------------
(***************************************************************************)
(* Proofs about Connections, for any table, addresses and limits.  The     *)
(* inductive invariant IInv relates the table, the client objects and the  *)
(* list of the thread: who has a slot, which objects wait for their        *)
(* destruction, and which slots the running loop may still come to.        *)
(* TotalInv adds the sums of the counters, which need induction over       *)
(* finite sets: by a smallest counterexample, since the provers cannot     *)
(* instantiate the library's induction theorems.                           *)
(***************************************************************************)
EXTENDS Connections, FiniteSetTheorems, WellFoundedInduction, TLAPS

\* A slot in use is that of a client whose object refers back to it and does
\* not wait for its destruction; a free slot is closed and empty.
OwnerInv == \A s \in Slots :
  IF conn[s].inUse
  THEN /\ conn[s].client \in Clients \ doomed /\ Exists(conn[s].client)
       /\ obj[conn[s].client].net = s
  ELSE /\ conn[s].client = None /\ conn[s].readClosed /\ conn[s].writeClosed
       /\ conn[s].out = {} /\ conn[s].in = {}

\* An object has its slot or waits for its destruction.
ObjInv == \A c \in Clients :
  /\ c \in doomed => Exists(c)
  /\ Exists(c) => c \in doomed \/ InUseBy(obj[c].net, c)

\* The list of the thread; the slots in use are listed while others are cleared.
ListInv == \A s \in Slots :
  /\ queued[s] + listed[s] <= 1
  /\ conn[s].parent <=> listed[s] = 1
  /\ conn[s].inUse => queued[s] + listed[s] = 1
  /\ step # "manage" /\ ~conn[s].inUse => queued[s] + listed[s] = 0

\* The loops come to slots in use only.
TodoInv == \A s \in todo : conn[s].inUse

\* An object finds the address of its client in its slot, unless overtaken.
PeerInv == overtaken \/ \A c \in Clients : Exists(c) => Peer(c) = obj[c].home

IInv == TypeOK /\ OwnerInv /\ ObjInv /\ ListInv /\ TodoInv /\ OwnData /\ PeerInv /\ OwnCounts

Structure == OwnerInv /\ ObjInv /\ ListInv /\ TodoInv /\ OwnData /\ PeerInv

----------------------------------------------------------------------------
(* Steps that leave who has which slot alone.                              *)

\* Nobody gets, loses or queues up a slot, no object comes or goes, and what
\* waits in a slot is its client's.
SameOwners ==
  /\ conn' \in [Slots -> NetState]
  /\ \A s \in Slots :
       /\ conn'[s].inUse = conn[s].inUse /\ conn'[s].client = conn[s].client
       /\ conn'[s].peer = conn[s].peer /\ conn'[s].parent = conn[s].parent
       /\ conn'[s].out \subseteq {conn[s].client} /\ conn'[s].in \subseteq {conn[s].client}
       /\ ~conn[s].inUse => /\ conn'[s].readClosed /\ conn'[s].writeClosed
                            /\ conn'[s].out = {} /\ conn'[s].in = {}
  /\ obj' \in [Clients -> Object \cup {NoObject}]
  /\ \A c \in Clients : /\ obj'[c].net = obj[c].net /\ obj'[c].home = obj[c].home
                        /\ Exists(c)' = Exists(c)
  /\ UNCHANGED <<lastSlot, queued, listed, doomed, overtaken>>

\* Where the pass goes on: with a loop over slots in use.
PassGoesOn ==
  /\ step' \in Steps /\ inner' \in BOOLEAN /\ todo' \subseteq Slots
  /\ \A s \in todo' : conn[s].inUse
  /\ step' # "manage" => step # "manage"

LEMMA NetIsSlot == ASSUME TypeOK, NEW c \in Clients PROVE obj[c].net \in Slots
<1>1. obj[c] \in Object \cup {NoObject}
  BY DEF TypeOK
<1>2. 0 \in Slots
  BY ConnectionsAssumption DEF Slots
<1> QED  BY <1>1, <1>2 DEF Object, NoObject

LEMMA SameOwnersKeep == ASSUME IInv, SameOwners, PassGoesOn PROVE Structure'
<1>1. \A s \in Slots : InUseBy(s, conn[s].client)' <=> InUseBy(s, conn[s].client)
  BY DEF SameOwners, InUseBy
<1>2. OwnerInv'
  BY DEF IInv, OwnerInv, SameOwners, Exists
<1>3. ObjInv'
  BY NetIsSlot DEF IInv, ObjInv, SameOwners, InUseBy
<1>4. ListInv'
  BY DEF IInv, ListInv, SameOwners, PassGoesOn
<1>5. TodoInv'
  BY DEF SameOwners, TodoInv, PassGoesOn
<1>6. OwnData'
  BY DEF SameOwners, OwnData
<1>7. PeerInv'
  BY NetIsSlot DEF IInv, PeerInv, SameOwners, Peer
<1> QED  BY <1>2, <1>3, <1>4, <1>5, <1>6, <1>7 DEF Structure

LEMMA SameOwnersIInv ==
  ASSUME IInv, SameOwners, PassGoesOn, OwnCounts',
         alive' \in [IPs -> Int], pending' \in [IPs -> Int]
  PROVE  IInv'
<1>1. TypeOK'
  BY DEF IInv, TypeOK, SameOwners, PassGoesOn
<1> QED  BY <1>1, SameOwnersKeep DEF IInv, Structure

\* The states that are written into a slot, field by field.
LEMMA ClearOf ==
  ASSUME NEW state \in NetState
  PROVE  /\ Clear(state) \in NetState
         /\ ~Clear(state).inUse /\ Clear(state).readClosed /\ Clear(state).writeClosed
         /\ Clear(state).client = None /\ Clear(state).out = {} /\ Clear(state).in = {}
         /\ Clear(state).peer = state.peer /\ Clear(state).parent = state.parent
<1> DEFINE shut == [[[state EXCEPT !.inUse = FALSE] EXCEPT !.readClosed = TRUE]
                      EXCEPT !.writeClosed = TRUE]
           empty == [[[shut EXCEPT !.client = None] EXCEPT !.out = {}] EXCEPT !.in = {}]
<1>1. /\ shut \in NetState /\ ~shut.inUse /\ shut.readClosed /\ shut.writeClosed
      /\ shut.peer = state.peer /\ shut.parent = state.parent
  BY DEF NetState
<1>2. Clear(state) = empty
  BY DEF Clear
<1> HIDE DEF shut
<1>3. /\ empty \in NetState /\ empty.client = None /\ empty.out = {} /\ empty.in = {}
      /\ empty.inUse = shut.inUse /\ empty.readClosed = shut.readClosed
      /\ empty.writeClosed = shut.writeClosed
      /\ empty.peer = shut.peer /\ empty.parent = shut.parent
  BY <1>1 DEF NetState
<1> HIDE DEF empty
<1> QED  BY <1>1, <1>2, <1>3

LEMMA InitOf ==
  ASSUME NEW state \in NetState, NEW c \in Clients, NEW ip \in IPs
  PROVE  LET new == InitState(state, c, ip)
         IN  /\ new \in NetState /\ new.inUse /\ new.client = c /\ new.peer = ip
             /\ new.parent = state.parent /\ new.out = {} /\ new.in = {}
<1>1. InitState(state, c, ip) =
        [inUse |-> TRUE, readClosed |-> FALSE, writeClosed |-> FALSE, client |-> c,
         peer |-> ip, parent |-> Clear(state).parent, out |-> Clear(state).out,
         in |-> Clear(state).in]
  <2> DEFINE old == Clear(state)
  <2>1. old \in NetState
    BY ClearOf
  <2> HIDE DEF old
  <2>2. old = [inUse |-> old.inUse, readClosed |-> old.readClosed,
               writeClosed |-> old.writeClosed, client |-> old.client,
               peer |-> old.peer, parent |-> old.parent, out |-> old.out, in |-> old.in]
    BY <2>1 DEF NetState
  <2>3. InitState(state, c, ip) =
          [old EXCEPT !.inUse = TRUE, !.readClosed = FALSE, !.writeClosed = FALSE,
                      !.client = c, !.peer = ip]
    BY DEF InitState, old
  <2>4. InitState(state, c, ip) =
          [inUse |-> TRUE, readClosed |-> FALSE, writeClosed |-> FALSE, client |-> c,
           peer |-> ip, parent |-> old.parent, out |-> old.out, in |-> old.in]
    BY ONLY <2>2, <2>3
  <2> QED  BY <2>4 DEF old
<1>2. state.parent \in BOOLEAN
  BY DEF NetState
<1> QED  BY <1>1, <1>2, ClearOf DEF NetState

LEMMA ParentOf ==
  ASSUME NEW state \in NetState, NEW b \in BOOLEAN, NEW new,
         new = [state EXCEPT !.parent = b]
  PROVE  /\ new \in NetState /\ new.parent = b
         /\ new.inUse = state.inUse /\ new.client = state.client
         /\ new.peer = state.peer /\ new.out = state.out /\ new.in = state.in
         /\ new.readClosed = state.readClosed /\ new.writeClosed = state.writeClosed
  BY DEF NetState

\* A new state of the slot s that keeps its owner.
SlotKept(s, new) ==
  /\ new \in NetState
  /\ new.inUse = conn[s].inUse /\ new.client = conn[s].client
  /\ new.peer = conn[s].peer /\ new.parent = conn[s].parent
  /\ new.out \subseteq {conn[s].client} /\ new.in \subseteq {conn[s].client}
  /\ ~conn[s].inUse => new.readClosed /\ new.writeClosed /\ new.out = {} /\ new.in = {}

\* What changes of the objects: neither their slots nor their addresses.
ObjectsKept ==
  /\ obj' \in [Clients -> Object \cup {NoObject}]
  /\ \A c \in Clients : /\ obj'[c].net = obj[c].net /\ obj'[c].home = obj[c].home
                        /\ Exists(c)' = Exists(c)

LEMMA OneSlot ==
  ASSUME IInv, NEW s \in Slots, NEW new, SlotKept(s, new), conn' = [conn EXCEPT ![s] = new],
         ObjectsKept, UNCHANGED <<lastSlot, queued, listed, doomed, overtaken>>
  PROVE  SameOwners
<1>1. conn' \in [Slots -> NetState]
  BY DEF IInv, TypeOK, SlotKept
<1>2. SlotKept(s, conn'[s])
  BY DEF IInv, TypeOK
<1>3. \A t \in Slots : t # s => SlotKept(t, conn'[t])
  <2> SUFFICES ASSUME NEW t \in Slots, t # s PROVE SlotKept(t, conn[t])
    BY DEF IInv, TypeOK, SlotKept
  <2> QED  BY DEF IInv, TypeOK, OwnerInv, OwnData, SlotKept
<1> QED  BY <1>1, <1>2, <1>3 DEF SlotKept, ObjectsKept, SameOwners

LEMMA NoSlot ==
  ASSUME IInv, UNCHANGED conn, ObjectsKept,
         UNCHANGED <<lastSlot, queued, listed, doomed, overtaken>>
  PROVE  SameOwners
  BY DEF IInv, TypeOK, OwnerInv, OwnData, ObjectsKept, SameOwners

LEMMA SameObjects == ASSUME IInv, UNCHANGED obj PROVE ObjectsKept
  BY DEF IInv, TypeOK, ObjectsKept, Exists

\* The same with one object that gets another type or character.
LEMMA OneObject ==
  ASSUME IInv, NEW c \in Clients, Exists(c), NEW type \in Types, NEW char \in BOOLEAN,
         obj' = [obj EXCEPT ![c] = [@ EXCEPT !.type = type, !.char = char]]
  PROVE  ObjectsKept
<1>1. obj[c] \in Object
  BY DEF IInv, TypeOK, Exists, NoObject
<1>2. obj'[c] \in Object /\ obj'[c].net = obj[c].net /\ obj'[c].home = obj[c].home
  BY <1>1 DEF IInv, TypeOK, Object
<1>3. Exists(c)'
  BY <1>2 DEF Exists, Object, Types
<1> QED  BY <1>2, <1>3 DEF IInv, TypeOK, ObjectsKept, Exists

----------------------------------------------------------------------------
(* Counting.                                                               *)

LEMMA FinitelyMany == \A ip : IsFiniteSet(From(ip)) /\ IsFiniteSet(PreFrom(ip))
<1>1. \A ip : From(ip) \subseteq Clients /\ PreFrom(ip) \subseteq Clients
  BY DEF From, PreFrom, Objects
<1> QED  BY <1>1, FS_Subset, ConnectionsAssumption

LEMMA OneLess ==
  ASSUME NEW f \in [IPs -> Int], NEW p
  PROVE  [f EXCEPT ![p] = @ - 1] \in [IPs -> Int]
<1>1. CASE p \in IPs
  <2>1. f[p] - 1 \in Int
    BY <1>1
  <2> QED  BY <1>1, <2>1
<1>2. CASE p \notin IPs
  BY <1>2
<1> QED  BY <1>1, <1>2

LEMMA SameCounts ==
  ASSUME IInv, UNCHANGED <<alive, pending, overtaken>>,
         \A c \in Clients : /\ obj'[c].home = obj[c].home /\ Exists(c)' = Exists(c)
                            /\ Exists(c) => PreGame(c)' = PreGame(c)
  PROVE  OwnCounts'
<1>1. \A ip \in IPs : From(ip)' = From(ip) /\ PreFrom(ip)' = PreFrom(ip)
  BY DEF From, PreFrom, Objects
<1> QED  BY <1>1 DEF IInv, OwnCounts

\* A client that becomes fully connected is taken from the pending ones of its address.
LEMMA TypeCounts ==
  ASSUME IInv, NEW c \in Clients, Exists(c), NEW type \in LaterTypes(c),
         SetConnectType(c, type), UNCHANGED <<alive, overtaken>>,
         \A d \in Clients : /\ obj'[d].home = obj[d].home /\ Exists(d)' = Exists(d)
                            /\ d # c => PreGame(d)' = PreGame(d),
         obj'[c].type = type
  PROVE  OwnCounts' /\ pending' \in [IPs -> Int]
<1>1. pending' \in [IPs -> Int]
  BY OneLess DEF SetConnectType, IInv, TypeOK
<1>2. CASE type = "full" /\ PreGame(c)
  <2> SUFFICES ASSUME ~overtaken PROVE OwnCounts'
    BY <1>1 DEF OwnCounts
  <2> DEFINE home == obj[c].home
  <2>1. Peer(c) = home
    BY DEF IInv, PeerInv
  <2>2. home \in IPs
    BY DEF IInv, TypeOK, Exists, Object, NoObject
  <2>3. \A ip \in IPs : /\ From(ip)' = From(ip)
                        /\ PreFrom(ip)' = IF ip = home THEN PreFrom(ip) \ {c} ELSE PreFrom(ip)
    BY <1>2 DEF From, PreFrom, Objects, PreGame
  <2>4. c \in PreFrom(home)
    BY <1>2 DEF PreFrom, From, Objects
  <2>5. Cardinality(PreFrom(home) \ {c}) = Cardinality(PreFrom(home)) - 1
    BY <2>4, FinitelyMany, FS_RemoveElement
  <2>6. \A ip \in IPs : pending'[ip] = IF ip = home THEN pending[ip] - 1 ELSE pending[ip]
    BY <1>2, <2>1, <2>2 DEF SetConnectType, IInv, TypeOK
  <2> QED  BY <2>3, <2>5, <2>6 DEF IInv, OwnCounts
<1>3. CASE ~(type = "full" /\ PreGame(c))
  <2>1. PreGame(c)' = PreGame(c)
    BY <1>3 DEF LaterTypes, PreGame, Types
  <2> QED  BY <1>1, <1>3, <2>1, SameCounts DEF SetConnectType
<1> QED  BY <1>2, <1>3

----------------------------------------------------------------------------
(* The actions that leave the owners of the slots alone.                   *)

LEMMA ListedInUse == ASSUME IInv, step # "manage" PROVE \A s \in Listed : s \in Slots /\ conn[s].inUse
  BY DEF IInv, ListInv, TypeOK, Listed

LEMMA TodoLess ==
  ASSUME IInv, NEW s \in todo, todo' = todo \ {s}, UNCHANGED <<step, inner>>
  PROVE  PassGoesOn
  BY DEF IInv, TypeOK, TodoInv, PassGoesOn

LEMMA PassStays == ASSUME IInv, UNCHANGED pass PROVE PassGoesOn
  BY DEF IInv, TypeOK, TodoInv, PassGoesOn, pass

Moves == SkipWorld \/ RunWorld \/ WorldTicked \/ Deleted \/ NoAccept \/ Processed \/ Written
Passes(s) == PassOver(s) \/ NothingToWrite(s) \/ LeaveOpen(s)

LEMMA MovesIInv ==
  ASSUME IInv, Moves \/ (\E s \in Slots : Passes(s)) \/ UNCHANGED vars PROVE IInv'
<1>1. UNCHANGED <<table, obj, doomed, count, overtaken>>
  BY DEF Moves, Passes, SkipWorld, RunWorld, WorldTicked, Deleted, NoAccept, Processed,
         Written, PassOver, NothingToWrite, LeaveOpen, vars
<1>2. PassGoesOn
  <2>1. CASE SkipWorld \/ RunWorld \/ WorldTicked \/ Deleted
    BY <2>1 DEF SkipWorld, RunWorld, WorldTicked, Deleted, PassGoesOn, IInv, TypeOK, TodoInv, Steps
  <2>2. CASE NoAccept \/ Processed
    BY <2>2, ListedInUse DEF NoAccept, Processed, PassGoesOn, IInv, TypeOK, Steps
  <2>3. CASE Written
    BY <2>3 DEF Written, PassGoesOn, IInv, TypeOK, Steps
  <2>4. CASE \E s \in Slots : Passes(s)
    BY <2>4, TodoLess DEF Passes, PassOver, NothingToWrite, LeaveOpen, Inputs, Outputs, Manages, IsNext
  <2>5. CASE UNCHANGED vars
    BY <2>5, PassStays DEF vars
  <2> QED  BY <2>1, <2>2, <2>3, <2>4, <2>5 DEF Moves
<1>3. SameOwners
  BY <1>1, SameObjects, NoSlot DEF table
<1>4. OwnCounts' /\ alive' \in [IPs -> Int] /\ pending' \in [IPs -> Int]
  BY <1>1, SameCounts DEF count, Exists, PreGame, IInv, TypeOK
<1> QED  BY <1>2, <1>3, <1>4, SameOwnersIInv

\* One slot changes, no object does.
LEMMA SlotIInv ==
  ASSUME IInv, PassGoesOn, NEW s \in Slots, NEW new, SlotKept(s, new),
         conn' = [conn EXCEPT ![s] = new],
         UNCHANGED <<lastSlot, queued, listed, obj, doomed, count, overtaken>>
  PROVE  IInv'
<1>1. SameOwners
  BY SameObjects, OneSlot
<1>2. OwnCounts' /\ alive' \in [IPs -> Int] /\ pending' \in [IPs -> Int]
  BY SameCounts DEF count, Exists, PreGame, IInv, TypeOK
<1> QED  BY <1>1, <1>2, SameOwnersIInv

LEMMA KeptAsItIs == ASSUME IInv, NEW s \in Slots PROVE SlotKept(s, conn[s])
  BY DEF IInv, TypeOK, OwnerInv, OwnData, SlotKept

LEMMA KeptReadClosed == ASSUME IInv, NEW s \in Slots, NEW new, SlotKept(s, new)
  PROVE  SlotKept(s, MarkReadClosed(new))
  BY DEF SlotKept, MarkReadClosed, NetState

LEMMA KeptQueued == ASSUME IInv, NEW s \in Slots, conn[s].inUse
  PROVE  SlotKept(s, Queue(conn[s], conn[s].client))
<1>1. SlotKept(s, conn[s]) /\ conn[s].client \in Clients
  BY KeptAsItIs DEF IInv, OwnerInv
<1> QED  BY <1>1 DEF SlotKept, Queue, NetState

LEMMA SendIInv == ASSUME IInv, NEW c \in Clients, Send(c) PROVE IInv'
<1> DEFINE s == obj[c].net
<1>1. s \in Slots /\ conn[s].inUse /\ conn[s].client = c
  BY NetIsSlot DEF Send, Target, InUseBy, IInv
<1>2. SlotKept(s, Queue(conn[s], c))
  BY <1>1, KeptQueued
<1>3. conn' = [conn EXCEPT ![s] = Queue(conn[s], c)]
  BY DEF Send
<1> QED  BY <1>1, <1>2, <1>3, SlotIInv, PassStays DEF Send

LEMMA InputIInv ==
  ASSUME IInv, NEW s \in Slots, HangUp(s) \/ Keep(s) \/ Frozen(s) PROVE IInv'
<1>1. s \in todo /\ conn[s].inUse /\ conn[s].client \in Clients /\ PassGoesOn
  BY TodoLess DEF HangUp, Keep, Frozen, Inputs, IInv, TodoInv, OwnerInv
<1>2. SlotKept(s, conn[s])
  BY KeptAsItIs
<1>3. CASE HangUp(s)
  BY <1>1, <1>2, <1>3, KeptReadClosed, SlotIInv DEF HangUp
<1>4. CASE Keep(s)
  <2>1. SlotKept(s, [conn[s] EXCEPT !.in = @ \cup {conn[s].client}])
    BY <1>1, <1>2 DEF SlotKept, NetState
  <2>2. conn' = [conn EXCEPT ![s] = [conn[s] EXCEPT !.in = @ \cup {conn[s].client}]]
    BY <1>4 DEF Keep
  <2> QED  BY <1>1, <1>4, <2>1, <2>2, SlotIInv DEF Keep
<1>5. CASE Frozen(s)
  <2>1. SlotKept(s, MarkReadClosed(Queue(conn[s], conn[s].client)))
    BY <1>1, KeptQueued, KeptReadClosed
  <2> QED  BY <1>1, <1>5, <2>1, SlotIInv DEF Frozen
<1> QED  BY <1>3, <1>4, <1>5

LEMMA CloseForWritingIInv == ASSUME IInv, NEW s \in Slots, CloseForWriting(s) PROVE IInv'
<1>1. PassGoesOn
  BY TodoLess DEF CloseForWriting, Outputs, IsNext
<1>2. SlotKept(s, [conn[s] EXCEPT !.writeClosed = TRUE])
  BY KeptAsItIs DEF SlotKept, NetState
<1>3. conn' = [conn EXCEPT ![s] = [conn[s] EXCEPT !.writeClosed = TRUE]]
  BY DEF CloseForWriting
<1> QED  BY <1>1, <1>2, <1>3, SlotIInv DEF CloseForWriting

LEMMA FlushClosingIInv == ASSUME IInv, NEW s \in Slots, FlushClosing(s) PROVE IInv'
<1>1. PassGoesOn /\ conn[s].inUse
  BY TodoLess DEF FlushClosing, Manages, IsNext, IInv, TodoInv
<1>2. PICK new : SlotKept(s, new) /\ conn' = [conn EXCEPT ![s] = new]
  <2>1. CASE UNCHANGED conn
    BY <2>1, KeptAsItIs DEF IInv, TypeOK
  <2>2. ASSUME NEW failed \in BOOLEAN,
               conn' = [conn EXCEPT ![s].out = {}, ![s].writeClosed = failed]
        PROVE  \E new : SlotKept(s, new) /\ conn' = [conn EXCEPT ![s] = new]
    <3> DEFINE new == [conn[s] EXCEPT !.out = {}, !.writeClosed = failed]
    <3>1. SlotKept(s, new)
      BY <1>1, KeptAsItIs DEF SlotKept, NetState
    <3>2. conn' = [conn EXCEPT ![s] = new]
      BY <2>2 DEF IInv, TypeOK
    <3> QED  BY <3>1, <3>2
  <2> QED  BY <2>1, <2>2 DEF FlushClosing
<1> QED  BY <1>1, <1>2, SlotIInv DEF FlushClosing

\* One slot and one object change.
LEMMA KickIInv == ASSUME IInv, NEW c \in Clients, Kick(c) PROVE IInv'
<1> DEFINE s == obj[c].net
<1>1. s \in Slots /\ Exists(c) /\ obj[c] \in Object
  BY NetIsSlot DEF Kick, Found, IInv, TypeOK, Exists, NoObject
<1>2. PICK told \in {FALSE, Target(c) /\ ~Closing(obj[c].net)} :
        conn' = [conn EXCEPT ![s] = MarkReadClosed(IF told THEN Queue(@, c) ELSE @)]
  BY DEF Kick
<1> DEFINE new == MarkReadClosed(IF told THEN Queue(conn[s], c) ELSE conn[s])
<1>3. SlotKept(s, IF told THEN Queue(conn[s], c) ELSE conn[s])
  BY <1>1, KeptAsItIs, KeptQueued DEF Target, InUseBy
<1>4. SlotKept(s, new) /\ conn' = [conn EXCEPT ![s] = new]
  BY <1>1, <1>2, <1>3, KeptReadClosed
<1>5. PICK plays \in BOOLEAN : obj' = [obj EXCEPT ![c].char = plays]
  BY <1>1 DEF Kick, Object
<1>6. obj' = [obj EXCEPT ![c] = [@ EXCEPT !.type = obj[c].type, !.char = plays]]
  BY <1>1, <1>5 DEF IInv, TypeOK, Object
<1>7. ObjectsKept
  <2>1. obj[c].type \in Types
    BY <1>1 DEF Object
  <2> QED  BY <1>1, <1>5, <1>6, <2>1, OneObject
<1>8. SameOwners /\ PassGoesOn
  BY <1>1, <1>4, <1>7, OneSlot, PassStays DEF Kick
<1>9. OwnCounts' /\ alive' \in [IPs -> Int] /\ pending' \in [IPs -> Int]
  <2>1. \A d \in Clients : PreGame(d)' = PreGame(d)
    BY <1>1, <1>5 DEF PreGame, IInv, TypeOK, Object
  <2> QED  BY <1>7, <2>1, SameCounts DEF ObjectsKept, Kick, count, IInv, TypeOK
<1> QED  BY <1>8, <1>9, SameOwnersIInv

\* A step in which a slot in use changes and its client may become another type.
LEMMA ClientIInv ==
  ASSUME IInv, PassGoesOn, NEW s \in Slots, conn[s].inUse,
         NEW new, SlotKept(s, new), conn' = [conn EXCEPT ![s] = new],
         NEW type \in LaterTypes(conn[s].client), NEW char \in BOOLEAN,
         SetConnectType(conn[s].client, type),
         obj' = [obj EXCEPT ![conn[s].client] = [@ EXCEPT !.type = type, !.char = char]],
         UNCHANGED <<lastSlot, queued, listed, doomed, alive, overtaken>>
  PROVE  IInv'
<1> DEFINE c == conn[s].client
<1>1. c \in Clients /\ Exists(c) /\ type \in Types
  BY DEF IInv, OwnerInv, LaterTypes, Types
<1>2. ObjectsKept
  BY <1>1, OneObject
<1>3. SameOwners
  BY <1>2, OneSlot
<1>4. obj'[c].type = type /\ \A d \in Clients : d # c => PreGame(d)' = PreGame(d)
  <2>1. obj[c] \in Object
    BY <1>1 DEF IInv, TypeOK, Exists, NoObject
  <2> QED  BY <1>1, <2>1 DEF PreGame, IInv, TypeOK, Object
<1>5. OwnCounts' /\ pending' \in [IPs -> Int]
  BY <1>1, <1>2, <1>4, TypeCounts DEF ObjectsKept
<1> QED  BY <1>3, <1>5, SameOwnersIInv DEF IInv, TypeOK

LEMMA HandleIInv == ASSUME IInv, NEW s \in Slots, Handle(s) PROVE IInv'
<1> DEFINE c == conn[s].client
<1>1. conn[s].inUse /\ ~conn[s].readClosed /\ PassGoesOn /\ c \in Clients /\ Exists(c)
  BY TodoLess DEF Handle, Inputs, IInv, TodoInv, OwnerInv
<1>2. PICK type \in LaterTypes(c) : \E plays \in {FALSE, type = "full"} :
        /\ SetConnectType(c, type)
        /\ obj' = [obj EXCEPT ![c] = [@ EXCEPT !.type = type, !.char = plays]]
  BY DEF Handle
<1>3. PICK plays \in BOOLEAN :
        /\ SetConnectType(c, type)
        /\ obj' = [obj EXCEPT ![c] = [@ EXCEPT !.type = type, !.char = plays]]
  BY <1>2
<1>4. PICK answered \in BOOLEAN, refused \in BOOLEAN :
        conn' = [conn EXCEPT ![s] =
          [(IF answered THEN Queue(@, c) ELSE @) EXCEPT !.readClosed = refused, !.in = {}]]
  BY DEF Handle
<1> DEFINE new == [(IF answered THEN Queue(conn[s], c) ELSE conn[s])
                     EXCEPT !.readClosed = refused, !.in = {}]
<1>5. SlotKept(s, new)
  <2>1. SlotKept(s, IF answered THEN Queue(conn[s], c) ELSE conn[s])
    BY <1>1, KeptAsItIs, KeptQueued
  <2> QED  BY <1>1, <2>1 DEF SlotKept, NetState
<1>6. conn' = [conn EXCEPT ![s] = new]
  BY <1>4
<1> QED  BY <1>1, <1>3, <1>5, <1>6, ClientIInv DEF Handle

LEMMA WriteQueuesIInv == ASSUME IInv, NEW s \in Slots, WriteQueues(s) PROVE IInv'
<1> DEFINE c == conn[s].client
<1>1. conn[s].inUse /\ PassGoesOn /\ c \in Clients /\ obj[c] \in Object
  BY TodoLess DEF WriteQueues, Outputs, IsNext, IInv, TodoInv, OwnerInv, TypeOK, Exists, NoObject
<1>2. PICK failed \in BOOLEAN, waits \in BOOLEAN :
        conn' = [conn EXCEPT ![s].out = IF waits /\ ~failed THEN @ ELSE {},
                             ![s].writeClosed = failed]
  BY DEF WriteQueues
<1> DEFINE new == [conn[s] EXCEPT !.out = IF waits /\ ~failed THEN @ ELSE {},
                                  !.writeClosed = failed]
<1>3. SlotKept(s, new)
  BY <1>1, KeptAsItIs DEF SlotKept, NetState
<1>4. conn' = [conn EXCEPT ![s] = new]
  BY <1>2 DEF IInv, TypeOK
<1>5. PICK type \in {obj[c].type, "full"} :
        SetConnectType(c, type) /\ obj' = [obj EXCEPT ![c].type = type]
  BY DEF WriteQueues
<1>6. type \in LaterTypes(c)
  BY <1>1, <1>5 DEF LaterTypes, PreGame, Object, Types
<1>7. obj' = [obj EXCEPT ![c] = [@ EXCEPT !.type = type, !.char = obj[c].char]] /\ obj[c].char \in BOOLEAN
  BY <1>1, <1>5 DEF IInv, TypeOK, Object
<1> QED  BY <1>1, <1>3, <1>4, <1>5, <1>6, <1>7, ClientIInv DEF WriteQueues

----------------------------------------------------------------------------
(* The actions that change the owners of the slots.                        *)

\* A slot is cleared and its object is left to the tick of the world.
LEMMA ClearSlotIInv ==
  ASSUME IInv, NEW s \in Slots, Manages(s), ClearSlot(s),
         UNCHANGED <<step, inner, lastSlot, queued, listed, obj, count, overtaken>>
  PROVE  IInv'
<1> DEFINE c == conn[s].client
<1>1. s \in todo /\ step = "manage" /\ todo' = todo \ {s} /\ conn[s].inUse
  BY DEF Manages, IsNext, IInv, TodoInv
<1>2. c \in Clients /\ Exists(c) /\ obj[c].net = s /\ doomed' = doomed \cup {c}
  BY <1>1 DEF ClearSlot, IInv, OwnerInv
<1>3. conn' \in [Slots -> NetState] /\ conn'[s] = Clear(conn[s])
      /\ \A t \in Slots : t # s => conn'[t] = conn[t]
  <2>1. Clear(conn[s]) \in NetState
    BY ClearOf DEF IInv, TypeOK
  <2>2. conn \in [Slots -> NetState] /\ conn' = [conn EXCEPT ![s] = Clear(conn[s])]
    BY DEF ClearSlot, IInv, TypeOK
  <2> QED  BY <2>1, <2>2
<1>4. /\ ~conn'[s].inUse /\ conn'[s].readClosed /\ conn'[s].writeClosed
      /\ conn'[s].client = None /\ conn'[s].out = {} /\ conn'[s].in = {}
      /\ conn'[s].peer = conn[s].peer /\ conn'[s].parent = conn[s].parent
  BY <1>3, ClearOf DEF IInv, TypeOK
<1>5. TypeOK'
  BY <1>1, <1>2, <1>3 DEF IInv, TypeOK, count
<1>6. OwnerInv'
  <2> SUFFICES ASSUME NEW t \in Slots, t # s PROVE conn[t].inUse => conn[t].client # c
    BY <1>2, <1>3, <1>4 DEF IInv, OwnerInv, Exists
  <2> QED  BY <1>2 DEF IInv, OwnerInv
<1>7. ObjInv'
  BY <1>2, <1>3, NetIsSlot DEF IInv, ObjInv, Exists, InUseBy
<1>8. ListInv'
  BY <1>1, <1>3, <1>4 DEF IInv, ListInv
<1>9. TodoInv' /\ OwnData'
  BY <1>1, <1>3, <1>4 DEF IInv, TypeOK, TodoInv, OwnData
<1>10. PeerInv'
  BY <1>3, <1>4, NetIsSlot DEF IInv, PeerInv, Peer, Exists
<1>11. OwnCounts'
  BY SameCounts DEF count, Exists, PreGame
<1> QED  BY <1>5, <1>6, <1>7, <1>8, <1>9, <1>10, <1>11 DEF IInv

LEMMA ManageIInv == ASSUME IInv, NEW s \in Slots, TimeOut(s) \/ FinishClosing(s) PROVE IInv'
<1>1. CASE TimeOut(s)
  BY <1>1, ClearSlotIInv DEF TimeOut
<1>2. CASE FinishClosing(s) /\ conn[s].writeClosed
  BY <1>2, ClearSlotIInv DEF FinishClosing
<1>3. CASE FinishClosing(s) /\ ~conn[s].writeClosed
  <2>1. PassGoesOn
    BY <1>3, TodoLess DEF FinishClosing, Manages, IsNext
  <2>2. SlotKept(s, MarkReadClosed(conn[s]))
    BY KeptAsItIs, KeptReadClosed
  <2> QED  BY <1>3, <2>1, <2>2, SlotIInv DEF FinishClosing
<1> QED  BY <1>1, <1>2, <1>3

\* The object that is destroyed has no slot.  Its address is its own unless
\* the slot was overtaken.
LEMMA DestroyIInv == ASSUME IInv, NEW c \in Clients, Destroy(c) PROVE IInv'
<1> DEFINE s == obj[c].net
           home == obj[c].home
<1>1. s \in Slots /\ Exists(c) /\ obj[c] \in Object
  BY NetIsSlot DEF Destroy, IInv, ObjInv, TypeOK, Exists, NoObject
<1>2. PICK new : SlotKept(s, new) /\ conn' = [conn EXCEPT ![s] = new]
  <2>1. SlotKept(s, conn[s]) /\ SlotKept(s, MarkReadClosed(conn[s]))
    BY <1>1, KeptAsItIs, KeptReadClosed
  <2> QED  BY <1>1, <2>1 DEF Destroy, IInv, TypeOK
<1>3. /\ conn' \in [Slots -> NetState]
      /\ \A t \in Slots : SlotKept(t, conn'[t])
  BY <1>1, <1>2, KeptAsItIs DEF SlotKept, IInv, TypeOK
<1>4. /\ obj' = [obj EXCEPT ![c] = NoObject] /\ doomed' = doomed \ {c} /\ ~Exists(c)'
      /\ \A d \in Clients : d # c => obj'[d] = obj[d] /\ Exists(d)' = Exists(d)
  BY <1>1 DEF Destroy, IInv, TypeOK, Exists, NoObject
<1>5. TypeOK'
  <2>1. pending' \in [IPs -> Int] /\ alive' \in [IPs -> Int]
    BY OneLess DEF Destroy, IInv, TypeOK
  <2> QED  BY <1>3, <1>4, <2>1 DEF Destroy, pass, IInv, TypeOK
<1>6. \A t \in Slots : conn[t].inUse => conn[t].client # c
  BY DEF Destroy, IInv, OwnerInv
<1>7. OwnerInv'
  BY <1>3, <1>4, <1>6 DEF SlotKept, IInv, OwnerInv
<1>8. ObjInv'
  BY <1>3, <1>4, NetIsSlot DEF SlotKept, IInv, ObjInv, InUseBy
<1>9. ListInv' /\ TodoInv' /\ OwnData'
  BY <1>3 DEF SlotKept, Destroy, pass, IInv, TypeOK, ListInv, TodoInv, OwnData
<1>10. PeerInv'
  <2> SUFFICES ASSUME ~overtaken', NEW d \in Clients, Exists(d)' PROVE (Peer(d) = obj[d].home)'
    BY DEF PeerInv
  <2>1. Exists(d) /\ obj'[d] = obj[d] /\ ~overtaken
    BY <1>3, <1>4 DEF Destroy
  <2>2. Peer(d) = obj[d].home
    BY <2>1 DEF IInv, PeerInv
  <2>3. conn'[obj[d].net].peer = conn[obj[d].net].peer
    BY <2>1, <1>3, NetIsSlot DEF SlotKept, IInv
  <2> QED  BY <2>1, <2>2, <2>3 DEF Peer
<1>11. OwnCounts'
  <2> SUFFICES ASSUME ~overtaken PROVE OwnCounts'
    BY DEF OwnCounts, Destroy
  <2>1. Peer(c) = home /\ home \in IPs
    BY <1>1 DEF IInv, PeerInv, Object
  <2>2. \A ip \in IPs : /\ From(ip)' = IF ip = home THEN From(ip) \ {c} ELSE From(ip)
                        /\ PreFrom(ip)' = IF ip = home THEN PreFrom(ip) \ {c} ELSE PreFrom(ip)
    BY <1>4 DEF From, PreFrom, Objects, PreGame
  <2>3. c \in From(home) /\ (PreGame(c) <=> c \in PreFrom(home))
    BY <1>1 DEF From, PreFrom, Objects
  <2>4. /\ Cardinality(From(home) \ {c}) = Cardinality(From(home)) - 1
        /\ Cardinality(PreFrom(home) \ {c}) =
             IF PreGame(c) THEN Cardinality(PreFrom(home)) - 1 ELSE Cardinality(PreFrom(home))
    BY <2>3, FinitelyMany, FS_RemoveElement
  <2>5. \A ip \in IPs :
          /\ alive'[ip] = IF ip = home THEN alive[ip] - 1 ELSE alive[ip]
          /\ pending'[ip] = IF ip = home /\ PreGame(c) THEN pending[ip] - 1 ELSE pending[ip]
    BY <2>1 DEF Destroy, IInv, TypeOK
  <2> QED  BY <2>2, <2>4, <2>5 DEF IInv, OwnCounts
<1> QED  BY <1>5, <1>7, <1>8, <1>9, <1>10, <1>11 DEF IInv

LEMMA AcceptIInv == ASSUME IInv, NEW ip \in IPs, Accept(ip) PROVE IInv'
<1>1. PICK s \in Slots, c \in Clients :
        /\ ~conn[s].inUse /\ ~Exists(c)
        /\ lastSlot' = s
        /\ conn' = [conn EXCEPT ![s] = InitState(@, c, ip)]
        /\ queued' = [queued EXCEPT ![s] = @ + 1]
        /\ obj' = [obj EXCEPT ![c] = [net |-> s, type |-> "pre", char |-> FALSE, home |-> ip]]
        /\ overtaken' = (overtaken \/ \E d \in doomed : obj[d].net = s /\ obj[d].home # ip)
  BY DEF Accept, NextFree, NextObject
<1>2. /\ UNCHANGED <<inner, listed, doomed>>
      /\ alive' = [alive EXCEPT ![ip] = @ + 1] /\ pending' = [pending EXCEPT ![ip] = @ + 1]
      /\ step = "accept" /\ step' = "process" /\ todo' = Listed
  BY DEF Accept
<1> DEFINE new == InitState(conn[s], c, ip)
<1>3. /\ new \in NetState /\ new.inUse /\ new.client = c /\ new.peer = ip
      /\ new.parent = conn[s].parent /\ new.out = {} /\ new.in = {}
  BY InitOf DEF IInv, TypeOK
<1> HIDE DEF new
<1>4. /\ conn' \in [Slots -> NetState] /\ conn'[s] = new
      /\ \A t \in Slots : t # s => conn'[t] = conn[t]
  BY <1>1, <1>3 DEF IInv, TypeOK, new
<1>5. /\ obj' \in [Clients -> Object \cup {NoObject}]
      /\ obj'[c] = [net |-> s, type |-> "pre", char |-> FALSE, home |-> ip]
      /\ Exists(c)' /\ PreGame(c)'
      /\ \A d \in Clients : d # c => obj'[d] = obj[d] /\ Exists(d)' = Exists(d)
  BY <1>1 DEF IInv, TypeOK, Exists, PreGame, Object, Types
<1>6. TypeOK'
  <2>1. queued' \in [Slots -> Nat] /\ alive' \in [IPs -> Int] /\ pending' \in [IPs -> Int]
    BY <1>1, <1>2 DEF IInv, TypeOK
  <2>2. todo' \subseteq Slots
    BY <1>2 DEF Listed
  <2> QED  BY <1>1, <1>2, <1>4, <1>5, <2>1, <2>2 DEF IInv, TypeOK, Steps
<1>7. c \notin doomed
  BY <1>1 DEF IInv, ObjInv
<1>8. OwnerInv'
  <2>1. \A t \in Slots : conn[t].inUse => conn[t].client # c
    BY <1>1 DEF IInv, OwnerInv
  <2> QED  BY <1>2, <1>3, <1>4, <1>5, <1>7, <2>1 DEF IInv, OwnerInv
<1>9. ObjInv'
  <2>1. \A d \in Clients : d # c /\ Exists(d) => d \in doomed \/ obj[d].net # s
    BY <1>1 DEF IInv, ObjInv, InUseBy
  <2> QED  BY <1>2, <1>3, <1>4, <1>5, <1>7, <2>1, NetIsSlot DEF IInv, ObjInv, InUseBy
<1>10. ListInv'
  BY <1>1, <1>2, <1>3, <1>4 DEF IInv, TypeOK, ListInv
<1>11. TodoInv'
  BY <1>2, <1>3, <1>4, ListedInUse DEF TodoInv
<1>12. OwnData'
  BY <1>3, <1>4 DEF IInv, OwnData
<1>13. PeerInv'
  <2> SUFFICES ASSUME ~overtaken', NEW d \in Clients, Exists(d)' PROVE (Peer(d) = obj[d].home)'
    BY DEF PeerInv
  <2>1. CASE d = c
    BY <1>3, <1>4, <1>5, <2>1 DEF Peer
  <2>2. CASE d # c /\ obj[d].net # s
    BY <1>1, <1>4, <1>5, <2>2, NetIsSlot DEF IInv, PeerInv, Peer
  <2>3. CASE d # c /\ obj[d].net = s
    <3>1. d \in doomed
      BY <1>1, <1>5, <2>3 DEF IInv, ObjInv, InUseBy
    <3>2. obj'[d].net = s /\ obj'[d].home = obj[d].home /\ Peer(d)' = ip
      BY <1>3, <1>4, <1>5, <2>3 DEF Peer
    <3>3. overtaken' => FALSE
      OBVIOUS
    <3>4. obj[d].home = ip
      BY <1>1, <2>3, <3>1, <3>3
    <3> QED  BY <3>2, <3>4
  <2> QED  BY <2>1, <2>2, <2>3
<1>14. OwnCounts'
  <2> SUFFICES ASSUME ~overtaken PROVE OwnCounts'
    BY <1>1 DEF OwnCounts
  <2>1. \A i \in IPs : /\ From(i)' = IF i = ip THEN From(i) \cup {c} ELSE From(i)
                       /\ PreFrom(i)' = IF i = ip THEN PreFrom(i) \cup {c} ELSE PreFrom(i)
    BY <1>1, <1>5 DEF From, PreFrom, Objects, PreGame
  <2>2. c \notin From(ip) /\ c \notin PreFrom(ip)
    BY <1>1 DEF From, PreFrom, Objects
  <2>3. /\ Cardinality(From(ip) \cup {c}) = Cardinality(From(ip)) + 1
        /\ Cardinality(PreFrom(ip) \cup {c}) = Cardinality(PreFrom(ip)) + 1
    BY <2>2, FinitelyMany, FS_AddElement
  <2>4. \A i \in IPs : /\ alive'[i] = IF i = ip THEN alive[i] + 1 ELSE alive[i]
                       /\ pending'[i] = IF i = ip THEN pending[i] + 1 ELSE pending[i]
    BY <1>2 DEF IInv, TypeOK
  <2> QED  BY <2>1, <2>3, <2>4 DEF IInv, OwnCounts
<1> QED  BY <1>6, <1>8, <1>9, <1>10, <1>11, <1>12, <1>13, <1>14 DEF IInv

LEMMA TickThreadIInv == ASSUME IInv, TickThread PROVE IInv'
<1>1. /\ step = "manage" /\ step' \in {"world", "process"} /\ inner' \in BOOLEAN
      /\ todo' = {s \in Slots : listed'[s] # 0}
      /\ queued' = [s \in Slots |-> 0]
      /\ listed' = [s \in Slots |-> IF Dropped(s) THEN 0 ELSE Taken(s)]
      /\ UNCHANGED <<lastSlot, obj, doomed, overtaken>>
  BY DEF TickThread, IInv, TypeOK
<1>2. \A s \in Slots : /\ queued'[s] = 0
                       /\ conn[s].inUse => listed'[s] = 1
                       /\ ~conn[s].inUse => listed'[s] = 0
  BY <1>1 DEF IInv, TypeOK, ListInv, Dropped, Taken
<1>3. \A s \in Slots : conn'[s] = [conn[s] EXCEPT !.parent = (@ \/ queued[s] > 0) /\ ~(Dropped(s) /\ Taken(s) > 0)]
  BY DEF TickThread
<1>4. conn' \in [Slots -> NetState]
  <2>1. ASSUME NEW s \in Slots PROVE conn'[s] \in NetState
    <3> DEFINE b == (conn[s].parent \/ queued[s] > 0) /\ ~(Dropped(s) /\ Taken(s) > 0)
    <3>1. conn[s] \in NetState /\ conn'[s] = [conn[s] EXCEPT !.parent = b] /\ b \in BOOLEAN
      BY <1>3 DEF IInv, TypeOK, NetState
    <3> HIDE DEF b
    <3> QED  BY <3>1 DEF NetState
  <2>2. conn' = [s \in Slots |-> conn'[s]]
    BY DEF TickThread
  <2> QED  BY <2>1, <2>2
<1>5. \A s \in Slots :
        /\ conn'[s].inUse = conn[s].inUse /\ conn'[s].client = conn[s].client
        /\ conn'[s].peer = conn[s].peer /\ conn'[s].out = conn[s].out /\ conn'[s].in = conn[s].in
        /\ conn'[s].readClosed = conn[s].readClosed /\ conn'[s].writeClosed = conn[s].writeClosed
        /\ conn'[s].parent <=> (conn[s].parent \/ queued[s] > 0) /\ ~(Dropped(s) /\ Taken(s) > 0)
  <2> TAKE s \in Slots
  <2> DEFINE b == (conn[s].parent \/ queued[s] > 0) /\ ~(Dropped(s) /\ Taken(s) > 0)
  <2>1. conn[s] \in NetState /\ conn'[s] = [conn[s] EXCEPT !.parent = b] /\ b \in BOOLEAN
    BY <1>3 DEF IInv, TypeOK, NetState
  <2> HIDE DEF b
  <2>2. /\ conn'[s].parent = b
        /\ conn'[s].inUse = conn[s].inUse /\ conn'[s].client = conn[s].client
        /\ conn'[s].peer = conn[s].peer /\ conn'[s].out = conn[s].out /\ conn'[s].in = conn[s].in
        /\ conn'[s].readClosed = conn[s].readClosed /\ conn'[s].writeClosed = conn[s].writeClosed
    BY <2>1, ParentOf
  <2> QED  BY <2>2 DEF b
<1>6. \A ip \in IPs : alive'[ip] = alive[ip] /\ pending'[ip] = pending[ip]
  BY DEF TickThread, Forgettable
<1>7. alive' = alive /\ pending' = pending
  BY <1>6 DEF TickThread, IInv, TypeOK
<1>8. TypeOK'
  <2>1. queued' \in [Slots -> Nat] /\ listed' \in [Slots -> Nat]
    BY <1>1, <1>2
  <2> QED  BY <1>1, <1>4, <1>7, <2>1 DEF IInv, TypeOK, Steps
<1>9. OwnerInv' /\ ObjInv'
  BY <1>1, <1>5, NetIsSlot DEF IInv, OwnerInv, ObjInv, Exists, InUseBy
<1>10. ListInv'
  <2> SUFFICES ASSUME NEW s \in Slots
        PROVE  conn'[s].parent <=> listed'[s] = 1
    BY <1>1, <1>2, <1>5 DEF ListInv
  <2>1. queued[s] \in Nat /\ listed[s] \in Nat
    BY DEF IInv, TypeOK
  <2> QED  BY <1>2, <1>5, <2>1 DEF IInv, ListInv, Dropped, Taken
<1>11. TodoInv' /\ OwnData'
  BY <1>1, <1>2, <1>5 DEF IInv, TodoInv, OwnData
<1>12. PeerInv'
  BY <1>1, <1>5, NetIsSlot DEF IInv, PeerInv, Peer, Exists
<1>13. OwnCounts'
  BY <1>1, <1>7, SameCounts DEF Exists, PreGame
<1> QED  BY <1>8, <1>9, <1>10, <1>11, <1>12, <1>13 DEF IInv

----------------------------------------------------------------------------
LEMMA InitIInv == Init => IInv
<1> SUFFICES ASSUME Init PROVE IInv
  OBVIOUS
<1>1. TypeOK
  <2>1. conn \in [Slots -> NetState]
    BY DEF Init, NetState
  <2>2. /\ queued \in [Slots -> Nat] /\ listed \in [Slots -> Nat]
        /\ alive \in [IPs -> Int] /\ pending \in [IPs -> Int]
        /\ obj \in [Clients -> Object \cup {NoObject}]
    BY DEF Init
  <2> QED  BY <2>1, <2>2 DEF Init, TypeOK, Steps
<1>2. \A c \in Clients : ~Exists(c)
  BY DEF Init, Exists, NoObject
<1>3. OwnerInv /\ ListInv /\ TodoInv /\ OwnData
  BY DEF Init, OwnerInv, ListInv, TodoInv, OwnData
<1>4. ObjInv /\ PeerInv
  BY <1>2 DEF Init, ObjInv, PeerInv
<1>5. OwnCounts
  <2>1. \A ip : From(ip) = {} /\ PreFrom(ip) = {}
    BY <1>2 DEF From, PreFrom, Objects
  <2> QED  BY <2>1, FS_EmptySet DEF Init, OwnCounts
<1> QED  BY <1>1, <1>3, <1>4, <1>5 DEF IInv

LEMMA NextIInv == IInv /\ [Next]_vars => IInv'
<1> SUFFICES ASSUME IInv, [Next]_vars PROVE IInv'
  OBVIOUS
<1>1. CASE SkipWorld \/ RunWorld \/ WorldTicked \/ Deleted \/ NoAccept \/ Processed \/ Written \/ UNCHANGED vars
  BY <1>1, MovesIInv DEF Moves
<1>2. CASE TickThread
  BY <1>2, TickThreadIInv
<1>3. CASE \E c \in Clients : Destroy(c) \/ Send(c) \/ Kick(c)
  BY <1>3, DestroyIInv, SendIInv, KickIInv
<1>4. CASE \E ip \in IPs : Accept(ip)
  BY <1>4, AcceptIInv
<1>5. ASSUME NEW s \in Slots, InputStep(s) PROVE IInv'
  BY <1>5, MovesIInv, InputIInv, HandleIInv DEF InputStep, Passes
<1>6. ASSUME NEW s \in Slots, OutputStep(s) PROVE IInv'
  BY <1>6, MovesIInv, CloseForWritingIInv, WriteQueuesIInv DEF OutputStep, Passes
<1>7. ASSUME NEW s \in Slots, ManageStep(s) PROVE IInv'
  BY <1>7, MovesIInv, FlushClosingIInv, ManageIInv DEF ManageStep, Passes
<1> QED  BY <1>1, <1>2, <1>3, <1>4, <1>5, <1>6, <1>7 DEF Next, MainLoop

\* Slots, client objects, the list of the thread and the running loop agree
\* through every step.
THEOREM ConnectionsInvariant == Spec => []IInv
  BY InitIInv, NextIInv, PTL DEF Spec

\* The variables stay in their types.
THEOREM ConnectionsTypes == Spec => []TypeOK
<1>1. IInv => TypeOK
  BY DEF IInv
<1> QED  BY <1>1, ConnectionsInvariant, PTL

\* A slot in use is with the thread exactly once, a free one is not (but
\* between CNetState::clear and dropInvalidStates of the same pass).
THEOREM SlotsListedOnce == Spec => []SlotsListed
<1>1. IInv => SlotsListed
  BY DEF IInv, ListInv, TypeOK, SlotsListed
<1> QED  BY <1>1, ConnectionsInvariant, PTL

\* Neither a packet nor received bytes ever wait in a slot for, or from,
\* anyone but the client that has the slot now (PacketSend::target).
THEOREM NobodyElsesData == Spec => []OwnData
<1>1. IInv => OwnData
  BY DEF IInv
<1> QED  BY <1>1, ConnectionsInvariant, PTL

\* The counters of an address are exact until a slot is given to a client of
\* another address before the last bearer's object is destroyed.
THEOREM AddressesCounted == Spec => []OwnCounts
<1>1. IInv => OwnCounts
  BY DEF IInv
<1> QED  BY <1>1, ConnectionsInvariant, PTL

----------------------------------------------------------------------------
(* Limits.                                                                 *)

Counters == [IPs -> Int]

\* No counter of an address goes up.
NoneMore(f, g) == \A ip \in IPs : g[ip] <= f[ip]

\* Every counter of an address is within its limit, and one more.
Within(f, limit) == limit > 0 => \A ip \in IPs : f[ip] <= limit + 1
LimitInv == Within(alive, ClientMaxIP) /\ Within(pending, ConnectingMaxIP)

LEMMA SameIsNotMore == ASSUME NEW f \in Counters PROVE NoneMore(f, f)
  BY DEF Counters, NoneMore

LEMMA LessIsNotMore ==
  ASSUME NEW f \in Counters, NEW p PROVE NoneMore(f, [f EXCEPT ![p] = @ - 1])
<1> SUFFICES ASSUME NEW ip \in IPs PROVE [f EXCEPT ![p] = @ - 1][ip] <= f[ip]
  BY DEF NoneMore
<1>1. f[ip] \in Int
  BY DEF Counters
<1>2. CASE ip = p
  BY <1>1, <1>2 DEF Counters
<1>3. CASE ip # p
  BY <1>1, <1>3 DEF Counters
<1> QED  BY <1>2, <1>3

LEMMA NoneMoreKeeps ==
  ASSUME NEW f \in Counters, NEW g \in Counters, NEW limit \in Nat,
         NoneMore(f, g), Within(f, limit)
  PROVE  Within(g, limit)
<1> SUFFICES ASSUME limit > 0, NEW ip \in IPs PROVE g[ip] <= limit + 1
  BY DEF Within
<1>1. g[ip] <= f[ip] /\ f[ip] <= limit + 1 /\ f[ip] \in Int /\ g[ip] \in Int
  BY DEF NoneMore, Within, Counters
<1> QED  BY <1>1

LEMMA OneMoreKeeps ==
  ASSUME NEW f \in Counters, NEW limit \in Nat, NEW ip \in IPs,
         limit > 0 => f[ip] <= limit, Within(f, limit)
  PROVE  Within([f EXCEPT ![ip] = @ + 1], limit)
<1> SUFFICES ASSUME limit > 0, NEW p \in IPs
             PROVE  [f EXCEPT ![ip] = @ + 1][p] <= limit + 1
  BY DEF Within
<1>1. f[p] \in Int /\ f[p] <= limit + 1 /\ f[ip] <= limit
  BY DEF Within, Counters
<1>2. CASE p = ip
  BY <1>1, <1>2 DEF Counters
<1>3. CASE p # ip
  BY <1>1, <1>3 DEF Counters
<1> QED  BY <1>2, <1>3

\* A client that enters is taken from the pending ones of an address, if any.
LEMMA TypeNotMore ==
  ASSUME pending \in Counters, NEW c, NEW type, SetConnectType(c, type)
  PROVE  NoneMore(pending, pending')
  BY SameIsNotMore, LessIsNotMore DEF SetConnectType

\* Nobody is counted but by Accept.
LEMMA OthersNotMore ==
  ASSUME IInv, [Next]_vars, ~\E ip \in IPs : Accept(ip)
  PROVE  NoneMore(alive, alive') /\ NoneMore(pending, pending')
<1>1. alive \in Counters /\ pending \in Counters
  BY DEF IInv, TypeOK, Counters
<1>2. CASE UNCHANGED <<alive, pending>>
  BY <1>1, <1>2, SameIsNotMore
<1>3. CASE TickThread
  BY <1>1, <1>3 DEF TickThread, Forgettable, NoneMore, Counters
<1>4. ASSUME NEW c \in Clients, Destroy(c)
      PROVE  NoneMore(alive, alive') /\ NoneMore(pending, pending')
  BY <1>1, <1>4, SameIsNotMore, LessIsNotMore DEF Destroy
<1>5. ASSUME NEW s \in Slots, Handle(s) \/ WriteQueues(s)
      PROVE  NoneMore(alive, alive') /\ NoneMore(pending, pending')
  <2>1. UNCHANGED alive /\ \E c, type : SetConnectType(c, type)
    BY <1>5 DEF Handle, WriteQueues
  <2> QED  BY <1>1, <2>1, SameIsNotMore, TypeNotMore
<1>6. CASE SkipWorld \/ RunWorld \/ WorldTicked \/ Deleted \/ NoAccept \/ Processed
           \/ Written \/ UNCHANGED vars
  BY <1>2, <1>6 DEF SkipWorld, RunWorld, WorldTicked, Deleted, NoAccept, Processed,
     Written, vars, count
<1>7. CASE \E c \in Clients : Send(c) \/ Kick(c)
  BY <1>2, <1>7 DEF Send, Kick, count
<1>8. ASSUME NEW s \in Slots,
             \/ PassOver(s) \/ HangUp(s) \/ Keep(s) \/ Frozen(s)
             \/ NothingToWrite(s) \/ CloseForWriting(s) \/ ManageStep(s)
      PROVE  UNCHANGED <<alive, pending>>
  BY <1>8 DEF PassOver, HangUp, Keep, Frozen, NothingToWrite, CloseForWriting,
     ManageStep, TimeOut, LeaveOpen, FlushClosing, FinishClosing, count
<1> QED  BY <1>2, <1>3, <1>4, <1>5, <1>6, <1>7, <1>8
         DEF Next, MainLoop, InputStep, OutputStep

LEMMA NextLimits == ASSUME IInv, IInv', LimitInv, [Next]_vars PROVE LimitInv'
<1>1. /\ alive \in Counters /\ pending \in Counters
      /\ alive' \in Counters /\ pending' \in Counters
  BY DEF IInv, TypeOK, Counters
<1>2. ClientMaxIP \in Nat /\ ConnectingMaxIP \in Nat
  BY ConnectionsAssumption
<1>3. ASSUME NEW ip \in IPs, Accept(ip) PROVE LimitInv'
  <2>1. /\ ~TooMany(ip)
        /\ alive' = [alive EXCEPT ![ip] = @ + 1]
        /\ pending' = [pending EXCEPT ![ip] = @ + 1]
    BY <1>3 DEF Accept
  <2>2. /\ ClientMaxIP > 0 => alive[ip] <= ClientMaxIP
        /\ ConnectingMaxIP > 0 => pending[ip] <= ConnectingMaxIP
    BY <1>1, <1>2, <2>1 DEF TooMany, Counters
  <2> QED  BY <1>1, <1>2, <2>1, <2>2, OneMoreKeeps DEF LimitInv
<1>4. CASE ~\E ip \in IPs : Accept(ip)
  BY <1>1, <1>2, <1>4, OthersNotMore, NoneMoreKeeps DEF LimitInv
<1> QED  BY <1>3, <1>4

\* At no time is there more than one client above CLIENTMAXIP or CONNECTINGMAXIP
\* from an address: in the counters always, in the client objects until a slot
\* is overtaken.
THEOREM LimitsAlwaysKept == Spec => []LimitsKept
<1>1. Init => LimitInv
  BY ConnectionsAssumption DEF Init, LimitInv, Within
<1>2. IInv /\ LimitInv => LimitsKept
  BY DEF IInv, OwnCounts, LimitInv, Within, LimitsKept
<1>3. IInv /\ IInv' /\ LimitInv /\ [Next]_vars => LimitInv'
  BY NextLimits
<1> QED  BY <1>1, <1>2, <1>3, ConnectionsInvariant, PTL DEF Spec

----------------------------------------------------------------------------
(* Sums.  SumFunction takes the elements of a finite set away one by one;  *)
(* what holds of the empty set and is passed on to a set by the set with   *)
(* one element less holds of all, or there were a smallest counterexample. *)

Any(T) == CHOOSE x \in T : TRUE

\* Finite sets by taking away one element after another.
LEMMA FromTheEmptySet ==
  ASSUME NEW D, IsFiniteSet(D), NEW P, {} \in P,
         \A T \in SUBSET D : T # {} /\ T \ {Any(T)} \in P => T \in P
  PROVE  SUBSET D \subseteq P
<1> SUFFICES ASSUME NEW T0 \in SUBSET D, T0 \notin P PROVE FALSE
  OBVIOUS
<1> DEFINE Bad == {n \in Nat : \E T \in SUBSET D : T \notin P /\ Cardinality(T) = n}
<1>1. \A T \in SUBSET D : IsFiniteSet(T) /\ Cardinality(T) \in Nat
  BY FS_Subset, FS_CardinalityType
<1>2. Bad \subseteq Nat /\ Bad # {}
  BY <1>1
<1>3. PICK n \in Bad : \A y \in Nat : <<y, n>> \in OpToRel(<, Nat) => y \notin Bad
  <2> HIDE DEF Bad
  <2> QED  BY <1>2, NatLessThanWellFounded, WFMin
<1>4. PICK T \in SUBSET D : T \notin P /\ Cardinality(T) = n
  BY <1>3
<1>5. T # {} /\ Any(T) \in T
  BY <1>4 DEF Any
<1>6. Cardinality(T \ {Any(T)}) = n - 1 /\ n - 1 \in Nat
  <2>1. Cardinality(T \ {Any(T)}) = n - 1
    BY <1>1, <1>4, <1>5, FS_RemoveElement
  <2>2. Cardinality(T \ {Any(T)}) \in Nat
    BY <1>1
  <2> QED  BY <2>1, <2>2
<1>7. n - 1 \notin Bad
  <2> HIDE DEF Bad
  <2>1. n \in Nat
    BY <1>2, <1>3
  <2>2. \A y \in Bad : ~(y < n)
    BY <2>1, <1>2, <1>3 DEF OpToRel
  <2> QED  BY <2>1, <2>2, <1>6
<1>8. T \ {Any(T)} \in P
  BY <1>6, <1>7
<1> QED  BY <1>4, <1>5, <1>8

\* What SumFunction computes on the way.
SumTo(f) ==
  CHOOSE g : g = [T \in SUBSET DOMAIN f |->
                    IF T = {} THEN 0 ELSE f[Any(T)] + g[T \ {Any(T)}]]

LEMMA SumIsSumTo == ASSUME NEW f PROVE SumFunction(f) = SumTo(f)[DOMAIN f]
  BY DEF SumFunction, SumFunctionOnSet, FoldFunctionOnSet, MapThenFoldSet,
         SumTo, Any

LEMMA SumToStep ==
  ASSUME NEW f, IsFiniteSet(DOMAIN f)
  PROVE  \A T \in SUBSET DOMAIN f :
           SumTo(f)[T] = IF T = {} THEN 0 ELSE f[Any(T)] + SumTo(f)[T \ {Any(T)}]
<1> DEFINE D == DOMAIN f
           Term(g, T) == IF T = {} THEN 0 ELSE f[Any(T)] + g[T \ {Any(T)}]
           Upto(g, T) == \A U \in SUBSET D : Cardinality(U) <= Cardinality(T)
                                               => g[U] = Term(g, U)
           P == {T \in SUBSET D : \E g : Upto(g, T)}
<1>1. \A T \in SUBSET D : IsFiniteSet(T) /\ Cardinality(T) \in Nat
  BY FS_Subset, FS_CardinalityType
<1>2. {} \in P
  <2> DEFINE g == [T \in SUBSET D |-> 0]
  <2>1. ASSUME NEW U \in SUBSET D, Cardinality(U) <= Cardinality({})
        PROVE  U = {}
    BY <2>1, <1>1, FS_EmptySet
  <2>2. Upto(g, {})
    BY <2>1
  <2> QED  BY <2>2
<1>3. ASSUME NEW T \in SUBSET D, T # {}, T \ {Any(T)} \in P PROVE T \in P
  <2>1. PICK g : Upto(g, T \ {Any(T)})
    BY <1>3
  <2> DEFINE h == [U \in SUBSET D |-> Term(g, U)]
  <2>2. Cardinality(T \ {Any(T)}) = Cardinality(T) - 1
    BY <1>1, <1>3, FS_RemoveElement DEF Any
  <2>3. ASSUME NEW U \in SUBSET D, Cardinality(U) <= Cardinality(T)
        PROVE  h[U] = Term(h, U)
    <3>1. CASE U = {}
      BY <3>1
    <3>2. CASE U # {}
      <4> DEFINE V == U \ {Any(U)}
      <4>1. V \in SUBSET D /\ Cardinality(V) = Cardinality(U) - 1
        BY <3>2, <1>1, FS_RemoveElement DEF Any
      <4>2. g[V] = Term(g, V)
        <5>1. /\ Cardinality(U) \in Nat /\ Cardinality(T) \in Nat
              /\ Cardinality(U) <= Cardinality(T)
          BY <2>3, <1>1
        <5>2. Cardinality(V) <= Cardinality(T \ {Any(T)})
          BY <5>1, <4>1, <2>2
        <5> QED  BY <5>2, <4>1, <2>1
      <4>3. g[V] = h[V]
        BY <4>1, <4>2
      <4> HIDE DEF V
      <4>4. h[U] = f[Any(U)] + g[V]
        BY <3>2 DEF V
      <4> QED  BY <4>3, <4>4, <3>2 DEF V
    <3> QED  BY <3>1, <3>2
  <2>4. Upto(h, T)
    BY <2>3
  <2> QED  BY <2>4
<1>4. D \in P
  <2> HIDE DEF P
  <2> QED  BY <1>2, <1>3, FromTheEmptySet
<1>5. PICK g : Upto(g, D)
  BY <1>4
<1> DEFINE h == [T \in SUBSET D |-> g[T]]
<1>6. ASSUME NEW T \in SUBSET D PROVE h[T] = Term(h, T)
  <2>1. Cardinality(T) <= Cardinality(D)
    BY FS_Subset
  <2>2. g[T] = Term(g, T)
    BY <2>1, <1>5
  <2> QED  BY <2>2
<1>7. h = [T \in SUBSET D |-> Term(h, T)]
  BY <1>6
<1>8. SumTo(f) = [T \in SUBSET D |-> Term(SumTo(f), T)]
  <2> HIDE DEF h
  <2> QED  BY <1>7 DEF SumTo
<1> QED  BY <1>8

LEMMA SumOfZeros ==
  ASSUME NEW D, IsFiniteSet(D) PROVE SumFunction([x \in D |-> 0]) = 0
<1> DEFINE f == [x \in D |-> 0]
           P == {T \in SUBSET D : SumTo(f)[T] = 0}
<1>1. DOMAIN f = D
  OBVIOUS
<1>2. \A T \in SUBSET D :
        SumTo(f)[T] = IF T = {} THEN 0 ELSE f[Any(T)] + SumTo(f)[T \ {Any(T)}]
  <2> HIDE DEF f
  <2> QED  BY <1>1, SumToStep
<1>3. ASSUME NEW T \in SUBSET D, T # {}, T \ {Any(T)} \in P PROVE T \in P
  <2>1. Any(T) \in D
    BY <1>3 DEF Any
  <2>2. f[Any(T)] = 0
    BY <2>1
  <2>3. SumTo(f)[T \ {Any(T)}] = 0
    BY <1>3
  <2>4. SumTo(f)[T] = f[Any(T)] + SumTo(f)[T \ {Any(T)}]
    BY <1>2, <1>3
  <2>5. SumTo(f)[T] = 0
    <3> HIDE DEF f
    <3> QED  BY <2>2, <2>3, <2>4
  <2> QED  BY <2>5
<1>4. {} \in P
  BY <1>2
<1>5. D \in P
  <2> HIDE DEF P
  <2> QED  BY <1>3, <1>4, FromTheEmptySet
<1>6. SumTo(f)[D] = 0
  BY <1>5
<1> HIDE DEF f
<1> QED  BY <1>1, <1>6, SumIsSumTo DEF f

LEMMA SumOfOneMore ==
  ASSUME NEW D, IsFiniteSet(D), NEW f \in [D -> Int], NEW p \in D, NEW d \in Int
  PROVE  SumFunction([f EXCEPT ![p] = @ + d]) = SumFunction(f) + d
<1> DEFINE h == [f EXCEPT ![p] = @ + d]
           P == {T \in SUBSET D :
                   /\ SumTo(f)[T] \in Int
                   /\ SumTo(h)[T] = IF p \in T THEN SumTo(f)[T] + d ELSE SumTo(f)[T]}
<1>1. /\ DOMAIN f = D /\ DOMAIN h = D
      /\ \A x \in D : f[x] \in Int /\ h[x] = IF x = p THEN f[x] + d ELSE f[x]
  OBVIOUS
<1> HIDE DEF h
<1>2. \A T \in SUBSET D :
        /\ SumTo(f)[T] = IF T = {} THEN 0 ELSE f[Any(T)] + SumTo(f)[T \ {Any(T)}]
        /\ SumTo(h)[T] = IF T = {} THEN 0 ELSE h[Any(T)] + SumTo(h)[T \ {Any(T)}]
  BY <1>1, SumToStep
<1>3. ASSUME NEW T \in SUBSET D, T # {}, T \ {Any(T)} \in P PROVE T \in P
  <2>1. Any(T) \in T /\ Any(T) \in D
    BY <1>3 DEF Any
  <2> DEFINE V == T \ {Any(T)}
  <2>2. /\ SumTo(f)[T] = f[Any(T)] + SumTo(f)[V]
        /\ SumTo(h)[T] = h[Any(T)] + SumTo(h)[V]
    BY <1>2, <1>3
  <2>3. /\ SumTo(f)[V] \in Int
        /\ SumTo(h)[V] = IF p \in V THEN SumTo(f)[V] + d ELSE SumTo(f)[V]
    BY <1>3
  <2>4. p \in T <=> p \in V \/ p = Any(T)
    BY <2>1
  <2>5. p = Any(T) => p \notin V
    OBVIOUS
  <2>6. f[Any(T)] \in Int /\ h[Any(T)] = IF Any(T) = p THEN f[Any(T)] + d ELSE f[Any(T)]
    BY <2>1, <1>1
  <2> HIDE DEF V
  <2> QED  BY <2>2, <2>3, <2>4, <2>5, <2>6
<1>4. {} \in P
  <2>1. SumTo(f)[{}] = 0 /\ SumTo(h)[{}] = 0
    BY <1>2
  <2> QED  BY <2>1
<1>5. D \in P
  <2> HIDE DEF P
  <2> QED  BY <1>3, <1>4, FromTheEmptySet
<1>6. SumTo(h)[D] = SumTo(f)[D] + d
  BY <1>5
<1>7. SumFunction(h) = SumFunction(f) + d
  BY <1>1, <1>6, SumIsSumTo
<1> QED  BY <1>7 DEF h

----------------------------------------------------------------------------
(* The counters of all addresses together.                                 *)

PreObjects == {c \in Objects : PreGame(c)}

\* A slot that some object refers to has the address of a client.
PeersKnown == \A c \in Clients : Exists(c) => Peer(c) \in IPs

TotalInv ==
  /\ PeersKnown
  /\ SumFunction(alive) = Cardinality(Objects)
  /\ SumFunction(pending) = Cardinality(PreObjects)

LEMMA FiniteObjects == IsFiniteSet(Objects) /\ IsFiniteSet(PreObjects)
<1>1. Objects \subseteq Clients /\ PreObjects \subseteq Clients
  BY DEF Objects, PreObjects
<1> QED  BY <1>1, FS_Subset, ConnectionsAssumption

LEMMA SamePeers ==
  ASSUME TypeOK, TotalInv,
         \A s \in Slots : conn'[s].peer = conn[s].peer,
         \A c \in Clients : Exists(c)' => Exists(c) /\ obj'[c].net = obj[c].net
  PROVE  PeersKnown'
  BY NetIsSlot DEF TotalInv, PeersKnown, Peer

\* Steps that leave the objects and the counters alone.
LEMMA SameTotals ==
  ASSUME TypeOK, TotalInv, UNCHANGED <<alive, pending>>,
         \A s \in Slots : conn'[s].peer = conn[s].peer,
         \A c \in Clients : /\ obj'[c].net = obj[c].net /\ Exists(c)' = Exists(c)
                            /\ PreGame(c)' = PreGame(c)
  PROVE  TotalInv'
<1>1. PeersKnown'
  BY SamePeers
<1>2. Objects' = Objects /\ PreObjects' = PreObjects
  BY DEF Objects, PreObjects
<1> QED  BY <1>1, <1>2 DEF TotalInv

LEMMA OneToIt ==
  ASSUME NEW f \in [IPs -> Int], NEW ip \in IPs
  PROVE  SumFunction([f EXCEPT ![ip] = @ + 1]) = SumFunction(f) + 1
<1>1. IsFiniteSet(IPs) /\ 1 \in Int
  BY ConnectionsAssumption
<1> QED  BY <1>1, SumOfOneMore

LEMMA OneFromIt ==
  ASSUME NEW f \in [IPs -> Int], NEW ip \in IPs
  PROVE  SumFunction([f EXCEPT ![ip] = @ - 1]) = SumFunction(f) - 1
<1>1. [f EXCEPT ![ip] = @ - 1] = [f EXCEPT ![ip] = @ + (-1)]
  OBVIOUS
<1>2. IsFiniteSet(IPs) /\ -1 \in Int
  BY ConnectionsAssumption
<1>3. SumFunction([f EXCEPT ![ip] = @ + (-1)]) = SumFunction(f) + (-1)
  BY <1>2, SumOfOneMore
<1> QED  BY <1>1, <1>3

\* A client that becomes fully connected.
LEMMA TypeTotals ==
  ASSUME TypeOK, TotalInv, NEW c \in Clients, Exists(c), NEW type \in LaterTypes(c),
         SetConnectType(c, type), UNCHANGED alive,
         \A s \in Slots : conn'[s].peer = conn[s].peer,
         \A d \in Clients : /\ obj'[d].net = obj[d].net /\ Exists(d)' = Exists(d)
                            /\ d # c => PreGame(d)' = PreGame(d),
         obj'[c].type = type
  PROVE  TotalInv'
<1>1. CASE type = "full" /\ PreGame(c)
  <2>1. PeersKnown'
    BY SamePeers
  <2>2. Peer(c) \in IPs
    BY DEF TotalInv, PeersKnown
  <2>3. SumFunction(pending') = SumFunction(pending) - 1
    BY <1>1, <2>2, OneFromIt DEF SetConnectType, TypeOK
  <2>4. Objects' = Objects /\ PreObjects' = PreObjects \ {c} /\ c \in PreObjects
    BY <1>1 DEF Objects, PreObjects, PreGame
  <2>5. Cardinality(PreObjects \ {c}) = Cardinality(PreObjects) - 1
    BY <2>4, FiniteObjects, FS_RemoveElement
  <2> QED  BY <2>1, <2>3, <2>4, <2>5 DEF TotalInv
<1>2. CASE ~(type = "full" /\ PreGame(c))
  <2>1. PreGame(c)' = PreGame(c)
    BY <1>2 DEF LaterTypes, PreGame, Types
  <2> QED  BY <1>2, <2>1, SameTotals DEF SetConnectType
<1> QED  BY <1>1, <1>2

LEMMA DestroyTotals == ASSUME IInv, TotalInv, NEW c \in Clients, Destroy(c) PROVE TotalInv'
<1>1. TypeOK /\ Exists(c) /\ obj[c].net \in Slots
  BY NetIsSlot DEF Destroy, IInv, ObjInv
<1>2. \A s \in Slots : conn'[s].peer = conn[s].peer
  BY <1>1 DEF Destroy, MarkReadClosed, TypeOK, NetState
<1>3. /\ obj' = [obj EXCEPT ![c] = NoObject] /\ ~Exists(c)'
      /\ \A d \in Clients : d # c => obj'[d] = obj[d]
  BY <1>1 DEF Destroy, TypeOK, Exists, NoObject
<1>4. PeersKnown'
  BY <1>1, <1>2, <1>3, SamePeers DEF Exists
<1>5. Peer(c) \in IPs
  BY <1>1 DEF TotalInv, PeersKnown
<1>6. SumFunction(alive') = SumFunction(alive) - 1
  BY <1>1, <1>5, OneFromIt DEF Destroy, TypeOK
<1>7. SumFunction(pending') = IF PreGame(c) THEN SumFunction(pending) - 1
                              ELSE SumFunction(pending)
  BY <1>1, <1>5, OneFromIt DEF Destroy, TypeOK
<1>8. /\ Objects' = Objects \ {c} /\ c \in Objects
      /\ PreObjects' = PreObjects \ {c} /\ (PreGame(c) <=> c \in PreObjects)
  BY <1>1, <1>3 DEF Objects, PreObjects, Exists, PreGame
<1>9. /\ Cardinality(Objects \ {c}) = Cardinality(Objects) - 1
      /\ Cardinality(PreObjects \ {c}) =
           IF PreGame(c) THEN Cardinality(PreObjects) - 1 ELSE Cardinality(PreObjects)
  BY <1>8, FiniteObjects, FS_RemoveElement
<1> QED  BY <1>4, <1>6, <1>7, <1>8, <1>9 DEF TotalInv

LEMMA AcceptTotals == ASSUME IInv, TotalInv, NEW ip \in IPs, Accept(ip) PROVE TotalInv'
<1>1. PICK s \in Slots, c \in Clients :
        /\ ~Exists(c)
        /\ conn' = [conn EXCEPT ![s] = InitState(@, c, ip)]
        /\ obj' = [obj EXCEPT ![c] = [net |-> s, type |-> "pre", char |-> FALSE, home |-> ip]]
  BY DEF Accept, NextObject
<1>2. alive' = [alive EXCEPT ![ip] = @ + 1] /\ pending' = [pending EXCEPT ![ip] = @ + 1]
  BY DEF Accept
<1>3. TypeOK
  BY DEF IInv
<1>4. \A t \in Slots : conn'[t].peer = IF t = s THEN ip ELSE conn[t].peer
  BY <1>1, <1>3 DEF InitState, Clear, TypeOK, NetState
<1>5. /\ obj'[c].net = s /\ Exists(c)' /\ PreGame(c)'
      /\ \A d \in Clients : d # c => obj'[d] = obj[d]
  BY <1>1, <1>3 DEF TypeOK, Exists, PreGame
<1>6. PeersKnown'
  <2> SUFFICES ASSUME NEW d \in Clients, Exists(d)' PROVE conn'[obj'[d].net].peer \in IPs
    BY DEF PeersKnown, Peer
  <2>1. CASE d = c
    BY <2>1, <1>4, <1>5
  <2>2. CASE d # c
    <3>1. Exists(d) /\ obj'[d].net = obj[d].net /\ obj[d].net \in Slots
      BY <2>2, <1>3, <1>5, NetIsSlot DEF Exists
    <3> QED  BY <3>1, <1>4 DEF TotalInv, PeersKnown, Peer
  <2> QED  BY <2>1, <2>2
<1>7. /\ SumFunction(alive') = SumFunction(alive) + 1
      /\ SumFunction(pending') = SumFunction(pending) + 1
  <2>1. alive \in [IPs -> Int] /\ pending \in [IPs -> Int]
    BY <1>3 DEF TypeOK
  <2> QED  BY <2>1, <1>2, OneToIt
<1>8. /\ Objects' = Objects \cup {c} /\ c \notin Objects
      /\ PreObjects' = PreObjects \cup {c} /\ c \notin PreObjects
  BY <1>1, <1>5 DEF Objects, PreObjects, Exists, PreGame
<1>9. /\ Cardinality(Objects \cup {c}) = Cardinality(Objects) + 1
      /\ Cardinality(PreObjects \cup {c}) = Cardinality(PreObjects) + 1
  BY <1>8, FiniteObjects, FS_AddElement
<1> QED  BY <1>6, <1>7, <1>8, <1>9 DEF TotalInv

LEMMA TickTotals == ASSUME IInv, TotalInv, TickThread PROVE TotalInv'
<1>1. \A ip \in IPs : alive'[ip] = alive[ip] /\ pending'[ip] = pending[ip]
  BY DEF TickThread, Forgettable
<1>2. UNCHANGED <<alive, pending>>
  BY <1>1 DEF TickThread, IInv, TypeOK
<1>3. \A s \in Slots : conn'[s].peer = conn[s].peer
  BY DEF TickThread, IInv, TypeOK, NetState
<1>4. UNCHANGED obj /\ TypeOK
  BY DEF TickThread, IInv
<1> QED  BY <1>2, <1>3, <1>4, SameTotals DEF Exists, PreGame

\* The step of a packet, received or sent, may make its client another type.
LEMMA HandleTotals == ASSUME IInv, TotalInv, NEW s \in Slots, Handle(s) PROVE TotalInv'
<1> DEFINE c == conn[s].client
<1>1. TypeOK /\ c \in Clients /\ Exists(c) /\ obj[c] \in Object
  BY DEF Handle, Inputs, IInv, TodoInv, OwnerInv, TypeOK, Exists, NoObject
<1>2. PICK type \in LaterTypes(c) : \E plays \in {FALSE, type = "full"} :
        /\ SetConnectType(c, type)
        /\ obj' = [obj EXCEPT ![c] = [@ EXCEPT !.type = type, !.char = plays]]
  BY DEF Handle
<1>3. /\ obj'[c].type = type /\ obj'[c].net = obj[c].net
      /\ \A d \in Clients : d # c => obj'[d] = obj[d]
  BY <1>1, <1>2 DEF TypeOK, Object
<1>4. \A d \in Clients : Exists(d)' = Exists(d) /\ (d # c => PreGame(d)' = PreGame(d))
  <2>1. type # "none"
    BY <1>2 DEF LaterTypes, Types
  <2> QED  BY <1>1, <1>3, <2>1 DEF Exists, PreGame
<1>5. \A t \in Slots : conn'[t].peer = conn[t].peer
  BY <1>1 DEF Handle, Queue, TypeOK, NetState
<1>6. UNCHANGED alive
  BY DEF Handle
<1>7. \A d \in Clients : obj'[d].net = obj[d].net
  BY <1>3
<1> HIDE DEF c
<1> QED  BY <1>1, <1>2, <1>3, <1>4, <1>5, <1>6, <1>7, TypeTotals

LEMMA WriteTotals == ASSUME IInv, TotalInv, NEW s \in Slots, WriteQueues(s) PROVE TotalInv'
<1> DEFINE c == conn[s].client
<1>1. TypeOK /\ c \in Clients /\ Exists(c) /\ obj[c] \in Object
  BY DEF WriteQueues, Outputs, IsNext, IInv, TodoInv, OwnerInv, TypeOK, Exists, NoObject
<1>2. PICK type \in {obj[c].type} \cup (IF PreGame(c) /\ conn[s].out # {}
                                        THEN {"full"} ELSE {}) :
        SetConnectType(c, type) /\ obj' = [obj EXCEPT ![c].type = type]
  BY DEF WriteQueues
<1>3. type \in LaterTypes(c)
  BY <1>1, <1>2 DEF LaterTypes, Types, PreGame, Object
<1>4. /\ obj'[c].type = type /\ obj'[c].net = obj[c].net
      /\ \A d \in Clients : d # c => obj'[d] = obj[d]
  BY <1>1, <1>2 DEF TypeOK, Object
<1>5. \A d \in Clients : Exists(d)' = Exists(d) /\ (d # c => PreGame(d)' = PreGame(d))
  <2>1. type # "none"
    BY <1>3 DEF LaterTypes, Types
  <2> QED  BY <1>1, <1>4, <2>1 DEF Exists, PreGame
<1>6. \A t \in Slots : conn'[t].peer = conn[t].peer
  BY <1>1 DEF WriteQueues, TypeOK, NetState
<1>7. UNCHANGED alive
  BY DEF WriteQueues
<1>8. \A d \in Clients : obj'[d].net = obj[d].net
  BY <1>4
<1> HIDE DEF c
<1> QED  BY <1>1, <1>2, <1>3, <1>4, <1>5, <1>6, <1>7, <1>8, TypeTotals

\* All others.
LEMMA OtherTotals ==
  ASSUME IInv, TotalInv,
         \/ Moves \/ UNCHANGED vars
         \/ \E c \in Clients : Send(c) \/ Kick(c)
         \/ \E s \in Slots : \/ Passes(s) \/ HangUp(s) \/ Keep(s) \/ Frozen(s)
                             \/ CloseForWriting(s) \/ ManageStep(s)
  PROVE  TotalInv'
<1>1. TypeOK
  BY DEF IInv
<1>2. UNCHANGED <<alive, pending>>
  BY DEF Moves, Passes, SkipWorld, RunWorld, WorldTicked, Deleted, NoAccept, Processed,
     Written, PassOver, NothingToWrite, LeaveOpen, vars, count, Send, Kick, HangUp, Keep,
     Frozen, CloseForWriting, ManageStep, TimeOut, FlushClosing, FinishClosing
<1>3. \A s \in Slots : conn'[s].peer = conn[s].peer
  <2>1. \A s \in Slots, t \in Slots :
          /\ Clear(conn[s]).peer = conn[s].peer
          /\ MarkReadClosed(conn[s]).peer = conn[s].peer
          /\ \A c : /\ Queue(conn[s], c).peer = conn[s].peer
                    /\ MarkReadClosed(Queue(conn[s], c)).peer = conn[s].peer
    BY <1>1 DEF Clear, MarkReadClosed, Queue, TypeOK, NetState
  <2>2. CASE Moves \/ UNCHANGED vars \/ \E s \in Slots : Passes(s)
    BY <2>2 DEF Moves, Passes, SkipWorld, RunWorld, WorldTicked, Deleted, NoAccept,
       Processed, Written, PassOver, NothingToWrite, LeaveOpen, vars, table
  <2>3. ASSUME NEW c \in Clients, Send(c) \/ Kick(c)
        PROVE  \A s \in Slots : conn'[s].peer = conn[s].peer
    <3>1. obj[c].net \in Slots
      BY <1>1, NetIsSlot
    <3> QED  BY <1>1, <2>1, <2>3, <3>1 DEF Send, Kick, TypeOK
  <2>4. ASSUME NEW s \in Slots, HangUp(s) \/ Frozen(s) \/ TimeOut(s) \/ FinishClosing(s)
        PROVE  \A t \in Slots : conn'[t].peer = conn[t].peer
    BY <1>1, <2>1, <2>4 DEF HangUp, Frozen, TimeOut, FinishClosing, ClearSlot, TypeOK
  <2>5. ASSUME NEW s \in Slots, Keep(s) \/ CloseForWriting(s) \/ FlushClosing(s)
        PROVE  \A t \in Slots : conn'[t].peer = conn[t].peer
    <3>1. \/ conn' = [conn EXCEPT ![s].in = @ \cup {conn[s].client}]
          \/ conn' = [conn EXCEPT ![s].writeClosed = TRUE]
          \/ UNCHANGED conn
          \/ \E failed \in BOOLEAN :
               conn' = [conn EXCEPT ![s].out = {}, ![s].writeClosed = failed]
      BY <2>5 DEF Keep, CloseForWriting, FlushClosing
    <3>2. conn \in [Slots -> NetState]
      BY <1>1 DEF TypeOK
    <3> QED  BY <3>1, <3>2 DEF NetState
  <2> QED  BY <2>2, <2>3, <2>4, <2>5 DEF ManageStep, Passes
<1>4. \A c \in Clients : obj'[c].net = obj[c].net /\ obj'[c].type = obj[c].type
  <2>1. CASE \E c \in Clients : Kick(c)
    <3>1. PICK c \in Clients : \E plays : obj' = [obj EXCEPT ![c].char = plays]
      BY <2>1 DEF Kick
    <3>2. ASSUME NEW d \in Clients
          PROVE  obj'[d].net = obj[d].net /\ obj'[d].type = obj[d].type
      <4>1. obj[d] \in Object \cup {NoObject}
        BY <1>1 DEF TypeOK
      <4> QED  BY <1>1, <3>1, <4>1 DEF TypeOK, Object, NoObject
    <3> QED  BY <3>2
  <2>2. CASE ~\E c \in Clients : Kick(c)
    BY <2>2 DEF Moves, Passes, SkipWorld, RunWorld, WorldTicked, Deleted, NoAccept,
       Processed, Written, PassOver, NothingToWrite, LeaveOpen, vars, Send, HangUp, Keep,
       Frozen, CloseForWriting, ManageStep, TimeOut, FlushClosing, FinishClosing
  <2> QED  BY <2>1, <2>2
<1> QED  BY <1>1, <1>2, <1>3, <1>4, SameTotals DEF Exists, PreGame

LEMMA NextTotals == ASSUME IInv, TotalInv, [Next]_vars PROVE TotalInv'
  BY OtherTotals, DestroyTotals, AcceptTotals, TickTotals, HandleTotals, WriteTotals
     DEF Next, MainLoop, Moves, Passes, InputStep, OutputStep, ManageStep

\* The counters of all addresses add up to the client objects there are, and to
\* those that have not entered: whatever address ~CClient finds in the slot, each
\* client is taken off once (CIPHistoryManager.cpp, CClient.cpp), and those of
\* an address are its own unless a slot was overtaken.
THEOREM CountersAgree == Spec => []CountsAgree
<1>1. Init => TotalInv
  <2> SUFFICES ASSUME Init PROVE TotalInv
    OBVIOUS
  <2>1. \A c \in Clients : ~Exists(c)
    BY DEF Init, Exists, NoObject
  <2>2. Objects = {} /\ PreObjects = {}
    BY <2>1 DEF Objects, PreObjects
  <2>3. SumFunction(alive) = 0 /\ SumFunction(pending) = 0
    BY SumOfZeros, ConnectionsAssumption DEF Init
  <2> QED  BY <2>1, <2>2, <2>3, FS_EmptySet DEF TotalInv, PeersKnown
<1>2. IInv /\ TotalInv => CountsAgree
  BY DEF IInv, TotalInv, CountsAgree, PreObjects
<1> QED  BY <1>1, <1>2, ConnectionsInvariant, NextTotals, PTL DEF Spec
=============================================================================
