---------------------------- MODULE LoginHandoff ----------------------------
(***************************************************************************)
(* How a client gets from the login server to a shard with                 *)
(* UseExternalLogin=1 (src/services/login-server, CInternalApiServer.cpp,  *)
(* CSessionRegistry.cpp, CClientLog.cpp).  The login server checks the     *)
(* password and lets a thread register a session at the shard; the thread  *)
(* T_InternalApi of the shard takes one request at a time and puts the     *)
(* session into the registry; then the client is relayed and presents the  *)
(* id of the session to the main thread of the shard, which consumes it.   *)
(*                                                                         *)
(* Each section of the registry under its mutex is one step, together with *)
(* the reading of the clock that follows it.  The request comes in two     *)
(* segments, headers and body, as http.client sends it.  Abstracted: the   *)
(* handshake before the password is checked, the shared secret, the GET    *)
(* requests for the status, the password that the shard checks once more.  *)
(***************************************************************************)
EXTENDS Integers, Sequences

CONSTANTS
  Logins,       \* connections to the login server
  AccountOf,    \* the account a login is for
  AuthId,       \* make_auth_id for the name of the account as it was typed
                \* (sessions are compared without case) and for this shard
  NoLogin,
  ReplyTimeout, \* of urlopen
  Ttl,          \* ttl_seconds
  Horizon,      \* bound: the last clock reading
  MaxTries,     \* bound: game connections of one client
  MaxRestarts   \* bound: how often the shard is killed and started again

ASSUME HandoffAssumption ==
  /\ ReplyTimeout \in Nat \ {0} /\ Ttl \in Nat \ {0}
  /\ Horizon \in Nat /\ MaxTries \in Nat /\ MaxRestarts \in Nat
  /\ NoLogin \notin Logins
  /\ AuthId \in [Logins -> Nat \ {0}]

VARIABLES
  now,       \* CSTime::GetMonotonicSysTimeMilli
  login,     \* where handle_client is
  askedAt,   \* when register_session began
  whole,     \* the body has been sent
  answer,    \* the response of the shard
  backlog,   \* connections that m_listenSocket has not accepted
  api,       \* what T_InternalApi is doing
  sessions,  \* m_sessions: the login that registered an id, and m_iExpiresAtMs
  game,      \* what the main thread of the shard is doing
  tries,     \* game connections a client has made
  entered,   \* history: the clients ConsumeSession let in
  fate,      \* history: what became of the session of a login
  until,     \* history: when a session that is stored expires
  restarts   \* for the bound

requests == <<login, askedAt, whole, answer, backlog>>
clients  == <<tries, entered>>
history  == <<fate, until>>
vars == <<now, requests, api, sessions, game, clients, history, restarts>>

Id(l)   == AuthId[l]
Ids     == {Id(l) : l \in Logins}
Times   == 0 .. Horizon + Ttl
Session == [by : Logins, expires : Times]
Empty   == [by |-> NoLogin, expires |-> 0]
Fates   == {"none", "stored", "spent", "replaced", "lost"}

ApiIdle  == [at |-> "idle", of |-> NoLogin, seen |-> 0, expires |-> 0]
GameIdle == [at |-> "idle", of |-> NoLogin, seen |-> 0]

TypeOK ==
  /\ now \in 0 .. Horizon
  /\ login \in [Logins -> {"out", "asked", "relayed", "failed"}]
  /\ askedAt \in [Logins -> 0 .. Horizon]
  /\ whole \in [Logins -> BOOLEAN]
  /\ answer \in [Logins -> {"none", "created", "refused"}]
  /\ backlog \in Seq(Logins)
  /\ api \in [at : {"idle", "purge", "store", "reply"}, of : Logins \cup {NoLogin},
              seen : 0 .. Horizon, expires : Times]
  /\ sessions \in [Ids -> Session \cup {Empty}]
  /\ game \in [at : {"idle", "purge", "find"}, of : Logins \cup {NoLogin},
               seen : 0 .. Horizon]
  /\ tries \in [Logins -> 0 .. MaxTries]
  /\ entered \in Seq(Logins)
  /\ fate \in [Logins -> Fates] /\ until \in [Logins -> Times]
  /\ restarts \in 0 .. MaxRestarts

Has(id) == sessions[id] # Empty

-----------------------------------------------------------------------------
(* The registry. *)

\* Mutant of Unexpired: what expires in this moment is kept.
UnexpiredYet(seen) ==
  [id \in Ids |-> IF sessions[id].expires < seen THEN Empty ELSE sessions[id]]
(* PurgeExpired, with the clock it has read before the lock. *)
Unexpired(seen) ==
  [id \in Ids |-> IF sessions[id].expires <= seen THEN Empty ELSE sessions[id]]

(* m_sessions[authId] = entry: also over the session of another login. *)
StoreSession(l, expires) ==
  /\ sessions' = [sessions EXCEPT ![Id(l)] = [by |-> l, expires |-> expires]]
  /\ fate' = [k \in Logins |->
       CASE k = l -> "stored"
         [] k # l /\ sessions[Id(l)].by = k -> "replaced"
         [] OTHER -> fate[k]]
  /\ until' = [k \in Logins |->
       CASE k = l -> expires
         [] fate'[k] = "stored" /\ k # l -> until[k]
         [] OTHER -> 0]

-----------------------------------------------------------------------------
(* The login server. *)

(* The password is right and the client has chosen the shard.  (The clock   *)
(* is bounded: no login begins so late that its wait could not end.)        *)
LogIn(l) ==
  /\ login[l] = "out" /\ now + ReplyTimeout <= Horizon
  /\ login' = [login EXCEPT ![l] = "asked"]
  /\ askedAt' = [askedAt EXCEPT ![l] = now]
  /\ backlog' = Append(backlog, l)
  /\ UNCHANGED <<now, whole, answer, api, sessions, game, clients, history, restarts>>

SendBody(l) ==
  /\ login[l] = "asked" /\ ~whole[l]
  /\ whole' = [whole EXCEPT ![l] = TRUE]
  /\ UNCHANGED <<now, login, askedAt, answer, backlog, api, sessions, game,
                 clients, history, restarts>>

(* register_session returns, or throws; the client is relayed or told. *)
GetAnswer(l) ==
  /\ login[l] = "asked" /\ whole[l] /\ answer[l] # "none"
  /\ login' = [login EXCEPT ![l] = IF answer[l] = "created" THEN "relayed" ELSE "failed"]
  /\ UNCHANGED <<now, askedAt, whole, answer, backlog, api, sessions, game,
                 clients, history, restarts>>

\* Mutant of TimeOut: the time counts from the moment the shard accepts.
TimeOutAccepted(l) ==
  /\ login[l] = "asked" /\ whole[l] /\ answer[l] = "none"
  /\ askedAt[l] + ReplyTimeout <= now /\ \A i \in DOMAIN backlog : backlog[i] # l
  /\ login' = [login EXCEPT ![l] = "failed"]
  /\ UNCHANGED <<now, askedAt, whole, answer, backlog, api, sessions, game,
                 clients, history, restarts>>

(* The shard may still store the session. *)
TimeOut(l) ==
  /\ login[l] = "asked" /\ whole[l] /\ answer[l] = "none"
  /\ askedAt[l] + ReplyTimeout <= now
  /\ login' = [login EXCEPT ![l] = "failed"]
  /\ UNCHANGED <<now, askedAt, whole, answer, backlog, api, sessions, game,
                 clients, history, restarts>>

(* The login server is killed; what it has sent stays with the shard. *)
LoginServerDies ==
  /\ \E l \in Logins : login[l] = "asked"
  /\ login' = [l \in Logins |-> IF login[l] = "asked" THEN "failed" ELSE login[l]]
  /\ UNCHANGED <<now, askedAt, whole, answer, backlog, api, sessions, game,
                 clients, history, restarts>>

-----------------------------------------------------------------------------
(* The thread T_InternalApi of the shard. *)

(* tick and handleClient: accept, and one call of recv; the body must have  *)
(* come by then.                                                            *)
Receive ==
  /\ api = ApiIdle /\ backlog # <<>>
  /\ backlog' = Tail(backlog)
  /\ IF whole[Head(backlog)]
     THEN /\ api' = [ApiIdle EXCEPT !.at = "purge", !.of = Head(backlog), !.seen = now]
          /\ UNCHANGED answer
     ELSE /\ answer' = [answer EXCEPT ![Head(backlog)] = "refused"]
          /\ UNCHANGED api
  /\ UNCHANGED <<now, login, askedAt, whole, sessions, game, clients, history, restarts>>

(* RegisterSession up to the second lock. *)
PurgeToRegister ==
  /\ api.at = "purge"
  /\ sessions' = Unexpired(api.seen)
  /\ api' = [api EXCEPT !.at = "store", !.seen = 0, !.expires = now + Ttl]
  /\ UNCHANGED <<now, requests, game, clients, history, restarts>>

\* Mutant of Register: the answer goes out before the session is stored.
RegisterLate ==
  \/ /\ api.at = "store" /\ answer[api.of] = "none"
     /\ answer' = [answer EXCEPT ![api.of] = "created"]
     /\ UNCHANGED <<now, login, askedAt, whole, backlog, api, sessions, game,
                    clients, history, restarts>>
  \/ /\ api.at = "store" /\ answer[api.of] = "created"
     /\ StoreSession(api.of, api.expires)
     /\ api' = [api EXCEPT !.at = "reply", !.expires = 0]
     /\ UNCHANGED <<now, requests, game, clients, restarts>>

Register ==
  /\ api.at = "store"
  /\ StoreSession(api.of, api.expires)
  /\ api' = [api EXCEPT !.at = "reply", !.expires = 0]
  /\ UNCHANGED <<now, requests, game, clients, restarts>>

Reply ==
  /\ api.at = "reply"
  /\ answer' = [answer EXCEPT ![api.of] = "created"]
  /\ api' = ApiIdle
  /\ UNCHANGED <<now, login, askedAt, whole, backlog, sessions, game, clients,
                 history, restarts>>

-----------------------------------------------------------------------------
(* The main thread of the shard: XCMD_CharListReq of a relayed client. *)

Present(l) ==
  /\ game = GameIdle /\ login[l] = "relayed" /\ tries[l] < MaxTries
  /\ tries' = [tries EXCEPT ![l] = @ + 1]
  /\ game' = [at |-> "purge", of |-> l, seen |-> now]
  /\ UNCHANGED <<now, requests, api, sessions, entered, history, restarts>>

PurgeToConsume ==
  /\ game.at = "purge"
  /\ sessions' = Unexpired(game.seen)
  /\ game' = [game EXCEPT !.at = "find"]
  /\ UNCHANGED <<now, requests, api, clients, history, restarts>>

Matches(l) == Has(Id(l)) /\ AccountOf[sessions[Id(l)].by] = AccountOf[l]

Spend(l) ==
  /\ entered' = Append(entered, l)
  /\ sessions' = [sessions EXCEPT ![Id(l)] = Empty]
  /\ fate' = [fate EXCEPT ![sessions[Id(l)].by] = "spent"]
  /\ until' = [until EXCEPT ![sessions[Id(l)].by] = 0]

\* Mutant of Consume: the id is enough.
ConsumeAny ==
  /\ game.at = "find"
  /\ IF Has(Id(game.of)) THEN Spend(game.of) ELSE UNCHANGED <<entered, sessions, history>>
  /\ game' = GameIdle
  /\ UNCHANGED <<now, requests, api, tries, restarts>>

(* ConsumeSession under the second lock; without a session the connection   *)
(* is closed with BadAuthID.                                                *)
Consume ==
  /\ game.at = "find"
  /\ IF Matches(game.of) THEN Spend(game.of) ELSE UNCHANGED <<entered, sessions, history>>
  /\ game' = GameIdle
  /\ UNCHANGED <<now, requests, api, tries, restarts>>

(* The shard is killed and started again: the registry is memory, and the   *)
(* requests that were not answered fail.                                    *)
Restart ==
  /\ restarts < MaxRestarts /\ restarts' = restarts + 1
  /\ backlog' = <<>> /\ api' = ApiIdle /\ game' = GameIdle
  /\ sessions' = [id \in Ids |-> Empty]
  /\ answer' = [l \in Logins |->
       IF login[l] # "out" /\ answer[l] = "none" THEN "refused" ELSE answer[l]]
  /\ fate' = [l \in Logins |-> IF fate[l] = "stored" THEN "lost" ELSE fate[l]]
  /\ until' = [l \in Logins |-> 0]
  /\ UNCHANGED <<now, login, askedAt, whole, clients>>

(* A thread does not stand still for a whole Ttl between the reading of the *)
(* clock in RegisterSession and the lock.                                   *)
Advance ==
  /\ now < Horizon /\ now' = now + 1
  /\ api.at = "store" => now' < api.expires
  /\ UNCHANGED <<requests, api, sessions, game, clients, history, restarts>>

-----------------------------------------------------------------------------
Init ==
  /\ now = 0
  /\ login = [l \in Logins |-> "out"] /\ askedAt = [l \in Logins |-> 0]
  /\ whole = [l \in Logins |-> FALSE] /\ answer = [l \in Logins |-> "none"]
  /\ backlog = <<>> /\ api = ApiIdle /\ game = GameIdle
  /\ sessions = [id \in Ids |-> Empty]
  /\ tries = [l \in Logins |-> 0] /\ entered = <<>>
  /\ fate = [l \in Logins |-> "none"] /\ until = [l \in Logins |-> 0]
  /\ restarts = 0

Next ==
  \/ \E l \in Logins : LogIn(l) \/ SendBody(l) \/ GetAnswer(l) \/ TimeOut(l) \/ Present(l)
  \/ LoginServerDies
  \/ Receive \/ PurgeToRegister \/ Register \/ Reply
  \/ PurgeToConsume \/ Consume
  \/ Restart \/ Advance

Spec == Init /\ [][Next]_vars

(* Time passes and the thread of the login server runs; of the shard only   *)
(* what the assumption in Advance says is asked.                            *)
Fairness ==
  /\ WF_vars(Advance) /\ WF_vars(Register)
  /\ \A l \in Logins : WF_vars(SendBody(l)) /\ WF_vars(GetAnswer(l) \/ TimeOut(l))

FairSpec == Spec /\ Fairness

-----------------------------------------------------------------------------
(* Properties. *)

(* One client enters on one registration, and its account is the one that   *)
(* the login server has checked: no matter that all connections of an       *)
(* account get one id, that another account may have the same id, and that  *)
(* the registry is purged and searched under two locks (ConsumeSession,     *)
(* RegisterSession, make_auth_id).                                          *)
Passed == {l \in Logins : login[l] # "out"}
Issued == {l \in Logins : fate[l] # "none"}
Valid  == {l \in Logins : \E id \in Ids : sessions[id].by = l}
Tickets == INSTANCE LoginTickets WITH
  passed <- Passed, issued <- Issued, valid <- Valid
ImplementsTickets == Tickets!Spec

(* A session lets in only a client that came before it expired, although    *)
(* what has expired is taken out under another lock than the search         *)
(* (PurgeExpired, ConsumeSession).                                          *)
EntersInTime == [][entered' # entered => sessions[Id(game.of)].expires > game.seen]_vars

(* A relayed client is turned away only if the time of its session is over, *)
(* or a client with its id has used or replaced the session, or the shard   *)
(* was restarted: the login server has its answer after the session is      *)
(* stored, and a purge takes nothing that is still good (Reply, Receive,    *)
(* PurgeExpired).                                                           *)
Refuses == game.at = "find" /\ game' = GameIdle /\ entered' = entered /\ restarts' = restarts
RefusesForCause == [][Refuses =>
  \/ fate[game.of] \in {"spent", "replaced", "lost"}
  \/ fate[game.of] = "stored" /\ until[game.of] <= now]_vars

(* A login ends with the relay or with an error, whatever the shard does or *)
(* does not do (register_session, handle_client).                           *)
LoginsEnd == \A l \in Logins : login[l] = "asked" ~> login[l] \in {"relayed", "failed"}
=============================================================================
