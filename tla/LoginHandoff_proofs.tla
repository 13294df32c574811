------------------------ MODULE LoginHandoff_proofs ------------------------
(***************************************************************************)
(* Proofs about LoginHandoff, for any logins, ids, timeouts and bounds.    *)
(* The inductive invariant IInv says, for each party, what it may rely on: *)
(* the login server, the requests that wait, the thread T_InternalApi, the *)
(* main thread of the shard, and the registry between the two.             *)
(***************************************************************************)
EXTENDS LoginHandoff, TLAPS

\* The login server relays only after the session was stored.
ReqInv == \A l \in Logins :
  /\ login[l] = "out" => fate[l] = "none" /\ answer[l] = "none"
  /\ answer[l] = "created" => fate[l] # "none"
  /\ login[l] = "relayed" => answer[l] = "created"

\* A request that was not accepted is waiting once and has stored nothing.
BacklogInv ==
  /\ \A i \in 1 .. Len(backlog) :
       /\ login[backlog[i]] # "out" /\ fate[backlog[i]] = "none"
       /\ api.at # "idle" => backlog[i] # api.of
  /\ \A i, j \in 1 .. Len(backlog) : backlog[i] = backlog[j] => i = j

\* Where T_InternalApi is with the request it works on.
ApiInv ==
  /\ api.at # "idle" => api.of \in Logins /\ login[api.of] # "out" /\ api.seen <= now
  /\ api.at \in {"purge", "store"} => fate[api.of] = "none"
  /\ api.at = "store" => api.expires > now
  /\ api.at = "reply" => fate[api.of] # "none"

\* Whoever is searched for was relayed, and the registry holds nothing that
\* had expired when the search began.
GameInv ==
  /\ game.at # "idle" =>
       game.of \in Logins /\ login[game.of] = "relayed" /\ game.seen <= now
  /\ game.at = "find" => \A id \in Ids : Has(id) => sessions[id].expires > game.seen

\* The registry and what is remembered of the sessions agree.
SessInv ==
  /\ \A id \in Ids : Has(id) =>
       /\ sessions[id].by \in Logins /\ Id(sessions[id].by) = id
       /\ fate[sessions[id].by] = "stored"
       /\ until[sessions[id].by] = sessions[id].expires
  /\ \A l \in Logins : fate[l] = "stored" =>
       sessions[Id(l)].by = l \/ until[l] <= now

IInv == TypeOK /\ ReqInv /\ BacklogInv /\ ApiInv /\ GameInv /\ SessInv

----------------------------------------------------------------------------
(* Facts about ids and sessions.                                           *)

LEMMA IdsOfLogins == \A l \in Logins : Id(l) \in Ids
  BY DEF Ids

LEMMA EmptyIsEmpty == \A id : ~Has(id) => sessions[id].by = NoLogin
  BY DEF Has, Empty

\* What is stored under an id is a session, and its login is one of that id.
LEMMA StoredOfLogin ==
  ASSUME TypeOK, NEW l \in Logins, NEW id \in Ids, sessions[id].by = l
  PROVE  Has(id)
  BY HandoffAssumption DEF TypeOK, Has, Empty

LEMMA TimesNat == /\ Times \subseteq Nat /\ 0 \in Times
                  /\ \A t \in 0 .. Horizon : t + Ttl \in Times
  BY HandoffAssumption DEF Times

----------------------------------------------------------------------------
(* The initial states and each action.                                     *)

LEMMA InitIInv == Init => IInv
<1> SUFFICES ASSUME Init PROVE IInv
  OBVIOUS
<1> USE HandoffAssumption DEF Init
<1>1. TypeOK
  BY TimesNat DEF TypeOK, ApiIdle, GameIdle, Fates
<1>2. ReqInv /\ BacklogInv /\ ApiInv /\ GameInv
  BY DEF ReqInv, BacklogInv, ApiInv, GameInv, ApiIdle, GameIdle
<1>3. SessInv
  BY DEF SessInv, Has
<1> QED
  BY <1>1, <1>2, <1>3 DEF IInv

LEMMA LogInIInv == ASSUME IInv, NEW l \in Logins, LogIn(l) PROVE IInv'
<1> USE DEF IInv
<1>1. TypeOK'
  <2>1. backlog' \in Seq(Logins)
    BY DEF LogIn, TypeOK
  <2>2. /\ login' \in [Logins -> {"out", "asked", "relayed", "failed"}]
        /\ askedAt' \in [Logins -> 0 .. Horizon]
    BY DEF LogIn, TypeOK
  <2> QED  BY <2>1, <2>2 DEF LogIn, TypeOK, clients, history
<1>2. \A k \in Logins : login'[k] = IF k = l THEN "asked" ELSE login[k]
  BY DEF LogIn, TypeOK
<1>3. ReqInv' /\ ApiInv' /\ GameInv' /\ SessInv'
  <2>1. ReqInv'
    BY <1>2 DEF LogIn, ReqInv, history
  <2>2. ApiInv'
    BY <1>2 DEF LogIn, ApiInv, history
  <2>3. GameInv'
    BY <1>2 DEF LogIn, GameInv, Has
  <2>4. SessInv'
    BY DEF LogIn, SessInv, Has, history
  <2> QED  BY <2>1, <2>2, <2>3, <2>4
<1>4. BacklogInv'
  <2>1. fate[l] = "none" /\ (api.at # "idle" => l # api.of)
    BY DEF LogIn, ReqInv, ApiInv
  <2>2. \A i \in 1 .. Len(backlog) : backlog[i] # l
    BY DEF LogIn, BacklogInv
  <2>3. /\ Len(backlog') = Len(backlog) + 1 /\ Len(backlog) \in Nat
        /\ backlog'[Len(backlog) + 1] = l
        /\ \A i \in 1 .. Len(backlog) : backlog'[i] = backlog[i] /\ backlog[i] \in Logins
    BY DEF LogIn, TypeOK
  <2> QED
    BY <1>2, <2>1, <2>2, <2>3 DEF LogIn, BacklogInv, history
<1> QED
  BY <1>1, <1>3, <1>4

\* The other steps of the login server change login alone, and whole.
LEMMA LoginServerIInv ==
  ASSUME IInv, NEW l \in Logins, SendBody(l) \/ GetAnswer(l) \/ TimeOut(l) \/ LoginServerDies
  PROVE  IInv'
<1> USE DEF IInv
<1>1. UNCHANGED <<now, askedAt, answer, backlog, api, sessions, game, tries, entered,
                  fate, until, restarts>>
  BY DEF SendBody, GetAnswer, TimeOut, LoginServerDies, clients, history
<1>2. /\ login' \in [Logins -> {"out", "asked", "relayed", "failed"}]
      /\ whole' \in [Logins -> BOOLEAN]
  BY DEF SendBody, GetAnswer, TimeOut, LoginServerDies, TypeOK
<1>3. \A k \in Logins :
        \/ login'[k] = login[k]
        \/ login[k] = "asked" /\ login'[k] = "failed"
        \/ login[k] = "asked" /\ login'[k] = "relayed" /\ answer[k] = "created"
  BY DEF SendBody, GetAnswer, TimeOut, LoginServerDies, TypeOK
<1>4. TypeOK'
  BY <1>1, <1>2 DEF TypeOK
<1>5. ReqInv'
  BY <1>1, <1>3 DEF ReqInv
<1>6. BacklogInv'
  <2>1. \A i \in 1 .. Len(backlog) : backlog[i] \in Logins
    BY DEF TypeOK
  <2> QED  BY <1>1, <1>3, <2>1 DEF BacklogInv
<1>7. ApiInv'
  BY <1>1, <1>3 DEF ApiInv
<1>8. GameInv'
  BY <1>1, <1>3 DEF GameInv, Has
<1>9. SessInv'
  BY <1>1 DEF SessInv, Has
<1> QED
  BY <1>4, <1>5, <1>6, <1>7, <1>8, <1>9

LEMMA ReceiveIInv == ASSUME IInv, Receive PROVE IInv'
<1> USE DEF IInv
<1> DEFINE h == Head(backlog)
<1>1. /\ h \in Logins /\ Len(backlog) \in Nat /\ Len(backlog) > 0 /\ h = backlog[1]
      /\ backlog' \in Seq(Logins) /\ Len(backlog') = Len(backlog) - 1
      /\ \A i \in 1 .. Len(backlog') : backlog'[i] = backlog[i + 1]
  BY DEF Receive, TypeOK
<1>2. /\ UNCHANGED <<now, login, askedAt, whole, sessions, game, tries, entered, fate,
                     until, restarts>>
      /\ api = ApiIdle
  BY DEF Receive, clients, history
<1>3. /\ api' \in {ApiIdle, [at |-> "purge", of |-> h, seen |-> now, expires |-> 0]}
      /\ answer' \in {answer, [answer EXCEPT ![h] = "refused"]}
  BY DEF Receive, ApiIdle
<1>4. TypeOK'
  <2>1. api' \in [at : {"idle", "purge", "store", "reply"}, of : Logins \cup {NoLogin},
                  seen : 0 .. Horizon, expires : Times]
    <3>1. now \in 0 .. Horizon /\ 0 \in 0 .. Horizon /\ 0 \in Times
      BY TimesNat, HandoffAssumption DEF TypeOK
    <3>2. \A a \in {"idle", "purge"}, l \in Logins \cup {NoLogin}, t \in 0 .. Horizon :
            [at |-> a, of |-> l, seen |-> t, expires |-> 0]
              \in [at : {"idle", "purge", "store", "reply"}, of : Logins \cup {NoLogin},
                  seen : 0 .. Horizon, expires : Times]
      BY ONLY <3>1
    <3>3. h \in Logins
      BY <1>1
    <3> HIDE DEF h
    <3>4. CASE api' = ApiIdle
      BY ONLY <3>1, <3>2, <3>4 DEF ApiIdle
    <3>5. CASE api' = [at |-> "purge", of |-> h, seen |-> now, expires |-> 0]
      BY ONLY <3>1, <3>2, <3>3, <3>5
    <3> QED  BY <1>3, <3>4, <3>5 DEF h
  <2>2. answer' \in [Logins -> {"none", "created", "refused"}]
    BY <1>1, <1>3 DEF TypeOK
  <2> QED  BY <1>1, <1>2, <2>1, <2>2 DEF TypeOK
<1>5. login[h] # "out" /\ fate[h] = "none"
  BY <1>1 DEF BacklogInv
<1>6. ReqInv'
  <2>1. \A l \in Logins : answer'[l] = answer[l] \/ (l = h /\ answer'[l] = "refused")
    BY <1>1, <1>3 DEF TypeOK
  <2>2. \A l \in Logins : login'[l] = login[l] /\ fate'[l] = fate[l]
    BY <1>2
  <2>3. \A l \in Logins : answer[l] = "created" => fate[l] # "none"
    BY DEF ReqInv
  <2>4. login[h] # "relayed"
    BY <1>1, <1>5, <2>3 DEF ReqInv
  <2> HIDE DEF h
  <2> QED  BY <1>1, <1>5, <2>1, <2>2, <2>4 DEF ReqInv
<1>7. BacklogInv'
  <2>1. \A i \in 1 .. Len(backlog') : i + 1 \in 1 .. Len(backlog) /\ backlog'[i] # h
    BY <1>1 DEF BacklogInv
  <2>2. api'.at # "idle" => api'.of = h
    BY <1>3 DEF ApiIdle
  <2>3. \A i \in 1 .. Len(backlog') :
          /\ login[backlog'[i]] # "out" /\ fate[backlog'[i]] = "none"
          /\ api'.at # "idle" => backlog'[i] # api'.of
    BY <1>1, <2>1, <2>2 DEF BacklogInv
  <2>4. \A i, j \in 1 .. Len(backlog') : backlog'[i] = backlog'[j] => i = j
    <3> SUFFICES ASSUME NEW i \in 1 .. Len(backlog'), NEW j \in 1 .. Len(backlog'),
                        backlog'[i] = backlog'[j]
                 PROVE  i = j
      OBVIOUS
    <3>1. i + 1 = j + 1
      <4>1. i + 1 \in 1 .. Len(backlog) /\ j + 1 \in 1 .. Len(backlog)
            /\ backlog[i + 1] = backlog[j + 1]
        BY <1>1, <2>1
      <4>2. \A m, n \in 1 .. Len(backlog) : backlog[m] = backlog[n] => m = n
        BY DEF BacklogInv
      <4> QED  BY ONLY <4>1, <4>2
    <3> QED  BY <1>1, <3>1
  <2> QED  BY <1>2, <2>3, <2>4 DEF BacklogInv
<1>8. ApiInv'
  <2>1. now <= now'
    BY <1>2, HandoffAssumption DEF TypeOK
  <2>2. CASE api' = ApiIdle
    BY <2>2 DEF ApiInv, ApiIdle
  <2>3. CASE api' = [at |-> "purge", of |-> h, seen |-> now, expires |-> 0]
    BY <1>1, <1>2, <1>5, <2>1, <2>3 DEF ApiInv
  <2> QED  BY <1>3, <2>2, <2>3
<1>9. GameInv' /\ SessInv'
  BY <1>2 DEF GameInv, SessInv, Has
<1> QED
  BY <1>4, <1>6, <1>7, <1>8, <1>9

\* A purge that read the clock at seen leaves the rest of the registry as it
\* is, and takes only what is over by now.
LEMMA PurgeFacts ==
  ASSUME IInv, NEW seen \in 0 .. now, sessions' = Unexpired(seen), UNCHANGED <<now, history>>
  PROVE  /\ sessions' \in [Ids -> Session \cup {Empty}]
         /\ \A id \in Ids : Has(id)' =>
              Has(id) /\ sessions'[id] = sessions[id] /\ sessions[id].expires > seen
         /\ SessInv'
<1> USE DEF IInv
<1>1. \A id \in Ids : sessions'[id] = IF sessions[id].expires <= seen THEN Empty ELSE sessions[id]
  BY DEF Unexpired
<1>2. sessions' \in [Ids -> Session \cup {Empty}]
  BY DEF Unexpired, TypeOK
<1>3. \A id \in Ids : Has(id)' => Has(id) /\ sessions'[id] = sessions[id]
                                  /\ ~(sessions[id].expires <= seen)
  BY <1>1 DEF Has
<1>4. \A id \in Ids : Has(id) => sessions[id].expires \in Nat
  BY TimesNat DEF Has, TypeOK, Session
<1>5. \A id \in Ids : Has(id)' => sessions[id].expires > seen
  BY <1>3, <1>4, HandoffAssumption DEF TypeOK
<1>6. \A id \in Ids : Has(id)' =>
        /\ sessions'[id].by \in Logins /\ Id(sessions'[id].by) = id
        /\ fate'[sessions'[id].by] = "stored"
        /\ until'[sessions'[id].by] = sessions'[id].expires
  BY <1>3 DEF SessInv, history
<1>7. ASSUME NEW l \in Logins, fate'[l] = "stored"
      PROVE  sessions'[Id(l)].by = l \/ until'[l] <= now'
  <2>1. CASE until[l] <= now
    BY <2>1 DEF history
  <2>2. CASE sessions[Id(l)].by = l
    <3>1. Has(Id(l)) /\ Id(l) \in Ids
      BY <2>2, StoredOfLogin, IdsOfLogins
    <3>2. until[l] = sessions[Id(l)].expires /\ sessions[Id(l)].expires \in Nat
      BY <2>2, <3>1, <1>4 DEF SessInv
    <3>3. CASE sessions[Id(l)].expires <= seen
      <4>1. seen <= now /\ seen \in Nat /\ now \in Nat
        BY HandoffAssumption DEF TypeOK
      <4>2. until[l] <= now
        BY <3>2, <3>3, <4>1
      <4> QED  BY <4>2 DEF history
    <3>4. CASE ~(sessions[Id(l)].expires <= seen)
      BY <2>2, <3>1, <3>4, <1>1
    <3> QED  BY <3>3, <3>4
  <2> QED  BY <1>7, <2>1, <2>2 DEF SessInv, history
<1> QED
  BY <1>2, <1>3, <1>5, <1>6, <1>7 DEF SessInv, Id, Has

LEMMA PurgeToRegisterIInv == ASSUME IInv, PurgeToRegister PROVE IInv'
<1> USE DEF IInv
<1>1. api.seen \in 0 .. now
  BY HandoffAssumption DEF PurgeToRegister, TypeOK, ApiInv
<1>2. UNCHANGED <<now, login, askedAt, whole, answer, backlog, game, tries, entered, fate,
                  until, restarts>>
  BY DEF PurgeToRegister, requests, clients, history
<1>3. /\ sessions' \in [Ids -> Session \cup {Empty}]
      /\ \A id \in Ids : Has(id)' => Has(id) /\ sessions'[id] = sessions[id]
      /\ SessInv'
  BY <1>1, <1>2, PurgeFacts DEF PurgeToRegister, history
<1>e. now + Ttl \in Times /\ 0 \in 0 .. Horizon
  BY TimesNat, HandoffAssumption DEF TypeOK
<1>4. /\ api.at = "purge" /\ api'.at = "store" /\ api'.of = api.of /\ api'.seen = 0
      /\ api'.expires = now + Ttl
      /\ api' \in [at : {"idle", "purge", "store", "reply"}, of : Logins \cup {NoLogin},
                   seen : 0 .. Horizon, expires : Times]
  BY <1>e DEF PurgeToRegister, TypeOK
<1>5. TypeOK'
  BY <1>2, <1>3, <1>4 DEF TypeOK
<1>6. ReqInv' /\ BacklogInv'
  BY <1>2, <1>4 DEF ReqInv, BacklogInv
<1>7. ApiInv'
  BY <1>2, <1>4, HandoffAssumption DEF ApiInv, TypeOK
<1>8. GameInv'
  BY <1>2, <1>3 DEF GameInv
<1> QED
  BY <1>3, <1>5, <1>6, <1>7, <1>8

LEMMA RegisterIInv == ASSUME IInv, Register PROVE IInv'
<1> USE DEF IInv
<1> DEFINE l == api.of
           e == api.expires
<1>1. /\ l \in Logins /\ Id(l) \in Ids /\ login[l] # "out" /\ fate[l] = "none"
      /\ e \in Times /\ e > now
  BY IdsOfLogins DEF Register, ApiInv, TypeOK
<1>2. UNCHANGED <<now, login, askedAt, whole, answer, backlog, game, tries, entered, restarts>>
  BY DEF Register, requests, clients
<1>3. /\ sessions' = [sessions EXCEPT ![Id(l)] = [by |-> l, expires |-> e]]
      /\ \A k \in Logins : fate'[k] =
           IF k = l THEN "stored"
           ELSE IF sessions[Id(l)].by = k THEN "replaced" ELSE fate[k]
      /\ fate' \in [Logins -> Fates]
  BY DEF Register, StoreSession, TypeOK, Fates
<1>4. /\ \A k \in Logins : until'[k] =
           IF k = l THEN e ELSE IF fate'[k] = "stored" THEN until[k] ELSE 0
      /\ until' \in [Logins -> Times]
  BY <1>1, TimesNat DEF Register, StoreSession, TypeOK
<1>5. /\ api.at = "store" /\ api'.at = "reply" /\ api'.of = l /\ api'.seen = api.seen
      /\ api' \in [at : {"idle", "purge", "store", "reply"}, of : Logins \cup {NoLogin},
                   seen : 0 .. Horizon, expires : Times]
  BY TimesNat DEF Register, TypeOK
<1>6. sessions' \in [Ids -> Session \cup {Empty}]
  BY <1>1, <1>3 DEF TypeOK, Session
<1>7. TypeOK'
  BY <1>2, <1>3, <1>4, <1>5, <1>6 DEF TypeOK
<1>8. \A k \in Logins : fate[k] # "none" => fate'[k] # "none"
  BY <1>3
<1>9. ReqInv'
  <2>1. \A k \in Logins : sessions[Id(l)].by = k => fate[k] = "stored"
    BY <1>1, StoredOfLogin DEF SessInv
  <2>2. \A k \in Logins : login[k] = "out" => fate'[k] = "none"
    BY <1>1, <1>3, <2>1 DEF ReqInv
  <2>3. \A k \in Logins : /\ login[k] = "out" => answer[k] = "none"
                          /\ answer[k] = "created" => fate[k] # "none"
                          /\ login[k] = "relayed" => answer[k] = "created"
    BY DEF ReqInv
  <2>4. UNCHANGED <<login, answer>>
    BY <1>2
  <2> QED  BY ONLY <2>2, <2>3, <2>4, <1>8 DEF ReqInv
<1>10. BacklogInv'
  <2>1. \A i \in 1 .. Len(backlog) : backlog[i] \in Logins /\ backlog[i] # l
                                     /\ fate[backlog[i]] = "none"
    <3>1. \A i \in 1 .. Len(backlog) : backlog[i] \in Logins
      <4>1. backlog \in Seq(Logins)
        BY DEF TypeOK
      <4> QED  BY ONLY <4>1
    <3>2. \A i \in 1 .. Len(backlog) : fate[backlog[i]] = "none" /\ backlog[i] # l
      BY <1>5 DEF BacklogInv
    <3> QED  BY <3>1, <3>2
  <2>2. \A k \in Logins : sessions[Id(l)].by = k => fate[k] = "stored"
    BY <1>1, StoredOfLogin DEF SessInv
  <2>3. \A i \in 1 .. Len(backlog) : fate'[backlog[i]] = "none"
    BY <1>3, <2>1, <2>2
  <2> QED  BY <1>2, <1>5, <2>1, <2>3 DEF BacklogInv
<1>11. ApiInv'
  BY <1>1, <1>2, <1>3, <1>5 DEF ApiInv
<1>12. \A id \in Ids : sessions'[id] = IF id = Id(l) THEN [by |-> l, expires |-> e] ELSE sessions[id]
  BY <1>1, <1>3 DEF TypeOK
<1>13. GameInv'
  <2>1. ASSUME game.at = "find", NEW id \in Ids, Has(id)'
        PROVE  sessions'[id].expires > game.seen
    <3>1. CASE id = Id(l)
      <4>1. sessions'[id].expires = e
        BY <1>12, <3>1
      <4>2. game.seen <= now
        BY <2>1 DEF GameInv
      <4>3. game.seen \in 0 .. Horizon /\ now \in 0 .. Horizon
        BY DEF TypeOK
      <4>4. e \in Nat /\ e > now
        BY <1>1, TimesNat
      <4> QED  BY <4>1, <4>2, <4>3, <4>4, HandoffAssumption
    <3>2. CASE id # Id(l)
      BY <1>12, <2>1, <3>2 DEF GameInv, Has
    <3> QED  BY <3>1, <3>2
  <2> QED  BY <1>2, <2>1 DEF GameInv
<1>14. SessInv'
  <2>1. ASSUME NEW id \in Ids, Has(id)'
        PROVE  /\ sessions'[id].by \in Logins /\ Id(sessions'[id].by) = id
               /\ fate'[sessions'[id].by] = "stored"
               /\ until'[sessions'[id].by] = sessions'[id].expires
    <3>1. CASE id = Id(l)
      BY <1>1, <1>3, <1>4, <1>12, <3>1
    <3>2. CASE id # Id(l)
      <4>1. sessions'[id] = sessions[id] /\ Has(id)
        BY <1>12, <2>1, <3>2 DEF Has
      <4> DEFINE k == sessions[id].by
      <4>2. k \in Logins /\ Id(k) = id /\ fate[k] = "stored" /\ until[k] = sessions[id].expires
        BY <4>1 DEF SessInv
      <4>3. k # l
        BY <4>2, <3>2
      <4>4. sessions[Id(l)].by # k
        BY <1>1, <3>2, <4>2, StoredOfLogin DEF SessInv
      <4> QED  BY <1>3, <1>4, <4>1, <4>2, <4>3, <4>4
    <3> QED  BY <3>1, <3>2
  <2>2. ASSUME NEW k \in Logins, fate'[k] = "stored"
        PROVE  sessions'[Id(k)].by = k \/ until'[k] <= now'
    <3>1. CASE k = l
      BY <1>1, <1>12, <3>1
    <3>2. CASE k # l
      <4>1. fate[k] = "stored" /\ sessions[Id(l)].by # k /\ until'[k] = until[k]
        BY <1>3, <1>4, <2>2, <3>2
      <4>2. sessions[Id(k)].by = k => Id(k) # Id(l)
        BY <4>1
      <4>3. Id(k) \in Ids
        BY IdsOfLogins
      <4> QED  BY <1>2, <1>12, <4>1, <4>2, <4>3 DEF SessInv
    <3> QED  BY <3>1, <3>2
  <2> QED  BY <2>1, <2>2 DEF SessInv, Id, Has
<1> QED
  BY <1>7, <1>9, <1>10, <1>11, <1>13, <1>14

LEMMA ReplyIInv == ASSUME IInv, Reply PROVE IInv'
<1> USE DEF IInv
<1>1. UNCHANGED <<now, login, askedAt, whole, backlog, sessions, game, tries, entered, fate,
                  until, restarts>>
  BY DEF Reply, clients, history
<1>2. /\ api.of \in Logins /\ fate[api.of] # "none" /\ api' = ApiIdle
      /\ login[api.of] # "out"
      /\ \A k \in Logins : answer'[k] = IF k = api.of THEN "created" ELSE answer[k]
  BY DEF Reply, ApiInv, TypeOK
<1>3. TypeOK'
  <2>1. api' \in [at : {"idle", "purge", "store", "reply"}, of : Logins \cup {NoLogin},
                  seen : 0 .. Horizon, expires : Times]
    BY <1>2, TimesNat, HandoffAssumption DEF ApiIdle
  <2>2. answer' \in [Logins -> {"none", "created", "refused"}]
    BY <1>2 DEF Reply, TypeOK
  <2> QED  BY <1>1, <2>1, <2>2 DEF TypeOK
<1>4. ReqInv'
  BY <1>1, <1>2 DEF ReqInv
<1>5. BacklogInv' /\ ApiInv'
  BY <1>1, <1>2 DEF BacklogInv, ApiInv, ApiIdle
<1>6. GameInv' /\ SessInv'
  BY <1>1 DEF GameInv, SessInv, Has
<1> QED
  BY <1>3, <1>4, <1>5, <1>6

LEMMA PresentIInv == ASSUME IInv, NEW l \in Logins, Present(l) PROVE IInv'
<1> USE DEF IInv
<1>1. UNCHANGED <<now, login, askedAt, whole, answer, backlog, api, sessions, entered, fate,
                  until, restarts>>
  BY DEF Present, requests, history
<1>2. game' = [at |-> "purge", of |-> l, seen |-> now] /\ login[l] = "relayed"
  BY DEF Present
<1>3. TypeOK'
  <2>1. tries' \in [Logins -> 0 .. MaxTries]
    <3>1. tries[l] < MaxTries /\ tries' = [tries EXCEPT ![l] = @ + 1]
      BY DEF Present
    <3>2. tries \in [Logins -> 0 .. MaxTries]
      BY DEF TypeOK
    <3> QED  BY ONLY <3>1, <3>2, HandoffAssumption, l \in Logins
  <2>2. now \in 0 .. Horizon
    BY DEF TypeOK
  <2>3. game' \in [at : {"idle", "purge", "find"}, of : Logins \cup {NoLogin}, seen : 0 .. Horizon]
    BY ONLY <1>2, <2>2, l \in Logins
  <2> QED  BY <1>1, <2>1, <2>3 DEF TypeOK
<1>4. GameInv'
  BY <1>1, <1>2, HandoffAssumption DEF GameInv, TypeOK
<1>5. ReqInv' /\ BacklogInv' /\ ApiInv' /\ SessInv'
  BY <1>1 DEF ReqInv, BacklogInv, ApiInv, SessInv, Has
<1> QED
  BY <1>3, <1>4, <1>5

LEMMA PurgeToConsumeIInv == ASSUME IInv, PurgeToConsume PROVE IInv'
<1> USE DEF IInv
<1>1. game.seen \in 0 .. now
  BY HandoffAssumption DEF PurgeToConsume, TypeOK, GameInv
<1>2. UNCHANGED <<now, login, askedAt, whole, answer, backlog, api, tries, entered, fate,
                  until, restarts>>
  BY DEF PurgeToConsume, requests, clients, history
<1>3. /\ sessions' \in [Ids -> Session \cup {Empty}]
      /\ \A id \in Ids : Has(id)' => sessions'[id] = sessions[id]
                                     /\ sessions[id].expires > game.seen
      /\ SessInv'
  BY <1>1, <1>2, PurgeFacts DEF PurgeToConsume, history
<1>4. /\ game.at = "purge" /\ game'.at = "find" /\ game'.of = game.of /\ game'.seen = game.seen
      /\ game' \in [at : {"idle", "purge", "find"}, of : Logins \cup {NoLogin},
                    seen : 0 .. Horizon]
  BY DEF PurgeToConsume, TypeOK
<1>5. TypeOK'
  BY <1>2, <1>3, <1>4 DEF TypeOK
<1>6. GameInv'
  BY <1>2, <1>3, <1>4 DEF GameInv
<1>7. ReqInv' /\ BacklogInv' /\ ApiInv'
  BY <1>2 DEF ReqInv, BacklogInv, ApiInv
<1> QED
  BY <1>3, <1>5, <1>6, <1>7

LEMMA ConsumeIInv == ASSUME IInv, Consume PROVE IInv'
<1> USE DEF IInv
<1> DEFINE c == game.of
           l == sessions[Id(c)].by
<1>1. /\ c \in Logins /\ Id(c) \in Ids /\ game' = GameIdle
      /\ UNCHANGED <<now, login, askedAt, whole, answer, backlog, api, tries, restarts>>
  BY IdsOfLogins DEF Consume, GameInv, requests
<1>2. GameInv' /\ game' \in [at : {"idle", "purge", "find"}, of : Logins \cup {NoLogin},
                             seen : 0 .. Horizon]
  BY <1>1, HandoffAssumption DEF GameInv, GameIdle
<1>3. CASE ~Matches(c)
  <2>1. UNCHANGED <<sessions, entered, fate, until>>
    BY <1>3 DEF Consume, history
  <2>2. TypeOK'
    BY <1>1, <1>2, <2>1 DEF TypeOK
  <2>3. ReqInv' /\ BacklogInv' /\ ApiInv' /\ SessInv'
    BY <1>1, <2>1 DEF ReqInv, BacklogInv, ApiInv, SessInv, Has
  <2> QED  BY <1>2, <2>2, <2>3
<1>4. CASE Matches(c)
  <2>1. l \in Logins /\ Id(l) = Id(c) /\ fate[l] = "stored"
    BY <1>1, <1>4 DEF Matches, SessInv
  <2>2. /\ entered' = Append(entered, c)
        /\ sessions' = [sessions EXCEPT ![Id(c)] = Empty]
        /\ fate' = [fate EXCEPT ![l] = "spent"]
        /\ until' = [until EXCEPT ![l] = 0]
    BY <1>4 DEF Consume, Spend
  <2>3. TypeOK'
    <3>1. entered' \in Seq(Logins)
      BY <1>1, <2>2 DEF TypeOK
    <3>2. sessions' \in [Ids -> Session \cup {Empty}]
      BY <2>2 DEF TypeOK
    <3>3. fate' \in [Logins -> Fates] /\ until' \in [Logins -> Times]
      BY <2>2, TimesNat DEF TypeOK, Fates
    <3> QED  BY <1>1, <1>2, <3>1, <3>2, <3>3 DEF TypeOK
  <2>4. /\ \A k \in Logins : fate'[k] = IF k = l THEN "spent" ELSE fate[k]
        /\ \A k \in Logins : until'[k] = IF k = l THEN 0 ELSE until[k]
        /\ \A id \in Ids : sessions'[id] = IF id = Id(c) THEN Empty ELSE sessions[id]
    BY <2>2 DEF TypeOK
  <2>5. ReqInv'
    BY <1>1, <2>1, <2>4 DEF ReqInv
  <2>6. BacklogInv'
    <3>1. \A i \in 1 .. Len(backlog) : backlog[i] \in Logins
      BY DEF TypeOK
    <3>2. \A i \in 1 .. Len(backlog) : fate'[backlog[i]] = "none"
      BY <2>1, <2>4, <3>1 DEF BacklogInv
    <3> QED  BY <1>1, <3>2 DEF BacklogInv
  <2>7. ApiInv'
    BY <1>1, <2>1, <2>4 DEF ApiInv
  <2>8. SessInv'
    <3>1. ASSUME NEW id \in Ids, Has(id)'
          PROVE  /\ sessions'[id].by \in Logins /\ Id(sessions'[id].by) = id
                 /\ fate'[sessions'[id].by] = "stored"
                 /\ until'[sessions'[id].by] = sessions'[id].expires
      <4>1. id # Id(c) /\ sessions'[id] = sessions[id] /\ Has(id)
        BY <2>4, <3>1 DEF Has
      <4>2. sessions[id].by # l
        BY <2>1, <4>1 DEF SessInv
      <4> QED  BY <2>4, <4>1, <4>2 DEF SessInv
    <3>2. ASSUME NEW k \in Logins, fate'[k] = "stored"
          PROVE  sessions'[Id(k)].by = k \/ until'[k] <= now'
      <4>1. k # l /\ fate[k] = "stored" /\ until'[k] = until[k]
        BY <2>4, <3>2
      <4>2. sessions[Id(k)].by = k => Id(k) # Id(c)
        BY <4>1
      <4> QED  BY <1>1, <2>4, <4>1, <4>2, IdsOfLogins DEF SessInv
    <3> QED  BY <3>1, <3>2 DEF SessInv, Id, Has
  <2> QED  BY <1>2, <2>3, <2>5, <2>6, <2>7, <2>8
<1> QED
  BY <1>3, <1>4

LEMMA RestartIInv == ASSUME IInv, Restart PROVE IInv'
<1> USE DEF IInv
<1>1. /\ UNCHANGED <<now, login, askedAt, whole, tries, entered>>
      /\ backlog' = <<>> /\ api' = ApiIdle /\ game' = GameIdle
      /\ \A id \in Ids : sessions'[id] = Empty
      /\ \A l \in Logins : answer'[l] \in {answer[l], IF login[l] # "out" THEN "refused" ELSE "none"}
      /\ \A l \in Logins : answer[l] # "none" => answer'[l] = answer[l]
      /\ \A l \in Logins : fate'[l] = IF fate[l] = "stored" THEN "lost" ELSE fate[l]
      /\ \A l \in Logins : until'[l] = 0
  BY DEF Restart, clients
<1>2. TypeOK'
  <2>1. api' \in [at : {"idle", "purge", "store", "reply"}, of : Logins \cup {NoLogin},
                  seen : 0 .. Horizon, expires : Times]
    BY <1>1, TimesNat, HandoffAssumption DEF ApiIdle
  <2>2. game' \in [at : {"idle", "purge", "find"}, of : Logins \cup {NoLogin},
                   seen : 0 .. Horizon]
    BY <1>1, HandoffAssumption DEF GameIdle
  <2>3. answer' \in [Logins -> {"none", "created", "refused"}] /\ backlog' \in Seq(Logins)
    BY DEF Restart, TypeOK
  <2>4. fate' \in [Logins -> Fates] /\ until' \in [Logins -> Times]
    BY TimesNat DEF Restart, TypeOK, Fates
  <2>5. sessions' \in [Ids -> Session \cup {Empty}] /\ restarts' \in 0 .. MaxRestarts
    BY HandoffAssumption DEF Restart, TypeOK
  <2> QED  BY <1>1, <2>1, <2>2, <2>3, <2>4, <2>5 DEF TypeOK
<1>3. ReqInv'
  BY <1>1 DEF ReqInv
<1>4. BacklogInv' /\ ApiInv' /\ GameInv'
  BY <1>1 DEF BacklogInv, ApiInv, GameInv, ApiIdle, GameIdle
<1>5. SessInv'
  BY <1>1 DEF SessInv, Has, TypeOK
<1> QED
  BY <1>2, <1>3, <1>4, <1>5

LEMMA AdvanceIInv == ASSUME IInv, Advance PROVE IInv'
<1> USE DEF IInv
<1>1. /\ UNCHANGED <<login, askedAt, whole, answer, backlog, api, sessions, game, tries, entered,
                     fate, until, restarts>>
      /\ now \in Nat /\ now' = now + 1 /\ now' \in 0 .. Horizon
      /\ api.at = "store" => now' < api.expires
  BY HandoffAssumption DEF Advance, requests, clients, history, TypeOK
<1>2. TypeOK'
  BY <1>1 DEF TypeOK
<1>3. ReqInv' /\ BacklogInv'
  BY <1>1 DEF ReqInv, BacklogInv
<1>4. ApiInv' /\ GameInv'
  <2>1. api.seen \in 0 .. Horizon /\ game.seen \in 0 .. Horizon
    BY DEF TypeOK
  <2>2. /\ api.seen <= now => api.seen <= now'
        /\ game.seen <= now => game.seen <= now'
    BY <1>1, <2>1, HandoffAssumption
  <2>3. ApiInv'
    BY <1>1, <2>2 DEF ApiInv
  <2>4. GameInv'
    BY <1>1, <2>2 DEF GameInv, Has
  <2> QED  BY <2>3, <2>4
<1>5. SessInv'
  <2>1. \A l \in Logins : until[l] \in Nat
    BY TimesNat DEF TypeOK
  <2> QED  BY <1>1, <2>1 DEF SessInv, Has
<1> QED
  BY <1>2, <1>3, <1>4, <1>5

LEMMA NextIInv == IInv /\ [Next]_vars => IInv'
<1> SUFFICES ASSUME IInv, [Next]_vars PROVE IInv'
  OBVIOUS
<1>1. ASSUME NEW l \in Logins, LogIn(l) \/ SendBody(l) \/ GetAnswer(l) \/ TimeOut(l) \/ Present(l)
      PROVE  IInv'
  BY <1>1, LogInIInv, LoginServerIInv, PresentIInv
<1>2. CASE LoginServerDies
  <2>1. PICK l \in Logins : login[l] = "asked"
    BY <1>2 DEF LoginServerDies
  <2> QED  BY <1>2, <2>1, LoginServerIInv
<1>3. CASE Receive \/ PurgeToRegister \/ Register \/ Reply
  BY <1>3, ReceiveIInv, PurgeToRegisterIInv, RegisterIInv, ReplyIInv
<1>4. CASE PurgeToConsume \/ Consume \/ Restart \/ Advance
  BY <1>4, PurgeToConsumeIInv, ConsumeIInv, RestartIInv, AdvanceIInv
<1>5. CASE UNCHANGED vars
  BY <1>5 DEF vars, requests, clients, history, IInv, TypeOK, ReqInv, BacklogInv, ApiInv,
              GameInv, SessInv, Has
<1> QED
  BY <1>1, <1>2, <1>3, <1>4, <1>5 DEF Next

----------------------------------------------------------------------------
(* The theorems.                                                           *)

\* IInv is an invariant of every behaviour of LoginHandoff.
THEOREM HandoffInvariant == Spec => []IInv
  BY InitIInv, NextIInv, PTL DEF Spec

\* ConsumeSession lets nobody in on a session that had expired when the
\* client came, although PurgeExpired runs under another lock and the thread
\* T_InternalApi stores sessions in between.
THEOREM NobodyEntersLate == Spec => EntersInTime
<1>1. IInv /\ [Next]_vars => [entered' # entered => sessions[Id(game.of)].expires > game.seen]_vars
  <2> SUFFICES ASSUME IInv, Next, entered' # entered
               PROVE  sessions[Id(game.of)].expires > game.seen
    OBVIOUS
  <2>1. Consume
    BY DEF Next, LogIn, SendBody, GetAnswer, TimeOut, Present, LoginServerDies, Receive,
           PurgeToRegister, Register, Reply, PurgeToConsume, Restart, Advance, clients
  <2>2. Matches(game.of) /\ game.at = "find"
    BY <2>1 DEF Consume
  <2> QED
    BY <2>2, IdsOfLogins DEF Matches, IInv, GameInv
<1> QED
  BY <1>1, HandoffInvariant, PTL DEF Spec, EntersInTime

\* A client that was relayed finds its session, unless it is over or was used,
\* replaced or lost with the process.
THEOREM RefusedForCause == Spec => RefusesForCause
<1> DEFINE Cause == \/ fate[game.of] \in {"spent", "replaced", "lost"}
                    \/ fate[game.of] = "stored" /\ until[game.of] <= now
<1>1. IInv /\ [Next]_vars => [Refuses => Cause]_vars
  <2> SUFFICES ASSUME IInv, Next, Refuses PROVE Cause
    OBVIOUS
  <2> DEFINE l == game.of
  <2>1. l \in Logins /\ fate[l] \in Fates /\ fate[l] # "none"
    BY DEF Refuses, IInv, GameInv, ReqInv, TypeOK
  <2>2. Consume
    <3>1. game.at = "find" /\ game' # game
      BY DEF Refuses, GameIdle
    <3>2. ~Restart
      BY HandoffAssumption DEF Refuses, Restart, IInv, TypeOK
    <3> QED
      BY <3>1, <3>2 DEF Next, LogIn, SendBody, GetAnswer, TimeOut, Present, GameIdle,
         LoginServerDies, Receive, PurgeToRegister, Register, Reply, PurgeToConsume, Advance
  <2>3. entered' # Append(entered, l)
    BY <2>1 DEF Refuses, IInv, TypeOK
  <2>4. ~Matches(l)
    BY <2>2, <2>3 DEF Consume, Spend
  <2>5. sessions[Id(l)].by # l
    BY <2>1, <2>4, StoredOfLogin, IdsOfLogins DEF Matches, IInv
  <2>6. fate[l] = "stored" => until[l] <= now
    BY <2>1, <2>5 DEF IInv, SessInv
  <2> QED
    BY <2>1, <2>6 DEF Fates
<1> QED
  BY <1>1, HandoffInvariant, PTL DEF Spec, RefusesForCause

\* Taking sessions out of the registry lets tickets lapse.
LEMMA TakenOutLapses ==
  ASSUME UNCHANGED <<login, entered>>, Issued' = Issued,
         \A id \in Ids : sessions'[id].by \in {sessions[id].by, NoLogin}
  PROVE  Tickets!Lapse
<1>1. Passed' = Passed
  BY DEF Passed
<1>2. Valid' \subseteq Valid
  BY HandoffAssumption DEF Valid, Ids
<1> QED
  BY <1>1, <1>2 DEF Tickets!Lapse

\* A purge takes sessions out, or leaves them.
LEMMA PurgeTakesOut ==
  ASSUME NEW seen, sessions' = Unexpired(seen)
  PROVE  \A id \in Ids : sessions'[id].by \in {sessions[id].by, NoLogin}
  BY DEF Unexpired, Empty

LEMMA NextRefines == IInv /\ [Next]_vars => [Tickets!Next]_(Tickets!tickets)
<1> SUFFICES ASSUME IInv, [Next]_vars
             PROVE  Tickets!Next \/ UNCHANGED <<Passed, Issued, Valid, entered>>
  BY DEF Tickets!tickets
<1>1. ASSUME NEW l \in Logins, LogIn(l) PROVE Tickets!Pass(l)
  <2>1. login[l] = "out" /\ \A k \in Logins : login'[k] = IF k = l THEN "asked" ELSE login[k]
    BY <1>1 DEF LogIn, IInv, TypeOK
  <2>2. l \notin Passed /\ Passed' = Passed \cup {l}
    BY <2>1 DEF Passed
  <2>3. UNCHANGED <<Issued, Valid, entered>>
    BY <1>1 DEF LogIn, Issued, Valid, Ids, Id, clients, history
  <2> QED  BY <2>2, <2>3 DEF Tickets!Pass
<1>2. ASSUME UNCHANGED <<sessions, fate, entered>>,
             \A l \in Logins : login'[l] = "out" <=> login[l] = "out"
      PROVE  UNCHANGED <<Passed, Issued, Valid, entered>>
  BY <1>2 DEF Passed, Issued, Valid
<1>3. ASSUME NEW l \in Logins, SendBody(l) \/ GetAnswer(l) \/ TimeOut(l) \/ Present(l)
      PROVE  UNCHANGED <<Passed, Issued, Valid, entered>>
  BY <1>2, <1>3 DEF SendBody, GetAnswer, TimeOut, Present, requests, clients, history, IInv, TypeOK
<1>4. CASE LoginServerDies \/ Receive \/ Reply \/ Advance \/ UNCHANGED vars
  BY <1>2, <1>4 DEF LoginServerDies, Receive, Reply, Advance, vars, requests, clients, history
<1>5. CASE PurgeToRegister \/ PurgeToConsume
  <2>1. UNCHANGED <<login, entered>> /\ Issued' = Issued
    BY <1>5 DEF PurgeToRegister, PurgeToConsume, requests, clients, history, Issued
  <2>2. Tickets!Lapse
    BY <1>5, <2>1, PurgeTakesOut, TakenOutLapses DEF PurgeToRegister, PurgeToConsume
  <2> QED  BY <2>2 DEF Tickets!Next
<1>6. CASE Restart
  <2>1. Issued' = Issued
    BY <1>6 DEF Restart, Issued
  <2>2. \A id \in Ids : sessions'[id].by = NoLogin
    BY <1>6 DEF Restart, Empty
  <2>3. Tickets!Lapse
    BY <1>6, <2>1, <2>2, TakenOutLapses DEF Restart, clients
  <2> QED  BY <2>3 DEF Tickets!Next
<1>7. CASE Register
  <2> DEFINE l == api.of
  <2>1. l \in Logins /\ login[l] # "out" /\ fate[l] = "none" /\ Id(l) \in Ids
    BY <1>7, IdsOfLogins DEF Register, IInv, ApiInv
  <2>2. /\ \A id \in Ids : sessions'[id].by = IF id = Id(l) THEN l ELSE sessions[id].by
        /\ \A k \in Logins : fate'[k] =
             IF k = l THEN "stored"
             ELSE IF sessions[Id(l)].by = k THEN "replaced" ELSE fate[k]
    BY <1>7 DEF Register, StoreSession, IInv, TypeOK
  <2>3. \A k \in Logins : sessions[Id(l)].by = k => fate[k] = "stored"
    BY <2>1, StoredOfLogin DEF IInv, SessInv
  <2>4. Issued' = Issued \cup {l}
    BY <2>1, <2>2, <2>3 DEF Issued
  <2>5. l \in Valid' /\ Valid' \subseteq Valid \cup {l}
    BY <2>1, <2>2 DEF Valid
  <2>6. UNCHANGED <<Passed, entered>>
    BY <1>7 DEF Register, requests, clients, Passed
  <2>7. Tickets!Issue(l)
    BY <2>1, <2>4, <2>5, <2>6 DEF Tickets!Issue, Passed, Issued
  <2> QED  BY <2>1, <2>7 DEF Tickets!Next
<1>8. CASE Consume
  <2> DEFINE c == game.of
             l == sessions[Id(c)].by
  <2>1. c \in Logins /\ Id(c) \in Ids /\ login[c] = "relayed" /\ UNCHANGED login
    BY <1>8, IdsOfLogins DEF Consume, IInv, GameInv, requests
  <2>2. CASE ~Matches(c)
    BY <1>2, <1>8, <2>1, <2>2 DEF Consume, history
  <2>3. CASE Matches(c)
    <3>1. /\ l \in Logins /\ Id(l) = Id(c) /\ fate[l] = "stored"
          /\ AccountOf[l] = AccountOf[c]
      BY <2>1, <2>3 DEF Matches, IInv, SessInv
    <3>2. /\ entered' = Append(entered, c)
          /\ \A k \in Logins : fate'[k] = IF k = l THEN "spent" ELSE fate[k]
          /\ \A id \in Ids : sessions'[id] = IF id = Id(c) THEN Empty ELSE sessions[id]
      BY <1>8, <2>3 DEF Consume, Spend, IInv, TypeOK
    <3>3. UNCHANGED <<Passed, Issued>>
      BY <2>1, <3>1, <3>2 DEF Passed, Issued
    <3>4. \A id \in Ids : sessions[id].by = l => id = Id(c)
      BY <3>1, StoredOfLogin DEF IInv, SessInv
    <3>5. l \in Valid /\ Valid' = Valid \ {l}
      <4>1. l \in Valid
        BY <2>1, <3>1 DEF Valid
      <4>2. l \notin Valid'
        <5>1. \A id \in Ids : sessions'[id].by # l
          BY <3>1, <3>2, <3>4, HandoffAssumption DEF Empty
        <5> QED  BY <5>1 DEF Valid
      <4>3. ASSUME NEW k \in Logins, k # l PROVE k \in Valid' <=> k \in Valid
        BY <3>2, <4>3, HandoffAssumption DEF Valid, Empty
      <4> QED  BY <4>1, <4>2, <4>3 DEF Valid
    <3>6. Tickets!Enter(c)
      BY <2>1, <3>1, <3>2, <3>3, <3>5 DEF Tickets!Enter, Passed
    <3> QED  BY <2>1, <3>6 DEF Tickets!Next
  <2> QED  BY <2>2, <2>3
<1> QED
  BY <1>1, <1>3, <1>4, <1>5, <1>6, <1>7, <1>8 DEF Next, Tickets!Next

\* Login server, T_InternalApi, registry and main thread together hand out one
\* ticket per checked password, and let one client of its account in on it.
THEOREM HandoffImplementsTickets == Spec => ImplementsTickets
<1>1. Init => Tickets!Init
  BY HandoffAssumption DEF Init, Tickets!Init, Passed, Issued, Valid, Empty
<1> QED
  BY <1>1, NextRefines, HandoffInvariant, PTL DEF Spec, ImplementsTickets, Tickets!Spec

----------------------------------------------------------------------------
(* What follows from the contract.                                         *)

\* The entries have tickets of S, one each.
HaveTickets(entries, S) ==
  \E ticket \in [DOMAIN entries -> S] :
    \A i, j \in DOMAIN entries :
      /\ AccountOf[ticket[i]] = AccountOf[entries[i]]
      /\ ticket[i] = ticket[j] => i = j

LEMMA MoreTickets ==
  ASSUME NEW entries, NEW S, NEW T, S \subseteq T, HaveTickets(entries, S)
  PROVE  HaveTickets(entries, T)
  BY DEF HaveTickets

LEMMA OneTicketMore ==
  ASSUME NEW entries \in Seq(Logins), NEW S, HaveTickets(entries, S),
         NEW c \in Logins, NEW l, l \notin S, AccountOf[l] = AccountOf[c]
  PROVE  HaveTickets(Append(entries, c), S \cup {l})
<1> DEFINE longer == Append(entries, c)
           n == Len(entries)
<1>1. /\ n \in Nat /\ DOMAIN entries = 1 .. n /\ DOMAIN longer = 1 .. n + 1
      /\ longer[n + 1] = c /\ \A i \in 1 .. n : longer[i] = entries[i]
  OBVIOUS
<1> HIDE DEF longer, n
<1>2. PICK ticket \in [1 .. n -> S] :
        \A i, j \in 1 .. n : /\ AccountOf[ticket[i]] = AccountOf[entries[i]]
                             /\ ticket[i] = ticket[j] => i = j
  BY <1>1 DEF HaveTickets
<1> DEFINE next == [i \in 1 .. n + 1 |-> IF i = n + 1 THEN l ELSE ticket[i]]
<1>3. \A i \in 1 .. n + 1 : i = n + 1 \/ i \in 1 .. n
  BY <1>1
<1>4. next \in [1 .. n + 1 -> S \cup {l}]
  BY <1>2, <1>3
<1>5. next[n + 1] = l /\ \A i \in 1 .. n : next[i] = ticket[i] /\ ticket[i] \in S /\ i # n + 1
  BY <1>1, <1>2
<1> HIDE DEF next
<1>6. \A i \in 1 .. n + 1 : AccountOf[next[i]] = AccountOf[longer[i]]
  BY <1>1, <1>2, <1>3, <1>5
<1>7. \A i, j \in 1 .. n + 1 : next[i] = next[j] => i = j
  BY <1>2, <1>3, <1>5
<1>8. HaveTickets(longer, S \cup {l})
  BY <1>1, <1>4, <1>6, <1>7 DEF HaveTickets
<1> QED  BY <1>8 DEF longer

TicketInv == Valid \subseteq Issued /\ Issued \subseteq Passed /\ HaveTickets(entered, Issued \ Valid)

LEMMA NextTickets ==
  ASSUME TicketInv, entered \in Seq(Logins), [Tickets!Next]_(Tickets!tickets)
  PROVE  TicketInv'
<1>1. CASE UNCHANGED Tickets!tickets
  BY <1>1 DEF Tickets!tickets, TicketInv, HaveTickets
<1>2. CASE Tickets!Lapse
  <2>1. /\ UNCHANGED <<Passed, Issued, entered>>
        /\ Valid' \subseteq Valid /\ Issued \ Valid \subseteq Issued' \ Valid'
    BY <1>2 DEF Tickets!Lapse
  <2> QED  BY <2>1, MoreTickets DEF TicketInv
<1>3. ASSUME NEW l \in Logins, Tickets!Pass(l) PROVE TicketInv'
  <2>1. UNCHANGED <<Issued, Valid, entered>> /\ Passed \subseteq Passed'
    BY <1>3 DEF Tickets!Pass
  <2> QED  BY <2>1 DEF TicketInv
<1>4. ASSUME NEW l \in Logins, Tickets!Issue(l) PROVE TicketInv'
  <2>1. /\ UNCHANGED <<Passed, entered>> /\ Issued' = Issued \cup {l}
        /\ l \in Passed /\ l \notin Issued /\ Valid' \subseteq Valid \cup {l}
    BY <1>4 DEF Tickets!Issue
  <2>2. Issued \ Valid \subseteq Issued' \ Valid'
    BY <2>1
  <2> QED  BY <2>1, <2>2, MoreTickets DEF TicketInv
<1>5. ASSUME NEW c \in Logins, Tickets!Enter(c) PROVE TicketInv'
  <2>1. PICK l \in Valid : AccountOf[l] = AccountOf[c] /\ Valid' = Valid \ {l}
    BY <1>5 DEF Tickets!Enter
  <2>2. UNCHANGED <<Passed, Issued>> /\ entered' = Append(entered, c)
    BY <1>5 DEF Tickets!Enter
  <2>3. l \notin Issued \ Valid /\ Issued' \ Valid' = (Issued \ Valid) \cup {l}
    BY <2>1, <2>2 DEF TicketInv
  <2>4. HaveTickets(Append(entered, c), (Issued \ Valid) \cup {l})
    BY <2>1, <2>3, OneTicketMore DEF TicketInv
  <2>5. HaveTickets(entered, Issued \ Valid)'
    BY <2>2, <2>3, <2>4
  <2>6. Valid' \subseteq Issued' /\ Issued' \subseteq Passed'
    BY <2>1, <2>2 DEF TicketInv
  <2> QED  BY <2>5, <2>6 DEF TicketInv
<1> QED  BY <1>1, <1>2, <1>3, <1>4, <1>5 DEF Tickets!Next

\* As many clients of an account as enter the shard, as many of its logins had
\* the right password, each with a session that is used up: however sessions
\* are replaced, purged, timed out and lost with restarts.
THEOREM EntriesHaveTickets == Spec => []Tickets!OneTicketEach
<1>1. Init => TicketInv
  <2> SUFFICES ASSUME Init PROVE TicketInv
    OBVIOUS
  <2>1. Passed = {} /\ Issued = {} /\ Valid = {}
    BY HandoffAssumption DEF Init, Passed, Issued, Valid, Empty
  <2>2. DOMAIN entered = {}
    BY DEF Init
  <2>3. [i \in {} |-> i] \in [DOMAIN entered -> Issued \ Valid]
    BY <2>2
  <2> QED  BY <2>1, <2>2, <2>3 DEF TicketInv, HaveTickets
<1>2. IInv /\ TicketInv /\ [Next]_vars => TicketInv'
  BY NextRefines, NextTickets DEF IInv, TypeOK
<1>3. TicketInv => Tickets!OneTicketEach
  BY DEF TicketInv, HaveTickets, Tickets!OneTicketEach
<1> QED  BY <1>1, <1>2, <1>3, HandoffInvariant, PTL DEF Spec
=============================================================================
