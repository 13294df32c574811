------------------------- MODULE TickerQueues_proofs -------------------------
(***************************************************************************)
(* Proofs about the two queues of CWorldTicker that have no timers: the    *)
(* periodic ticks (PeriodicTicker), for any characters and periods, as     *)
(* long as no callback touches a character that waits for its turn         *)
(* (~Meddling), and the status updates (StatusUpdates), for any objects    *)
(* and number of failed loads.                                             *)
(*                                                                         *)
(* PeriodicTicker keeps its vectors as sequences and bags because the code *)
(* has no flag that would keep a character from being registered twice.    *)
(* TickInv says that it is not: every character with a pending tick has    *)
(* one place, in a request, in the main list or in the buffer.  From there *)
(* on the bags are sets, and the erase of the first match of a character   *)
(* erases its entry.                                                       *)
(***************************************************************************)
EXTENDS PeriodicTicker, StatusUpdates, FiniteSetTheorems, TLAPS

LEMMA SetBags ==
  ASSUME NEW A, NEW B
  PROVE  /\ BagToSet(SetToBag(A)) = A /\ DOMAIN SetToBag(A) = A
         /\ A \cap B = {} => SetToBag(A) (+) SetToBag(B) = SetToBag(A \cup B)
         /\ SetToBag(A) (-) SetToBag(B) = SetToBag(A \ B)
  BY DEF SetToBag, BagToSet, (+), (-)

LEMMA SizeOfSet ==
  ASSUME NEW A, IsFiniteSet(A)
  PROVE  Size(SetToBag(A)) = Cardinality(A)
<1>1. UNION { {e} \X (1 .. SetToBag(A)[e]) : e \in DOMAIN SetToBag(A) } = A \X {1}
  BY DEF SetToBag
<1>2. IsFiniteSet({1}) /\ Cardinality({1}) = 1
  BY FS_Singleton
<1>3. Cardinality(A \X {1}) = Cardinality(A) * Cardinality({1})
  BY <1>2, FS_Product
<1>4. Cardinality(A) \in Nat
  BY FS_CardinalityType
<1>5. Size(SetToBag(A)) = Cardinality(A \X {1})
  BY <1>1 DEF Size
<1> QED  BY <1>2, <1>3, <1>4, <1>5

LEMMA EntriesOfSet ==
  ASSUME NEW s \in Seq(Entry),
         \A i, j \in DOMAIN s : s[i] = s[j] => i = j
  PROVE  EntryBag(s) = SetToBag(ToSet(s))
<1>1. ASSUME NEW i \in DOMAIN s
      PROVE  { j \in DOMAIN s : s[j] = s[i] } = {i}
  OBVIOUS
<1>2. ASSUME NEW e \in ToSet(s)
      PROVE  Cardinality({ j \in DOMAIN s : s[j] = e }) = 1
  <2>1. PICK i \in DOMAIN s : s[i] = e
    BY DEF ToSet
  <2>2. { j \in DOMAIN s : s[j] = e } = {i}
    BY <1>1, <2>1
  <2> QED  BY <2>2, FS_Singleton
<1> QED  BY <1>2 DEF EntryBag, SetToBag

LEMMA RemoveTheEntry ==
  ASSUME NEW s \in Seq(Entry), NEW erase, NEW k \in DOMAIN s,
         \A i, j \in DOMAIN s : s[i][2] = s[j][2] => i = j
  PROVE  ErasedFrom(s[k][2], s, erase) = <<RemoveAt(s, k), erase>>
<1>1. { i \in 1 .. Len(s) : s[i][2] = s[k][2] } = {k}
  OBVIOUS
<1>2. Min({k}) = k
  BY DEF Min
<1>3. s[k][2] \in CharsOf(ToSet(s))
  BY DEF CharsOf, ToSet
<1>4. k \in 1 .. Len(s)
  OBVIOUS
<1> QED  BY <1>1, <1>2, <1>3, <1>4 DEF ErasedFrom, RemoveFirstMatch, SelectInSeq

LEMMA ConcatAt ==
  ASSUME NEW S, NEW s \in Seq(S), NEW t \in Seq(S), NEW i \in 1 .. Len(s) + Len(t)
  PROVE  (s \o t)[i] = IF i <= Len(s) THEN s[i] ELSE t[i - Len(s)]
  OBVIOUS

LEMMA ElementsLeft ==
  ASSUME NEW S, NEW s \in Seq(S), NEW k \in DOMAIN s
  PROVE  /\ RemoveAt(s, k) \in Seq(S)
         /\ Len(RemoveAt(s, k)) = Len(s) - 1
         /\ \A i \in 1 .. Len(s) - 1 :
              RemoveAt(s, k)[i] = IF i < k THEN s[i] ELSE s[i + 1]
<1> DEFINE head == SubSeq(s, 1, k - 1)
           tail == SubSeq(s, k + 1, Len(s))
<1>1. k \in 1 .. Len(s) /\ Len(s) \in Nat
  OBVIOUS
<1>2. head \in Seq(S) /\ Len(head) = k - 1
      /\ \A i \in 1 .. k - 1 : head[i] = s[i]
  BY <1>1
<1>3. tail \in Seq(S) /\ Len(tail) = Len(s) - k
      /\ \A i \in 1 .. Len(s) - k : tail[i] = s[k + i]
  BY <1>1
<1> HIDE DEF head, tail
<1>4. head \o tail \in Seq(S) /\ Len(head \o tail) = Len(s) - 1
  BY <1>1, <1>2, <1>3
<1>5. ASSUME NEW i \in 1 .. Len(s) - 1
      PROVE  (head \o tail)[i] = IF i < k THEN s[i] ELSE s[i + 1]
  <2>0. (head \o tail)[i] = IF i <= k - 1 THEN head[i] ELSE tail[i - (k - 1)]
    <3>1. i \in 1 .. Len(head) + Len(tail) /\ Len(head) = k - 1
      BY <1>1, <1>2, <1>3
    <3>2. head \in Seq(S) /\ tail \in Seq(S)
      BY <1>2, <1>3
    <3>3. (head \o tail)[i] = IF i <= Len(head) THEN head[i] ELSE tail[i - Len(head)]
      BY ONLY <3>1, <3>2, ConcatAt
    <3> QED  BY ONLY <3>1, <3>3
  <2>1. CASE i < k
    BY <2>0, <2>1, <1>1, <1>2
  <2>2. CASE ~(i < k)
    <3>1. (head \o tail)[i] = tail[i - (k - 1)]
      BY <2>0, <2>2, <1>1
    <3>2. i - (k - 1) \in 1 .. Len(s) - k /\ k + (i - (k - 1)) = i + 1
      BY <2>2, <1>1
    <3> QED  BY <3>1, <3>2, <2>2, <1>3
  <2> QED  BY <2>1, <2>2
<1> QED  BY <1>4, <1>5 DEF RemoveAt, head, tail

LEMMA KeyedLeft ==
  ASSUME NEW S, NEW s \in Seq(S), NEW key, NEW k \in DOMAIN s,
         \A i, j \in DOMAIN s : key[s[i]] = key[s[j]] => i = j,
         NEW t, t = RemoveAt(s, k)
  PROVE  /\ \A i, j \in DOMAIN t : key[t[i]] = key[t[j]] => i = j
         /\ ToSet(t) = { e \in ToSet(s) : key[e] # key[s[k]] }
<1>1. t \in Seq(S) /\ Len(t) = Len(s) - 1
      /\ \A i \in 1 .. Len(s) - 1 : t[i] = IF i < k THEN s[i] ELSE s[i + 1]
  BY ElementsLeft
<1>2. k \in 1 .. Len(s) /\ Len(s) \in Nat /\ DOMAIN s = 1 .. Len(s)
      /\ DOMAIN t = 1 .. Len(s) - 1
  BY <1>1
<1>3. ASSUME NEW i \in DOMAIN t, NEW j \in DOMAIN t, key[t[i]] = key[t[j]]
      PROVE  i = j
  <2> DEFINE at(n) == IF n < k THEN n ELSE n + 1
  <2>1. at(i) \in DOMAIN s /\ at(j) \in DOMAIN s
    BY <1>2
  <2>2. t[i] = s[at(i)] /\ t[j] = s[at(j)]
    BY <1>1, <1>2
  <2>3. at(i) = at(j)
    BY <2>1, <2>2, <1>3
  <2> QED  BY <2>3, <1>2
<1>4. ASSUME NEW e \in ToSet(t)
      PROVE  e \in ToSet(s) /\ key[e] # key[s[k]]
  <2>1. PICK i \in DOMAIN t : e = t[i]
    BY DEF ToSet
  <2>2. PICK j \in DOMAIN s : j # k /\ e = s[j]
    <3> DEFINE at == IF i < k THEN i ELSE i + 1
    <3>1. at \in DOMAIN s /\ at # k
      BY <1>2
    <3>2. e = s[at]
      BY <2>1, <1>1, <1>2
    <3> QED  BY <3>1, <3>2
  <2> QED  BY <2>2 DEF ToSet
<1>5. ASSUME NEW e \in ToSet(s), key[e] # key[s[k]]
      PROVE  e \in ToSet(t)
  <2>1. PICK j \in DOMAIN s : e = s[j]
    BY DEF ToSet
  <2>2. j # k
    BY <2>1, <1>5
  <2>3. PICK i \in DOMAIN t : t[i] = s[j]
    <3>1. CASE j < k
      <4>1. j \in 1 .. Len(s) - 1 /\ t[j] = s[j]
        BY <3>1, <1>1, <1>2
      <4> QED  BY <4>1, <1>2
    <3>2. CASE j > k
      <4>1. j - 1 \in 1 .. Len(s) - 1 /\ ~(j - 1 < k) /\ (j - 1) + 1 = j
        BY <3>2, <1>2
      <4>2. t[j - 1] = s[j]
        BY <4>1, <1>1
      <4> QED  BY <4>1, <4>2, <1>2
    <3> QED  BY <3>1, <3>2, <2>2, <1>2
  <2> QED  BY <2>1, <2>3 DEF ToSet
<1> QED  BY <1>3, <1>4, <1>5

LEMMA EntriesLeft ==
  ASSUME NEW s \in Seq(Entry), NEW k \in DOMAIN s,
         \A i, j \in DOMAIN s : s[i][2] = s[j][2] => i = j,
         NEW t, t = RemoveAt(s, k)
  PROVE  /\ \A i, j \in DOMAIN t : t[i][2] = t[j][2] => i = j
         /\ ToSet(t) = { e \in ToSet(s) : e[2] # s[k][2] }
<1> DEFINE key == [e \in Entry |-> e[2]]
<1>1. t \in Seq(Entry)
  BY ElementsLeft
<1>2. /\ \A e \in Entry : key[e] = e[2]
      /\ \A i \in DOMAIN s : s[i] \in Entry
      /\ \A i \in DOMAIN t : t[i] \in Entry
      /\ \A e \in ToSet(s) : e \in Entry
  BY <1>1 DEF ToSet
<1> HIDE DEF key
<1>3. \A i, j \in DOMAIN s : key[s[i]] = key[s[j]] => i = j
  BY <1>2
<1>4. /\ \A i, j \in DOMAIN t : key[t[i]] = key[t[j]] => i = j
      /\ ToSet(t) = { e \in ToSet(s) : key[e] # key[s[k]] }
  BY <1>3, KeyedLeft
<1> QED  BY <1>2, <1>4

----------------------------------------------------------------------------
Main == DOMAIN main
Erase == DOMAIN eraseReq
Buffer == DOMAIN buffer
Added == ToSet(addReq)

\* No two entries of one character.
OneEach(entries) == \A e, f \in entries : e[2] = f[2] => e = f

CharTypes ==
  /\ now \in Nat \ {0}
  /\ life \in [Chars -> {"gone", "live", "deleting"}]
  /\ asleep \in [Chars -> BOOLEAN] /\ offline \in [Chars -> BOOLEAN]
  /\ pc \in Phases
  /\ cur \subseteq Chars

\* Every vector holds an entry once.
ListTypes ==
  /\ tick \in [Chars -> Nat] /\ regen \in [Chars -> Nat]
  /\ main = SetToBag(Main) /\ Main \subseteq Entry /\ IsFiniteSet(Main)
  /\ addReq \in Seq(Entry)
  /\ eraseReq = SetToBag(Erase) /\ Erase \subseteq Chars
  /\ buffer = SetToBag(Buffer) /\ Buffer \subseteq Entry

\* No vector holds two entries of one character, and an erase request names
\* an entry of the main list.
ListInv ==
  /\ \A i, j \in DOMAIN addReq : addReq[i][2] = addReq[j][2] => i = j
  /\ OneEach(Main) /\ OneEach(Buffer)
  /\ Erase \subseteq CharsOf(Main)

\* A character is at most in one place, and where it is, it has the time of
\* its pending tick.
PlaceInv ==
  /\ \A e \in Added : tick[e[2]] = e[1]
  /\ \A e \in Main : e[2] \notin Erase =>
       tick[e[2]] = e[1] /\ e[2] \notin CharsOf(Added)
  /\ \A e \in Buffer :
       tick[e[2]] = e[1] /\ e[2] \notin CharsOf(Added) \cup CharsOf(Main)

\* A pending tick has a place, and is the next regeneration.
PendingInv ==
  \A c \in Chars : IsPeriodicTickPending(c) =>
    /\ tick[c] = regen[c]
    /\ c \in CharsOf(Added) \cup (CharsOf(Main) \ Erase) \cup CharsOf(Buffer)

\* Who waits for its turn is due and alive, since nobody meddles.
TurnInv ==
  /\ \A e \in Buffer : e[1] < now /\ life[e[2]] = "live"
  /\ pc \notin {"loop", "callback", "wild"} => Buffer = {}

\* Who is in its callback is the only one, and does not wait.
CurInv ==
  /\ pc # "callback" => cur = {}
  /\ \A c \in cur : cur = {c} /\ regen[c] # 0 /\ c \notin CharsOf(Buffer)

LifeInv ==
  \A c \in Chars : /\ life[c] = "gone" => ~IsPeriodicTickPending(c)
                   /\ life[c] = "live" => regen[c] # 0

QueueInv == ListTypes /\ ListInv /\ PlaceInv /\ PendingInv
TickInv == CharTypes /\ QueueInv /\ TurnInv /\ CurInv /\ LifeInv /\ AwakeStaysRegistered
----------------------------------------------------------------------------
(* The requests.                                                           *)

\* What an erasure does to the requests of a character that has a tick
\* pending and does not wait for its turn.
LEMMA ErasedRequests ==
  ASSUME QueueInv, NEW c \in Chars, tick[c] # 0, c \notin CharsOf(Buffer),
         NEW r, r = ErasedFrom(c, addReq, eraseReq)
  PROVE  /\ r[1] \in Seq(Entry)
         /\ \A i, j \in DOMAIN r[1] : r[1][i][2] = r[1][j][2] => i = j
         /\ ToSet(r[1]) = { e \in Added : e[2] # c }
         /\ r[2] = SetToBag(IF c \in CharsOf(Added) THEN Erase ELSE Erase \cup {c})
         /\ c \notin CharsOf(Added) => c \in CharsOf(Main)
<1> USE DEF QueueInv
<1>1. addReq \in Seq(Entry) /\ eraseReq = SetToBag(Erase)
  BY DEF ListTypes
<1>2. \A i, j \in DOMAIN addReq : addReq[i][2] = addReq[j][2] => i = j
  BY DEF ListInv
<1>3. CASE c \in CharsOf(Added)
  <2>1. PICK k \in DOMAIN addReq : addReq[k][2] = c
    BY <1>3 DEF CharsOf, Added, ToSet
  <2>2. r = <<RemoveAt(addReq, k), eraseReq>>
    BY <1>1, <1>2, <2>1, RemoveTheEntry
  <2>3. RemoveAt(addReq, k) \in Seq(Entry)
    BY <1>1, ElementsLeft
  <2> QED  BY <1>1, <1>2, <1>3, <2>1, <2>2, <2>3, EntriesLeft DEF Added
<1>4. CASE c \notin CharsOf(Added)
  <2>1. c \in CharsOf(Main) \ Erase
    BY <1>4 DEF PendingInv, IsPeriodicTickPending
  <2>2. r = <<addReq, eraseReq (+) SetToBag({c})>>
    BY <1>4 DEF ErasedFrom, Added
  <2>3. eraseReq (+) SetToBag({c}) = SetToBag(Erase \cup {c})
    BY <1>1, <2>1, SetBags
  <2>4. Added = { e \in Added : e[2] # c }
    BY <1>4 DEF CharsOf
  <2> QED  BY <1>1, <1>2, <1>4, <2>1, <2>2, <2>3, <2>4 DEF Added
<1> QED  BY <1>3, <1>4

LEMMA DelKeepsQueue ==
  ASSUME QueueInv, NEW c \in Chars, c \notin CharsOf(Buffer),
         DelIfPending(c), UNCHANGED <<main, buffer, regen>>
  PROVE  /\ QueueInv'
         /\ tick' = [tick EXCEPT ![c] = 0]
<1> USE DEF QueueInv
<1>1. CASE tick[c] = 0
  <2>1. UNCHANGED <<tick, addReq, eraseReq>>
    BY <1>1 DEF DelIfPending, IsPeriodicTickPending, tickVars
  <2>2. tick' = [tick EXCEPT ![c] = 0]
    BY <1>1, <2>1 DEF ListTypes
  <2> QED  BY <2>1, <2>2 DEF ListTypes, ListInv, PlaceInv, PendingInv, Main, Erase,
             Buffer, Added, IsPeriodicTickPending
<1>2. CASE tick[c] # 0
  <2> DEFINE r == ErasedFrom(c, addReq, eraseReq)
  <2>1. addReq' = r[1] /\ eraseReq' = r[2] /\ tick' = [tick EXCEPT ![c] = 0]
    BY <1>2 DEF DelIfPending, IsPeriodicTickPending
  <2>2. /\ addReq' \in Seq(Entry)
        /\ \A i, j \in DOMAIN addReq' : addReq'[i][2] = addReq'[j][2] => i = j
        /\ Added' = { e \in Added : e[2] # c }
        /\ eraseReq' = SetToBag(IF c \in CharsOf(Added) THEN Erase ELSE Erase \cup {c})
        /\ c \notin CharsOf(Added) => c \in CharsOf(Main)
    BY <1>2, <2>1, ErasedRequests DEF Added
  <2>3. Erase' = (IF c \in CharsOf(Added) THEN Erase ELSE Erase \cup {c})
    BY <2>2, SetBags DEF Erase
  <2>4. Main' = Main /\ Buffer' = Buffer
    BY DEF Main, Buffer
  <2>5. tick \in [Chars -> Nat]
    BY DEF ListTypes
  <2>6. ListTypes'
    BY <2>1, <2>2, <2>3, <2>4 DEF ListTypes
  <2>7. ListInv'
    BY <2>2, <2>3, <2>4 DEF ListInv
  <2>8. \A e \in Added \cup Main \cup Buffer : e[2] \in Chars
    BY DEF ListTypes, Added, ToSet, Entry
  <2>9. PlaceInv'
    <3>1. ASSUME NEW e \in Added'
          PROVE  tick'[e[2]] = e[1]
      BY <2>1, <2>2, <2>5, <2>8 DEF PlaceInv
    <3>2. ASSUME NEW e \in Main', e[2] \notin Erase'
          PROVE  tick'[e[2]] = e[1] /\ e[2] \notin CharsOf(Added')
      <4>1. e \in Main /\ e[2] \notin Erase /\ e[2] # c
        BY <2>3, <2>4, <3>2 DEF PlaceInv
      <4> QED  BY <4>1, <2>1, <2>2, <2>5, <2>8 DEF PlaceInv, CharsOf
    <3>3. ASSUME NEW e \in Buffer'
          PROVE  tick'[e[2]] = e[1] /\ e[2] \notin CharsOf(Added') \cup CharsOf(Main')
      <4>1. e \in Buffer /\ e[2] # c
        BY <2>4, <3>3 DEF CharsOf
      <4> QED  BY <4>1, <2>1, <2>2, <2>4, <2>5, <2>8 DEF PlaceInv, CharsOf
    <3> QED  BY <3>1, <3>2, <3>3 DEF PlaceInv, CharsOf
  <2>10. PendingInv'
    <3>1. ASSUME NEW d \in Chars, tick'[d] # 0
          PROVE  /\ tick'[d] = regen'[d]
                 /\ d \in CharsOf(Added') \cup (CharsOf(Main') \ Erase') \cup CharsOf(Buffer')
      <4>1. d # c /\ tick[d] # 0 /\ tick'[d] = tick[d]
        BY <3>1, <2>1, <2>5
      <4>2. tick[d] = regen[d]
            /\ d \in CharsOf(Added) \cup (CharsOf(Main) \ Erase) \cup CharsOf(Buffer)
        BY <4>1 DEF PendingInv, IsPeriodicTickPending
      <4>3. d \in CharsOf(Added) => d \in CharsOf(Added')
        BY <4>1, <2>2 DEF CharsOf
      <4> QED  BY <4>1, <4>2, <4>3, <2>3, <2>4
    <3> QED  BY <3>1 DEF PendingInv, IsPeriodicTickPending, CharsOf
  <2> QED  BY <2>1, <2>6, <2>7, <2>9, <2>10
<1> QED  BY <1>1, <1>2

LEMMA AddKeepsQueue ==
  ASSUME QueueInv, NEW c \in Chars, c \notin CharsOf(Buffer), regen[c] # 0,
         AddUnlessPending(c), UNCHANGED <<main, buffer, regen>>
  PROVE  /\ QueueInv'
         /\ tick' = [tick EXCEPT ![c] = tick'[c]] /\ tick'[c] # 0
<1> USE DEF QueueInv
<1>1. CASE tick[c] # 0
  <2>1. UNCHANGED <<tick, addReq, eraseReq>>
    BY <1>1 DEF AddUnlessPending, IsPeriodicTickPending, tickVars
  <2> QED  BY <1>1, <2>1 DEF ListTypes, ListInv, PlaceInv, PendingInv, Main, Erase,
             Buffer, Added, IsPeriodicTickPending
<1>2. CASE tick[c] = 0
  <2> DEFINE entry == <<regen[c], c>>
  <2>1. /\ addReq' = Append(addReq, entry) /\ eraseReq' = eraseReq
        /\ tick' = [tick EXCEPT ![c] = regen[c]]
    BY <1>2 DEF AddUnlessPending, AddCharTicking, IsPeriodicTickPending
  <2>2. tick \in [Chars -> Nat] /\ regen \in [Chars -> Nat] /\ addReq \in Seq(Entry)
    BY DEF ListTypes
  <2>3. entry \in Entry /\ entry[2] = c /\ entry[1] = regen[c]
    BY <2>2 DEF Entry
  <2>4. Erase' = Erase /\ Main' = Main /\ Buffer' = Buffer
    BY <2>1 DEF Erase, Main, Buffer
  <2>5. addReq' \in Seq(Entry) /\ Len(addReq') = Len(addReq) + 1
        /\ \A i \in 1 .. Len(addReq) + 1 :
             addReq'[i] = IF i = Len(addReq) + 1 THEN entry ELSE addReq[i]
    BY <2>1, <2>2, <2>3
  <2>6. DOMAIN addReq = 1 .. Len(addReq) /\ DOMAIN addReq' = 1 .. Len(addReq) + 1
        /\ Len(addReq) \in Nat
    BY <2>2, <2>5
  <2>7. Added' = Added \cup {entry}
    <3>1. Added = { addReq[i] : i \in 1 .. Len(addReq) }
          /\ Added' = { addReq'[i] : i \in 1 .. Len(addReq) + 1 }
      BY <2>6 DEF Added, ToSet
    <3>2. 1 .. Len(addReq) + 1 = (1 .. Len(addReq)) \cup {Len(addReq) + 1}
      BY <2>6
    <3> QED  BY <2>5, <2>6, <3>1, <3>2
  <2>8. \A e \in Added \cup Main \cup Buffer : e[2] \in Chars /\ e[1] # 0
    BY DEF ListTypes, Added, ToSet, Entry
  <2>9. c \notin CharsOf(Added)
    BY <1>2, <2>8 DEF PlaceInv, CharsOf
  <2>10. \A e \in Main : e[2] = c => c \in Erase
    BY <1>2, <2>8 DEF PlaceInv
  <2>11. ListTypes'
    BY <2>1, <2>2, <2>4, <2>5 DEF ListTypes
  <2>12. ListInv'
    <3>1. \A i \in 1 .. Len(addReq) : addReq[i][2] # c
      BY <2>6, <2>9 DEF CharsOf, Added, ToSet
    <3>2. \A i, j \in DOMAIN addReq' : addReq'[i][2] = addReq'[j][2] => i = j
      BY <2>3, <2>5, <2>6, <3>1 DEF ListInv
    <3> QED  BY <2>4, <3>2 DEF ListInv, CharsOf
  <2>13. PlaceInv'
    <3>1. ASSUME NEW e \in Added'
          PROVE  tick'[e[2]] = e[1]
      <4>1. CASE e = entry
        BY <4>1, <2>1, <2>2, <2>3
      <4>2. CASE e \in Added
        BY <4>2, <2>1, <2>2, <2>8, <2>9 DEF PlaceInv, CharsOf
      <4> QED  BY <4>1, <4>2, <2>7
    <3>2. ASSUME NEW e \in Main', e[2] \notin Erase'
          PROVE  tick'[e[2]] = e[1] /\ e[2] \notin CharsOf(Added')
      <4>1. e \in Main /\ e[2] \notin Erase /\ e[2] # c
        BY <2>4, <2>10, <3>2
      <4> QED  BY <4>1, <2>1, <2>2, <2>3, <2>7, <2>8 DEF PlaceInv, CharsOf
    <3>3. ASSUME NEW e \in Buffer'
          PROVE  tick'[e[2]] = e[1] /\ e[2] \notin CharsOf(Added') \cup CharsOf(Main')
      <4>1. e \in Buffer /\ e[2] # c
        BY <2>4, <3>3 DEF CharsOf
      <4> QED  BY <4>1, <2>1, <2>2, <2>3, <2>4, <2>7, <2>8 DEF PlaceInv, CharsOf
    <3> QED  BY <3>1, <3>2, <3>3 DEF PlaceInv, CharsOf
  <2>14. PendingInv'
    <3>1. ASSUME NEW d \in Chars, tick'[d] # 0
          PROVE  /\ tick'[d] = regen'[d]
                 /\ d \in CharsOf(Added') \cup (CharsOf(Main') \ Erase') \cup CharsOf(Buffer')
      <4>1. CASE d = c
        BY <4>1, <2>1, <2>2, <2>3, <2>7 DEF CharsOf
      <4>2. CASE d # c
        <5>1. tick[d] # 0 /\ tick'[d] = tick[d]
          BY <3>1, <4>2, <2>1, <2>2
        <5>2. tick[d] = regen[d]
              /\ d \in CharsOf(Added) \cup (CharsOf(Main) \ Erase) \cup CharsOf(Buffer)
          BY <5>1 DEF PendingInv, IsPeriodicTickPending
        <5> QED  BY <5>1, <5>2, <2>4, <2>7 DEF CharsOf
      <4> QED  BY <4>1, <4>2
    <3> QED  BY <3>1 DEF PendingInv, IsPeriodicTickPending, CharsOf
  <2> QED  BY <1>2, <2>1, <2>2, <2>11, <2>12, <2>13, <2>14
<1> QED  BY <1>1, <1>2

----------------------------------------------------------------------------
(* The merge.                                                              *)

\* The erase requests are no more than the entries they name, and the
\* unsigned difference of the sizes does not wrap.
LEMMA MergeAlwaysFits ==
  ASSUME ListTypes, ListInv
  PROVE  MergeFits /\ IsFiniteSet(Erase)
<1>1. IsFiniteSet(Main) /\ main = SetToBag(Main) /\ eraseReq = SetToBag(Erase)
  BY DEF ListTypes
<1> DEFINE entryOf == [c \in Erase |-> CHOOSE e \in Main : e[2] = c]
<1>2. \A c \in Erase : entryOf[c] \in Main /\ entryOf[c][2] = c
  BY DEF ListInv, CharsOf
<1>3. entryOf \in Injection(Erase, Main)
  BY <1>2 DEF Injection, IsInjective
<1>4. IsFiniteSet(Erase) /\ Cardinality(Erase) <= Cardinality(Main)
  BY <1>1, <1>3, FS_Injection
<1>5. Size(eraseReq) = Cardinality(Erase) /\ Size(main) = Cardinality(Main)
  BY <1>1, <1>4, SizeOfSet
<1> QED  BY <1>4, <1>5 DEF MergeFits

Selected == { e \in { f \in Main : f[2] \notin Erase } \cup Added :
                e[1] < now /\ ~asleep[e[2]] /\ life[e[2]] = "live" }

LEMMA MergeOfSets ==
  ASSUME ListTypes, ListInv, PlaceInv
  PROVE  /\ Merged = SetToBag({ f \in Main : f[2] \notin Erase } \cup Added)
         /\ Due(Merged) = SetToBag(Selected)
<1> DEFINE kept == { f \in Main : f[2] \notin Erase }
<1>1. MergeFits
  BY MergeAlwaysFits
<1>2. Kept(main, LAMBDA e : ~BagIn(e[2], eraseReq)) = SetToBag(kept)
  <2>1. main = [e \in Main |-> 1] /\ BagToSet(eraseReq) = Erase
    BY DEF ListTypes, SetToBag, BagToSet, Erase
  <2>2. { e \in DOMAIN main : ~BagIn(e[2], eraseReq) } = kept
    BY <2>1 DEF BagIn, Main
  <2> QED  BY <2>1, <2>2 DEF Kept, SetToBag
<1>3. EntryBag(addReq) = SetToBag(Added)
  <2>1. \A i, j \in DOMAIN addReq : addReq[i] = addReq[j] => i = j
    BY DEF ListInv
  <2> QED  BY <2>1, EntriesOfSet DEF ListTypes, Added
<1>4. kept \cap Added = {}
  BY DEF PlaceInv, CharsOf
<1>5. Merged = SetToBag(kept \cup Added)
  BY <1>1, <1>2, <1>3, <1>4, SetBags DEF Merged
<1>6. DOMAIN SetToBag(kept \cup Added) = kept \cup Added
  BY SetBags
<1>7. Due(Merged) = SetToBag(Selected)
  BY <1>5, <1>6 DEF Due, Kept, SetToBag, Selected
<1> QED  BY <1>5, <1>7

----------------------------------------------------------------------------
(* One lemma per step.                                                     *)

LEMMA InitTick == Init => TickInv
<1> SUFFICES ASSUME Init PROVE TickInv
  OBVIOUS
<1> USE DEF Init
<1>1. Main = {} /\ Erase = {} /\ Buffer = {} /\ Added = {}
  BY DEF Main, Erase, Buffer, Added, EmptyBag, SetToBag, ToSet
<1>2. CharTypes
  BY DEF CharTypes, Phases
<1>3. ListTypes
  BY <1>1, FS_EmptySet DEF ListTypes, EmptyBag
<1>4. ListInv /\ PlaceInv /\ PendingInv
  BY <1>1 DEF ListInv, PlaceInv, PendingInv, OneEach, CharsOf, IsPeriodicTickPending
<1>5. TurnInv /\ CurInv /\ LifeInv /\ AwakeStaysRegistered
  BY <1>1 DEF TurnInv, CurInv, LifeInv, AwakeStaysRegistered, IsPeriodicTickPending
<1> QED  BY <1>2, <1>3, <1>4, <1>5 DEF TickInv, QueueInv

\* What Reachable says when nobody meddles.
LEMMA NotWaiting ==
  ASSUME ~Meddling, NEW c, Reachable(c) PROVE  c \notin CharsOf(Buffer)
  BY DEF Reachable, Waiting, BagToSet, Buffer

LEMMA CreateTick ==
  ASSUME TickInv, NEW c \in Chars, Create(c) PROVE TickInv'
<1> USE DEF TickInv, QueueInv
<1>1. /\ tick \in [Chars -> Nat] /\ regen \in [Chars -> Nat]
      /\ life \in [Chars -> {"gone", "live", "deleting"}]
  BY DEF ListTypes, CharTypes
<1>2. tick[c] = 0 /\ life[c] = "gone"
  BY DEF Create, LifeInv, IsPeriodicTickPending
<1>3. tick' = tick
  BY <1>1, <1>2 DEF Create
<1>4. PICK t : /\ regen' = [regen EXCEPT ![c] = t]
               /\ t \in {now + FirstPeriod} \cup
                         { regen[d] : d \in { d \in Chars : life[d] = "live" } }
  BY DEF Create
<1>5. t \in Nat /\ t # 0
  BY <1>1, <1>4, PeriodAssumption DEF CharTypes, LifeInv
<1>6. UNCHANGED <<now, addReq, eraseReq, main, buffer, pc, cur>>
  BY DEF Create
<1>7. UNCHANGED <<Main, Erase, Buffer, Added>>
  BY <1>6 DEF Main, Erase, Buffer, Added
<1>8. \A e \in Buffer : e[2] # c
  BY <1>2 DEF TurnInv
<1>9. CharTypes'
  BY <1>6 DEF CharTypes, Create
<1>10. ListTypes'
  BY <1>1, <1>3, <1>4, <1>5, <1>6, <1>7 DEF ListTypes
<1>11. ListInv' /\ PlaceInv'
  BY <1>3, <1>6, <1>7 DEF ListInv, PlaceInv
<1>12. PendingInv'
  BY <1>1, <1>2, <1>3, <1>4, <1>7 DEF PendingInv, IsPeriodicTickPending
<1>13. TurnInv'
  BY <1>1, <1>6, <1>7, <1>8 DEF TurnInv, Create, ListTypes, Entry
<1>14. CurInv'
  BY <1>1, <1>4, <1>5, <1>6, <1>7 DEF CurInv, CharTypes
<1>15. LifeInv'
  BY <1>1, <1>2, <1>3, <1>4, <1>5 DEF LifeInv, Create, IsPeriodicTickPending
<1>16. AwakeStaysRegistered'
  BY <1>1, <1>3, <1>6 DEF AwakeStaysRegistered, Create, IsPeriodicTickPending, CharTypes
<1> QED  BY <1>9, <1>10, <1>11, <1>12, <1>13, <1>14, <1>15, <1>16

\* A step that withdraws a character, which is asleep afterwards.
LEMMA WithdrawTick ==
  ASSUME TickInv, NEW c \in Chars, c \notin CharsOf(Buffer),
         DelIfPending(c),
         asleep' = [asleep EXCEPT ![c] = TRUE],
         \/ life' = life
         \/ life' = [life EXCEPT ![c] = "deleting"]
         \/ life' = [life EXCEPT ![c] = "gone"],
         offline' \in [Chars -> BOOLEAN],
         \/ pc' = pc /\ cur' = cur
         \/ pc = "callback" /\ pc' = "loop" /\ cur = {c} /\ cur' = {},
         UNCHANGED <<now, regen, main, buffer>>
  PROVE  TickInv'
<1> USE DEF TickInv
<1>1. QueueInv' /\ tick' = [tick EXCEPT ![c] = 0]
  BY DelKeepsQueue
<1>2. /\ tick \in [Chars -> Nat] /\ regen \in [Chars -> Nat] /\ Buffer \subseteq Entry
      /\ life \in [Chars -> {"gone", "live", "deleting"}]
      /\ asleep \in [Chars -> BOOLEAN]
  BY DEF QueueInv, ListTypes, CharTypes
<1>3. Buffer' = Buffer /\ \A e \in Buffer : e[2] # c /\ e[2] \in Chars
  BY <1>2 DEF Buffer, CharsOf, Entry
<1>4. CharTypes'
  <2>1. life' \in [Chars -> {"gone", "live", "deleting"}] /\ asleep' \in [Chars -> BOOLEAN]
    BY ONLY <1>2, \/ life' = life
                  \/ life' = [life EXCEPT ![c] = "deleting"]
                  \/ life' = [life EXCEPT ![c] = "gone"],
            asleep' = [asleep EXCEPT ![c] = TRUE]
  <2>2. pc' \in Phases /\ cur' \subseteq Chars
    BY DEF CharTypes, Phases
  <2> QED  BY <2>1, <2>2 DEF CharTypes
<1>5. TurnInv'
  BY <1>2, <1>3 DEF TurnInv
<1>6. CurInv'
  BY <1>2, <1>3 DEF CurInv, CharTypes
<1>7. LifeInv'
  BY <1>1, <1>2 DEF LifeInv, IsPeriodicTickPending
<1>8. AwakeStaysRegistered'
  BY <1>1, <1>2 DEF AwakeStaysRegistered, IsPeriodicTickPending
<1> QED  BY <1>1, <1>4, <1>5, <1>6, <1>7, <1>8

\* A step that registers a character unless it is.
LEMMA RegisterTick ==
  ASSUME TickInv, NEW c \in Chars, c \notin CharsOf(Buffer), regen[c] # 0,
         life[c] # "gone", AddUnlessPending(c),
         asleep' = asleep \/ asleep' = [asleep EXCEPT ![c] = @ /\ offline[c]],
         \/ pc' = pc /\ cur' = cur
         \/ pc = "callback" /\ pc' = "loop" /\ cur = {c} /\ cur' = {},
         UNCHANGED <<now, life, offline, regen, main, buffer>>
  PROVE  TickInv'
<1> USE DEF TickInv
<1>1. QueueInv' /\ tick' = [tick EXCEPT ![c] = tick'[c]] /\ tick'[c] # 0
  BY AddKeepsQueue
<1>2. /\ tick \in [Chars -> Nat] /\ life \in [Chars -> {"gone", "live", "deleting"}]
      /\ asleep \in [Chars -> BOOLEAN] /\ offline \in [Chars -> BOOLEAN]
  BY DEF QueueInv, ListTypes, CharTypes
<1>3. Buffer' = Buffer
  BY DEF Buffer
<1>4. CharTypes'
  BY <1>2 DEF CharTypes, Phases
<1>5. TurnInv' /\ CurInv'
  BY <1>3 DEF TurnInv, CurInv
<1>6. LifeInv'
  BY <1>1, <1>2 DEF LifeInv, IsPeriodicTickPending
<1>7. \A d \in Chars : d # c => tick'[d] = tick[d] /\ asleep'[d] = asleep[d]
  BY <1>1, <1>2
<1>8. AwakeStaysRegistered'
  BY <1>1, <1>7 DEF AwakeStaysRegistered, IsPeriodicTickPending
<1> QED  BY <1>1, <1>4, <1>5, <1>6, <1>8

LEMMA GameTick ==
  ASSUME TickInv, ~Meddling, NEW c \in Chars,
         \/ Connect(c) \/ GoAwake(c) \/ GoSleep(c) \/ LoseAllHits(c) \/ Delete(c)
         \/ Collect(c)
         \/ \E ridden \in BOOLEAN : SetDisconnected(c, ridden)
  PROVE  TickInv'
<1>1. /\ life \in [Chars -> {"gone", "live", "deleting"}]
      /\ offline \in [Chars -> BOOLEAN] /\ asleep \in [Chars -> BOOLEAN]
  BY DEF TickInv, CharTypes
<1>2. \A b \in BOOLEAN : [offline EXCEPT ![c] = b] \in [Chars -> BOOLEAN]
  BY <1>1
<1>3. life[c] = "live" => regen[c] # 0
  BY DEF TickInv, LifeInv
<1>4. ASSUME offline' \in [Chars -> BOOLEAN],
             UNCHANGED <<now, life, asleep, tickVars, regen, main, buffer, pc, cur>>
      PROVE  TickInv'
  BY <1>4 DEF TickInv, QueueInv, tickVars, CharTypes, ListTypes, ListInv, PlaceInv,
       PendingInv, TurnInv, CurInv, LifeInv, AwakeStaysRegistered,
       IsPeriodicTickPending, Main, Erase, Buffer, Added
<1>5. CASE Connect(c)
  BY <1>2, <1>4, <1>5 DEF Connect
<1>6. CASE GoAwake(c)
  <2>1. c \notin CharsOf(Buffer) /\ life[c] = "live"
    BY <1>6, NotWaiting DEF GoAwake, Reachable
  <2> QED  BY <1>3, <1>6, <2>1, RegisterTick DEF GoAwake
<1>7. CASE GoSleep(c)
  <2>1. c \notin CharsOf(Buffer)
    BY <1>7, NotWaiting DEF GoSleep
  <2> QED  BY <1>1, <1>7, <2>1, WithdrawTick DEF GoSleep
<1>8. CASE LoseAllHits(c)
  <2>1. c \notin CharsOf(Buffer) /\ life[c] = "live"
    BY <1>8, NotWaiting DEF LoseAllHits, Reachable
  <2> QED  BY <1>3, <1>8, <2>1, RegisterTick DEF LoseAllHits, charVars
<1>9. CASE Delete(c)
  <2>1. c \notin CharsOf(Buffer)
    BY <1>9 DEF Delete, Waiting, BagToSet, Buffer
  <2> QED  BY <1>1, <1>9, <2>1, WithdrawTick DEF Delete, Unlink
<1>10. CASE \E ridden \in BOOLEAN : SetDisconnected(c, ridden)
  <2>1. c \notin CharsOf(Buffer)
    BY <1>10, NotWaiting DEF SetDisconnected
  <2>2. PICK ridden \in BOOLEAN : SetDisconnected(c, ridden)
    BY <1>10
  <2>3. CASE ridden
    BY <1>2, <1>4, <2>2, <2>3 DEF SetDisconnected
  <2>4. CASE ~ridden
    <3>1. /\ asleep' = [asleep EXCEPT ![c] = TRUE] /\ DelIfPending(c)
          /\ offline' = [offline EXCEPT ![c] = TRUE]
          /\ UNCHANGED <<now, life, regen, main, buffer, pc, cur>>
      BY <2>2, <2>4 DEF SetDisconnected
    <3> QED  BY <1>2, <2>1, <3>1, WithdrawTick
  <2> QED  BY <2>3, <2>4
<1>11. CASE Collect(c)
  <2>1. c \notin CharsOf(Buffer)
    BY <1>11 DEF Collect, Waiting, BagToSet, Buffer
  <2> QED  BY <1>1, <1>2, <1>11, <2>1, WithdrawTick DEF Collect, Destroyed
<1> QED  BY <1>5, <1>6, <1>7, <1>8, <1>9, <1>10, <1>11

LEMMA FailLoadTick ==
  ASSUME TickInv, FailLoad PROVE TickInv'
<1> USE DEF TickInv, QueueInv
<1>1. /\ tick \in [Chars -> Nat] /\ pc = "loading" /\ Buffer = {} /\ cur = {}
      /\ UNCHANGED <<now, asleep, offline, regen, buffer, pc, cur>>
      /\ life' = [c \in Chars |-> "gone"]
  BY DEF ListTypes, FailLoad, TurnInv, CurInv
<1>2. Main' = {} /\ Erase' = {} /\ Buffer' = {} /\ Added' = {}
  BY <1>1 DEF FailLoad, Main, Erase, Buffer, Added, EmptyBag, SetToBag, ToSet
<1>3. tick' = [c \in Chars |-> 0]
  <2>1. ASSUME NEW c \in Chars, tick[c] # 0
        PROVE  c \in CharsOf(BagToSet(main) \cup ToSet(addReq))
    BY <1>1, <2>1 DEF PendingInv, IsPeriodicTickPending, CharsOf, BagToSet, Main, Added
  <2> QED  BY <1>1, <2>1 DEF FailLoad
<1>4. CharTypes'
  BY <1>1 DEF CharTypes
<1>5. ListTypes'
  BY <1>1, <1>2, <1>3, FS_EmptySet DEF ListTypes, FailLoad, EmptyBag
<1>6. ListInv' /\ PlaceInv' /\ PendingInv'
  BY <1>2, <1>3 DEF FailLoad, ListInv, PlaceInv, PendingInv, OneEach, CharsOf,
       IsPeriodicTickPending
<1>7. TurnInv' /\ CurInv' /\ LifeInv' /\ AwakeStaysRegistered'
  BY <1>1, <1>2, <1>3 DEF TurnInv, CurInv, LifeInv, AwakeStaysRegistered,
       IsPeriodicTickPending
<1> QED  BY <1>4, <1>5, <1>6, <1>7

\* A step of the main thread that touches no character and no vector.
LEMMA PhaseTick ==
  ASSUME TickInv, FinishLoad \/ Advance \/ EndLoop \/ EndCleanup PROVE TickInv'
<1> USE DEF TickInv, QueueInv
<1>1. UNCHANGED <<life, asleep, offline, tick, addReq, eraseReq, regen, main, buffer, cur>>
  BY DEF FinishLoad, Advance, EndLoop, EndCleanup, charVars, tickVars
<1>2. UNCHANGED <<Main, Erase, Buffer, Added>>
  BY <1>1 DEF Main, Erase, Buffer, Added
<1>3. now' \in Nat \ {0} /\ now <= now' /\ pc' \in Phases
  BY DEF FinishLoad, Advance, EndLoop, EndCleanup, CharTypes, Phases
<1>4. Buffer = {} /\ cur = {}
  BY SetBags DEF FinishLoad, Advance, EndLoop, EndCleanup, TurnInv, CurInv, Buffer,
     EmptyBag
<1>5. CharTypes' /\ ListTypes' /\ ListInv' /\ PlaceInv' /\ PendingInv'
  BY <1>1, <1>2, <1>3 DEF CharTypes, ListTypes, ListInv, PlaceInv, PendingInv,
       IsPeriodicTickPending
<1>6. TurnInv' /\ CurInv' /\ LifeInv' /\ AwakeStaysRegistered'
  BY <1>1, <1>2, <1>4 DEF TurnInv, CurInv, LifeInv, AwakeStaysRegistered,
       IsPeriodicTickPending
<1> QED  BY <1>5, <1>6

LEMMA StartPeriodicTick ==
  ASSUME TickInv, StartPeriodic PROVE TickInv'
<1> USE DEF TickInv, QueueInv
<1> DEFINE merged == { f \in Main : f[2] \notin Erase } \cup Added
<1>1. /\ tick \in [Chars -> Nat] /\ addReq \in Seq(Entry) /\ Main \subseteq Entry
      /\ IsFiniteSet(Main) /\ asleep \in [Chars -> BOOLEAN]
  BY DEF ListTypes, CharTypes
<1>2. pc = "timers" /\ pc' = "loop" /\ cur = {} /\ cur' = {}
      /\ UNCHANGED <<now, life, asleep, offline, tick, regen>>
  BY DEF StartPeriodic, charVars, CurInv
<1>3. Buffer = {}
  BY <1>2 DEF TurnInv
<1>4. buffer' = SetToBag(Selected) /\ main' = SetToBag(merged) (-) SetToBag(Selected)
  BY MergeOfSets DEF StartPeriodic
<1>5. main' = SetToBag(merged \ Selected)
  BY <1>4, SetBags
<1>6. Main' = merged \ Selected /\ Buffer' = Selected
  BY <1>4, <1>5, SetBags DEF Main, Buffer
<1>7. Added' = {} /\ Erase' = {} /\ addReq' = <<>> /\ eraseReq' = SetToBag({})
  BY SetBags DEF StartPeriodic, Added, ToSet, Erase, EmptyBag
<1>8. Selected \subseteq merged /\ merged \subseteq Entry
  BY <1>1 DEF Selected, Added, ToSet
<1>9. IsFiniteSet(merged)
  <2> DEFINE entry == [i \in 1 .. Len(addReq) |-> addReq[i]]
  <2>1. entry \in Surjection(1 .. Len(addReq), Added)
    <3>1. Added = { addReq[i] : i \in 1 .. Len(addReq) }
      BY <1>1 DEF Added, ToSet
    <3>2. entry \in [1 .. Len(addReq) -> Added]
      BY <3>1
    <3>3. \A e \in Added : \E i \in 1 .. Len(addReq) : entry[i] = e
      BY <3>1
    <3> QED  BY <3>2, <3>3 DEF Surjection
  <2>2. IsFiniteSet(1 .. Len(addReq))
    BY <1>1, FS_Interval
  <2>3. IsFiniteSet(Added)
    <3> HIDE DEF entry
    <3> QED  BY <2>1, <2>2, FS_Surjection
  <2>4. IsFiniteSet({ f \in Main : f[2] \notin Erase })
    BY <1>1, FS_Subset
  <2> QED  BY <2>3, <2>4, FS_Union
<1>10. OneEach(merged)
  <2>1. \A e, f \in Added : e[2] = f[2] => e = f
    BY DEF ListInv, Added, ToSet
  <2> QED  BY <2>1 DEF OneEach, ListInv, PlaceInv, CharsOf
<1>11. \A e \in merged : tick[e[2]] = e[1]
  BY DEF PlaceInv
<1> HIDE DEF merged
<1>12. CharTypes'
  BY <1>2 DEF CharTypes, Phases
<1>13. ListTypes'
  <2>1. IsFiniteSet(Main')
    BY <1>6, <1>9, FS_Difference
  <2> QED  BY <1>2, <1>4, <1>5, <1>6, <1>7, <1>8, <2>1 DEF ListTypes
<1>14. ListInv'
  BY <1>6, <1>7, <1>8, <1>10 DEF ListInv, OneEach
<1>15. PlaceInv'
  <2>1. ASSUME NEW e \in Selected, NEW f \in merged \ Selected
        PROVE  e[2] # f[2]
    BY <1>8, <1>10 DEF OneEach
  <2> QED  BY <1>2, <1>6, <1>7, <1>8, <1>11, <2>1 DEF PlaceInv, CharsOf
<1>16. PendingInv'
  <2>1. ASSUME NEW c \in Chars, tick[c] # 0
        PROVE  c \in CharsOf(Main' \cup Buffer')
    <3>1. c \in CharsOf(Added) \cup (CharsOf(Main) \ Erase)
      BY <1>3, <2>1 DEF PendingInv, IsPeriodicTickPending, CharsOf
    <3>2. c \in CharsOf(merged)
      BY <3>1 DEF CharsOf, merged
    <3> QED  BY <1>6, <3>2 DEF CharsOf
  <2>2. \A c \in Chars : tick[c] # 0 => tick[c] = regen[c]
    BY DEF PendingInv, IsPeriodicTickPending
  <2> QED  BY <1>2, <1>7, <2>1, <2>2 DEF PendingInv, IsPeriodicTickPending, CharsOf
<1>17. TurnInv'
  BY <1>2, <1>6 DEF TurnInv, Selected
<1>18. CurInv' /\ LifeInv' /\ AwakeStaysRegistered'
  BY <1>2 DEF CurInv, LifeInv, AwakeStaysRegistered, IsPeriodicTickPending
<1> QED  BY <1>12, <1>13, <1>14, <1>15, <1>16, <1>17, <1>18

\* Whose turn it is has reached its regeneration time.
LEMMA TurnIsDue ==
  ASSUME TickInv, NEW e \in Buffer
  PROVE  e[2] \in Chars /\ tick[e[2]] # 0 /\ regen[e[2]] = e[1] /\ e[1] < now
<1>1. e[2] \in Chars /\ e[1] # 0 /\ tick[e[2]] = e[1]
  BY DEF TickInv, QueueInv, ListTypes, PlaceInv, Entry
<1> QED  BY <1>1 DEF TickInv, QueueInv, PendingInv, TurnInv, IsPeriodicTickPending

LEMMA BeginTickTick ==
  ASSUME TickInv, NEW c \in Chars, BeginTick(c) PROVE TickInv'
<1> USE DEF TickInv, QueueInv
<1>1. /\ tick \in [Chars -> Nat] /\ regen \in [Chars -> Nat]
      /\ Buffer \subseteq Entry /\ buffer = SetToBag(Buffer)
      /\ now \in Nat \ {0} /\ Period \in Nat
  BY PeriodAssumption DEF ListTypes, CharTypes
<1>2. PICK e \in Buffer : e[2] = c /\ buffer' = buffer (-) SetToBag({e})
  BY DEF BeginTick, BagToSet, Buffer
<1>3. buffer' = SetToBag(Buffer \ {e})
  BY <1>1, <1>2, SetBags
<1>4. Buffer' = Buffer \ {e}
  BY <1>3, SetBags DEF Buffer
<1>5. /\ tick' = [tick EXCEPT ![c] = 0] /\ regen' = [regen EXCEPT ![c] = now + Period]
      /\ pc = "loop" /\ pc' = "callback" /\ cur = {} /\ cur' = {c}
      /\ UNCHANGED <<now, life, asleep, offline, addReq, eraseReq, main>>
  BY DEF BeginTick, charVars, CurInv
<1>6. UNCHANGED <<Main, Erase, Added>>
  BY <1>5 DEF Main, Erase, Added
<1>7. life[c] = "live" /\ c \notin CharsOf(Added) \cup CharsOf(Main)
  BY <1>2 DEF TurnInv, PlaceInv
<1>8. \A f \in Buffer' : f[2] # c
  BY <1>2, <1>4 DEF ListInv, OneEach
<1>9. CharTypes'
  BY <1>5 DEF CharTypes, Phases
<1>10. ListTypes'
  BY <1>1, <1>3, <1>4, <1>5, <1>6 DEF ListTypes
<1>11. ListInv'
  BY <1>4, <1>5, <1>6 DEF ListInv, OneEach
<1>12. \A f \in Added \cup Main \cup Buffer' : f[2] # c /\ f[2] \in Chars
  <2>1. Added \subseteq Entry /\ Main \subseteq Entry /\ Buffer' \subseteq Entry
    <3>1. Added \subseteq Entry
      BY <1>1 DEF ListTypes, Added, ToSet
    <3> QED  BY <3>1, <1>1, <1>4 DEF ListTypes
  <2>2. \A f \in Entry : f[2] \in Chars
    BY DEF Entry
  <2>3. \A f \in Added \cup Main : f[2] # c
    BY <1>7 DEF CharsOf
  <2> QED  BY <2>1, <2>2, <2>3, <1>8
<1>13. PlaceInv'
  BY <1>1, <1>4, <1>5, <1>6, <1>12 DEF PlaceInv
<1>14. PendingInv'
  <2>1. ASSUME NEW d \in Chars, tick'[d] # 0
        PROVE  /\ tick'[d] = regen'[d]
               /\ d \in CharsOf(Added') \cup (CharsOf(Main') \ Erase') \cup CharsOf(Buffer')
    <3>1. d # c /\ tick'[d] = tick[d] /\ regen'[d] = regen[d]
      BY <1>1, <1>5, <2>1
    <3>2. tick[d] = regen[d]
          /\ d \in CharsOf(Added) \cup (CharsOf(Main) \ Erase) \cup CharsOf(Buffer)
      BY <2>1, <3>1 DEF PendingInv, IsPeriodicTickPending
    <3>3. d \in CharsOf(Buffer) => d \in CharsOf(Buffer')
      BY <1>2, <1>4, <3>1 DEF CharsOf
    <3> QED  BY <1>6, <3>1, <3>2, <3>3
  <2> QED  BY <2>1 DEF PendingInv, IsPeriodicTickPending, CharsOf
<1>15. TurnInv'
  BY <1>4, <1>5 DEF TurnInv
<1>16. CurInv'
  BY <1>1, <1>5, <1>7, <1>8 DEF CurInv, CharsOf
<1>17. LifeInv'
  BY <1>1, <1>5, <1>7 DEF LifeInv, IsPeriodicTickPending
<1>18. AwakeStaysRegistered'
  BY <1>1, <1>5 DEF AwakeStaysRegistered, IsPeriodicTickPending
<1> QED  BY <1>9, <1>10, <1>11, <1>13, <1>14, <1>15, <1>16, <1>17, <1>18

LEMMA EndTickTick ==
  ASSUME TickInv, EndTickKeep \/ EndTickDelete PROVE TickInv'
<1>1. \A c \in cur : /\ c \in Chars /\ cur = {c} /\ regen[c] # 0
                     /\ c \notin CharsOf(Buffer) /\ offline \in [Chars -> BOOLEAN]
  BY DEF TickInv, CurInv, CharTypes
<1>2. CASE EndTickKeep
  <2>1. PICK c \in cur : life[c] # "gone" /\ AddUnlessPending(c)
    BY <1>2 DEF EndTickKeep
  <2> QED  BY <1>1, <1>2, <2>1, RegisterTick DEF EndTickKeep, charVars
<1>3. CASE EndTickDelete
  <2>1. PICK c \in cur : life[c] # "gone" /\ Unlink(c)
    BY <1>3 DEF EndTickDelete
  <2> QED  BY <1>1, <1>3, <2>1, WithdrawTick DEF EndTickDelete, Unlink
<1> QED  BY <1>2, <1>3

LEMMA DestroyTick ==
  ASSUME TickInv, NEW c \in Chars, Destroy(c) PROVE TickInv'
<1>1. c \notin CharsOf(Buffer)
  BY DEF TickInv, TurnInv, CharsOf, Destroy
<1>2. offline' \in [Chars -> BOOLEAN]
  BY DEF Destroy, Destroyed, TickInv, CharTypes
<1> QED  BY <1>1, <1>2, WithdrawTick DEF Destroy, Destroyed

LEMMA RunIntoTick ==
  ASSUME TickInv, RunIntoDestroyed PROVE TickInv'
<1>1. /\ UNCHANGED <<now, life, asleep, offline, tick, addReq, eraseReq, regen, main, buffer>>
      /\ pc' = "wild" /\ cur' = {}
  BY DEF RunIntoDestroyed, charVars, tickVars
<1>2. UNCHANGED <<Main, Erase, Buffer, Added>>
  BY <1>1 DEF Main, Erase, Buffer, Added
<1>3. CurInv' /\ TurnInv' /\ CharTypes'
  BY <1>1, <1>2 DEF TickInv, CurInv, TurnInv, CharTypes, Phases
<1>4. AwakeStaysRegistered'
  <2>1. ASSUME NEW d \in cur PROVE life[d] = "gone"
    BY DEF RunIntoDestroyed, Turn, TickInv, CurInv
  <2> QED  BY <1>1, <2>1 DEF TickInv, AwakeStaysRegistered, IsPeriodicTickPending
<1> QED  BY <1>1, <1>2, <1>3, <1>4 DEF TickInv, QueueInv, ListTypes, ListInv, PlaceInv,
          PendingInv, LifeInv, IsPeriodicTickPending

LEMMA NextTick ==
  ASSUME TickInv, ~Meddling, [Next]_vars PROVE TickInv'
<1>1. CASE UNCHANGED vars \/ Wild
  BY <1>1 DEF Wild, vars, charVars, tickVars, TickInv, QueueInv, CharTypes, ListTypes, ListInv,
       PlaceInv, PendingInv, TurnInv, CurInv, LifeInv, AwakeStaysRegistered,
       IsPeriodicTickPending, Main, Erase, Buffer, Added
<1>2. CASE Next
  BY <1>2, CreateTick, GameTick, FailLoadTick, PhaseTick, StartPeriodicTick,
     BeginTickTick, EndTickTick, DestroyTick, RunIntoTick, <1>1 DEF Next, GameOps, Tick
<1> QED  BY <1>1, <1>2

\* As long as nobody meddles with who waits for its turn: no vector holds two
\* entries of a character, a character is in one place, with the time of its
\* pending tick, and whose tick is pending has a place.
THEOREM PeriodicInvariant ==
  ASSUME ~Meddling PROVE Spec => []TickInv
<1>1. Init => TickInv
  BY InitTick
<1>2. TickInv /\ [Next]_vars => TickInv'
  BY NextTick
<1> QED  BY <1>1, <1>2, PTL DEF Spec

----------------------------------------------------------------------------
(* What the invariant says.                                                *)

\* The add requests and the main list hold at most one entry of a character.
LEMMA RegistrationsCounted ==
  ASSUME QueueInv, NEW c \in Chars
  PROVE  Registrations(c) = (IF c \in CharsOf(Added) THEN 1 ELSE 0)
                            + (IF c \in CharsOf(Main) \ Erase THEN 1 ELSE 0)
<1> USE DEF QueueInv
<1> DEFINE asked == { i \in DOMAIN addReq : addReq[i][2] = c }
           kept == { e \in Main : e[2] = c }
<1>1. Cardinality(asked) = IF c \in CharsOf(Added) THEN 1 ELSE 0
  <2>1. CASE c \in CharsOf(Added)
    <3>1. PICK k \in DOMAIN addReq : addReq[k][2] = c
      BY <2>1 DEF CharsOf, Added, ToSet
    <3>2. asked = {k}
      BY <3>1 DEF ListInv
    <3> QED  BY <2>1, <3>2, FS_Singleton
  <2>2. CASE c \notin CharsOf(Added)
    <3>1. asked = {}
      BY <2>2 DEF CharsOf, Added, ToSet
    <3> QED  BY <2>2, <3>1, FS_EmptySet
  <2> QED  BY <2>1, <2>2
<1>2. Kept(main, LAMBDA e : e[2] = c) = SetToBag(kept)
  <2>1. main = [e \in Main |-> 1]
    BY DEF ListTypes, SetToBag
  <2> QED  BY <2>1 DEF Kept, SetToBag, Main
<1>3. Size(SetToBag(kept)) = IF c \in CharsOf(Main) THEN 1 ELSE 0
  <2>1. CASE c \in CharsOf(Main)
    <3>1. PICK e \in Main : e[2] = c
      BY <2>1 DEF CharsOf
    <3>2. kept = {e}
      BY <3>1 DEF ListInv, OneEach
    <3> QED  BY <2>1, <3>2, FS_Singleton, SizeOfSet
  <2>2. CASE c \notin CharsOf(Main)
    <3>1. kept = {}
      BY <2>2 DEF CharsOf
    <3> QED  BY <2>2, <3>1, FS_EmptySet, SizeOfSet
  <2> QED  BY <2>1, <2>2
<1>4. BagIn(c, eraseReq) <=> c \in Erase
  BY DEF BagIn, BagToSet, Erase
<1> QED  BY <1>1, <1>2, <1>3, <1>4 DEF Registrations

\* A character has a tick pending exactly when it is registered, once, or
\* waits for its turn.
THEOREM RegisteredOnceAlways ==
  ASSUME ~Meddling PROVE Spec => []PendingIsRegisteredOnce
<1>1. TickInv => PendingIsRegisteredOnce
  <2> SUFFICES ASSUME TickInv, NEW c \in Chars, c \notin Waiting
               PROVE  Registrations(c) = IF IsPeriodicTickPending(c) THEN 1 ELSE 0
    BY DEF PendingIsRegisteredOnce
  <2> USE DEF TickInv, QueueInv
  <2>1. \A e \in Added \cup Main : e[1] # 0
    BY DEF ListTypes, Added, ToSet, Entry
  <2>2. c \in CharsOf(Added) => c \notin CharsOf(Main) \ Erase
    BY DEF PlaceInv, CharsOf
  <2>3. IsPeriodicTickPending(c) <=> c \in CharsOf(Added) \cup (CharsOf(Main) \ Erase)
    BY <2>1 DEF PlaceInv, PendingInv, CharsOf, IsPeriodicTickPending, Waiting, BagToSet,
         Buffer
  <2> QED  BY <2>2, <2>3, RegistrationsCounted
<1> QED  BY <1>1, PeriodicInvariant, PTL

\* An erase request names, once, an entry of the main list: the unsigned
\* difference of the sizes never wraps, and no merge loses the add requests.
THEOREM EraseNamesEntryAlways ==
  ASSUME ~Meddling PROVE Spec => [](EraseNamesEntry /\ MergeFits)
<1>1. TickInv => EraseNamesEntry /\ MergeFits
  <2> SUFFICES ASSUME TickInv PROVE EraseNamesEntry /\ MergeFits
    OBVIOUS
  <2> USE DEF TickInv, QueueInv
  <2>1. eraseReq = [c \in Erase |-> 1] /\ BagToSet(eraseReq) = Erase /\ BagToSet(main) = Main
    BY DEF ListTypes, SetToBag, BagToSet, Erase, Main
  <2> QED  BY <2>1, MergeAlwaysFits DEF EraseNamesEntry, ListInv
<1> QED  BY <1>1, PeriodicInvariant, PTL

\* No entry of a destroyed character is merged or ticked.
THEOREM NoDanglingEntryEver ==
  ASSUME ~Meddling PROVE Spec => []NoDanglingEntry
<1>1. TickInv => NoDanglingEntry
  <2> SUFFICES ASSUME TickInv, NEW c \in Chars, life[c] = "gone"
               PROVE  Registrations(c) = 0 /\ c \notin Waiting
    BY DEF NoDanglingEntry
  <2> USE DEF TickInv, QueueInv
  <2>1. c \notin Waiting
    BY DEF TurnInv, Waiting, CharsOf, BagToSet, Buffer
  <2>2. \A e \in Added \cup Main : e[1] # 0
    BY DEF ListTypes, Added, ToSet, Entry
  <2>3. c \notin CharsOf(Added) \cup (CharsOf(Main) \ Erase)
    BY <2>2 DEF LifeInv, PlaceInv, CharsOf, IsPeriodicTickPending
  <2> QED  BY <2>1, <2>3, RegistrationsCounted
<1> QED  BY <1>1, PeriodicInvariant, PTL

\* A live, awake character never falls out of the periodic ticks.
THEOREM AwakeStaysRegisteredAlways ==
  ASSUME ~Meddling PROVE Spec => []AwakeStaysRegistered
<1>1. TickInv => AwakeStaysRegistered
  BY DEF TickInv
<1> QED  BY <1>1, PeriodicInvariant, PTL

\* No character ticks before its regeneration time, whatever registers it
\* again in between.
THEOREM OneTickPerPeriodAlways ==
  ASSUME ~Meddling PROVE Spec => OneTickPerPeriod
<1>1. ASSUME TickInv, [Next]_vars, NEW c \in Chars, pc = "loop", cur' = {c}
      PROVE  regen[c] < now
  <2>1. cur = {}
    BY <1>1 DEF TickInv, CurInv
  <2>2. PICK d \in Chars : BeginTick(d)
    BY <1>1, <2>1 DEF Next, GameOps, Tick, vars, Create, Connect, GoAwake, GoSleep,
         LoseAllHits, Delete, Collect, RunIntoDestroyed, Wild, SetDisconnected, FailLoad, FinishLoad, Advance,
         StartPeriodic, EndTickKeep, EndTickDelete, EndLoop, Destroy, EndCleanup
  <2>3. d = c
    BY <1>1, <2>2 DEF BeginTick
  <2>4. PICK e \in Buffer : e[2] = c
    BY <2>2, <2>3 DEF BeginTick, BagToSet, Buffer
  <2> QED  BY <1>1, <2>4, TurnIsDue
<1>2. TickInv /\ [Next]_vars
        => [\A c \in Chars : (pc = "loop" /\ cur' = {c}) => regen[c] < now]_vars
  BY <1>1
<1> QED  BY <1>2, PeriodicInvariant, PTL DEF Spec, OneTickPerPeriod
----------------------------------------------------------------------------
(* The status updates.                                                     *)

\* Whatever failed to load: no object ever has the list flag.
ListFlagInv ==
  /\ inAdd \in [Objs -> BOOLEAN]
  /\ inList = [o \in Objs |-> FALSE]
  /\ updateEraseReq = <<>>

LEMMA NextListFlag ==
  ASSUME ListFlagInv, [UpdatesNext]_updateVars PROVE ListFlagInv'
<1> USE DEF ListFlagInv
<1>1. ASSUME NEW o \in Objs, DelUpdateIfPending(o)
      PROVE  ListFlagInv'
  BY <1>1 DEF DelUpdateIfPending, DelObjStatusUpdate,
       IsStatusUpdatePending, queueVars
<1>2. ASSUME NEW o \in Objs, AddObjStatusUpdate(o)
      PROVE  ListFlagInv'
  BY <1>2 DEF AddObjStatusUpdate
<1>3. CASE ObjOps
  <2>1. PICK o \in Objs :
          \/ CreateObj(o) \/ ObjGoAwake(o) \/ ObjGoSleep(o)
          \/ DeleteObj(o) \/ CollectObj(o)
          \/ \E ownTick \in BOOLEAN : UpdatePropertyFlag(o, ownTick)
    BY <1>3 DEF ObjOps
  <2>2. CASE CreateObj(o)
    BY <2>2 DEF CreateObj
  <2>3. CASE ObjGoAwake(o)
    BY <2>3, <1>2 DEF ObjGoAwake
  <2>4. CASE ObjGoSleep(o)
    BY <2>4, <1>1 DEF ObjGoSleep
  <2>5. CASE DeleteObj(o)
    BY <2>5, <1>1 DEF DeleteObj
  <2>6. CASE \E ownTick \in BOOLEAN : UpdatePropertyFlag(o, ownTick)
    BY <2>6, <1>2 DEF UpdatePropertyFlag, queueVars
  <2>7. CASE CollectObj(o)
    BY <2>7, <1>1 DEF CollectObj, DestroyedObj
  <2> QED  BY <2>1, <2>2, <2>3, <2>4, <2>5, <2>6, <2>7
<1>4. CASE FailLoadObjs \/ FinishLoadObjs
  BY <1>4 DEF FailLoadObjs, FinishLoadObjs, queueVars
<1>5. CASE UpdatesTick
  <2>1. ASSUME NEW o \in Objs, DestroyObj(o) PROVE ListFlagInv'
    BY <2>1, <1>1 DEF DestroyObj, DestroyedObj
  <2>2. CASE StartUpdates
    BY <2>2 DEF StartUpdates
  <2>3. CASE UNCHANGED queueVars
    BY <2>3 DEF queueVars
  <2> QED  BY <1>5, <2>1, <2>2, <2>3 DEF UpdatesTick, OnTickStatusUpdate,
             ResendTooltip, UpdateDestroyed, EndUpdates, EndTick, EndObjCleanup
<1>6. CASE \/ UNCHANGED updateVars \/ WildUpdate
           \/ \E o \in Objs : SendOnOwnTick(o)
  BY <1>6 DEF updateVars, queueVars, WildUpdate, SendOnOwnTick
<1> QED  BY <1>3, <1>4, <1>5, <1>6 DEF UpdatesNext

\* The erase list of the status updates is never used.
THEOREM NothingToEraseEver == UpdatesSpec => []NothingToErase
<1>1. UpdatesInit => ListFlagInv
  BY DEF UpdatesInit, ListFlagInv
<1>2. ListFlagInv /\ [UpdatesNext]_updateVars => ListFlagInv'
  BY NextListFlag
<1>3. ListFlagInv => NothingToErase
  BY DEF ListFlagInv, NothingToErase
<1> QED  BY <1>1, <1>2, <1>3, PTL DEF UpdatesSpec

\* A server whose first save loads: the flag tells who is in the add list,
\* once, nothing that is queued is destroyed, nothing selected but by garbage
\* collection, and who is owed an update has it coming.
FirstLoadInv ==
  /\ objLife \in [Objs -> {"gone", "live", "deleting"}]
  /\ updateReq \in Seq(Objs) /\ IsInjective(updateReq)
  /\ \A o \in Objs : inAdd[o] <=> o \in ToSet(updateReq)
  /\ \A o \in Objs : objLife[o] = "gone" => ~inAdd[o] /\ (o \in WaitingObjs => swept)
  /\ phase \notin {"updates", "sending", "wild"} => updateBuffer = {}
  /\ owed \in [Objs -> BOOLEAN]
  /\ \A o \in Objs :
       owed[o] => inAdd[o] \/ o \in WaitingObjs \/ objLife[o] = "deleting"

UpdateInv == ListFlagInv /\ failures \in Nat /\ (failures = 0 => FirstLoadInv)

\* What withdrawing an object does to the queue.
LEMMA WithdrawUpdate ==
  ASSUME ListFlagInv, FirstLoadInv, NEW o \in Objs, DelUpdateIfPending(o)
  PROVE  /\ updateReq' \in Seq(Objs) /\ IsInjective(updateReq')
         /\ ToSet(updateReq') = ToSet(updateReq) \ {o}
         /\ inAdd' = [inAdd EXCEPT ![o] = FALSE]
<1> USE DEF ListFlagInv, FirstLoadInv
<1>1. CASE ~inAdd[o]
  <2>1. UNCHANGED <<updateReq, inAdd>>
    BY <1>1 DEF DelUpdateIfPending, IsStatusUpdatePending, queueVars
  <2> QED  BY <1>1, <2>1
<1>2. CASE inAdd[o]
  <2>1. /\ updateReq' = RemoveFirst(updateReq, o)
        /\ inAdd' = [inAdd EXCEPT ![o] = FALSE]
    BY <1>2 DEF DelUpdateIfPending, IsStatusUpdatePending,
         DelObjStatusUpdate
  <2>2. PICK k \in DOMAIN updateReq : updateReq[k] = o
    BY <1>2 DEF ToSet
  <2>3. \A i, j \in DOMAIN updateReq : updateReq[i] = updateReq[j] => i = j
    BY DEF IsInjective
  <2>4. { i \in 1 .. Len(updateReq) : updateReq[i] = o } = {k}
    BY <2>2, <2>3
  <2>5. Min({k}) = k
    BY DEF Min
  <2>s. updateReq \in Seq(Objs) /\ k \in DOMAIN updateReq
    OBVIOUS
  <2>6. updateReq' = RemoveAt(updateReq, k)
    BY <2>1, <2>2, <2>4, <2>5 DEF RemoveFirst, SelectInSeq,
         RemoveAt, RemoveAt
  <2>7. /\ updateReq' \in Seq(Objs) /\ Len(updateReq') = Len(updateReq) - 1
        /\ \A i \in 1 .. Len(updateReq) - 1 :
             updateReq'[i] = IF i < k THEN updateReq[i] ELSE updateReq[i + 1]
    <3>1. /\ RemoveAt(updateReq, k) \in Seq(Objs)
          /\ Len(RemoveAt(updateReq, k)) = Len(updateReq) - 1
          /\ \A i \in 1 .. Len(updateReq) - 1 :
               RemoveAt(updateReq, k)[i] = IF i < k THEN updateReq[i] ELSE updateReq[i + 1]
      BY ONLY <2>s, ElementsLeft
    <3> QED  BY ONLY <2>6, <3>1
  <2>8. /\ \A i, j \in DOMAIN updateReq' : updateReq'[i] = updateReq'[j] => i = j
        /\ ToSet(updateReq') = ToSet(updateReq) \ {o}
    <3> DEFINE key == [e \in Objs |-> e]
    <3>1. /\ \A e \in Objs : key[e] = e
          /\ \A i \in DOMAIN updateReq : updateReq[i] \in Objs
          /\ \A i \in DOMAIN updateReq' : updateReq'[i] \in Objs
          /\ \A e \in ToSet(updateReq) : e \in Objs
      BY <2>7 DEF ToSet
    <3> HIDE DEF key
    <3>2. \A i, j \in DOMAIN updateReq : key[updateReq[i]] = key[updateReq[j]] => i = j
      BY <2>3, <3>1
    <3>3. /\ \A i, j \in DOMAIN updateReq' : key[updateReq'[i]] = key[updateReq'[j]] => i = j
          /\ ToSet(updateReq') = { e \in ToSet(updateReq) : key[e] # key[updateReq[k]] }
      BY <2>6, <3>2, KeyedLeft
    <3> QED  BY <2>2, <3>1, <3>3
  <2> QED  BY <2>1, <2>7, <2>8 DEF IsInjective, ToSet, ToSet
<1> QED  BY <1>1, <1>2
LEMMA QueueUpdate ==
  ASSUME ListFlagInv, FirstLoadInv, NEW o \in Objs, ~inAdd[o],
         AddObjStatusUpdate(o)
  PROVE  /\ updateReq' \in Seq(Objs) /\ IsInjective(updateReq')
         /\ ToSet(updateReq') = ToSet(updateReq) \cup {o}
         /\ inAdd' = [inAdd EXCEPT ![o] = TRUE]
<1>1. updateReq \in Seq(Objs) /\ updateReq' = Append(updateReq, o)
      /\ inAdd' = [inAdd EXCEPT ![o] = TRUE]
  BY DEF AddObjStatusUpdate, FirstLoadInv
<1>2. /\ updateReq' \in Seq(Objs) /\ Len(updateReq') = Len(updateReq) + 1
      /\ \A i \in 1 .. Len(updateReq) + 1 :
           updateReq'[i] = IF i = Len(updateReq) + 1 THEN o ELSE updateReq[i]
  BY <1>1
<1>3. /\ DOMAIN updateReq = 1 .. Len(updateReq) /\ Len(updateReq) \in Nat
      /\ DOMAIN updateReq' = (1 .. Len(updateReq)) \cup {Len(updateReq) + 1}
  BY <1>1, <1>2
<1>4. \A i \in 1 .. Len(updateReq) : updateReq[i] # o
  BY <1>3 DEF FirstLoadInv, ToSet
<1>5. \A i, j \in DOMAIN updateReq : updateReq[i] = updateReq[j] => i = j
  BY DEF FirstLoadInv, IsInjective
<1>6. IsInjective(updateReq')
  BY <1>2, <1>3, <1>4, <1>5 DEF IsInjective
<1>7. ToSet(updateReq') = ToSet(updateReq) \cup {o}
  BY <1>2, <1>3 DEF ToSet
<1> QED  BY <1>1, <1>2, <1>6, <1>7
\* The objects that are queued change by one at most, and one that is
\* withdrawn may be destroyed.
LEMMA RequestKeepsUpdates ==
  ASSUME ListFlagInv, FirstLoadInv, NEW o \in Objs, NEW queued \in BOOLEAN,
         /\ updateReq' \in Seq(Objs) /\ IsInjective(updateReq')
         /\ ToSet(updateReq') = IF queued THEN ToSet(updateReq) \cup {o}
                                      ELSE ToSet(updateReq) \ {o}
         /\ inAdd' = [inAdd EXCEPT ![o] = queued],
         \/ objLife' = objLife /\ objLife[o] # "gone"
         \/ objLife' = [objLife EXCEPT ![o] = "live"] /\ ~queued /\ objLife[o] = "gone"
         \/ objLife' = [objLife EXCEPT ![o] = "deleting"]
         \/ /\ objLife' = [objLife EXCEPT ![o] = "gone"] /\ ~queued
            /\ swept' \/ phase \notin {"updates", "sending", "wild"},
         swept => swept',
         owed' \in [Objs -> BOOLEAN], \A d \in Objs \ {o} : owed'[d] = owed[d],
         owed'[o] => queued \/ o \in WaitingObjs \/ objLife'[o] = "deleting",
         UNCHANGED <<updateBuffer, phase>>
  PROVE  FirstLoadInv'
<1> USE DEF FirstLoadInv, ListFlagInv
<1>1. WaitingObjs' = WaitingObjs
  BY DEF WaitingObjs
<1>2. objLife' \in [Objs -> {"gone", "live", "deleting"}]
  OBVIOUS
<1>3. \A d \in Objs : inAdd'[d] <=> d \in ToSet(updateReq')
  OBVIOUS
<1>4. phase \notin {"updates", "sending", "wild"} => WaitingObjs = {}
  BY DEF WaitingObjs
<1>5. ASSUME NEW d \in Objs, objLife'[d] = "gone"
      PROVE  ~inAdd'[d] /\ (d \in WaitingObjs => swept')
  BY <1>4, <1>5
<1>6. ASSUME NEW d \in Objs, owed'[d]
      PROVE  inAdd'[d] \/ d \in WaitingObjs \/ objLife'[d] = "deleting"
  BY <1>6
<1> QED  BY <1>1, <1>2, <1>3, <1>5, <1>6

LEMMA GameUpdate ==
  ASSUME ListFlagInv, FirstLoadInv, ObjOps PROVE FirstLoadInv'
<1>1. PICK o \in Objs :
        \/ CreateObj(o) \/ ObjGoAwake(o) \/ ObjGoSleep(o)
        \/ DeleteObj(o) \/ CollectObj(o)
        \/ \E ownTick \in BOOLEAN : UpdatePropertyFlag(o, ownTick)
  BY DEF ObjOps
<1>2. /\ updateReq \in Seq(Objs) /\ IsInjective(updateReq)
      /\ inAdd \in [Objs -> BOOLEAN]
      /\ inAdd[o] <=> o \in ToSet(updateReq)
      /\ IsStatusUpdatePending(o) <=> inAdd[o]
      /\ objLife[o] = "gone" => ~inAdd[o]
      /\ objLife \in [Objs -> {"gone", "live", "deleting"}]
      /\ owed \in [Objs -> BOOLEAN]
      /\ owed[o] => inAdd[o] \/ o \in WaitingObjs \/ objLife[o] = "deleting"
  BY DEF FirstLoadInv, ListFlagInv, IsStatusUpdatePending
<1>3. CASE CreateObj(o)
  <2>1. objLife' = [objLife EXCEPT ![o] = "live"] /\ objLife[o] = "gone"
        /\ UNCHANGED <<updateReq, updateBuffer, phase, owed, swept>>
        /\ inAdd' = [inAdd EXCEPT ![o] = FALSE]
    BY <1>3 DEF CreateObj
  <2>2. ToSet(updateReq') = ToSet(updateReq) \ {o}
    BY <1>2, <2>1 DEF ToSet
  <2> QED  BY <1>2, <2>1, <2>2, RequestKeepsUpdates
<1>4. CASE ObjGoAwake(o)
  <2>1. AddObjStatusUpdate(o) /\ objLife[o] = "live"
        /\ ~IsStatusUpdatePending(o)
        /\ owed' = [owed EXCEPT ![o] = TRUE]
        /\ UNCHANGED <<objLife, updateBuffer, phase, swept>>
    BY <1>4 DEF ObjGoAwake
  <2> QED  BY <1>2, <2>1, QueueUpdate, RequestKeepsUpdates
<1>5. CASE ObjGoSleep(o)
  <2>1. DelUpdateIfPending(o) /\ objLife[o] = "live"
        /\ owed' = [owed EXCEPT ![o] = owed[o] /\ o \in WaitingObjs]
        /\ UNCHANGED <<objLife, updateBuffer, phase, swept>>
    BY <1>5 DEF ObjGoSleep, OweOnlyTurn
  <2> QED  BY <1>2, <2>1, WithdrawUpdate, RequestKeepsUpdates
<1>6. CASE DeleteObj(o)
  <2>1. DelUpdateIfPending(o) /\ objLife' = [objLife EXCEPT ![o] = "deleting"]
        /\ owed' = [owed EXCEPT ![o] = owed[o] /\ o \in WaitingObjs]
        /\ UNCHANGED <<updateBuffer, phase, swept>>
    BY <1>6 DEF DeleteObj, OweOnlyTurn
  <2> QED  BY <1>2, <2>1, WithdrawUpdate, RequestKeepsUpdates
<1>7. CASE \E ownTick \in BOOLEAN : UpdatePropertyFlag(o, ownTick)
  <2>1. PICK ownTick \in BOOLEAN : UpdatePropertyFlag(o, ownTick)
    BY <1>7
  <2>2. /\ objLife[o] # "gone" /\ UNCHANGED <<objLife, updateBuffer, phase, swept>>
        /\ owed' = [owed EXCEPT ![o] = owed[o] \/ ~ownTick]
    BY <2>1 DEF UpdatePropertyFlag
  <2>3. CASE IsStatusUpdatePending(o) \/ ownTick
    <3>1. UNCHANGED <<updateReq, inAdd>>
      BY <2>1, <2>3 DEF UpdatePropertyFlag, queueVars
    <3>2. \A d \in Objs : owed'[d] => owed[d] \/ inAdd[d]
      BY <1>2, <2>2, <2>3
    <3>3. owed' \in [Objs -> BOOLEAN]
      BY <1>2, <2>2
    <3> QED  BY <2>2, <3>1, <3>2, <3>3 DEF FirstLoadInv, IsInjective, ToSet,
               WaitingObjs
  <2>4. CASE ~(IsStatusUpdatePending(o) \/ ownTick)
    <3>1. AddObjStatusUpdate(o)
      BY <2>1, <2>4 DEF UpdatePropertyFlag
    <3> QED  BY <1>2, <2>2, <2>4, <3>1, QueueUpdate, RequestKeepsUpdates
  <2> QED  BY <2>3, <2>4
<1>8. CASE CollectObj(o)
  <2>1. /\ DelUpdateIfPending(o) /\ objLife' = [objLife EXCEPT ![o] = "gone"]
        /\ owed' = [owed EXCEPT ![o] = FALSE]
        /\ UNCHANGED <<updateBuffer, phase>>
        /\ phase # "wild" /\ swept' = (swept \/ phase \in {"updates", "sending"})
    BY <1>8 DEF CollectObj, DestroyedObj, ObjGameCode
  <2> QED  BY <1>2, <2>1, WithdrawUpdate, RequestKeepsUpdates
<1> QED  BY <1>1, <1>3, <1>4, <1>5, <1>6, <1>7, <1>8

LEMMA StartUpdatesUpdate ==
  ASSUME ListFlagInv, FirstLoadInv, StartUpdates PROVE FirstLoadInv'
<1> USE DEF FirstLoadInv, ListFlagInv
<1>1. /\ inAdd' = [o \in Objs |-> inAdd[o] /\ o \notin ToSet(updateReq)]
      /\ updateReq' = <<>> /\ updateBuffer' = Selection /\ phase' = "updates"
      /\ objLife' = objLife /\ owed' = owed /\ swept' = swept
  BY DEF StartUpdates
<1>2. \A o \in Objs : ~inAdd'[o]
  BY <1>1
<1>3. ToSet(updateReq') = {} /\ IsInjective(updateReq')
      /\ updateReq' \in Seq(Objs)
  BY <1>1 DEF ToSet, IsInjective
<1>6. updateBuffer = {}
  BY DEF StartUpdates
<1>4. ASSUME NEW o \in Objs, o \in WaitingObjs'
      PROVE  objLife[o] # "gone"
  <2>1. PICK e \in Selection : e[2] = o
    BY <1>1, <1>4 DEF WaitingObjs
  <2>2. o \in ToSet(updateReq)
    BY <2>1 DEF Selection, ToSet
  <2> QED  BY <2>2
<1>5. ASSUME NEW o \in Objs, owed[o]
      PROVE  o \in WaitingObjs' \/ objLife[o] = "deleting"
  <2>1. CASE inAdd[o]
    <3>1. PICK i \in DOMAIN updateReq : updateReq[i] = o
      BY <2>1 DEF ToSet
    <3>2. objLife[o] # "deleting" => <<i, o>> \in updateBuffer'
      BY <1>1, <3>1 DEF Selection
    <3> QED  BY <3>2 DEF WaitingObjs
  <2>2. CASE ~inAdd[o]
    BY <1>5, <2>2, <1>6 DEF WaitingObjs
  <2> QED  BY <2>1, <2>2
<1> QED  BY <1>1, <1>2, <1>3, <1>4, <1>5

LEMMA TickUpdate ==
  ASSUME ListFlagInv, FirstLoadInv, UpdatesTick PROVE FirstLoadInv'
<1>1. CASE StartUpdates
  BY <1>1, StartUpdatesUpdate
<1>2. ASSUME NEW o \in Objs, OnTickStatusUpdate(o) PROVE FirstLoadInv'
  <2>1. /\ UNCHANGED <<objLife, inAdd, updateReq, swept>>
        /\ phase' \in {"updates", "sending"}
        /\ updateBuffer' \subseteq updateBuffer
        /\ \A e \in updateBuffer : e[2] # o => e \in updateBuffer'
        /\ owed' = [owed EXCEPT ![o] = FALSE]
    BY <1>2 DEF OnTickStatusUpdate, queueVars
  <2>2. /\ WaitingObjs' \subseteq WaitingObjs
        /\ \A d \in WaitingObjs : d # o => d \in WaitingObjs'
    BY <2>1 DEF WaitingObjs
  <2>3. owed' \in [Objs -> BOOLEAN] /\ \A d \in Objs : owed'[d] => owed[d] /\ d # o
    BY <2>1 DEF FirstLoadInv
  <2> QED  BY <2>1, <2>2, <2>3 DEF FirstLoadInv, IsInjective, ToSet
<1>3. CASE EndUpdates \/ EndTick \/ EndObjCleanup
  <2>1. /\ UNCHANGED <<objLife, inAdd, updateReq, updateBuffer, owed>>
        /\ EndUpdates => updateBuffer = {}
        /\ ~EndUpdates => swept' = swept /\ phase \notin {"updates", "sending", "wild"}
    BY <1>3 DEF EndUpdates, EndTick, EndObjCleanup, queueVars
  <2>2. WaitingObjs' = WaitingObjs /\ updateBuffer = {} /\ WaitingObjs = {}
    BY <2>1 DEF FirstLoadInv, WaitingObjs
  <2> QED  BY <2>1, <2>2 DEF FirstLoadInv, IsInjective, ToSet
<1>5. CASE UpdateDestroyed \/ \E sentLeastOnce \in BOOLEAN : ResendTooltip(sentLeastOnce)
  <2>1. /\ UNCHANGED <<objLife, inAdd, updateReq, updateBuffer, owed, swept>>
        /\ phase' \in {"updates", "wild"}
    BY <1>5 DEF UpdateDestroyed, ResendTooltip, queueVars
  <2> QED  BY <2>1 DEF FirstLoadInv, IsInjective, ToSet, WaitingObjs
<1>4. ASSUME NEW o \in Objs, DestroyObj(o)
      PROVE  FirstLoadInv'
  <2>1. /\ DelUpdateIfPending(o) /\ objLife' = [objLife EXCEPT ![o] = "gone"]
        /\ owed' = [owed EXCEPT ![o] = FALSE]
        /\ phase = "cleanup" /\ UNCHANGED <<updateBuffer, phase, swept>>
    BY <1>4 DEF DestroyObj, DestroyedObj
  <2>2. owed' \in [Objs -> BOOLEAN] /\ ~owed'[o]
        /\ \A d \in Objs \ {o} : owed'[d] = owed[d]
    BY <2>1 DEF FirstLoadInv
  <2> QED  BY <2>1, <2>2, WithdrawUpdate, RequestKeepsUpdates
<1> QED  BY <1>1, <1>2, <1>3, <1>4, <1>5 DEF UpdatesTick

LEMMA NextUpdate ==
  ASSUME UpdateInv, [UpdatesNext]_updateVars PROVE UpdateInv'
<1>1. ListFlagInv'
  BY NextListFlag DEF UpdateInv
<1>2. CASE FailLoadObjs
  <2>1. failures' = failures + 1
    BY <1>2 DEF FailLoadObjs
  <2> QED  BY <1>1, <2>1 DEF UpdateInv
<1>3. CASE ~FailLoadObjs
  <2>1. failures' = failures
    BY <1>3 DEF UpdatesNext, updateVars, ObjOps, CreateObj,
         ObjGoAwake, ObjGoSleep, DeleteObj, CollectObj, DestroyedObj,
         UpdatePropertyFlag, FinishLoadObjs, UpdatesTick, StartUpdates,
         EndUpdates, OnTickStatusUpdate, ResendTooltip, UpdateDestroyed,
         WildUpdate, SendOnOwnTick, EndTick, DestroyObj, EndObjCleanup
  <2>2. ASSUME FirstLoadInv PROVE FirstLoadInv'
    <3>1. CASE \/ UNCHANGED updateVars \/ FinishLoadObjs \/ WildUpdate
               \/ \E o \in Objs : SendOnOwnTick(o)
      <4>1. UNCHANGED <<objLife, inAdd, updateReq, updateBuffer, owed, swept>>
            /\ (phase' = phase \/ phase = "loading")
        BY <3>1 DEF updateVars, queueVars, FinishLoadObjs, WildUpdate, SendOnOwnTick
      <4> QED  BY <2>2, <4>1 DEF FirstLoadInv, IsInjective, ToSet,
                 WaitingObjs
    <3>2. CASE ObjOps \/ UpdatesTick
      BY <2>2, <3>2, GameUpdate, TickUpdate DEF UpdateInv
    <3> QED  BY <1>3, <3>1, <3>2 DEF UpdatesNext
  <2> QED  BY <1>1, <2>1, <2>2 DEF UpdateInv
<1> QED  BY <1>2, <1>3

\* Queueing, sending and withdrawing of status updates, by game code and by
\* the destructors at the end of a tick, keep the queue and its flags in
\* agreement from the moment the first save has loaded.
THEOREM UpdateInvariant == UpdatesSpec => []UpdateInv
<1>1. UpdatesInit => UpdateInv
  BY DEF UpdatesInit, UpdateInv, ListFlagInv, FirstLoadInv, ToSet,
     IsInjective, WaitingObjs
<1>2. UpdateInv /\ [UpdatesNext]_updateVars => UpdateInv'
  BY NextUpdate
<1> QED  BY <1>1, <1>2, PTL DEF UpdatesSpec

\* When the first save loads, the flag of an object says whether the add list
\* has it, and the list has it once.
THEOREM FlagTellsQueueAlways == UpdatesSpec => []FlagTellsQueue
<1>1. UpdateInv => FlagTellsQueue
  BY DEF UpdateInv, FirstLoadInv, FlagTellsQueue
<1> QED  BY <1>1, UpdateInvariant, PTL

\* When the first save loads, nothing destroyed is queued, and nothing destroyed
\* waits to be updated unless garbage was collected during these updates.
THEOREM NoDanglingUpdateEver == UpdatesSpec => []NoDanglingUpdate
<1>1. UpdateInv => NoDanglingUpdate
  BY DEF UpdateInv, FirstLoadInv, NoDanglingUpdate
<1> QED  BY <1>1, UpdateInvariant, PTL

\* When the first save loads, no request for an update is lost, at whatever
\* moment of the updates it is made: the object is queued or waits for its turn
\* until its update begins, unless it is being deleted.
THEOREM OwedIsQueuedAlways == UpdatesSpec => []OwedIsQueued
<1>1. UpdateInv => OwedIsQueued
  BY DEF UpdateInv, FirstLoadInv, OwedIsQueued
<1> QED  BY <1>1, UpdateInvariant, PTL
==============================================================================
