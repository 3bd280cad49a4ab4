--------------------------- MODULE Gateway_proofs ---------------------------
(***************************************************************************)
(* Gateway for any set of datagrams, however many arrive.                  *)
(*                                                                         *)
(* The converter's thread runs from the middle of Init() on, with nothing  *)
(* that keeps it from the boat data or from NMEA2000 while main() still    *)
(* uses them.  What keeps it is that there is nothing to convert: the      *)
(* queue is empty until the reader, which main() starts last, has          *)
(* received a datagram.                                                    *)
(*                                                                         *)
(* The second half is that the gateway delivers in order: Good() is read   *)
(* as a fold along the sequence, whose value at a position is compared     *)
(* with the one before it, and what the converter has taken is a front of  *)
(* what was queued, with at most one good sentence not yet converted.      *)
(***************************************************************************)
EXTENDS Gateway, FiniteSetTheorems, WellFoundedInduction, TLAPS

(* Until the reader is open there is nothing to convert.                   *)
QuietUntilOpen ==
  ~open => /\ enqueued = <<>> /\ dequeued = <<>>
           /\ reader = "waiting"
           /\ converter \in {"none", "test"}

StartInv ==
  /\ QuietUntilOpen
  /\ open => main = "poll"
  /\ main \in {"reader", "poll"} => cleared

LEMMA Initially == Init => StartInv
BY DEF Init, Queue!Init, StartInv, QuietUntilOpen

LEMMA MainStep == ASSUME StartInv, Main PROVE StartInv'
<1> USE DEF StartInv, QuietUntilOpen, MainDoes, After, queueVars
<1>1. CASE Open \/ SendProductInformation
  BY <1>1 DEF Open, SendProductInformation
<1>2. CASE SubscribeHandler \/ StartThread \/ ClearBoatData
  BY <1>2 DEF SubscribeHandler, StartThread, ClearBoatData
<1>3. CASE ConstructReader
  BY <1>3 DEF ConstructReader
<1>4. CASE OpenFails \/ Return
  BY <1>4 DEF OpenFails, Return
<1> QED
  BY <1>1, <1>2, <1>3, <1>4 DEF Main

LEMMA ThreadStep ==
  ASSUME StartInv, (\E d \in Datagrams : Receive(d)) \/ Dispatch \/ Convert
  PROVE  StartInv'
<1> USE DEF StartInv, mainVars
<1>1. CASE (\E d \in Datagrams : Receive(d)) \/ Dispatch
  <2>1. open /\ UNCHANGED mainVars
    BY <1>1 DEF Receive, Dispatch, QuietUntilOpen
  <2> QED
    BY <2>1 DEF QuietUntilOpen
<1>2. CASE Convert
  <2>1. UNCHANGED mainVars
    BY <1>2 DEF Convert, Take, Parse, Send
  <2>2. open
    <3>1. CASE Take
      <4>1. Len(dequeued) < Len(enqueued)
        BY <3>1 DEF Take, Dequeue, Queue!Get
      <4>2. dequeued = <<>> /\ enqueued = <<>> => ~ (Len(dequeued) < Len(enqueued))
        <5>1. ~ (0 < 0)
          OBVIOUS
        <5>2. Len(<<>>) = 0
          OBVIOUS
        <5> QED
          BY <5>1, <5>2
      <4> QED
        BY <4>1, <4>2 DEF QuietUntilOpen
    <3>2. CASE Parse \/ Send
      BY <3>2 DEF Parse, Send, QuietUntilOpen
    <3> QED
      BY <1>2, <3>1, <3>2 DEF Convert
  <2> QED
    BY <2>1, <2>2 DEF QuietUntilOpen
<1> QED
  BY <1>1, <1>2

(* The start-up order, as an invariant of every step.                      *)
THEOREM Invariance == Spec => []StartInv
<1>1. StartInv /\ [Next]_vars => StartInv'
  <2> SUFFICES ASSUME StartInv, [Next]_vars PROVE StartInv'
    OBVIOUS
  <2>1. CASE UNCHANGED vars
    BY <2>1 DEF vars, mainVars, queueVars, StartInv, QuietUntilOpen
  <2>2. CASE Next
    BY <2>2, MainStep, ThreadStep DEF Next
  <2> QED
    BY <2>1, <2>2
<1> QED
  BY <1>1, Initially, PTL DEF Spec

(* What the converter's thread writes is never cleared under its feet.     *)
THEOREM DataClearedFirst == Spec => []NothingBeforeClear
<1>1. StartInv => NothingBeforeClear
  BY DEF StartInv, QuietUntilOpen, NothingBeforeClear
<1> QED
  BY <1>1, Invariance, PTL

(* main() and the converter never use NMEA2000 at the same time.           *)
THEOREM BusUsedByOne == Spec => []OneBusUser
<1>1. StartInv => OneBusUser
  BY DEF StartInv, QuietUntilOpen, OneBusUser
<1> QED
  BY <1>1, Invariance, PTL

-----------------------------------------------------------------------------
Accepted == [datagram : 1 .. MaxDatagrams, kind : {"good", "ignored"}]

LEMMA AcceptedAreSentences == Accepted \subseteq Sentences
BY DEF Accepted, Sentences, Kinds

(* What main() and the threads do to the variables that are not sequences. *)
LEMMA FlagTypes ==
  ASSUME TypeOK, Main
  PROVE  /\ main' \in {"open", "announce", "subscribe", "start", "clear", "reader", "poll",
                         "exited", "aborted"}
         /\ subscribed' \in BOOLEAN /\ cleared' \in BOOLEAN /\ open' \in BOOLEAN
         /\ converter' \in {"none", "test", "parse", "send"}
         /\ UNCHANGED <<reader, datagram, queueVars, converted, countVars>>
<1> USE DEF TypeOK, MainDoes, After
<1>1. CASE Open \/ SendProductInformation \/ SubscribeHandler
  BY <1>1 DEF Open, SendProductInformation, SubscribeHandler
<1>2. CASE StartThread \/ ClearBoatData \/ ConstructReader
  BY <1>2 DEF StartThread, ClearBoatData, ConstructReader
<1>3. CASE OpenFails \/ Return
  BY <1>3 DEF OpenFails, Return
<1> QED
  BY <1>1, <1>2, <1>3 DEF Main

(* The converter works on the sentence it took last.                       *)
Working == converter \in {"parse", "send"} => dequeued # <<>>

LEMMA WorkingStep == ASSUME TypeOK, Working, [Next]_vars PROVE Working'
<1> USE DEF Working
<1>1. CASE Main
  BY <1>1, FlagTypes DEF queueVars, Main, Open, OpenFails, SendProductInformation,
     SubscribeHandler, StartThread, ClearBoatData, ConstructReader, Return
<1>2. ASSUME NEW d \in Datagrams, Receive(d) PROVE Working'
  BY <1>2 DEF Receive, queueVars
<1>3. CASE Dispatch
  BY <1>3 DEF Dispatch, HandleMessage, Queue!PutValue, queueVars
<1>4. CASE Take
  <2>1. dequeued' = Append(dequeued, enqueued[Len(dequeued) + 1])
    BY <1>4 DEF Take, Dequeue, Queue!Get
  <2>2. dequeued \in Seq(Sentences)
    BY DEF TypeOK
  <2>3. dequeued' # <<>>
    BY <2>1, <2>2
  <2> QED
    BY <2>3
<1>5. CASE Parse \/ Send
  BY <1>5 DEF Parse, Send, queueVars
<1>6. CASE UNCHANGED vars
  BY <1>6 DEF vars, queueVars
<1> QED
  BY <1>1, <1>2, <1>3, <1>4, <1>5, <1>6 DEF Next, Convert

(* Types; what is queued is good or ignored, and names its datagram.       *)
THEOREM TypeCorrect == Spec => []TypeOK
<1>1. Init => TypeOK /\ Working
  <2> SUFFICES ASSUME Init PROVE TypeOK /\ Working
    OBVIOUS
  <2>1. \A S : <<>> \in Seq(S)
    OBVIOUS
  <2>2. /\ arrived = <<>> /\ enqueued = <<>> /\ dequeued = <<>> /\ converted = <<>>
        /\ parsed = 0 /\ reported = 0
    BY DEF Init, Queue!Init
  <2>3. Len(arrived) <= MaxDatagrams
    <3>1. Len(arrived) = 0
      BY <2>2
    <3> QED
      BY <3>1, GatewayAssumption
  <2>4. /\ arrived \in Seq(Datagrams)
        /\ enqueued \in Seq([datagram : 1 .. MaxDatagrams, kind : {"good", "ignored"}])
        /\ dequeued \in Seq(Sentences) /\ converted \in Seq(Sentences)
        /\ parsed \in Nat /\ reported \in Nat
    BY <2>1, <2>2
  <2> QED
    BY <2>3, <2>4 DEF Init, TypeOK, Working
<1>2. TypeOK /\ Working /\ [Next]_vars => TypeOK'
  <2> SUFFICES ASSUME TypeOK, Working, [Next]_vars PROVE TypeOK'
    OBVIOUS
  <2>1. CASE Main
    BY <2>1, FlagTypes DEF TypeOK, queueVars, countVars
  <2>2. ASSUME NEW d \in Datagrams, Receive(d) PROVE TypeOK'
    <3>1. /\ arrived' = Append(arrived, d) /\ arrived \in Seq(Datagrams)
          /\ Len(arrived) < MaxDatagrams
          /\ datagram' = d /\ reader' = "dispatching"
          /\ UNCHANGED <<mainVars, converter, queueVars, converted, parsed, reported>>
      BY <2>2 DEF Receive, TypeOK
    <3>2. arrived' \in Seq(Datagrams) /\ arrived' # <<>> /\ Len(arrived') = Len(arrived) + 1
      BY <3>1
    <3>3. Len(arrived') <= MaxDatagrams
      <4>1. Len(arrived) \in Nat /\ MaxDatagrams \in Nat
        BY <3>1, GatewayAssumption
      <4> QED
        BY <3>1, <3>2, <4>1
    <3> QED
      BY <3>1, <3>2, <3>3 DEF TypeOK, mainVars, queueVars
  <2>3. CASE Dispatch
    <3>1. /\ arrived # <<>> /\ datagram \in Datagrams /\ reader' = "waiting"
          /\ UNCHANGED <<mainVars, datagram, converter, converted, arrived>>
      BY <2>3 DEF Dispatch, TypeOK
    <3>2. Len(datagram) \in Nat /\ Head(datagram) \in Kinds
      <4>1. datagram \in Seq(Kinds) /\ datagram # <<>>
        BY <3>1, GatewayAssumption
      <4> QED
        BY <4>1
    <3>3. Len(arrived) \in 1 .. MaxDatagrams
      <4>1. arrived \in Seq(Datagrams) /\ Len(arrived) <= MaxDatagrams
        BY DEF TypeOK
      <4>2. Len(arrived) \in Nat /\ Len(arrived) # 0
        BY <3>1, <4>1
      <4> QED
        BY <4>1, <4>2, GatewayAssumption
    <3>4. parsed' \in Nat /\ reported' \in Nat
      <4>1. parsed' \in {parsed, parsed + 1} /\ reported' \in {reported, reported + Len(datagram)}
        BY <2>3 DEF Dispatch, HandleMessage
      <4> QED
        BY <4>1, <3>2 DEF TypeOK
    <3>5. dequeued' = dequeued
      BY <2>3 DEF Dispatch, HandleMessage, Queue!PutValue, queueVars
    <3>6. enqueued' \in Seq(Accepted)
      <4>1. enqueued \in Seq(Accepted)
        BY DEF TypeOK, Accepted
      <4>2. CASE subscribed /\ Head(datagram) # "corrupt"
        <5> DEFINE v == [datagram |-> Len(arrived), kind |-> Head(datagram)]
        <5>1. v \in Accepted
          BY <3>2, <3>3, <4>2 DEF Accepted, Kinds
        <5>2. enqueued' = Append(enqueued, v)
          BY <2>3, <4>2 DEF Dispatch, HandleMessage, Queue!PutValue
        <5> HIDE DEF v
        <5> QED
          BY <4>1, <5>1, <5>2
      <4>3. CASE ~ (subscribed /\ Head(datagram) # "corrupt")
        BY <2>3, <4>1, <4>3 DEF Dispatch, HandleMessage, queueVars
      <4> QED
        BY <4>2, <4>3
    <3> QED
      BY <3>1, <3>4, <3>5, <3>6 DEF TypeOK, mainVars, Accepted
  <2>4. CASE Take
    <3>1. /\ converter' \in {"parse", "test"} /\ enqueued' = enqueued
          /\ UNCHANGED <<mainVars, reader, datagram, converted, countVars>>
      BY <2>4 DEF Take, Dequeue, Queue!Get
    <3>2. dequeued' \in Seq(Sentences)
      <4>1. enqueued \in Seq(Accepted) /\ dequeued \in Seq(Sentences)
        BY DEF TypeOK, Accepted
      <4>2. /\ Len(dequeued) < Len(enqueued)
            /\ dequeued' = Append(dequeued, enqueued[Len(dequeued) + 1])
        BY <2>4 DEF Take, Dequeue, Queue!Get
      <4>3. Len(dequeued) + 1 \in 1 .. Len(enqueued)
        <5>1. Len(dequeued) \in Nat /\ Len(enqueued) \in Nat
          BY <4>1
        <5>2. \A i, j \in Nat : i < j => i + 1 \in 1 .. j
          OBVIOUS
        <5> QED
          BY <4>2, <5>1, <5>2
      <4>4. enqueued[Len(dequeued) + 1] \in Sentences
        BY <4>1, <4>3, AcceptedAreSentences
      <4> QED
        BY <4>1, <4>2, <4>4
    <3> QED
      BY <3>1, <3>2 DEF TypeOK, mainVars, countVars
  <2>5. CASE Parse
    BY <2>5 DEF Parse, TypeOK, mainVars, queueVars, countVars
  <2>6. CASE Send
    <3>1. /\ converter' = "test" /\ converted' = Append(converted, Last(dequeued))
          /\ UNCHANGED <<mainVars, reader, datagram, queueVars, countVars>>
      BY <2>6 DEF Send
    <3>2. converted' \in Seq(Sentences)
      <4>1. dequeued \in Seq(Sentences) /\ converted \in Seq(Sentences)
        BY DEF TypeOK
      <4>2. dequeued # <<>>
        BY <2>6 DEF Working, Send
      <4>3. Last(dequeued) \in Sentences
        BY <4>1, <4>2 DEF Last
      <4> QED
        BY <3>1, <4>1, <4>3
    <3> QED
      BY <3>1, <3>2 DEF TypeOK, mainVars, queueVars, countVars
  <2>7. CASE UNCHANGED vars
    BY <2>7 DEF vars, TypeOK, mainVars, queueVars, countVars
  <2> QED
    BY <2>1, <2>2, <2>3, <2>4, <2>5, <2>6, <2>7 DEF Next, Convert
<1> QED
  BY <1>1, <1>2, WorkingStep, PTL DEF Spec

(* What the order of the start-up guarantees, in one.                      *)
THEOREM OrderKept == Spec => []OrderInv
<1>1. TypeOK /\ NothingBeforeClear /\ OneBusUser => OrderInv
  BY DEF OrderInv
<1> QED
  BY <1>1, TypeCorrect, DataClearedFirst, BusUsedByOne, PTL

-----------------------------------------------------------------------------
(* A set of positions that is not empty has a first one.                   *)
LEMMA FirstOf ==
  ASSUME NEW n \in Nat, NEW K, K \subseteq 1 .. n, K # {}
  PROVE  \E k \in K : \A j \in K : k <= j
<1> DEFINE S == 1 .. n
           R == StrictSubsetOrdering(S)
           T == {1 .. i : i \in K}
<1>1. IsFiniteSet(S)
  BY FS_Interval
<1>2. T \subseteq FiniteSubsetsOf(S)
  <2> SUFFICES ASSUME NEW i \in K PROVE 1 .. i \in FiniteSubsetsOf(S)
    OBVIOUS
  <2>1. 1 .. i \subseteq S
    OBVIOUS
  <2>2. IsFiniteSet(1 .. i)
    BY FS_Interval
  <2> QED
    BY <2>1, <2>2 DEF FiniteSubsetsOf
<1>3. T # {}
  OBVIOUS
<1>4. IsWellFoundedOn(R, FiniteSubsetsOf(S))
  BY FS_StrictSubsetOrderingWellFounded
<1> HIDE DEF R
<1>5. PICK x \in T : \A y \in T : ~(<<y, x>> \in R)
  <2> HIDE DEF T
  <2> QED
    BY <1>2, <1>3, <1>4, WFMin
<1>6. PICK k \in K : x = 1 .. k
  OBVIOUS
<1>7. ASSUME NEW j \in K, j < k PROVE FALSE
  <2>1. 1 .. j \in T
    OBVIOUS
  <2>2. 1 .. j \subseteq S /\ 1 .. k \subseteq S
    OBVIOUS
  <2>3. k \in 1 .. k /\ k \notin 1 .. j
    BY <1>7
  <2>4. 1 .. j \subseteq 1 .. k
    BY <1>7
  <2>5. <<1 .. j, 1 .. k>> \in R
    BY <2>2, <2>3, <2>4 DEF R, StrictSubsetOrdering
  <2> QED
    BY <2>1, <2>5, <1>5, <1>6
<1>8. \A j \in K : k <= j
  BY <1>7
<1> QED
  BY <1>8

(* The good ones among the first n of s, position by position.             *)
Picks(s, n, f) ==
  f = [i \in 0 .. n |->
         IF i = 0 THEN <<>>
         ELSE IF s[i].kind = "good" THEN Append(f[i - 1], s[i]) ELSE f[i - 1]]

LEMMA PicksAt ==
  ASSUME NEW s, NEW n, NEW f, Picks(s, n, f), NEW i \in 0 .. n
  PROVE  f[i] = IF i = 0 THEN <<>>
                ELSE IF s[i].kind = "good" THEN Append(f[i - 1], s[i]) ELSE f[i - 1]
<1> DEFINE e == [j \in 0 .. n |->
                   IF j = 0 THEN <<>>
                   ELSE IF s[j].kind = "good" THEN Append(f[j - 1], s[j]) ELSE f[j - 1]]
<1>1. e[i] = IF i = 0 THEN <<>>
             ELSE IF s[i].kind = "good" THEN Append(f[i - 1], s[i]) ELSE f[i - 1]
  OBVIOUS
<1>2. f = e
  BY DEF Picks
<1> HIDE DEF e
<1> QED
  BY <1>1, <1>2

LEMMA PicksThere ==
  ASSUME NEW s, NEW n \in Nat
  PROVE  \E f : Picks(s, n, f)
<1> DEFINE K == {k \in 1 .. n : ~\E f : Picks(s, k, f)}
<1>1. \E f : Picks(s, 0, f)
  <2>1. PICK f : f = [i \in 0 .. 0 |-> <<>>]
    OBVIOUS
  <2>2. f = [i \in 0 .. 0 |->
               IF i = 0 THEN <<>>
               ELSE IF s[i].kind = "good" THEN Append(f[i - 1], s[i]) ELSE f[i - 1]]
    <3>1. \A i \in 0 .. 0 : i = 0
      OBVIOUS
    <3> QED
      BY <2>1, <3>1
  <2> QED
    BY <2>2 DEF Picks
<1>2. CASE K = {}
  BY <1>1, <1>2
<1>3. CASE K # {}
  <2>1. PICK k \in K : \A j \in K : k <= j
    <3>1. K \subseteq 1 .. n
      OBVIOUS
    <3> HIDE DEF K
    <3> QED
      BY <1>3, <3>1, FirstOf
  <2>2. PICK f : Picks(s, k - 1, f)
    <3>1. k - 1 = 0 \/ k - 1 \in (1 .. n) \ K
      BY <2>1
    <3> QED
      BY <3>1, <1>1
  <2>3. PICK x : x = IF s[k].kind = "good" THEN Append(f[k - 1], s[k]) ELSE f[k - 1]
    OBVIOUS
  <2>4. PICK e : e = [i \in 0 .. k |-> IF i < k THEN f[i] ELSE x]
    OBVIOUS
  <2>5. ASSUME NEW i \in 0 .. k
        PROVE  e[i] = IF i = 0 THEN <<>>
                      ELSE IF s[i].kind = "good" THEN Append(e[i - 1], s[i]) ELSE e[i - 1]
    <3>1. i # 0 => e[i - 1] = f[i - 1]
      <4> SUFFICES ASSUME i # 0 PROVE e[i - 1] = f[i - 1]
        OBVIOUS
      <4>1. i - 1 \in 0 .. k /\ i - 1 < k
        BY <2>1
      <4> QED
        BY <4>1, <2>4
    <3>2. CASE i < k
      <4>1. e[i] = f[i] /\ i \in 0 .. k - 1
        BY <2>1, <2>4, <3>2
      <4>2. f[i] = IF i = 0 THEN <<>>
                   ELSE IF s[i].kind = "good" THEN Append(f[i - 1], s[i]) ELSE f[i - 1]
        BY <2>2, <4>1, PicksAt
      <4> QED
        BY <3>1, <4>1, <4>2
    <3>3. CASE ~(i < k)
      <4>1. i = k /\ e[i] = x /\ k # 0
        BY <2>1, <2>4, <3>3
      <4> QED
        BY <4>1, <2>3, <3>1
    <3> QED
      BY <3>2, <3>3
  <2>6. e = [i \in 0 .. k |-> e[i]]
    BY <2>4
  <2>7. Picks(s, k, e)
    BY <2>5, <2>6 DEF Picks
  <2> QED
    BY <2>1, <2>7
<1> QED
  BY <1>2, <1>3

(* Good is what is picked from all of it.                                  *)
LEMMA GoodPicks ==
  ASSUME NEW S, NEW s \in Seq(S)
  PROVE  \E f : Picks(s, Len(s), f) /\ Good(s) = f[Len(s)]
<1>1. PICK n \in Nat : n = Len(s)
  OBVIOUS
<1>2. PICK f : f = CHOOSE x : Picks(s, Len(s), x)
  OBVIOUS
<1>3. Picks(s, Len(s), f)
  BY <1>1, <1>2, PicksThere
<1>4. Good(s) = f[Len(s)]
  BY <1>2 DEF Good, Picks
<1> QED
  BY <1>3, <1>4

(* It only depends on what it is picked from, and picks elements.          *)
Agree(s, t, p) == \A i \in 1 .. p : s[i] = t[i]
SamePicks(f, g, p) == \A i \in 0 .. p : f[i] = g[i]

LEMMA PicksSame ==
  ASSUME NEW s, NEW t, NEW n \in Nat, NEW l \in Nat, NEW p \in Nat, p <= n, p <= l,
         Agree(s, t, p),
         NEW f, Picks(s, n, f), NEW g, Picks(t, l, g)
  PROVE  SamePicks(f, g, p)
<1> USE DEF Agree, SamePicks
<1> DEFINE K == {k \in 1 .. p : f[k] # g[k]}
<1>1. f[0] = g[0]
  <2>1. 0 \in 0 .. n /\ 0 \in 0 .. l
    OBVIOUS
  <2> QED
    BY <2>1, PicksAt
<1>2. CASE K = {}
  BY <1>1, <1>2
<1>3. CASE K # {}
  <2>1. PICK k \in K : \A j \in K : k <= j
    <3>1. K \subseteq 1 .. p
      OBVIOUS
    <3> HIDE DEF K
    <3> QED
      BY <1>3, <3>1, FirstOf
  <2>2. f[k - 1] = g[k - 1]
    <3>1. k - 1 = 0 \/ k - 1 \in (1 .. p) \ K
      BY <2>1
    <3> QED
      BY <3>1, <1>1
  <2>3. k \in 0 .. n /\ k \in 0 .. l /\ k # 0 /\ s[k] = t[k]
    BY <2>1
  <2>4. f[k] = IF s[k].kind = "good" THEN Append(f[k - 1], s[k]) ELSE f[k - 1]
    BY <2>3, PicksAt
  <2>5. g[k] = IF t[k].kind = "good" THEN Append(g[k - 1], t[k]) ELSE g[k - 1]
    BY <2>3, PicksAt
  <2> QED
    BY <2>1, <2>2, <2>3, <2>4, <2>5
<1> QED
  BY <1>2, <1>3

(* What is picked is a sequence, of which what was picked before is a      *)
(* front.                                                                  *)
Front(u, v) == Len(u) <= Len(v) /\ \A i \in 1 .. Len(u) : v[i] = u[i]

LEMMA PicksGrow ==
  ASSUME NEW S, NEW s \in Seq(S), NEW n \in Nat, n <= Len(s), NEW f, Picks(s, n, f)
  PROVE  /\ \A i \in 0 .. n : f[i] \in Seq(S)
         /\ \A k \in 0 .. n : \A i \in k .. n : Front(f[k], f[i])
<1>1. f[0] = <<>>
  <2>1. 0 \in 0 .. n
    OBVIOUS
  <2> QED
    BY <2>1, PicksAt
<1>2. ASSUME NEW i \in 1 .. n
      PROVE  f[i] = IF s[i].kind = "good" THEN Append(f[i - 1], s[i]) ELSE f[i - 1]
  <2>1. i \in 0 .. n /\ i # 0
    OBVIOUS
  <2> QED
    BY <2>1, PicksAt
<1>3. \A i \in 0 .. n : f[i] \in Seq(S)
  <2> DEFINE K == {k \in 1 .. n : f[k] \notin Seq(S)}
  <2>1. CASE K = {}
    <3>1. <<>> \in Seq(S)
      OBVIOUS
    <3>2. \A i \in 1 .. n : f[i] \in Seq(S)
      BY <2>1
    <3>3. \A i \in 0 .. n : i = 0 \/ i \in 1 .. n
      OBVIOUS
    <3> HIDE DEF K
    <3> QED
      BY <1>1, <3>1, <3>2, <3>3
  <2>2. CASE K # {}
    <3>1. PICK k \in K : \A j \in K : k <= j
      <4>1. K \subseteq 1 .. n
        OBVIOUS
      <4> HIDE DEF K
      <4> QED
        BY <2>2, <4>1, FirstOf
    <3>2. f[k - 1] \in Seq(S)
      <4>1. k - 1 = 0 \/ k - 1 \in (1 .. n) \ K
        BY <3>1
      <4>2. <<>> \in Seq(S)
        OBVIOUS
      <4> QED
        BY <4>1, <4>2, <1>1
    <3>3. s[k] \in S
      OBVIOUS
    <3>4. Append(f[k - 1], s[k]) \in Seq(S)
      BY <3>2, <3>3
    <3> QED
      BY <3>1, <3>2, <3>4, <1>2
  <2> QED
    BY <2>1, <2>2
<1>4. ASSUME NEW k \in 0 .. n PROVE \A i \in k .. n : Front(f[k], f[i])
  <2> DEFINE K == {i \in 1 .. n : i > k /\ ~Front(f[k], f[i])}
  <2>0. Front(f[k], f[k])
    BY <1>3 DEF Front
  <2>1. CASE K = {}
    BY <2>0, <2>1
  <2>2. CASE K # {}
    <3>1. PICK j \in K : \A i \in K : j <= i
      <4>1. K \subseteq 1 .. n
        OBVIOUS
      <4> HIDE DEF K
      <4> QED
        BY <2>2, <4>1, FirstOf
    <3>2. Front(f[k], f[j - 1])
      <4>1. j \in 1 .. n /\ j > k /\ j \in Int /\ k \in Nat /\ n \in Nat
        OBVIOUS
      <4>2. j - 1 = k \/ (j - 1 > k /\ j - 1 \in 1 .. n)
        <5> HIDE DEF K
        <5>1. \A x, y \in Int : x > y => x - 1 = y \/ x - 1 > y
          OBVIOUS
        <5>2. j - 1 = k \/ j - 1 > k
          BY <4>1, <5>1
        <5>3. j - 1 > k => j - 1 \in 1 .. n
          BY <4>1
        <5> QED
          BY <4>1, <5>2, <5>3
      <4>3. \A i \in K : j <= i
        BY <3>1
      <4>4. ~(j <= j - 1)
        BY <4>1
      <4>5. j - 1 \notin K
        BY <4>3, <4>4
      <4> QED
        BY <4>2, <4>5, <2>0
    <3>3. j \in 1 .. n /\ j - 1 \in 0 .. n /\ j \in 0 .. n
      BY <3>1
    <3>4. PICK u \in Seq(S) : u = f[j - 1]
      BY <3>3, <1>3
    <3>5. PICK v \in Seq(S) : v = f[k]
      BY <1>3
    <3>6. s[j] \in S
      BY <3>3
    <3>7. /\ Append(u, s[j]) \in Seq(S) /\ Len(Append(u, s[j])) = Len(u) + 1
          /\ \A i \in 1 .. Len(u) : Append(u, s[j])[i] = u[i]
      BY <3>6
    <3>8. Front(v, u)
      BY <3>2, <3>4, <3>5
    <3>9. Front(v, Append(u, s[j]))
      BY <3>7, <3>8 DEF Front
    <3>10. f[j] = IF s[j].kind = "good" THEN Append(u, s[j]) ELSE u
      BY <3>3, <3>4, <1>2
    <3>11. Front(f[k], f[j])
      BY <3>5, <3>8, <3>9, <3>10
    <3> QED
      BY <3>1, <3>11
  <2> QED
    BY <2>1, <2>2
<1> QED
  BY <1>3, <1>4

-----------------------------------------------------------------------------
(* What Good gives.                                                        *)
LEMMA GoodType ==
  ASSUME NEW S, NEW s \in Seq(S)
  PROVE  Good(s) \in Seq(S)
<1>1. PICK f : Picks(s, Len(s), f) /\ Good(s) = f[Len(s)]
  BY GoodPicks
<1>2. PICK n \in Nat : n = Len(s)
  OBVIOUS
<1>3. \A i \in 0 .. n : f[i] \in Seq(S)
  BY <1>1, <1>2, PicksGrow
<1> QED
  BY <1>1, <1>2, <1>3

LEMMA GoodNone == Good(<<>>) = <<>>
<1>1. PICK s : s = <<>>
  OBVIOUS
<1>2. s \in Seq({}) /\ Len(s) = 0
  BY <1>1
<1>3. PICK f : Picks(s, Len(s), f) /\ Good(s) = f[Len(s)]
  BY <1>2, GoodPicks
<1>4. 0 \in 0 .. Len(s)
  BY <1>2
<1>5. f[0] = <<>>
  BY <1>3, <1>4, PicksAt
<1> QED
  BY <1>1, <1>2, <1>3, <1>5

LEMMA GoodAppend ==
  ASSUME NEW S, NEW s \in Seq(S), NEW x \in S
  PROVE  Good(Append(s, x)) = IF x.kind = "good" THEN Append(Good(s), x) ELSE Good(s)
<1>1. PICK t : t = Append(s, x)
  OBVIOUS
<1>2. PICK n \in Nat : n = Len(s)
  OBVIOUS
<1>3. /\ t \in Seq(S) /\ Len(t) = n + 1 /\ t[n + 1] = x
      /\ Agree(s, t, n)
  BY <1>1, <1>2 DEF Agree
<1>4. PICK f : Picks(s, n, f) /\ Good(s) = f[n]
  BY <1>2, GoodPicks
<1>5. PICK g : Picks(t, Len(t), g) /\ Good(t) = g[Len(t)]
  BY <1>3, GoodPicks
<1>6. PICK l \in Nat : l = n + 1
  OBVIOUS
<1>7. Picks(t, l, g) /\ Good(t) = g[l]
  BY <1>3, <1>5, <1>6
<1>8. n <= n /\ n <= l
  BY <1>6
<1>9. SamePicks(f, g, n)
  BY <1>3, <1>4, <1>7, <1>8, PicksSame
<1>10. l \in 0 .. l /\ l # 0 /\ l - 1 = n /\ n \in 0 .. n
  BY <1>6
<1>11. g[l] = IF t[l].kind = "good" THEN Append(g[n], t[l]) ELSE g[n]
  BY <1>7, <1>10, PicksAt
<1> QED
  BY <1>1, <1>3, <1>4, <1>6, <1>7, <1>9, <1>10, <1>11 DEF SamePicks

(* What is good in a front of s is a front of what is good in s.           *)
LEMMA GoodFront ==
  ASSUME NEW S, NEW s \in Seq(S), NEW k \in 0 .. Len(s)
  PROVE  Front(Good(SubSeq(s, 1, k)), Good(s))
<1>1. PICK t : t = SubSeq(s, 1, k)
  OBVIOUS
<1>2. PICK n \in Nat : n = Len(s)
  OBVIOUS
<1>3. k \in Nat /\ k <= n
  BY <1>2
<1>4. t \in Seq(S) /\ Len(t) = k /\ Agree(t, s, k)
  <2>1. \A i \in 1 .. k : s[i] \in S
    BY <1>2, <1>3
  <2>2. t = [i \in 1 .. k |-> s[i]]
    BY <1>1, <1>3
  <2> QED
    BY <1>3, <2>1, <2>2 DEF Agree
<1>5. PICK f : Picks(s, n, f) /\ Good(s) = f[n]
  BY <1>2, GoodPicks
<1>6. PICK g : Picks(t, k, g) /\ Good(t) = g[k]
  BY <1>4, GoodPicks
<1>7. k <= k
  BY <1>3
<1>8. SamePicks(g, f, k)
  BY <1>3, <1>4, <1>5, <1>6, <1>7, PicksSame
<1>9. \A i \in 0 .. n : \A j \in i .. n : Front(f[i], f[j])
  <2>1. n <= Len(s)
    BY <1>2
  <2> QED
    BY <1>5, <2>1, PicksGrow
<1>10. Front(f[k], f[n])
  BY <1>2, <1>3, <1>9
<1>11. g[k] = f[k]
  BY <1>3, <1>8 DEF SamePicks
<1> QED
  BY <1>1, <1>5, <1>6, <1>10, <1>11

-----------------------------------------------------------------------------
(* The converter has taken a front of what was queued, and its good ones   *)
(* are converted but for the one it is working on.                         *)
TakenInOrder ==
  /\ Len(dequeued) <= Len(enqueued)
  /\ dequeued = SubSeq(enqueued, 1, Len(dequeued))

AllButOne ==
  IF converter \in {"parse", "send"}
  THEN /\ dequeued # <<>> /\ Last(dequeued).kind = "good"
       /\ Good(dequeued) = Append(converted, Last(dequeued))
  ELSE Good(dequeued) = converted

DeliveryInv == TakenInOrder /\ AllButOne

LEMMA AppendExtends ==
  ASSUME NEW S, NEW s \in Seq(S), NEW x \in S, NEW k \in 0 .. Len(s)
  PROVE  SubSeq(Append(s, x), 1, k) = SubSeq(s, 1, k)
OBVIOUS

LEMMA SubSeqWhole ==
  ASSUME NEW S, NEW s \in Seq(S)
  PROVE  SubSeq(s, 1, Len(s)) = s
OBVIOUS

LEMMA SubSeqNext ==
  ASSUME NEW S, NEW s \in Seq(S), NEW k \in Nat, k < Len(s)
  PROVE  Append(SubSeq(s, 1, k), s[k + 1]) = SubSeq(s, 1, k + 1)
OBVIOUS

(* What a step does to the three sequences.                                *)
PutStep(v) ==
  /\ enqueued' = Append(enqueued, v)
  /\ UNCHANGED <<dequeued, converted, converter>>

LEMMA QueueTypes ==
  ASSUME TypeOK
  PROVE  enqueued \in Seq(Sentences) /\ dequeued \in Seq(Sentences)
         /\ converted \in Seq(Sentences)
<1>1. enqueued \in Seq(Accepted)
  BY DEF TypeOK, Accepted
<1>2. enqueued \in Seq(Sentences)
  BY <1>1, AcceptedAreSentences
<1> QED
  BY <1>2 DEF TypeOK

LEMMA DispatchPuts ==
  ASSUME TypeOK, Dispatch
  PROVE  \/ \E v \in Sentences : PutStep(v)
         \/ UNCHANGED <<enqueued, dequeued, converted, converter>>
<1> DEFINE v == [datagram |-> Len(arrived), kind |-> Head(datagram)]
<1>1. CASE subscribed /\ Head(datagram) # "corrupt"
  <2>1. arrived # <<>> /\ datagram \in Datagrams
    BY DEF Dispatch, TypeOK
  <2>2. Head(datagram) \in Kinds
    <3>1. datagram \in Seq(Kinds) /\ datagram # <<>>
      BY <2>1, GatewayAssumption
    <3> QED
      BY <3>1
  <2>3. Len(arrived) \in 1 .. MaxDatagrams
    <3>1. arrived \in Seq(Datagrams) /\ Len(arrived) <= MaxDatagrams
      BY DEF TypeOK
    <3>2. Len(arrived) \in Nat /\ Len(arrived) # 0
      BY <2>1, <3>1
    <3> QED
      BY <3>1, <3>2, GatewayAssumption
  <2>4. v \in Sentences
    BY <2>2, <2>3 DEF Sentences
  <2>5. PutStep(v)
    BY <1>1 DEF Dispatch, HandleMessage, Queue!PutValue, PutStep
  <2> HIDE DEF v
  <2> QED
    BY <2>4, <2>5
<1>2. CASE ~ (subscribed /\ Head(datagram) # "corrupt")
  BY <1>2 DEF Dispatch, HandleMessage, queueVars
<1> QED
  BY <1>1, <1>2

LEMMA OrderStays ==
  ASSUME TypeOK, TakenInOrder, [Next]_vars
  PROVE  TakenInOrder'
<1>0. enqueued \in Seq(Sentences) /\ dequeued \in Seq(Sentences)
  BY QueueTypes
<1>1. CASE queueVars' = queueVars
  BY <1>1 DEF queueVars, TakenInOrder
<1>2. ASSUME NEW v \in Sentences, PutStep(v) PROVE TakenInOrder'
  <2>1. PICK k \in Nat : k = Len(dequeued)
    BY <1>0
  <2>2. k \in 0 .. Len(enqueued)
    BY <1>0, <2>1 DEF TakenInOrder
  <2>3. SubSeq(enqueued', 1, k) = dequeued
    BY <1>0, <1>2, <2>1, <2>2, AppendExtends DEF TakenInOrder, PutStep
  <2>4. Len(enqueued') = Len(enqueued) + 1
    BY <1>0, <1>2 DEF PutStep
  <2>5. k <= Len(enqueued')
    BY <1>0, <2>2, <2>4
  <2> QED
    BY <1>2, <2>1, <2>3, <2>5 DEF TakenInOrder, PutStep
<1>3. CASE Take
  <2>1. /\ Len(dequeued) < Len(enqueued)
        /\ dequeued' = Append(dequeued, enqueued[Len(dequeued) + 1])
        /\ enqueued' = enqueued
    BY <1>3 DEF Take, Dequeue, Queue!Get
  <2>2. PICK k \in Nat : k = Len(dequeued)
    BY <1>0
  <2>3. dequeued' = SubSeq(enqueued, 1, k + 1)
    BY <1>0, <2>1, <2>2, SubSeqNext DEF TakenInOrder
  <2>4. k + 1 <= Len(enqueued) /\ Len(dequeued') = k + 1
    <3>1. Len(enqueued) \in Nat
      BY <1>0
    <3>2. k + 1 <= Len(enqueued)
      BY <2>1, <2>2, <3>1
    <3>3. Len(SubSeq(enqueued, 1, k + 1)) = k + 1
      BY <1>0, <3>1, <3>2
    <3> QED
      BY <2>3, <3>2, <3>3
  <2> QED
    BY <2>1, <2>3, <2>4 DEF TakenInOrder
<1>4. CASE Main
  BY <1>1, <1>4, FlagTypes
<1>5. CASE Dispatch
  BY <1>1, <1>2, <1>5, DispatchPuts DEF queueVars
<1>6. CASE (\E d \in Datagrams : Receive(d)) \/ Parse \/ Send \/ UNCHANGED vars
  BY <1>1, <1>6 DEF Receive, Parse, Send, vars
<1> QED
  BY <1>3, <1>4, <1>5, <1>6 DEF Next, Convert

(* main() starts the thread before anything is queued; the others of its   *)
(* steps leave the converter alone.                                        *)
LEMMA MainLeavesConverter ==
  ASSUME StartInv, Main
  PROVE  converter' = converter
         \/ (converter \notin {"parse", "send"} /\ converter' \notin {"parse", "send"})
<1>1. CASE StartThread
  BY <1>1 DEF StartThread, MainDoes, StartInv, QuietUntilOpen
<1>2. CASE ~StartThread
  BY <1>2 DEF Main, Open, OpenFails, SendProductInformation, SubscribeHandler,
     ClearBoatData, ConstructReader, Return
<1> QED
  BY <1>1, <1>2

LEMMA BusyStays ==
  ASSUME TypeOK, StartInv, AllButOne, [Next]_vars
  PROVE  AllButOne'
<1>0. enqueued \in Seq(Sentences) /\ dequeued \in Seq(Sentences)
      /\ converted \in Seq(Sentences)
  BY QueueTypes
<1>1. CASE /\ UNCHANGED <<dequeued, converted>>
           /\ \/ converter' = converter
              \/ converter \notin {"parse", "send"} /\ converter' \notin {"parse", "send"}
              \/ converter \in {"parse", "send"} /\ converter' \in {"parse", "send"}
  BY <1>1 DEF AllButOne
<1>2. CASE Main
  <2>1. UNCHANGED <<dequeued, converted>>
    BY <1>2, FlagTypes DEF queueVars
  <2> QED
    BY <1>1, <1>2, <2>1, MainLeavesConverter
<1>3. CASE Dispatch
  BY <1>1, <1>3, DispatchPuts DEF PutStep
<1>4. CASE (\E d \in Datagrams : Receive(d)) \/ Parse \/ UNCHANGED vars
  BY <1>1, <1>4 DEF Receive, Parse, vars, queueVars
<1>5. CASE Take
  <2>1. /\ Len(dequeued) < Len(enqueued)
        /\ dequeued' = Append(dequeued, enqueued[Len(dequeued) + 1])
        /\ converted' = converted /\ converter = "test"
        /\ converter' = IF Last(dequeued').kind = "good" THEN "parse" ELSE "test"
    BY <1>5 DEF Take, Dequeue, Queue!Get
  <2>2. PICK x : x = enqueued[Len(dequeued) + 1]
    OBVIOUS
  <2>3. x \in Sentences
    <3>1. Len(dequeued) \in Nat /\ Len(enqueued) \in Nat
      BY <1>0
    <3>2. \A i, j \in Nat : i < j => i + 1 \in 1 .. j
      OBVIOUS
    <3>3. Len(dequeued) + 1 \in 1 .. Len(enqueued)
      BY <2>1, <3>1, <3>2
    <3> QED
      BY <1>0, <2>2, <3>3
  <2>4. PICK s \in Seq(Sentences) : s = dequeued
    BY <1>0
  <2>5. dequeued' = Append(s, x)
    BY <2>1, <2>2, <2>4
  <2>6. Append(s, x) # <<>> /\ Append(s, x)[Len(Append(s, x))] = x
    BY <2>3
  <2>7. dequeued' # <<>> /\ Last(dequeued') = x
    BY <2>5, <2>6 DEF Last
  <2>8. Good(s) = converted
    BY <2>1, <2>4 DEF AllButOne
  <2>9. Good(Append(s, x)) = IF x.kind = "good" THEN Append(converted, x) ELSE converted
    BY <2>3, <2>8, GoodAppend
  <2>10. Good(dequeued') = IF x.kind = "good" THEN Append(converted, x) ELSE converted
    BY <2>5, <2>9
  <2>11. converter' = IF x.kind = "good" THEN "parse" ELSE "test"
    BY <2>1, <2>7
  <2>12. CASE x.kind = "good"
    BY <2>1, <2>7, <2>10, <2>11, <2>12 DEF AllButOne
  <2>13. CASE x.kind # "good"
    BY <2>1, <2>10, <2>11, <2>13 DEF AllButOne
  <2> QED
    BY <2>12, <2>13
<1>6. CASE Send
  <2>1. /\ converter = "send" /\ converter' = "test"
        /\ converted' = Append(converted, Last(dequeued)) /\ dequeued' = dequeued
    BY <1>6 DEF Send, queueVars
  <2>2. Good(dequeued) = Append(converted, Last(dequeued))
    BY <2>1 DEF AllButOne
  <2> QED
    BY <2>1, <2>2 DEF AllButOne
<1> QED
  BY <1>2, <1>3, <1>4, <1>5, <1>6 DEF Next, Convert

(* What Send sends is the oldest good sentence that is not converted.      *)
LEMMA SendGets ==
  ASSUME TypeOK, TakenInOrder, AllButOne, Send
  PROVE  Delivery!Get
<1>0. enqueued \in Seq(Sentences) /\ dequeued \in Seq(Sentences)
      /\ converted \in Seq(Sentences)
  BY QueueTypes
<1>1. /\ dequeued # <<>> /\ Good(dequeued) = Append(converted, Last(dequeued))
      /\ converted' = Append(converted, Last(dequeued)) /\ enqueued' = enqueued
  BY DEF Send, AllButOne, queueVars
<1>2. PICK x \in Sentences : x = Last(dequeued)
  <2>1. Last(dequeued) \in Sentences
    BY <1>0, <1>1 DEF Last
  <2> QED
    BY <2>1
<1>3. PICK k \in 0 .. Len(enqueued) : k = Len(dequeued)
  <2>1. Len(dequeued) \in Nat /\ Len(enqueued) \in Nat
    BY <1>0
  <2>2. Len(dequeued) \in 0 .. Len(enqueued)
    BY <2>1 DEF TakenInOrder
  <2> QED
    BY <2>2
<1>4. PICK e \in Seq(Sentences) : e = enqueued
  BY <1>0
<1>5. Front(Good(SubSeq(e, 1, k)), Good(e))
  BY <1>3, <1>4, GoodFront
<1>6. SubSeq(e, 1, k) = dequeued
  BY <1>3, <1>4 DEF TakenInOrder
<1>7. PICK c \in Seq(Sentences) : c = converted
  BY <1>0
<1>8. PICK g \in Seq(Sentences) : g = Good(e)
  BY GoodType
<1>9. Front(Append(c, x), g)
  BY <1>1, <1>2, <1>5, <1>6, <1>7, <1>8
<1>10. Len(c) < Len(g) /\ g[Len(c) + 1] = x
  <2>1. Len(Append(c, x)) = Len(c) + 1 /\ Append(c, x)[Len(c) + 1] = x
        /\ Len(c) \in Nat /\ Len(g) \in Nat
    OBVIOUS
  <2>2. Len(c) + 1 <= Len(g)
    BY <1>9, <2>1 DEF Front
  <2>3. Len(c) + 1 \in 1 .. Len(Append(c, x))
    BY <2>1
  <2>4. g[Len(c) + 1] = Append(c, x)[Len(c) + 1]
    BY <1>9, <2>3 DEF Front
  <2> QED
    BY <2>1, <2>2, <2>4
<1>11. Good(enqueued) = g
  BY <1>4, <1>8
<1>12. Good(enqueued') = Good(enqueued)
  BY <1>1
<1>13. Len(converted) < Len(Good(enqueued))
  BY <1>7, <1>10, <1>11
<1>14. converted' = Append(converted, Good(enqueued)[Len(converted) + 1])
  BY <1>1, <1>2, <1>7, <1>10, <1>11
<1> QED
  BY <1>12, <1>13, <1>14 DEF Delivery!Get

(* A sentence that is queued is one to deliver if it is good.              *)
LEMMA PutDelivers ==
  ASSUME TypeOK, NEW v \in Sentences, PutStep(v)
  PROVE  Delivery!Put \/ UNCHANGED Delivery!vars
<1>1. PICK e \in Seq(Sentences) : e = enqueued
  BY QueueTypes
<1>2. PICK g \in Seq(Sentences) : g = Good(e)
  BY GoodType
<1>3. Good(Append(e, v)) = IF v.kind = "good" THEN Append(g, v) ELSE g
  BY <1>2, GoodAppend
<1>4. Good(enqueued) = g /\ converted' = converted
      /\ Good(enqueued') = IF v.kind = "good" THEN Append(g, v) ELSE g
  BY <1>1, <1>2, <1>3 DEF PutStep
<1>5. CASE v.kind = "good"
  <2>1. /\ Append(g, v) \in Seq(Sentences) /\ Len(Append(g, v)) = Len(g) + 1
        /\ SubSeq(Append(g, v), 1, Len(g)) = g
    <3>1. Len(g) \in 0 .. Len(g)
      OBVIOUS
    <3>2. SubSeq(Append(g, v), 1, Len(g)) = SubSeq(g, 1, Len(g))
      BY <3>1, AppendExtends
    <3> QED
      BY <3>2, SubSeqWhole
  <2> QED
    BY <1>4, <1>5, <2>1 DEF Delivery!Put, Delivery!OneMorePut
<1>6. CASE v.kind # "good"
  BY <1>4, <1>6 DEF Delivery!vars
<1> QED
  BY <1>5, <1>6

LEMMA StepDelivers ==
  ASSUME TypeOK, TakenInOrder, AllButOne, [Next]_vars
  PROVE  [Delivery!Next]_(Delivery!vars)
<1>1. CASE UNCHANGED <<enqueued, converted>>
  BY <1>1 DEF Delivery!vars
<1>2. CASE Main
  BY <1>1, <1>2, FlagTypes DEF queueVars
<1>3. CASE Dispatch
  BY <1>1, <1>3, DispatchPuts, PutDelivers DEF Delivery!Next
<1>4. CASE Send
  BY <1>4, SendGets DEF Delivery!Next
<1>5. CASE (\E d \in Datagrams : Receive(d)) \/ Take \/ Parse \/ UNCHANGED vars
  BY <1>1, <1>5 DEF Receive, Take, Dequeue, Queue!Get, Parse, vars, queueVars
<1> QED
  BY <1>2, <1>3, <1>4, <1>5 DEF Next, Convert

(* The whole gateway is a queue: what is converted is what was accepted    *)
(* and good, in order, none lost, none twice, for any datagrams and        *)
(* however the threads of the reader and the converter take turns.         *)
THEOREM DeliversInOrder == Spec => EndToEndFifo
<1>1. Init => DeliveryInv /\ Delivery!Init
  <2> SUFFICES ASSUME Init PROVE DeliveryInv /\ Delivery!Init
    OBVIOUS
  <2>1. enqueued = <<>> /\ dequeued = <<>> /\ converted = <<>> /\ converter = "none"
    BY DEF Init, Queue!Init
  <2>2. Good(enqueued) = <<>> /\ Good(dequeued) = <<>>
    BY <2>1, GoodNone
  <2>3. Len(dequeued) = 0 /\ Len(enqueued) = 0 /\ SubSeq(enqueued, 1, 0) = <<>>
    BY <2>1
  <2> QED
    BY <2>1, <2>2, <2>3 DEF DeliveryInv, TakenInOrder, AllButOne, Delivery!Init
<1>2. TypeOK /\ StartInv /\ DeliveryInv /\ [Next]_vars => DeliveryInv'
  BY OrderStays, BusyStays DEF DeliveryInv
<1>3. TypeOK /\ DeliveryInv /\ [Next]_vars => [Delivery!Next]_(Delivery!vars)
  BY StepDelivers DEF DeliveryInv
<1> QED
  BY <1>1, <1>2, <1>3, TypeCorrect, Invariance, PTL DEF Spec, EndToEndFifo, Delivery!Spec
=============================================================================
