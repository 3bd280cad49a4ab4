-------------------------- MODULE UdpReader_proofs --------------------------
(***************************************************************************)
(* UdpReader for buffers, datagrams and failures of any number and size.   *)
(*                                                                         *)
(* The invariant follows the flag: it is only set while the owner has      *)
(* nothing to do with stopping, and once it is cleared the owner does not  *)
(* get past a join before the reader has left its loop.  OrderInv follows  *)
(* the datagrams: what was handed on, the one in l_dataSize and those that *)
(* InboxHolds finds in the inbox are what arrived, in this order.          *)
(***************************************************************************)
EXTENDS UdpReader, SequenceTheorems, TLAPS

LEMMA ReceivedType == ASSUME NEW n \in Nat PROVE Received(n) \in 0 .. BufferSize
BY ReaderAssumption DEF Received

(* Types; size never exceeds the buffer.                                   *)
THEOREM TypeCorrect == Spec => []TypeOK
<1>1. Init => TypeOK
  <2>1. 0 \in 0 .. BufferSize /\ 0 \in 0 .. MaxDatagrams /\ 0 \in 0 .. MaxFailures
    BY ReaderAssumption
  <2>2. \A S : <<>> \in Seq(S)
    OBVIOUS
  <2> QED
    BY <2>1, <2>2 DEF Init, TypeOK
<1>2. TypeOK /\ [Next]_vars => TypeOK'
  <2> SUFFICES ASSUME TypeOK, [Next]_vars PROVE TypeOK'
    OBVIOUS
  <2> USE DEF TypeOK, ownerVars, socketVars, readerVars, worldVars
  <2>1. CASE Constructor
    <3>1. CASE InitSocket
      BY <3>1 DEF InitSocket
    <3>2. CASE StartThread
      BY <3>2 DEF StartThread
    <3>3. CASE AssignRunning
      BY <3>3 DEF AssignRunning
    <3> QED
      BY <2>1, <3>1, <3>2, <3>3 DEF Constructor
  <2>2. CASE Stopping \/ StopThread \/ DestroyClose
    <3>1. CASE StopThread
      BY <3>1 DEF StopThread, ClearRunning
    <3>2. CASE DestroyStop
      BY <3>2 DEF DestroyStop, ClearRunning
    <3>3. CASE StopThreadJoin
      BY <3>3 DEF StopThreadJoin, Join
    <3>4. CASE DestroyJoin
      BY <3>4 DEF DestroyJoin, Join
    <3>5. CASE DestroyClose
      BY <3>5 DEF DestroyClose
    <3>6. CASE DestroyInvalidate
      BY <3>6 DEF DestroyInvalidate
    <3> QED
      BY <2>2, <3>1, <3>2, <3>3, <3>4, <3>5, <3>6 DEF Stopping
  <2>3. CASE ReaderStart \/ LoopTest \/ SelectReady \/ SelectNothing \/ HandlerReturns
    <3>1. CASE ReaderStart \/ LoopTest
      BY <3>1 DEF ReaderStart, LoopTest, ReaderMoves
    <3>2. CASE SelectReady \/ SelectNothing
      BY <3>2 DEF SelectReady, SelectNothing, ReaderMoves
    <3>3. CASE HandlerReturns
      BY <3>3 DEF HandlerReturns, ReaderMoves
    <3> QED
      BY <2>3, <3>1, <3>2, <3>3
  <2>4. CASE SelectFails
    BY <2>4, ReaderAssumption DEF SelectFails, ReaderMoves
  <2>5. CASE Receive
    <3>1. CASE CanRead
      <4>1. Head(inbox) \in Sizes /\ Tail(inbox) \in Seq(Sizes)
        BY <3>1 DEF CanRead
      <4>2. size' \in 0 .. BufferSize
        <5>1. Head(inbox) \in Nat
          BY <4>1, ReaderAssumption
        <5> QED
          BY <2>5, <3>1, <5>1, ReceivedType DEF Receive
      <4>3. inbox' = Tail(inbox) /\ reader' = IF size' > 0 THEN "deliver" ELSE "test"
        BY <2>5, <3>1 DEF Receive
      <4>4. inbox' \in Seq(Sizes)
        BY <4>1, <4>3
      <4> QED
        BY <2>5, <4>2, <4>3, <4>4 DEF Receive
    <3>2. CASE ~CanRead
      BY <2>5, <3>2 DEF Receive
    <3> QED
      BY <3>1, <3>2
  <2>6. CASE Deliver
    <3>1. CASE running
      <4>1. size \in 1 .. BufferSize
        <5>1. size \in 0 .. BufferSize /\ size > 0
          BY <2>6 DEF Deliver
        <5> QED
          BY <5>1, ReaderAssumption
      <4>2. handled' \in Seq(1 .. BufferSize)
        <5>1. handled' = Append(handled, size) /\ handled \in Seq(1 .. BufferSize)
          BY <2>6, <3>1 DEF Deliver
        <5>2. Append(handled, size) \in Seq(1 .. BufferSize)
          <6> HIDE DEF TypeOK
          <6> QED
            BY <4>1, <5>1
        <5> QED
          BY <5>1, <5>2
      <4>3. /\ reader' = "handling"
            /\ UNCHANGED <<ownerVars, socketVars, size, worldVars, running, inbox, failures>>
        BY <2>6, <3>1 DEF Deliver
      <4> QED
        BY <4>2, <4>3
    <3>2. CASE ~running
      BY <2>6, <3>2 DEF Deliver
    <3> QED
      BY <3>1, <3>2
  <2>7. ASSUME NEW n \in Sizes, Arrive(n) PROVE TypeOK'
    <3>1. n \in Nat
      BY ReaderAssumption
    <3>2. n > 0 => Received(n) \in 1 .. BufferSize
      BY <3>1, ReaderAssumption DEF Received
    <3>3. arrivals' \in 0 .. MaxDatagrams
      BY <2>7, ReaderAssumption DEF Arrive
    <3>4. inbox' \in Seq(Sizes)
      BY <2>7 DEF Arrive
    <3>5. arrived' \in Seq(1 .. BufferSize)
      <4>1. CASE n > 0
        <5>1. arrived' = Append(arrived, Received(n)) /\ Received(n) \in 1 .. BufferSize
          BY <2>7, <4>1, <3>2 DEF Arrive
        <5> QED
          BY <5>1
      <4>2. CASE ~(n > 0)
        BY <2>7, <4>2 DEF Arrive
      <4> QED
        BY <4>1, <4>2
    <3> QED
      BY <2>7, <3>3, <3>4, <3>5 DEF Arrive
  <2>8. CASE UNCHANGED vars
    BY <2>8 DEF vars
  <2> QED
    BY <2>1, <2>2, <2>3, <2>4, <2>5, <2>6, <2>7, <2>8 DEF Next, ReaderStep
<1> QED
  BY <1>1, <1>2, PTL DEF Spec

(* Where the flag, the thread and the owner stand to each other. *)
FlagInv ==
  /\ owner \in {"init", "spawn"} => reader = "none" /\ ~running
  /\ owner = "assign" => reader # "none" /\ ~running
  /\ owner \in {"stopJoin", "join", "destroyed"} => ~running
  /\ owner \in {"stopJoin", "join"} => reader # "none"
  /\ running => reader # "none"
  /\ ( /\ owner \in {"constructed", "invalidate", "stop", "destroyed"}
       /\ reader # "none"
       /\ ~running ) => reader = "exited" /\ joined

LEMMA FlagKept == Spec => []FlagInv
<1>1. Init => FlagInv
  BY DEF Init, FlagInv
<1>2. TypeOK /\ FlagInv /\ [Next]_vars => FlagInv'
  <2> SUFFICES ASSUME TypeOK, FlagInv, [Next]_vars PROVE FlagInv'
    OBVIOUS
  <2> USE DEF FlagInv
  <2>1. CASE Constructor
    BY <2>1 DEF Constructor, InitSocket, StartThread, AssignRunning, readerVars
  <2>2. CASE StopThread \/ DestroyStop
    BY <2>2 DEF StopThread, DestroyStop, ClearRunning, readerVars
  <2>3. CASE StopThreadJoin \/ DestroyJoin
    BY <2>3 DEF StopThreadJoin, DestroyJoin, Join, readerVars
  <2>4. CASE DestroyClose \/ DestroyInvalidate
    BY <2>4 DEF DestroyClose, DestroyInvalidate, readerVars
  <2>5. ASSUME NEW from, NEW to, ReaderMoves(from, to),
               from # "none", from # "exited", to # "none",
               to = "exited" => ~running
        PROVE  FlagInv'
    BY <2>5 DEF ReaderMoves, ownerVars
  <2>6. CASE ReaderStart \/ LoopTest \/ SelectReady \/ SelectNothing \/ SelectFails
             \/ HandlerReturns
    BY <2>5, <2>6 DEF ReaderStart, LoopTest, SelectReady, SelectNothing, SelectFails,
       HandlerReturns
  <2>7. CASE Receive \/ Deliver
    BY <2>7 DEF Receive, Deliver, ownerVars
  <2>8. CASE \E n \in Sizes : Arrive(n)
    BY <2>8 DEF Arrive, ownerVars, readerVars
  <2>9. CASE UNCHANGED vars
    BY <2>9 DEF vars, ownerVars, readerVars
  <2> QED
    BY <2>1, <2>2, <2>3, <2>4, <2>6, <2>7, <2>8, <2>9 DEF Next, Stopping, ReaderStep
<1> QED
  BY <1>1, <1>2, TypeCorrect, PTL DEF Spec

LEMMA FlagStops == FlagInv => StoppedMeansExited
BY DEF FlagInv, StoppedMeansExited

(* StopThread() and the destructor leave no thread behind.                 *)
THEOREM StopIsFinal == Spec => []StoppedMeansExited
BY FlagKept, FlagStops, PTL

-----------------------------------------------------------------------------
(* The reader may still hand on what it receives: the flag is set, or the  *)
(* constructor has yet to set it.                                          *)
Live == running \/ owner \in {"init", "spawn", "assign"}

(* The number of datagrams handed on or received to be handed on.          *)
Taken == Len(handled) + (IF reader = "deliver" THEN 1 ELSE 0)

(* g leads the datagrams not yet taken to their places in the inbox, in    *)
(* their order and leaving out only empty ones.                            *)
LeadsToInbox(g, taken) ==
  LET P == Len(arrived) - taken IN
  /\ g \in [1 .. P -> 1 .. Len(inbox)]
  /\ \A k, l \in 1 .. P : k < l => g[k] < g[l]
  /\ \A k \in 1 .. P : /\ inbox[g[k]] > 0
                       /\ arrived[taken + k] = Received(inbox[g[k]])
  /\ \A j \in 1 .. Len(inbox) : inbox[j] > 0 => \E k \in 1 .. P : g[k] = j

InboxHolds(taken) ==
  \E g \in [1 .. Len(arrived) - taken -> 1 .. Len(inbox)] : LeadsToInbox(g, taken)

(* While the reader is live, what has arrived is what was handed on, the   *)
(* datagram in l_dataSize and what the inbox holds, in this order.  Before *)
(* the flag is set the reader does not get past the test of its loop.      *)
OrderInv ==
  /\ owner = "assign" => reader \in {"start", "test", "exited"}
  /\ HandledInOrder
  /\ Live => /\ Taken <= Len(arrived)
             /\ reader = "deliver" => size = arrived[Taken]
             /\ InboxHolds(Taken)

LEMMA PrefixStays ==
  ASSUME NEW S, NEW s \in Seq(S), NEW t \in Seq(S), NEW v \in S,
         Len(s) <= Len(t), s = SubSeq(t, 1, Len(s))
  PROVE  s = SubSeq(Append(t, v), 1, Len(s))
<1>1. /\ SubSeq(t, 1, Len(s)) \in Seq(S)
      /\ SubSeq(Append(t, v), 1, Len(s)) \in Seq(S)
  OBVIOUS
<1>2. Len(SubSeq(Append(t, v), 1, Len(s))) = Len(s)
  OBVIOUS
<1>3. ASSUME NEW k \in 1 .. Len(s)
      PROVE  SubSeq(Append(t, v), 1, Len(s))[k] = s[k]
  <2>1. Append(t, v)[k] = t[k] /\ SubSeq(t, 1, Len(s))[k] = t[k]
    OBVIOUS
  <2> QED
    BY <2>1
<1> QED
  BY <1>1, <1>2, <1>3, SeqEqual

(* One more datagram of the prefix is handed on. *)
LEMMA PrefixGrows ==
  ASSUME NEW S, NEW s \in Seq(S), NEW t \in Seq(S),
         Len(s) + 1 <= Len(t), s = SubSeq(t, 1, Len(s))
  PROVE  Append(s, t[Len(s) + 1]) = SubSeq(t, 1, Len(s) + 1)
<1> DEFINE v == t[Len(s) + 1]
<1>1. v \in S
  OBVIOUS
<1>2. /\ Append(s, v) \in Seq(S) /\ Len(Append(s, v)) = Len(s) + 1
      /\ SubSeq(t, 1, Len(s) + 1) \in Seq(S)
      /\ Len(SubSeq(t, 1, Len(s) + 1)) = Len(s) + 1
  BY <1>1
<1>3. ASSUME NEW k \in 1 .. Len(s) + 1
      PROVE  Append(s, v)[k] = SubSeq(t, 1, Len(s) + 1)[k]
  <2>1. SubSeq(t, 1, Len(s) + 1)[k] = t[k]
    OBVIOUS
  <2>2. CASE k = Len(s) + 1
    BY <2>1, <2>2, <1>1
  <2>3. CASE k \in 1 .. Len(s)
    <3>1. s[k] = t[k]
      <4>1. SubSeq(t, 1, Len(s))[k] = t[k]
        BY <2>3
      <4> QED
        BY <4>1
    <3> QED
      BY <2>1, <2>3, <3>1, <1>1
  <2> QED
    BY <2>2, <2>3
<1> QED
  BY <1>2, <1>3, SeqEqual

(* A step that neither moves data nor starts to live. *)
LEMMA NothingMoves ==
  ASSUME TypeOK, OrderInv, UNCHANGED <<inbox, arrived, handled, size>>,
         Live' => Live, reader' = "deliver" <=> reader = "deliver",
         owner' = "assign" => reader' \in {"start", "test", "exited"}
  PROVE  OrderInv'
<1>1. Taken' = Taken
  BY DEF Taken
<1>2. InboxHolds(Taken)' <=> InboxHolds(Taken)
  BY <1>1 DEF InboxHolds, LeadsToInbox
<1>3. HandledInOrder'
  BY DEF OrderInv, HandledInOrder
<1> QED
  BY <1>1, <1>2, <1>3 DEF OrderInv

(* A datagram of length 0 is taken off the inbox and forgotten. *)
LEMMA EmptyTaken ==
  ASSUME TypeOK, inbox # <<>>, Head(inbox) = 0, inbox' = Tail(inbox),
         UNCHANGED arrived, NEW n \in Nat, n <= Len(arrived),
         NEW g, LeadsToInbox(g, n)
  PROVE  InboxHolds(n)'
<1> DEFINE P == Len(arrived) - n
<1>t. /\ Len(inbox) \in Nat \ {0} /\ Len(inbox') = Len(inbox) - 1
      /\ \A j \in 1 .. Len(inbox') : inbox'[j] = inbox[j + 1]
      /\ inbox[1] = 0 /\ P \in Nat
  <2>1. inbox \in Seq(Sizes) /\ arrived \in Seq(1 .. BufferSize)
    BY DEF TypeOK
  <2> QED
    BY <2>1
<1>g. /\ \A k \in 1 .. P : g[k] \in 1 .. Len(inbox) /\ inbox[g[k]] > 0
      /\ \A k \in 1 .. P : arrived[n + k] = Received(inbox[g[k]])
      /\ \A k, l \in 1 .. P : k < l => g[k] < g[l]
      /\ \A j \in 1 .. Len(inbox) : inbox[j] > 0 => \E k \in 1 .. P : g[k] = j
  BY DEF LeadsToInbox
<1>h. PICK h : h = [k \in 1 .. P |-> g[k] - 1]
  OBVIOUS
<1>1. ASSUME NEW k \in 1 .. P
      PROVE  g[k] - 1 \in 1 .. Len(inbox') /\ inbox'[g[k] - 1] = inbox[g[k]]
  <2>1. g[k] # 1
    BY <1>t, <1>g
  <2>2. g[k] \in 1 .. Len(inbox)
    BY <1>g
  <2>3. g[k] - 1 \in 1 .. Len(inbox') /\ (g[k] - 1) + 1 = g[k]
    BY <2>1, <2>2, <1>t
  <2> QED
    BY <2>3, <1>t
<1>2. h \in [1 .. P -> 1 .. Len(inbox')]
  BY <1>1, <1>h
<1>3. \A k, l \in 1 .. P : k < l => h[k] < h[l]
  <2> TAKE k, l \in 1 .. P
  <2>1. k < l => g[k] < g[l]
    BY <1>g
  <2>2. g[k] \in Int /\ g[l] \in Int
    BY <1>g
  <2> QED
    BY <2>1, <2>2, <1>h
<1>4. ASSUME NEW j \in 1 .. Len(inbox'), inbox'[j] > 0
      PROVE  \E k \in 1 .. P : h[k] = j
  <2>1. j + 1 \in 1 .. Len(inbox) /\ inbox[j + 1] > 0
    BY <1>4, <1>t
  <2>2. PICK k \in 1 .. P : g[k] = j + 1
    BY <2>1, <1>g
  <2>3. h[k] = j
    BY <2>2, <1>h
  <2> QED
    BY <2>3
<1>5. \A k \in 1 .. P : /\ inbox'[h[k]] > 0
                        /\ arrived[n + k] = Received(inbox'[h[k]])
  BY <1>1, <1>g, <1>h
<1>6. LeadsToInbox(h, n)'
  BY <1>2, <1>3, <1>4, <1>5 DEF LeadsToInbox
<1> QED
  BY <1>2, <1>6 DEF InboxHolds

(* A datagram with data is the first of those not yet taken. *)
LEMMA DataTaken ==
  ASSUME TypeOK, inbox # <<>>, Head(inbox) > 0, inbox' = Tail(inbox),
         UNCHANGED arrived, NEW n \in Nat, n <= Len(arrived),
         NEW g, LeadsToInbox(g, n)
  PROVE  /\ n + 1 <= Len(arrived)
         /\ arrived[n + 1] = Received(Head(inbox))
         /\ InboxHolds(n + 1)'
<1> DEFINE P == Len(arrived) - n
           Q == Len(arrived) - (n + 1)
<1>t. /\ Len(inbox) \in Nat \ {0} /\ Len(inbox') = Len(inbox) - 1
      /\ \A j \in 1 .. Len(inbox') : inbox'[j] = inbox[j + 1]
      /\ inbox[1] = Head(inbox) /\ Head(inbox) > 0 /\ P \in Nat /\ Q = P - 1
  <2>1. inbox \in Seq(Sizes) /\ arrived \in Seq(1 .. BufferSize)
    BY DEF TypeOK
  <2> QED
    BY <2>1
<1>g. /\ \A k \in 1 .. P : g[k] \in 1 .. Len(inbox) /\ inbox[g[k]] > 0
      /\ \A k \in 1 .. P : arrived[n + k] = Received(inbox[g[k]])
      /\ \A k, l \in 1 .. P : k < l => g[k] < g[l]
      /\ \A j \in 1 .. Len(inbox) : inbox[j] > 0 => \E k \in 1 .. P : g[k] = j
  BY DEF LeadsToInbox
<1>h. PICK h : h = [k \in 1 .. Q |-> g[k + 1] - 1]
  OBVIOUS
<1>1. PICK one \in 1 .. P : g[one] = 1
  <2>1. 1 \in 1 .. Len(inbox) /\ inbox[1] > 0
    BY <1>t
  <2> QED
    BY <2>1, <1>g
<1>2. one = 1 /\ P > 0
  <2>1. P > 0 /\ 1 \in 1 .. P
    BY <1>1, <1>t
  <2>2. \A k, l \in 1 .. P : k < l => g[k] < g[l]
    BY <1>g
  <2>3. 1 < one => g[1] < 1
    BY <2>1, <2>2, <1>1
  <2>4. g[1] \in 1 .. Len(inbox)
    BY <2>1, <1>g
  <2>5. ~(1 < one)
    BY <2>3, <2>4
  <2> QED
    BY <2>1, <2>5, <1>1
<1>3. ASSUME NEW k \in 1 .. Q
      PROVE  /\ k + 1 \in 1 .. P
             /\ g[k + 1] - 1 \in 1 .. Len(inbox')
             /\ inbox'[g[k + 1] - 1] = inbox[g[k + 1]]
  <2>1. k + 1 \in 1 .. P /\ 1 \in 1 .. P /\ 1 < k + 1
    BY <1>t
  <2>2. g[k + 1] \in 1 .. Len(inbox) /\ g[1] < g[k + 1]
    BY <2>1, <1>g
  <2>3. g[k + 1] - 1 \in 1 .. Len(inbox') /\ (g[k + 1] - 1) + 1 = g[k + 1]
    BY <2>2, <1>1, <1>2, <1>t
  <2> QED
    BY <2>1, <2>3, <1>t
<1>4. h \in [1 .. Q -> 1 .. Len(inbox')]
  BY <1>3, <1>h
<1>5. \A k, l \in 1 .. Q : k < l => h[k] < h[l]
  <2> TAKE k, l \in 1 .. Q
  <2>1. k + 1 \in 1 .. P /\ l + 1 \in 1 .. P /\ (k < l => k + 1 < l + 1)
    BY <1>3
  <2>2. k < l => g[k + 1] < g[l + 1]
    BY <2>1, <1>g
  <2>3. g[k + 1] \in Int /\ g[l + 1] \in Int
    BY <2>1, <1>g
  <2> QED
    BY <2>2, <2>3, <1>h
<1>6. ASSUME NEW j \in 1 .. Len(inbox'), inbox'[j] > 0
      PROVE  \E k \in 1 .. Q : h[k] = j
  <2>1. j + 1 \in 1 .. Len(inbox) /\ inbox[j + 1] > 0
    BY <1>6, <1>t
  <2>2. PICK k \in 1 .. P : g[k] = j + 1
    BY <2>1, <1>g
  <2>3. k # 1
    BY <2>2, <1>1, <1>2
  <2>4. k - 1 \in 1 .. Q /\ (k - 1) + 1 = k
    BY <2>3, <1>t
  <2>5. h[k - 1] = j
    BY <2>2, <2>4, <1>h
  <2> QED
    BY <2>4, <2>5
<1>7. ASSUME NEW k \in 1 .. Q
      PROVE  inbox'[h[k]] > 0 /\ arrived[(n + 1) + k] = Received(inbox'[h[k]])
  <2>1. /\ inbox[g[k + 1]] > 0
        /\ arrived[n + (k + 1)] = Received(inbox[g[k + 1]])
    BY <1>3, <1>g
  <2>2. (n + 1) + k = n + (k + 1)
    OBVIOUS
  <2> QED
    BY <2>1, <2>2, <1>3, <1>h
<1>8. LeadsToInbox(h, n + 1)'
  BY <1>4, <1>5, <1>6, <1>7 DEF LeadsToInbox
<1>11. InboxHolds(n + 1)'
  BY <1>4, <1>8 DEF InboxHolds
<1>9. arrived[n + 1] = Received(Head(inbox))
  <2>1. 1 \in 1 .. P
    BY <1>2, <1>t
  <2> QED
    BY <2>1, <1>1, <1>2, <1>g, <1>t
<1>10. n + 1 <= Len(arrived)
  BY <1>2
<1> QED
  BY <1>9, <1>10, <1>11

(* A datagram that arrives goes to the end of the inbox. *)
LEMMA Arrives ==
  ASSUME TypeOK, NEW v \in Sizes, inbox' = Append(inbox, v),
         arrived' = IF v > 0 THEN Append(arrived, Received(v)) ELSE arrived,
         NEW n \in Nat, n <= Len(arrived), NEW g, LeadsToInbox(g, n)
  PROVE  InboxHolds(n)'
<1> DEFINE P == Len(arrived) - n
           L == Len(inbox)
<1>t. /\ v \in Nat /\ P \in Nat /\ L \in Nat
      /\ arrived \in Seq(1 .. BufferSize)
      /\ Len(inbox') = L + 1 /\ inbox'[L + 1] = v
      /\ \A j \in 1 .. L : inbox'[j] = inbox[j]
  <2>1. inbox \in Seq(Sizes) /\ v \in Nat /\ arrived \in Seq(1 .. BufferSize)
    BY ReaderAssumption DEF TypeOK
  <2> QED
    BY <2>1
<1>g. /\ g \in [1 .. P -> 1 .. L]
      /\ \A k \in 1 .. P : g[k] \in 1 .. L /\ inbox[g[k]] > 0
      /\ \A k \in 1 .. P : arrived[n + k] = Received(inbox[g[k]])
      /\ \A k, l \in 1 .. P : k < l => g[k] < g[l]
      /\ \A j \in 1 .. L : inbox[j] > 0 => \E k \in 1 .. P : g[k] = j
  BY DEF LeadsToInbox
<1>1. CASE v = 0
  <2>1. UNCHANGED arrived
    BY <1>1
  <2>2. g \in [1 .. P -> 1 .. Len(inbox')]
    <3>1. \A k \in 1 .. L : k \in 1 .. Len(inbox')
      BY <1>t
    <3> QED
      BY <1>g, <3>1
  <2>3. \A k \in 1 .. P : inbox'[g[k]] = inbox[g[k]]
    BY <1>g, <1>t
  <2>4. ASSUME NEW j \in 1 .. Len(inbox'), inbox'[j] > 0
        PROVE  \E k \in 1 .. P : g[k] = j
    <3>1. j \in 1 .. L /\ inbox[j] > 0
      BY <1>1, <1>t, <2>4
    <3> QED
      BY <3>1, <1>g
  <2>5. LeadsToInbox(g, n)'
    BY <2>1, <2>2, <2>3, <2>4, <1>g DEF LeadsToInbox
  <2> QED
    BY <2>1, <2>2, <2>5 DEF InboxHolds
<1>2. CASE v > 0
  <2>1. /\ Len(arrived') = Len(arrived) + 1
        /\ arrived'[Len(arrived) + 1] = Received(v)
        /\ \A i \in 1 .. Len(arrived) : arrived'[i] = arrived[i]
    <3>1. Received(v) \in 1 .. BufferSize
      BY <1>2, <1>t, ReaderAssumption DEF Received
    <3> QED
      BY <1>2, <1>t, <3>1
  <2>2. Len(arrived') - n = P + 1
    BY <2>1, <1>t
  <2>3. \A k \in 1 .. P + 1 : k \in 1 .. P \/ k = P + 1
    BY <1>t
  <2>h. PICK h : h = [k \in 1 .. P + 1 |-> IF k = P + 1 THEN L + 1 ELSE g[k]]
    OBVIOUS
  <2>4. \A k \in 1 .. P : h[k] = g[k] /\ k \in 1 .. P + 1
    BY <1>t, <2>h
  <2>5. h[P + 1] = L + 1 /\ P + 1 \in 1 .. P + 1
    BY <1>t, <2>h
  <2>6. h \in [1 .. P + 1 -> 1 .. Len(inbox')]
    <3>1. ASSUME NEW k \in 1 .. P + 1 PROVE h[k] \in 1 .. Len(inbox')
      <4>1. CASE k = P + 1
        BY <4>1, <2>5, <1>t
      <4>2. CASE k \in 1 .. P
        BY <4>2, <2>4, <1>g, <1>t
      <4> QED
        BY <4>1, <4>2, <2>3
    <3> QED
      BY <3>1, <2>h
  <2>7. \A k, l \in 1 .. P + 1 : k < l => h[k] < h[l]
    <3> TAKE k, l \in 1 .. P + 1
    <3> SUFFICES ASSUME k < l PROVE h[k] < h[l]
      OBVIOUS
    <3>1. k \in 1 .. P /\ h[k] = g[k] /\ g[k] \in 1 .. L
      BY <2>3, <2>4, <1>g, <1>t
    <3>2. CASE l = P + 1
      BY <3>1, <3>2, <2>5, <1>t
    <3>3. CASE l \in 1 .. P
      BY <3>1, <3>3, <2>4, <1>g
    <3> QED
      BY <3>2, <3>3, <2>3
  <2>8. ASSUME NEW k \in 1 .. P + 1
        PROVE  inbox'[h[k]] > 0 /\ arrived'[n + k] = Received(inbox'[h[k]])
    <3>1. CASE k = P + 1
      <4>1. n + k = Len(arrived) + 1
        BY <3>1, <1>t
      <4> QED
        BY <3>1, <4>1, <2>1, <2>5, <1>2, <1>t
    <3>2. CASE k \in 1 .. P
      <4>1. inbox'[h[k]] = inbox[g[k]]
        BY <3>2, <2>4, <1>g, <1>t
      <4>2. arrived'[n + k] = arrived[n + k]
        <5>1. n + k \in 1 .. Len(arrived)
          BY <3>2, <1>t
        <5> QED
          BY <5>1, <2>1
      <4> QED
        BY <3>2, <4>1, <4>2, <1>g
    <3> QED
      BY <3>1, <3>2, <2>3
  <2>9. ASSUME NEW j \in 1 .. Len(inbox'), inbox'[j] > 0
        PROVE  \E k \in 1 .. P + 1 : h[k] = j
    <3>1. CASE j = L + 1
      BY <3>1, <2>5
    <3>2. CASE j \in 1 .. L
      <4>1. PICK k \in 1 .. P : g[k] = j
        BY <3>2, <2>9, <1>g, <1>t
      <4> QED
        BY <4>1, <2>4
    <3> QED
      BY <3>1, <3>2, <1>t
  <2>10. LeadsToInbox(h, n)'
    BY <2>2, <2>6, <2>7, <2>8, <2>9 DEF LeadsToInbox
  <2> QED
    BY <2>2, <2>6, <2>10 DEF InboxHolds
<1> QED
  BY <1>1, <1>2, <1>t

LEMMA OrderKept ==
  ASSUME TypeOK, FlagInv, OrderInv, [Next]_vars
  PROVE  OrderInv'
<1>t. /\ handled \in Seq(1 .. BufferSize) /\ arrived \in Seq(1 .. BufferSize)
      /\ Len(handled) \in Nat /\ Len(arrived) \in Nat /\ Taken \in Nat
  BY DEF TypeOK, Taken
<1>1. CASE Constructor
  BY <1>1, NothingMoves DEF Constructor, InitSocket, StartThread, AssignRunning, Live,
     FlagInv, readerVars, worldVars, OrderInv
<1>2. CASE Stopping \/ StopThread \/ DestroyClose
  BY <1>2, NothingMoves DEF Stopping, StopThread, StopThreadJoin, DestroyClose, DestroyInvalidate,
     DestroyStop, DestroyJoin, ClearRunning, Join, Live, readerVars, worldVars
<1>3. ASSUME NEW from, NEW to, ReaderMoves(from, to), from # "deliver", to # "deliver",
             UNCHANGED inbox, owner = "assign" => to \in {"start", "test", "exited"}
      PROVE  OrderInv'
  BY <1>3, NothingMoves DEF ReaderMoves, Live, ownerVars, worldVars
<1>4. CASE ReaderStart \/ LoopTest \/ SelectReady \/ SelectNothing \/ SelectFails
           \/ HandlerReturns
  <2>1. CASE ReaderStart \/ LoopTest
    BY <1>3, <2>1 DEF ReaderStart, LoopTest, FlagInv
  <2>2. CASE SelectReady
    <3>1. owner # "assign"
      BY <2>2 DEF SelectReady, ReaderMoves, OrderInv
    <3> QED
      BY <1>3, <2>2, <3>1 DEF SelectReady
  <2>3. CASE SelectNothing \/ SelectFails \/ HandlerReturns
    BY <1>3, <2>3 DEF SelectNothing, SelectFails, HandlerReturns
  <2> QED
    BY <1>4, <2>1, <2>2, <2>3
<1>5. CASE Receive
  <2>1. /\ Live' <=> Live
        /\ owner # "assign" /\ owner' = owner /\ reader = "receive"
        /\ UNCHANGED <<handled, arrived>>
    BY <1>5 DEF Receive, OrderInv, Live, ownerVars, worldVars
  <2>2. HandledInOrder'
    BY <2>1 DEF OrderInv, HandledInOrder
  <2>3. Taken = Len(handled)
    BY <2>1 DEF Taken
  <2>4. CASE ~CanRead
    BY <1>5, <2>4, <2>1, NothingMoves DEF Receive, OrderInv
  <2>5. CASE CanRead
    <3> SUFFICES ASSUME Live
                 PROVE  /\ Taken' <= Len(arrived')
                        /\ reader' = "deliver" => size' = arrived'[Taken']
                        /\ InboxHolds(Taken)'
      BY <2>1, <2>2 DEF OrderInv
    <3>1. /\ inbox # <<>> /\ inbox' = Tail(inbox) /\ size' = Received(Head(inbox))
          /\ reader' = IF size' > 0 THEN "deliver" ELSE "test"
      BY <1>5, <2>5 DEF Receive, CanRead
    <3>2. PICK n \in Nat : n = Taken
      BY <1>t
    <3>g. PICK g : LeadsToInbox(g, n)
      BY <3>2 DEF OrderInv, InboxHolds
    <3>3. Head(inbox) \in Nat /\ (Head(inbox) > 0 <=> size' > 0)
      <4>1. Head(inbox) \in Nat
        <5>1. inbox \in Seq(Sizes)
          BY DEF TypeOK
        <5>2. Head(inbox) \in Sizes
          BY <3>1, <5>1
        <5> QED
          BY <5>2, ReaderAssumption
      <4> QED
        BY <3>1, <4>1, ReaderAssumption DEF Received
    <3>4. n <= Len(arrived)
      BY <3>2 DEF OrderInv
    <3>5. CASE Head(inbox) = 0
      <4>0. ~(size' > 0)
        BY <3>3, <3>5
      <4>1. Taken' = n /\ reader' = "test"
        BY <2>1, <2>3, <3>1, <3>2, <4>0, <1>t DEF Taken
      <4>2. InboxHolds(n)'
        BY <3>1, <3>g, <3>4, <3>5, <2>1, EmptyTaken
      <4>3. InboxHolds(Taken)'
        BY <4>1, <4>2 DEF InboxHolds, LeadsToInbox
      <4> QED
        BY <4>1, <4>3, <3>4, <2>1
    <3>6. CASE Head(inbox) > 0
      <4>1. Taken' = n + 1
        BY <2>1, <2>3, <3>1, <3>2, <3>3, <3>6 DEF Taken
      <4>2. /\ n + 1 <= Len(arrived)
            /\ arrived[n + 1] = Received(Head(inbox))
            /\ InboxHolds(n + 1)'
        BY <3>1, <3>g, <3>4, <3>6, <2>1, DataTaken
      <4>3. InboxHolds(Taken)'
        BY <4>1, <4>2 DEF InboxHolds, LeadsToInbox
      <4> QED
        BY <4>1, <4>2, <4>3, <3>1, <2>1
    <3> QED
      BY <3>3, <3>5, <3>6
  <2> QED
    BY <2>4, <2>5
<1>6. CASE Deliver
  <2>1. /\ reader = "deliver" /\ reader' # "deliver" /\ owner # "assign" /\ owner' = owner
        /\ running' = running /\ UNCHANGED <<arrived, inbox>>
    BY <1>6 DEF Deliver, OrderInv, ownerVars, worldVars
  <2>2. CASE ~running
    <3>1. ~Live'
      BY <2>1, <2>2 DEF Live, FlagInv
    <3>2. HandledInOrder'
      BY <1>6, <2>2, <2>1 DEF Deliver, OrderInv, HandledInOrder
    <3> QED
      BY <2>1, <3>1, <3>2 DEF OrderInv
  <2>3. CASE running
    <3>1. /\ handled' = Append(handled, size) /\ Taken = Len(handled) + 1
          /\ Taken <= Len(arrived) /\ size = arrived[Taken]
      BY <1>6, <2>1, <2>3 DEF Deliver, OrderInv, Live, Taken
    <3>2. size \in 1 .. BufferSize
      <4>1. Taken \in 1 .. Len(arrived)
        <5>1. Taken = Len(handled) + 1 /\ Taken <= Len(arrived)
          BY <3>1
        <5>2. Taken \in Nat /\ Len(handled) \in Nat /\ Len(arrived) \in Nat
          BY <1>t
        <5> QED
          BY <5>1, <5>2
      <4>2. arrived[Taken] \in 1 .. BufferSize
        BY <4>1, <1>t, ElementOfSeq
      <4> QED
        BY <3>1, <4>2
    <3>3. Len(handled') = Len(handled) + 1
      BY <3>1, <3>2, <1>t
    <3>4. Taken' = Taken
      BY <2>1, <3>1, <3>3, <1>t DEF Taken
    <3>5. HandledInOrder'
      <4>1. handled = SubSeq(arrived, 1, Len(handled))
        BY DEF OrderInv, HandledInOrder
      <4>2. Append(handled, arrived[Len(handled) + 1])
              = SubSeq(arrived, 1, Len(handled) + 1)
        BY <4>1, <3>1, <1>t, PrefixGrows
      <4> QED
        BY <4>2, <3>1, <3>3, <2>1 DEF HandledInOrder
    <3>6. InboxHolds(Taken)'
      <4>1. InboxHolds(Taken)
        BY <2>3 DEF OrderInv, Live
      <4>2. InboxHolds(Taken)' <=> InboxHolds(Taken)
        BY <3>4, <2>1 DEF InboxHolds, LeadsToInbox
      <4> QED
        BY <4>1, <4>2
    <3> QED
      BY <2>1, <3>1, <3>4, <3>5, <3>6 DEF OrderInv
  <2> QED
    BY <2>2, <2>3
<1>7. ASSUME NEW v \in Sizes, Arrive(v) PROVE OrderInv'
  <2>1. /\ UNCHANGED <<owner, running, reader, size, handled>>
        /\ inbox' = Append(inbox, v)
        /\ arrived' = IF v > 0 THEN Append(arrived, Received(v)) ELSE arrived
    BY <1>7 DEF Arrive, ownerVars, readerVars
  <2>2. /\ Taken' = Taken /\ (Live' <=> Live)
    BY <2>1 DEF Taken, Live
  <2>3. v > 0 => Received(v) \in 1 .. BufferSize
    <3>1. v \in Nat
      BY ReaderAssumption
    <3> QED
      BY <3>1, ReaderAssumption DEF Received
  <2>4. /\ Len(arrived') >= Len(arrived)
        /\ \A k \in 1 .. Len(arrived) : arrived'[k] = arrived[k]
    BY <2>1, <2>3, <1>t
  <2>5. HandledInOrder'
    <3>1. CASE v > 0
      <4>1. handled = SubSeq(Append(arrived, Received(v)), 1, Len(handled))
        BY <2>3, <3>1, <1>t, PrefixStays DEF OrderInv, HandledInOrder
      <4> QED
        BY <2>1, <2>4, <3>1, <4>1, <1>t DEF OrderInv, HandledInOrder
    <3>2. CASE ~(v > 0)
      BY <2>1, <3>2 DEF OrderInv, HandledInOrder
    <3> QED
      BY <3>1, <3>2
  <2>6. ASSUME Live
        PROVE  /\ Taken' <= Len(arrived')
               /\ reader' = "deliver" => size' = arrived'[Taken']
               /\ InboxHolds(Taken)'
    <3>1. /\ Taken <= Len(arrived)
          /\ reader = "deliver" => size = arrived[Taken]
      BY <2>6 DEF OrderInv
    <3>2. reader = "deliver" => Taken \in 1 .. Len(arrived)
      BY <3>1, <1>t DEF Taken
    <3>3. PICK n \in Nat : n = Taken
      BY <1>t
    <3>g. PICK g : LeadsToInbox(g, n)
      BY <2>6, <3>3 DEF OrderInv, InboxHolds
    <3>h. InboxHolds(n)'
      BY <2>1, <3>1, <3>3, <3>g, Arrives
    <3>4. InboxHolds(Taken)'
      BY <2>2, <3>3, <3>h DEF InboxHolds, LeadsToInbox
    <3> QED
      BY <2>1, <2>2, <2>4, <3>1, <3>2, <3>4, <1>t
  <2> QED
    BY <2>1, <2>2, <2>5, <2>6 DEF OrderInv
<1>8. CASE UNCHANGED vars
  BY <1>8, NothingMoves DEF vars, ownerVars, readerVars, worldVars, Live, OrderInv
<1> QED
  BY <1>1, <1>2, <1>4, <1>5, <1>6, <1>7, <1>8 DEF Next, ReaderStep

(* The types, the end of the thread and the order of the datagrams: what   *)
(* the handler was given is a prefix of what arrived, for any number of    *)
(* datagrams of any sizes, empty ones and cut ones among them.             *)
THEOREM NothingOutOfOrder == Spec => []ReaderInv
<1>1. Init => OrderInv
  <2> SUFFICES ASSUME Init PROVE OrderInv
    OBVIOUS
  <2>1. Taken = 0 /\ Len(arrived) = 0 /\ Len(inbox) = 0 /\ handled = arrived
    BY DEF Init, Taken
  <2>2. HandledInOrder
    BY DEF Init, HandledInOrder
  <2>3. PICK g : g = [k \in 1 .. 0 |-> 0]
    OBVIOUS
  <2>4. g \in [1 .. Len(arrived) - Taken -> 1 .. Len(inbox)] /\ LeadsToInbox(g, Taken)
    BY <2>1, <2>3 DEF LeadsToInbox
  <2>5. InboxHolds(Taken)
    BY <2>4 DEF InboxHolds
  <2> QED
    BY <2>1, <2>2, <2>5 DEF Init, OrderInv
<1>2. TypeOK /\ FlagInv /\ OrderInv => ReaderInv
  BY FlagStops DEF OrderInv, ReaderInv
<1> QED
  BY <1>1, <1>2, TypeCorrect, FlagKept, OrderKept, PTL DEF Spec
=============================================================================
