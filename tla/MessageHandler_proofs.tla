------------------------ MODULE MessageHandler_proofs ------------------------
(***************************************************************************)
(* MessageHandler for any number of handlers, headers and datagrams of any *)
(* size.                                                                   *)
(*                                                                         *)
(* The inductive invariant says what the lock is for: while a datagram is  *)
(* dispatched it is held, so the map does not change, so the handler the   *)
(* loop has reached is still subscribed, and whoever is subscribed is      *)
(* alive.                                                                  *)
(***************************************************************************)
EXTENDS MessageHandler, TLAPS

(* The lock is held while a datagram is dispatched, and only then; who is  *)
(* in the map, or waits to change it, has not been destroyed.              *)
LockInv ==
  /\ locked <=> at # "idle"
  /\ instance # "here" => at = "idle" /\ \A h \in Handlers : subs[h] = None
  /\ \A h \in Handlers : subs[h] # None => alive[h]
  /\ \A h \in Handlers : request[h] # None => alive[h] /\ instance = "here"

(* Inside a round: what is passed on, and who has been called.             *)
RoundInv ==
  /\ at \in {"next", "handling"} =>
       /\ used < size /\ used \in starts /\ used + left <= size
       /\ called = {h \in Subscribed : h <= current}
  /\ at = "handling" => current \in Subscribed

IInv == TypeOK /\ LockInv /\ RoundInv

LEMMA Initially == Init => IInv
<1> SUFFICES ASSUME Init PROVE IInv
  OBVIOUS
<1>1. 0 \in 0 .. MaxSize /\ 0 \in 0 .. NHandlers /\ 0 \in 0 .. MaxDatagrams /\ 0 \in 0 .. 0
  BY HandlerAssumption
<1> QED
  BY <1>1 DEF Init, IInv, TypeOK, LockInv, RoundInv

(* What the threads outside HandleMessage() do.                            *)
LEMMA OutsideStep ==
  ASSUME IInv,
         \/ Construct \/ Destruct \/ SetNetwork
         \/ \E h \in Handlers : Client(h)
  PROVE  IInv'
<1> USE DEF IInv, messageVars, progressVars, clientVars
<1>1. CASE Construct \/ SetNetwork
  <2>1. /\ instance' \in {"here", instance} /\ network' \in {TRUE, network}
        /\ UNCHANGED <<subs, locked, alive, request, at, size, starts, datagrams,
                       used, left, ok, current, called, heard, told>>
    BY <1>1 DEF Construct, SetNetwork
  <2>2. instance' \in {"before", "here", "after"} /\ network' \in BOOLEAN
    BY <2>1 DEF TypeOK
  <2>3. TypeOK'
    BY <2>1, <2>2 DEF TypeOK
  <2>4. LockInv' /\ RoundInv'
    BY <1>1, <2>1 DEF Construct, SetNetwork, LockInv, RoundInv, Subscribed
  <2> QED
    BY <2>3, <2>4
<1>2. CASE Destruct
  <2>1. /\ instance = "here" /\ instance' = "after" /\ at = "idle"
        /\ \A h \in Handlers : request[h] = None
        /\ subs' = [h \in Handlers |-> None]
        /\ UNCHANGED <<locked, network, alive, request, at, size, starts, datagrams,
                       used, left, ok, current, called, heard, told>>
    BY <1>2 DEF Destruct
  <2>2. TypeOK'
    BY <2>1 DEF TypeOK
  <2>3. LockInv' /\ RoundInv'
    BY <2>1 DEF LockInv, RoundInv
  <2> QED
    BY <2>2, <2>3
<1>3. ASSUME NEW h \in Handlers, AskSubscribe(h) \/ AskLeave(h) PROVE IInv'
  <2>1. TypeOK'
    <3>1. /\ request' \in [Handlers -> Headers \cup {None, Leave}]
          /\ alive' \in [Handlers -> BOOLEAN]
      BY <1>3 DEF AskSubscribe, AskLeave, TypeOK
    <3>2. UNCHANGED <<instance, subs, locked, network, at, size, starts, datagrams,
                      used, left, ok, current, called, heard, told>>
      BY <1>3 DEF AskSubscribe, AskLeave
    <3> QED
      BY <3>1, <3>2 DEF TypeOK
  <2>2. LockInv'
    <3>1. CASE AskSubscribe(h)
      <4>1. PICK header \in Headers : request' = [request EXCEPT ![h] = header]
        BY <3>1 DEF AskSubscribe
      <4>2. alive[h] /\ instance = "here" /\ UNCHANGED <<instance, alive, subs, locked, at>>
        BY <3>1 DEF AskSubscribe
      <4> QED
        BY <4>1, <4>2 DEF TypeOK, LockInv
    <3>2. CASE AskLeave(h)
      <4>1. CASE instance = "here"
        <5>1. /\ request' = [request EXCEPT ![h] = Leave] /\ alive[h]
              /\ UNCHANGED <<instance, alive, subs, locked, at>>
          BY <3>2, <4>1 DEF AskLeave
        <5> QED
          BY <4>1, <5>1 DEF TypeOK, LockInv
      <4>2. CASE instance # "here"
        <5>1. /\ alive' = [alive EXCEPT ![h] = FALSE]
              /\ UNCHANGED <<instance, request, subs, locked, at>>
          BY <3>2, <4>2 DEF AskLeave
        <5>2. subs[h] = None /\ request[h] = None
          BY <3>2, <4>2 DEF AskLeave, LockInv
        <5> QED
          BY <5>1, <5>2 DEF TypeOK, LockInv
      <4> QED
        BY <4>1, <4>2
    <3> QED
      BY <1>3, <3>1, <3>2
  <2>3. RoundInv'
    BY <1>3 DEF AskSubscribe, AskLeave, RoundInv, Subscribed
  <2> QED
    BY <2>1, <2>2, <2>3
<1>4. ASSUME NEW h \in Handlers, Subscribe(h) \/ UnSubscribe(h) PROVE IInv'
  <2>1. TypeOK'
    <3>1. /\ request' \in [Handlers -> Headers \cup {None, Leave}]
          /\ alive' \in [Handlers -> BOOLEAN]
          /\ subs' \in [Handlers -> Headers \cup {None}]
      <4>1. CASE Subscribe(h)
        BY <4>1 DEF Subscribe, TypeOK
      <4>2. CASE UnSubscribe(h)
        BY <4>2 DEF UnSubscribe, TypeOK
      <4> QED
        BY <1>4, <4>1, <4>2
    <3>2. UNCHANGED <<instance, locked, network, at, size, starts, datagrams,
                      used, left, ok, current, called, heard, told>>
      BY <1>4 DEF Subscribe, UnSubscribe
    <3> QED
      BY <3>1, <3>2 DEF TypeOK
  <2>2. LockInv'
    <3>1. CASE Subscribe(h)
      <4>1. alive[h] /\ instance = "here"
        BY <3>1, HandlerAssumption DEF Subscribe, LockInv
      <4>2. /\ subs' = [subs EXCEPT ![h] = request[h]]
            /\ request' = [request EXCEPT ![h] = None]
            /\ UNCHANGED <<instance, alive, locked, at>>
        BY <3>1 DEF Subscribe
      <4> QED
        BY <4>1, <4>2 DEF TypeOK, LockInv
    <3>2. CASE UnSubscribe(h)
      <4>1. /\ subs' = [subs EXCEPT ![h] = None]
            /\ request' = [request EXCEPT ![h] = None]
            /\ alive' = [alive EXCEPT ![h] = FALSE]
            /\ UNCHANGED <<instance, locked, at>>
        BY <3>2 DEF UnSubscribe
      <4> QED
        BY <4>1 DEF TypeOK, LockInv
    <3> QED
      BY <1>4, <3>1, <3>2
  <2>3. at' = at /\ at = "idle"
    BY <1>4 DEF Subscribe, UnSubscribe, LockInv
  <2>4. RoundInv'
    BY <2>3 DEF RoundInv
  <2> QED
    BY <2>1, <2>2, <2>4
<1> QED
  BY <1>1, <1>2, <1>3, <1>4 DEF Client

(* What HandleMessage() does.                                              *)
LEMMA DispatchStep ==
  ASSUME IInv, Dispatch
  PROVE  IInv'
<1> USE DEF IInv, messageVars, clientVars
<1>1. CASE LoopTest
  <2>1. used \in Nat /\ size \in Nat /\ size <= MaxSize /\ MaxSize \in Nat
    BY HandlerAssumption DEF TypeOK
  <2>2. LockInv'
    BY <1>1 DEF LoopTest, LockInv
  <2>3. CASE used < size /\ used \in starts
    <3>1. /\ left' = size - used /\ current' = 0 /\ called' = {} /\ at' = "next"
          /\ UNCHANGED <<instance, subs, locked, network, alive, request, size, starts,
                         datagrams, used, ok, heard, told>>
      BY <1>1, <2>3 DEF LoopTest
    <3>2. left' \in 0 .. MaxSize /\ used' + left' <= size'
      BY <2>1, <2>3, <3>1
    <3>3. current' \in 0 .. NHandlers
      BY <3>1, HandlerAssumption
    <3>4. TypeOK'
      BY <3>1, <3>2, <3>3 DEF TypeOK
    <3>5. {h \in Handlers : subs[h] = Start /\ h <= 0} = {}
      BY DEF Handlers
    <3>6. called' = {h \in Subscribed' : h <= current'}
      BY <3>1, <3>5 DEF Subscribed
    <3>7. RoundInv'
      BY <2>3, <3>1, <3>2, <3>6 DEF RoundInv
    <3> QED
      BY <2>2, <3>4, <3>7
  <2>4. CASE ~(used < size /\ used \in starts)
    BY <1>1, <2>2, <2>4 DEF LoopTest, TypeOK, RoundInv
  <2> QED
    BY <2>3, <2>4
<1>2. CASE CallNext
  <2>1. PICK h \in ToCall : /\ \A g \in ToCall : h <= g
                            /\ current' = h
                            /\ called' = called \cup {h}
    BY <1>2 DEF CallNext
  <2>2. h \in Handlers /\ h \in Subscribed /\ h > current
    BY <2>1 DEF ToCall, Subscribed
  <2>3. /\ at = "next" /\ at' = "handling" /\ heard' = TRUE
        /\ UNCHANGED <<instance, subs, locked, network, alive, request, size, starts,
                       datagrams, used, left, ok, told>>
    BY <1>2 DEF CallNext
  <2>4. TypeOK'
    <3>1. current' \in 0 .. NHandlers
      BY <2>1, <2>2, HandlerAssumption DEF Handlers
    <3>2. called' \in SUBSET Handlers
      BY <2>1, <2>2 DEF TypeOK
    <3> QED
      BY <2>3, <3>1, <3>2 DEF TypeOK
  <2>5. LockInv'
    BY <2>3 DEF LockInv
  <2>6. Subscribed' = Subscribed
    BY <2>3 DEF Subscribed
  <2>7. {g \in Subscribed : g <= current} \cup {h} = {g \in Subscribed : g <= h}
    <3>1. \A g \in Subscribed : g \in Nat
      BY DEF Subscribed, Handlers
    <3>2. current \in Nat /\ h \in Nat
      BY <2>2, <3>1 DEF TypeOK
    <3>3. \A g \in Subscribed : g > current => h <= g
      BY <2>1 DEF ToCall
    <3>4. \A g \in Subscribed : g <= h <=> g <= current \/ g = h
      <4> HIDE DEF IInv
      <4> QED
        BY <2>2, <3>1, <3>2, <3>3
    <3> QED
      BY <2>2, <3>4
  <2>8. called' = {g \in Subscribed' : g <= current'}
    BY <2>1, <2>3, <2>6, <2>7 DEF RoundInv
  <2>9. RoundInv'
    BY <2>1, <2>2, <2>3, <2>6, <2>8 DEF RoundInv
  <2> QED
    BY <2>4, <2>5, <2>9
<1>3. CASE HandlerReturns
  <2>1. /\ at = "handling" /\ at' = "next"
        /\ ok' \in {ok, FALSE} /\ left' \in 0 .. left
        /\ UNCHANGED <<instance, subs, locked, network, alive, request, size, starts,
                       datagrams, used, current, called, heard, told>>
    BY <1>3 DEF HandlerReturns
  <2>2. left' \in 0 .. MaxSize /\ left' <= left
    BY <2>1, HandlerAssumption DEF TypeOK
  <2>3. used + left' <= size
    <3>1. used + left <= size /\ used \in Nat /\ left \in Nat /\ size \in Nat
      BY <2>1, HandlerAssumption DEF RoundInv, TypeOK
    <3>2. left' \in Nat
      BY <2>2, HandlerAssumption
    <3>3. \A u, l, m, s \in Nat : u + l <= s /\ m <= l => u + m <= s
      OBVIOUS
    <3> QED
      BY <2>2, <3>1, <3>2, <3>3
  <2>4. TypeOK'
    BY <2>1, <2>2 DEF TypeOK
  <2>5. LockInv' /\ Subscribed' = Subscribed
    BY <2>1 DEF LockInv, Subscribed
  <2>6. RoundInv'
    BY <2>1, <2>3, <2>5 DEF RoundInv
  <2> QED
    BY <2>4, <2>5, <2>6
<1>4. CASE RoundEnd
  <2>1. /\ at = "next" /\ at' \in {"test", "finish"}
        /\ used' = used \/ used' = used + left
        /\ UNCHANGED <<instance, subs, locked, network, alive, request, size, starts,
                       datagrams, left, ok, current, called, heard, told>>
    BY <1>4 DEF RoundEnd
  <2>2. used' \in 0 .. size
    <3>1. /\ used + left <= size /\ used \in 0 .. size
          /\ used \in Nat /\ left \in Nat /\ size \in Nat
      BY <2>1, HandlerAssumption DEF RoundInv, TypeOK
    <3>2. used + left \in 0 .. size
      BY <3>1
    <3> QED
      BY <2>1, <3>1, <3>2
  <2>3. TypeOK'
    BY <2>1, <2>2 DEF TypeOK
  <2>4. LockInv' /\ RoundInv'
    BY <2>1 DEF LockInv, RoundInv
  <2> QED
    BY <2>3, <2>4
<1>5. CASE Finish
  <2>1. told' \in BOOLEAN
    BY <1>5 DEF Finish
  <2> QED
    BY <1>5, <2>1 DEF Finish, TypeOK, LockInv, RoundInv
<1> QED
  BY <1>1, <1>2, <1>3, <1>4, <1>5 DEF Dispatch

LEMMA BeginStep ==
  ASSUME IInv, NEW n \in 1 .. MaxSize, NEW S \in SUBSET (0 .. n - 1), Begin(n, S)
  PROVE  IInv'
<1>1. /\ n \in Nat /\ n <= MaxSize /\ 0 \in 0 .. n /\ n \in 0 .. MaxSize
      /\ S \in SUBSET (0 .. MaxSize)
  BY HandlerAssumption
<1>2. datagrams' \in 0 .. MaxDatagrams
  BY HandlerAssumption DEF IInv, Begin, TypeOK
<1>3. /\ instance = "here" /\ at = "idle" /\ at' = "test" /\ locked' = TRUE
      /\ size' = n /\ starts' = S /\ used' = 0 /\ ok' = TRUE /\ heard' = FALSE
      /\ UNCHANGED <<instance, subs, network, alive, request, left, current, called, told>>
  BY DEF Begin, clientVars
<1>4. TypeOK'
  BY <1>1, <1>2, <1>3 DEF IInv, TypeOK
<1>5. LockInv' /\ RoundInv'
  BY <1>3 DEF IInv, LockInv, RoundInv
<1> QED
  BY <1>4, <1>5 DEF IInv

(* Types, lock and round together are kept by every step.                  *)
THEOREM Invariance == Spec => []IInv
<1>1. ASSUME IInv, [Next]_vars PROVE IInv'
  <2>1. CASE UNCHANGED vars
    <3>1. UNCHANGED <<instance, subs, locked, network, alive, request, at, size, starts,
                      datagrams, used, left, ok, current, called, heard, told>>
      BY <2>1 DEF vars, clientVars, messageVars, progressVars
    <3>2. TypeOK'
      BY <1>1, <3>1 DEF IInv, TypeOK
    <3>3. LockInv' /\ RoundInv'
      BY <1>1, <3>1 DEF IInv, LockInv, RoundInv, Subscribed
    <3> QED
      BY <3>2, <3>3 DEF IInv
  <2>2. CASE Next
    BY <1>1, <2>2, OutsideStep, DispatchStep, BeginStep DEF Next
  <2> QED
    BY <1>1, <2>1, <2>2
<1> QED
  BY <1>1, Initially, PTL DEF Spec

(* Types; never more bytes are counted as used than the datagram has.      *)
THEOREM TypeCorrect == Spec => []TypeOK
<1>1. IInv => TypeOK
  BY DEF IInv
<1> QED
  BY <1>1, Invariance, PTL

(* A handler that has unsubscribed is not called again, whatever runs at   *)
(* the same time.                                                          *)
THEOREM UnSubscribeIsFinal == Spec => []NoCallAfterUnSubscribe
<1>1. IInv => NoCallAfterUnSubscribe
  BY HandlerAssumption DEF IInv, LockInv, RoundInv, Subscribed, NoCallAfterUnSubscribe,
     Start, None
<1> QED
  BY <1>1, Invariance, PTL

(* No handler is given bytes outside the datagram.                         *)
THEOREM InBounds == Spec => []CallsInBounds
<1>1. IInv => CallsInBounds
  BY DEF IInv, RoundInv, CallsInBounds
<1> QED
  BY <1>1, Invariance, PTL

(* No subscriber is passed over.                                           *)
THEOREM AllServed == Spec => []RoundServesAll
<1>1. IInv => RoundServesAll
  BY DEF IInv, RoundInv, RoundServesAll
<1> QED
  BY <1>1, Invariance, PTL

(* Each round calls whom it should, with a part of the datagram.           *)
THEOREM RoundsKept == Spec => []RoundsInv
<1>1. TypeOK /\ CallsInBounds /\ RoundServesAll => RoundsInv
  BY DEF RoundsInv
<1> QED
  BY <1>1, TypeCorrect, InBounds, AllServed, PTL
=============================================================================
