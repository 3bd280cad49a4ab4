--------------------------- MODULE MessageHandler ---------------------------
(***************************************************************************)
(* MessageHandler (Handlers/MessageHandler.cpp): passes each datagram to   *)
(* the handlers subscribed to "$", under one lock, while other threads     *)
(* subscribe and unsubscribe.                                              *)
(*                                                                         *)
(* A handler is its address, and std::map iterates by address.  A datagram *)
(* is its size and the set of offsets at which a '$' stands.  cHeaderSize  *)
(* is 2, so the header compared with a subscription is always "$".         *)
(*                                                                         *)
(* The handlers themselves are external: HandleMessage() of one returns    *)
(* any Boolean and reports any number of the bytes it was given.           *)
(***************************************************************************)
EXTENDS Naturals

CONSTANTS
  NHandlers,     \* number of objects that may subscribe
  Headers,       \* headers they subscribe to; one is "$"
  MaxSize,       \* bound: the largest datagram
  MaxDatagrams   \* bound: the number of datagrams

Start == "$"
None  == "none"
Leave == "leave"

ASSUME HandlerAssumption ==
  /\ NHandlers \in Nat
  /\ Start \in Headers /\ None \notin Headers /\ Leave \notin Headers
  /\ MaxSize \in Nat \ {0}
  /\ MaxDatagrams \in Nat

Handlers == 1 .. NHandlers

VARIABLES
  instance,  \* s_pInstance: "before", "here" or "after" the object's life
  subs,      \* m_handlerMap: header of each handler, or None
  locked,    \* m_mapLock
  network,   \* m_pNetwork # nullptr
  alive,     \* handlers that have not been destroyed
  request,   \* what each handler waits for the lock to do, or None
  at,        \* where HandleMessage() is
  size,      \* p_size
  starts,    \* offsets of '$' in the datagram
  used,      \* l_bytesHandled
  left,      \* l_processed
  ok,        \* l_handled
  current,   \* the handler the loop over the map has reached, 0 at first
  called,    \* history: handlers called in this round
  heard,     \* history: was any handler called with this datagram?
  told,      \* history: was the error sent for the last datagram?
  datagrams  \* so far (bounded by MaxDatagrams)

clientVars   == <<alive, request>>
messageVars  == <<size, starts, datagrams>>
progressVars == <<used, left, ok, current, called, heard, told>>
vars == <<instance, subs, locked, network, clientVars, at, messageVars, progressVars>>

Subscribed == {h \in Handlers : subs[h] = Start}
ToCall     == {h \in Subscribed : h > current}

Init ==
  /\ instance = "before" /\ network = FALSE /\ locked = FALSE
  /\ subs = [h \in Handlers |-> None]
  /\ alive = [h \in Handlers |-> TRUE]
  /\ request = [h \in Handlers |-> None]
  /\ at = "idle" /\ size = 0 /\ starts = {} /\ datagrams = 0
  /\ used = 0 /\ left = 0 /\ ok = FALSE /\ current = 0
  /\ called = {} /\ heard = FALSE /\ told = FALSE

-----------------------------------------------------------------------------
(* The object. *)

Construct ==
  /\ instance = "before" /\ instance' = "here"
  /\ UNCHANGED <<subs, locked, network, clientVars, at, messageVars, progressVars>>

(* Its owner destroys it when no thread is inside it. *)
Destruct ==
  /\ instance = "here" /\ instance' = "after"
  /\ at = "idle"
  /\ \A h \in Handlers : request[h] = None
  /\ subs' = [h \in Handlers |-> None]
  /\ UNCHANGED <<locked, network, clientVars, at, messageVars, progressVars>>

SetNetwork ==
  /\ instance = "here" /\ at # "finish"
  /\ network' = TRUE
  /\ UNCHANGED <<instance, subs, locked, clientVars, at, messageVars, progressVars>>

-----------------------------------------------------------------------------
(* The subscribers.  Without an instance SubscribeHandler() does nothing;  *)
(* a handler that has unsubscribed is destroyed.                           *)

AskSubscribe(h) ==
  /\ alive[h] /\ request[h] = None
  /\ instance = "here"
  /\ \E header \in Headers : request' = [request EXCEPT ![h] = header]
  /\ UNCHANGED <<instance, subs, locked, network, alive, at, messageVars, progressVars>>

(* the map is changed without its lock *)
Subscribe_bug_no_lock(h) ==
  /\ request[h] \in Headers
  /\ subs' = [subs EXCEPT ![h] = request[h]]
  /\ request' = [request EXCEPT ![h] = None]
  /\ UNCHANGED <<instance, locked, network, alive, at, messageVars, progressVars>>

(* _SubscribeHandler(), once it has the lock *)
Subscribe(h) ==
  /\ request[h] \in Headers
  /\ ~locked
  /\ subs' = [subs EXCEPT ![h] = request[h]]
  /\ request' = [request EXCEPT ![h] = None]
  /\ UNCHANGED <<instance, locked, network, alive, at, messageVars, progressVars>>

AskLeave(h) ==
  /\ alive[h] /\ request[h] = None
  /\ IF instance = "here"
     THEN request' = [request EXCEPT ![h] = Leave] /\ UNCHANGED alive
     ELSE alive' = [alive EXCEPT ![h] = FALSE] /\ UNCHANGED request
  /\ UNCHANGED <<instance, subs, locked, network, at, messageVars, progressVars>>

(* the map is changed without its lock *)
UnSubscribe_bug_no_lock(h) ==
  /\ request[h] = Leave
  /\ subs' = [subs EXCEPT ![h] = None]
  /\ request' = [request EXCEPT ![h] = None]
  /\ alive' = [alive EXCEPT ![h] = FALSE]
  /\ UNCHANGED <<instance, locked, network, at, messageVars, progressVars>>

(* _UnSubscribeHandler(), once it has the lock *)
UnSubscribe(h) ==
  /\ request[h] = Leave
  /\ ~locked
  /\ subs' = [subs EXCEPT ![h] = None]
  /\ request' = [request EXCEPT ![h] = None]
  /\ alive' = [alive EXCEPT ![h] = FALSE]
  /\ UNCHANGED <<instance, locked, network, at, messageVars, progressVars>>

-----------------------------------------------------------------------------
(* HandleMessage(), called by the reader with a datagram of n bytes.       *)

Begin(n, S) ==
  /\ instance = "here" /\ at = "idle" /\ ~locked
  /\ datagrams < MaxDatagrams /\ datagrams' = datagrams + 1
  /\ locked' = TRUE
  /\ size' = n /\ starts' = S
  /\ used' = 0 /\ ok' = TRUE /\ heard' = FALSE
  /\ at' = "test"
  /\ UNCHANGED <<instance, subs, network, clientVars, left, current, called, told>>

LoopTest ==
  /\ at = "test"
  /\ IF used < size /\ used \in starts
     THEN left' = size - used /\ current' = 0 /\ called' = {} /\ at' = "next"
     ELSE at' = "finish" /\ UNCHANGED <<left, current, called>>
  /\ UNCHANGED <<instance, subs, locked, network, clientVars, messageVars, used, ok,
                 heard, told>>

(* The next subscriber in the map's order is called. *)
CallNext ==
  /\ at = "next" /\ at' = "handling"
  /\ \E h \in ToCall :
       /\ \A g \in ToCall : h <= g
       /\ current' = h
       /\ called' = called \cup {h}
  /\ heard' = TRUE
  /\ UNCHANGED <<instance, subs, locked, network, clientVars, messageVars, used, left, ok,
                 told>>

(* l_processed is passed by reference: it is what the next one is given.   *)
HandlerReturns ==
  /\ at = "handling" /\ at' = "next"
  /\ ok' \in {ok, FALSE}
  /\ left' \in 0 .. left
  /\ UNCHANGED <<instance, subs, locked, network, clientVars, messageVars,
                 used, current, called, heard, told>>

(* the loop goes on when no byte was used *)
RoundEnd_bug_no_zero_test ==
  /\ at = "next" /\ ToCall = {}
  /\ IF ~ok
     THEN at' = "finish" /\ UNCHANGED used
     ELSE at' = "test" /\ used' = used + left
  /\ UNCHANGED <<instance, subs, locked, network, clientVars, messageVars,
                 left, ok, current, called, heard, told>>

RoundEnd ==
  /\ at = "next" /\ ToCall = {}
  /\ IF ~ok \/ left = 0
     THEN at' = "finish" /\ UNCHANGED used
     ELSE at' = "test" /\ used' = used + left
  /\ UNCHANGED <<instance, subs, locked, network, clientVars, messageVars,
                 left, ok, current, called, heard, told>>

(* The client is told of a failure; then the lock is released and ok and   *)
(* used are returned.                                                      *)
Finish ==
  /\ at = "finish" /\ at' = "idle"
  /\ told' = ((~ok \/ used = 0) /\ network)
  /\ locked' = FALSE
  /\ UNCHANGED <<instance, subs, network, clientVars, messageVars, used, left, ok,
                 current, called, heard>>

-----------------------------------------------------------------------------
Dispatch == LoopTest \/ CallNext \/ HandlerReturns \/ RoundEnd \/ Finish

Client(h) == AskSubscribe(h) \/ Subscribe(h) \/ AskLeave(h) \/ UnSubscribe(h)

Next ==
  \/ Construct \/ Destruct \/ SetNetwork
  \/ \E h \in Handlers : Client(h)
  \/ \E n \in 1 .. MaxSize : \E S \in SUBSET (0 .. n - 1) : Begin(n, S)
  \/ Dispatch

Spec == Init /\ [][Next]_vars

(* The thread inside HandleMessage() goes on, and each handler returns.    *)
FairSpec == Spec /\ WF_vars(Dispatch)

-----------------------------------------------------------------------------
TypeOK ==
  /\ instance \in {"before", "here", "after"}
  /\ locked \in BOOLEAN /\ network \in BOOLEAN
  /\ subs \in [Handlers -> Headers \cup {None}]
  /\ alive \in [Handlers -> BOOLEAN]
  /\ request \in [Handlers -> Headers \cup {None, Leave}]
  /\ at \in {"idle", "test", "next", "handling", "finish"}
  /\ size \in 0 .. MaxSize /\ starts \in SUBSET (0 .. MaxSize)
  /\ used \in 0 .. size /\ left \in 0 .. MaxSize
  /\ ok \in BOOLEAN /\ heard \in BOOLEAN /\ told \in BOOLEAN
  /\ current \in 0 .. NHandlers /\ called \in SUBSET Handlers
  /\ datagrams \in 0 .. MaxDatagrams

(* A handler is not called once its UnSubscribeHandler() has returned:     *)
(* it may be destroyed then, also while a datagram is being dispatched.    *)
NoCallAfterUnSubscribe == at = "handling" => alive[current]

(* What a handler is given lies inside the datagram and starts with '$',   *)
(* however many bytes the handlers before it reported.                     *)
CallsInBounds ==
  at = "handling" => used < size /\ used + left <= size /\ used \in starts

(* Each round calls every subscriber of "$" once, in the map's order, even *)
(* while others wait to subscribe or unsubscribe and after one has failed. *)
RoundServesAll ==
  at \in {"next", "handling"} => called = {h \in Subscribed : h <= current}

(* The types, and whom a round calls with what. *)
RoundsInv == TypeOK /\ CallsInBounds /\ RoundServesAll

(* HandleMessage() returns: a round either uses bytes or is the last.      *)
DispatchEnds == at = "test" ~> at = "idle"

(* "if the message was not handled, tell the client"                       *)
(* (MessageHandler.cpp:103): an error "No Handler Configured" goes to the  *)
(* network.                                                                *)
UnheardIsReported == [][Finish /\ ~heard /\ network => told']_vars

(* "pass the remainder of the message to the handler"                      *)
(* (MessageHandler.cpp:80).                                                *)
RemainderPassed == at = "handling" => left = size - used
=============================================================================
