----------------------------- MODULE UdpReader -----------------------------
(***************************************************************************)
(* UDPReader (Network/UDPReader.cpp): a thread that waits on a UDP socket  *)
(* with select() and hands each datagram to the message handler.           *)
(*                                                                         *)
(* Two threads: the owner, which constructs, polls with IsOpen(), may call *)
(* StopThread(), and destroys; and the reader.  They share m_threadRunning *)
(* and m_socket, which are plain members: each reading or writing of one   *)
(* is a step.  The kernel's side of the socket is external.                *)
(*                                                                         *)
(* A datagram is its size: larger ones than the buffer are cut by          *)
(* recvfrom().  Operators named X_bug_... are X with a defect seeded; the  *)
(* specification does not use them.                                        *)
(***************************************************************************)
EXTENDS Naturals, Sequences

CONSTANTS
  HasHandler,     \* is p_pMessageHandler not null?
  BufferSize,     \* kRxBufferSize, 1500 in the code
  Sizes,          \* the sizes of the datagrams that arrive
  MaxDatagrams,   \* bound: datagrams that arrive
  MaxFailures     \* bound: select() calls that fail on a good socket

ASSUME ReaderAssumption ==
  /\ HasHandler \in BOOLEAN
  /\ BufferSize \in Nat \ {0}
  /\ Sizes \subseteq Nat
  /\ MaxDatagrams \in Nat
  /\ MaxFailures \in Nat

VARIABLES
  owner,     \* where the owner is
  reader,    \* where the reader thread is; "none" before it is started
  initOk,    \* m_initOk
  running,   \* m_threadRunning
  socketSet, \* m_socket # SOCKET_ERROR
  kernel,    \* the socket in the kernel: none, unbound, open or closed
  joined,    \* has m_threadHandle been joined?
  inbox,     \* datagrams received by the kernel and not yet read
  size,      \* l_dataSize: what recvfrom() returned
  arrived,   \* history: the non-empty datagrams that reached the socket
  handled,   \* history: the datagrams passed to HandleMessage()
  arrivals,  \* datagrams so far (bounded by MaxDatagrams)
  failures   \* failed selects so far (bounded by MaxFailures)

ownerVars  == <<owner, initOk, joined>>
socketVars == <<socketSet, kernel>>
readerVars == <<reader, size, handled>>
worldVars  == <<arrived, arrivals>>
vars == <<ownerVars, socketVars, readerVars, worldVars, running, inbox, failures>>

(* recvfrom() cuts a datagram to the buffer. *)
Received(n) == IF n < BufferSize THEN n ELSE BufferSize

Init ==
  /\ owner = "init" /\ initOk = FALSE /\ joined = FALSE
  /\ socketSet = FALSE /\ kernel = "none"
  /\ reader = "none" /\ size = 0 /\ handled = <<>>
  /\ running = FALSE
  /\ inbox = <<>> /\ arrived = <<>> /\ arrivals = 0 /\ failures = 0

-----------------------------------------------------------------------------
(* The constructor. *)

(* InitSocket(): socket() may fail, or setsockopt() or bind() after it.    *)
InitSocket ==
  /\ owner = "init"
  /\ \E k \in {"none", "unbound", "open"} :
       /\ kernel' = k
       /\ socketSet' = (k # "none")
       /\ initOk' = (k = "open")
       /\ owner' = IF k = "open" /\ HasHandler THEN "spawn" ELSE "constructed"
  /\ UNCHANGED <<joined, readerVars, worldVars, running, inbox, failures>>

(* StartThread(): the thread runs from here on. *)
StartThread ==
  /\ owner = "spawn"
  /\ owner' = "assign"
  /\ reader' = "start"
  /\ UNCHANGED <<initOk, joined, socketVars, size, handled, worldVars,
                 running, inbox, failures>>

(* m_threadRunning = StartThread(): the flag is set only afterwards. *)
AssignRunning ==
  /\ owner = "assign"
  /\ owner' = "constructed"
  /\ running' = TRUE
  /\ UNCHANGED <<initOk, joined, socketVars, readerVars, worldVars, inbox, failures>>

-----------------------------------------------------------------------------
(* StopThread(), called by the owner or by the destructor. *)

(* the flag is cleared but the thread is not waited for *)
ClearRunning_bug_no_join(from, to, done) ==
  /\ owner = from
  /\ running' = FALSE
  /\ owner' = done
  /\ UNCHANGED <<initOk, joined, socketVars, readerVars, worldVars, inbox, failures>>

ClearRunning(from, to, done) ==
  /\ owner = from
  /\ running' = FALSE
  /\ owner' = IF running THEN to ELSE done
  /\ UNCHANGED <<initOk, joined, socketVars, readerVars, worldVars, inbox, failures>>

Join(from, done) ==
  /\ owner = from
  /\ reader = "exited"
  /\ joined' = TRUE
  /\ owner' = done
  /\ UNCHANGED <<initOk, socketVars, readerVars, worldVars, running, inbox, failures>>

StopThread == ClearRunning("constructed", "stopJoin", "constructed")
StopThreadJoin == Join("stopJoin", "constructed")

(* The destructor: Close(), which makes the shutdown() after it a no-op;   *)
(* then m_socket is invalidated; then StopThread().                        *)
DestroyClose ==
  /\ owner = "constructed"
  /\ IF socketSet
     THEN owner' = "invalidate" /\ kernel' = "closed"
     ELSE owner' = "stop" /\ UNCHANGED kernel
  /\ UNCHANGED <<initOk, joined, socketSet, readerVars, worldVars, running,
                 inbox, failures>>

DestroyInvalidate ==
  /\ owner = "invalidate"
  /\ owner' = "stop"
  /\ socketSet' = FALSE
  /\ UNCHANGED <<initOk, joined, kernel, readerVars, worldVars, running,
                 inbox, failures>>

DestroyStop == ClearRunning("stop", "join", "destroyed")
DestroyJoin == Join("join", "destroyed")

-----------------------------------------------------------------------------
(* ReaderThread(). *)

ReaderMoves(from, to) ==
  /\ reader = from
  /\ reader' = to
  /\ UNCHANGED <<ownerVars, socketVars, size, handled, worldVars, running>>

ReaderStart == ReaderMoves("start", "test") /\ UNCHANGED <<inbox, failures>>

LoopTest ==
  /\ ReaderMoves("test", IF running THEN "select" ELSE "exited")
  /\ UNCHANGED <<inbox, failures>>

CanRead == socketSet /\ kernel = "open" /\ inbox # <<>>

SelectReady ==
  /\ CanRead
  /\ ReaderMoves("select", "receive")
  /\ UNCHANGED <<inbox, failures>>

(* select() times out, or fails because the socket was closed.  With       *)
(* m_socket = -1, FD_SET() sets a bit of the set that select(0, ...) does  *)
(* not look at, and the call times out.                                    *)
SelectNothing ==
  /\ ~CanRead
  /\ ReaderMoves("select", "test")
  /\ UNCHANGED <<inbox, failures>>

(* the thread ends when select() fails *)
SelectFails_bug_exit ==
  /\ failures < MaxFailures /\ failures' = failures + 1
  /\ ReaderMoves("select", "exited")
  /\ UNCHANGED inbox

(* select() fails on a good socket: the error is logged, the loop goes on. *)
SelectFails ==
  /\ failures < MaxFailures /\ failures' = failures + 1
  /\ ReaderMoves("select", "test")
  /\ UNCHANGED inbox

(* recvfrom() fails if the socket was closed since select() returned.      *)
Receive ==
  /\ reader = "receive"
  /\ IF CanRead
     THEN /\ size' = Received(Head(inbox))
          /\ inbox' = Tail(inbox)
          /\ reader' = IF size' > 0 THEN "deliver" ELSE "test"
     ELSE reader' = "test" /\ UNCHANGED <<size, inbox>>
  /\ UNCHANGED <<ownerVars, socketVars, handled, worldVars, running, failures>>

(* The datagram is terminated with a 0 and passed on, unless the thread    *)
(* was told to stop.                                                       *)
Deliver ==
  /\ reader = "deliver"
  /\ IF running
     THEN reader' = "handling" /\ handled' = Append(handled, size)
     ELSE reader' = "test" /\ UNCHANGED handled
  /\ UNCHANGED <<ownerVars, socketVars, size, worldVars, running, inbox, failures>>

HandlerReturns ==
  /\ ReaderMoves("handling", "test")
  /\ UNCHANGED <<inbox, failures>>

(* A datagram reaches the socket. *)
Arrive(n) ==
  /\ kernel = "open"
  /\ arrivals < MaxDatagrams /\ arrivals' = arrivals + 1
  /\ inbox' = Append(inbox, n)
  /\ arrived' = IF n > 0 THEN Append(arrived, Received(n)) ELSE arrived
  /\ UNCHANGED <<ownerVars, socketVars, readerVars, running, failures>>

-----------------------------------------------------------------------------
Constructor == InitSocket \/ StartThread \/ AssignRunning
Stopping    == StopThreadJoin \/ DestroyInvalidate \/ DestroyStop \/ DestroyJoin
ReaderStep  == \/ ReaderStart \/ LoopTest
               \/ SelectReady \/ SelectNothing
               \/ Receive \/ Deliver \/ HandlerReturns

Next ==
  \/ Constructor \/ Stopping
  \/ StopThread \/ DestroyClose
  \/ ReaderStep \/ SelectFails
  \/ \E n \in Sizes : Arrive(n)

Spec == Init /\ [][Next]_vars

(* Both threads run on once they have begun something; nobody has to stop  *)
(* or destroy the reader, and no datagram has to arrive.  A select() ends  *)
(* by data or by its one-second timeout, and HandleMessage() returns.      *)
FairSpec ==
  /\ Spec
  /\ WF_vars(Constructor)
  /\ WF_vars(Stopping)
  /\ WF_vars(ReaderStep)

-----------------------------------------------------------------------------
TypeOK ==
  /\ owner \in {"init", "spawn", "assign", "constructed", "stopJoin",
                "invalidate", "stop", "join", "destroyed"}
  /\ reader \in {"none", "start", "test", "select", "receive", "deliver",
                 "handling", "exited"}
  /\ initOk \in BOOLEAN /\ joined \in BOOLEAN /\ running \in BOOLEAN
  /\ socketSet \in BOOLEAN
  /\ kernel \in {"none", "unbound", "open", "closed"}
  /\ inbox \in Seq(Sizes)
  /\ size \in 0 .. BufferSize
  /\ reader = "deliver" => size > 0
  /\ arrived \in Seq(1 .. BufferSize) /\ handled \in Seq(1 .. BufferSize)
  /\ arrivals \in 0 .. MaxDatagrams
  /\ failures \in 0 .. MaxFailures

(* Once StopThread() or the destructor has returned, the thread is over    *)
(* and joined: it neither calls the handler again, nor runs on the dead    *)
(* object, nor is left joinable (which would end the program).             *)
StoppedMeansExited ==
  ( /\ owner \in {"constructed", "destroyed"}
    /\ reader # "none"
    /\ ~running ) => reader = "exited" /\ joined

(* The handler gets the datagrams in the order of their arrival and none   *)
(* twice; what is not read when the thread stops is a tail of them.        *)
HandledInOrder ==
  /\ Len(handled) <= Len(arrived)
  /\ handled = SubSeq(arrived, 1, Len(handled))

(* The types, the end of the thread and the order of the datagrams.        *)
ReaderInv == TypeOK /\ StoppedMeansExited /\ HandledInOrder

(* A datagram that arrived while the thread is in its loop is eventually   *)
(* handled, unless the reader is stopped or destroyed: neither an empty    *)
(* datagram nor a failed select() ends the loop.                           *)
DatagramsHandled ==
  \A n \in 1 .. MaxDatagrams :
     Len(arrived) >= n /\ reader \in {"select", "receive", "deliver", "handling"}
       ~> Len(handled) >= n \/ owner # "constructed"

(* The destructor terminates: the reader notices the flag within one turn  *)
(* of its loop, whatever the state of the socket.                          *)
DestructionEnds == owner \in {"invalidate", "stop", "join"} ~> owner = "destroyed"

(* The loop hands over all that comes until it is told to stop, and then   *)
(* it stops.                                                               *)
ReadsUntilStopped == DatagramsHandled /\ DestructionEnds

(* m_initOk, which IsOpen() returns, is "true if the Reader is running OK" *)
(* (UDPReader.h:124): then the thread has not ended by itself.             *)
OpenMeansRunning ==
  owner = "constructed" /\ initOk /\ running => reader # "exited"
=============================================================================
