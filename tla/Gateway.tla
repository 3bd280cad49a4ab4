------------------------------ MODULE Gateway ------------------------------
(***************************************************************************)
(* The program as main() of nmea2can.cpp puts it together: the UDP reader  *)
(* thread passes datagrams through the MessageHandler to the converter,    *)
(* whose own thread takes NMEA 0183 sentences from a queue, keeps what it  *)
(* reads in the boat data and sends NMEA 2000 messages.                    *)
(*                                                                         *)
(* The parts are used by what they promise: the queue is Fifo, which       *)
(* SafeQueue implements, and the reader hands over datagrams one at a time *)
(* in order, which UdpReader shows.  A datagram is a sequence of sentences *)
(* that begin with '$', a sentence one of three kinds: one the converter   *)
(* converts; one it ignores, its code not in the handlers' table or its    *)
(* fields not as they should be; one that SetMessage() rejects.  That a    *)
(* sentence is converted means SendMsg() is called with its messages: what *)
(* becomes of them is told by CanSend.                                     *)
(***************************************************************************)
EXTENDS Naturals, Sequences

CONSTANTS
  Datagrams,     \* the datagrams that may arrive
  MaxDatagrams   \* bound: how many do

Kinds == {"good", "ignored", "corrupt"}

ASSUME GatewayAssumption ==
  /\ Datagrams \subseteq {d \in Seq(Kinds) : d # <<>>}
  /\ MaxDatagrams \in Nat

VARIABLES
  main,       \* what main() is doing
  subscribed, \* is the converter in the MessageHandler's map?
  cleared,    \* has the boat data been set to 0?
  open,       \* the UDPReader's m_initOk
  reader,     \* the reader thread
  datagram,   \* l_receiveBuffer
  converter,  \* the converter's thread
  enqueued,   \* history: what was put into m_NMEA0183Queue
  dequeued,   \* history: what was taken out of it
  converted,  \* history: sentences whose messages were sent
  arrived,    \* history: the datagrams
  parsed,     \* history: number of sentences given to SetMessage()
  reported    \* history: number of sentences HandleMessage() reported processed

mainVars  == <<main, subscribed, cleared, open>>
queueVars == <<enqueued, dequeued>>
countVars == <<arrived, parsed, reported>>
vars == <<mainVars, reader, datagram, converter, queueVars, converted, countVars>>

(* A sentence, told from others of its kind by the datagram it came in. *)
Sentences == [datagram : 1 .. MaxDatagrams, kind : Kinds]

Queue == INSTANCE Fifo WITH Values <- Sentences, put <- enqueued, got <- dequeued

Init ==
  /\ main = "open" /\ subscribed = FALSE /\ cleared = FALSE /\ open = FALSE
  /\ reader = "waiting" /\ datagram = <<>> /\ converter = "none"
  /\ Queue!Init
  /\ converted = <<>> /\ arrived = <<>> /\ parsed = 0 /\ reported = 0

Alive == main \notin {"exited", "aborted"}

-----------------------------------------------------------------------------
(* main() *)

(* the reader is started before the converter *)
After_bug_reader_first ==
  [open |-> "announce", announce |-> "reader", reader |-> "subscribe",
   subscribe |-> "start", start |-> "clear", clear |-> "poll"]

(* What main() does next. *)
After ==
  [open |-> "announce", announce |-> "subscribe", subscribe |-> "start",
   start |-> "clear", clear |-> "reader", reader |-> "poll"]

MainDoes(step) ==
  /\ main = step
  /\ main' = After[step]
  /\ UNCHANGED <<reader, datagram, queueVars, converted, countVars>>

Open == MainDoes("open") /\ UNCHANGED <<subscribed, cleared, open, converter>>

(* NMEA2000.Open() fails; nothing has been started yet. *)
OpenFails ==
  /\ main = "open" /\ main' = "exited"
  /\ UNCHANGED <<subscribed, cleared, open, reader, datagram, converter,
                 queueVars, converted, countVars>>

SendProductInformation ==
  MainDoes("announce") /\ UNCHANGED <<subscribed, cleared, open, converter>>

(* NMEA0183Converter::Init(): subscribe, start the thread, clear the data. *)
SubscribeHandler ==
  MainDoes("subscribe") /\ subscribed' = TRUE /\ UNCHANGED <<cleared, open, converter>>

StartThread ==
  MainDoes("start") /\ converter' = "test" /\ UNCHANGED <<subscribed, cleared, open>>

ClearBoatData ==
  MainDoes("clear") /\ cleared' = TRUE /\ UNCHANGED <<subscribed, open, converter>>

(* The UDPReader is constructed; its socket may fail. *)
ConstructReader ==
  MainDoes("reader") /\ open' \in BOOLEAN /\ UNCHANGED <<subscribed, cleared, converter>>

(* The loop ends when the reader is not open; main() returns.  Nothing     *)
(* stops the converter's thread, and std::terminate() is called when a     *)
(* thread that can be joined is destroyed.                                 *)
Return ==
  /\ main = "poll" /\ ~open
  /\ main' = IF converter = "none" THEN "exited" ELSE "aborted"
  /\ UNCHANGED <<subscribed, cleared, open, reader, datagram, converter,
                 queueVars, converted, countVars>>

-----------------------------------------------------------------------------
(* The reader's thread. *)

Receive(d) ==
  /\ Alive /\ open /\ reader = "waiting"
  /\ Len(arrived) < MaxDatagrams
  /\ arrived' = Append(arrived, d)
  /\ datagram' = d
  /\ reader' = "dispatching"
  /\ UNCHANGED <<mainVars, converter, queueVars, converted, parsed, reported>>

(* MessageHandler::HandleMessage() calls NMEA0183Converter::HandleMessage():*)
(* it parses the first sentence and leaves p_size as it was, which counts  *)
(* the whole datagram as processed when the first sentence was good.       *)
HandleMessage ==
  IF subscribed
  THEN /\ parsed' = parsed + 1
       /\ IF Head(datagram) # "corrupt"
          THEN /\ Queue!PutValue([datagram |-> Len(arrived), kind |-> Head(datagram)])
               /\ reported' = reported + Len(datagram)
          ELSE UNCHANGED <<queueVars, reported>>
  ELSE /\ reported' = reported + Len(datagram)
       /\ UNCHANGED <<queueVars, parsed>>

Dispatch ==
  /\ Alive /\ reader = "dispatching"
  /\ HandleMessage
  /\ reader' = "waiting"
  /\ UNCHANGED <<mainVars, datagram, converter, converted, arrived>>

-----------------------------------------------------------------------------
(* The converter's thread. *)

(* Only the reader puts sentences in and only this thread takes them out.  *)
Last(s) == s[Len(s)]

(* the newest sentence is taken *)
Dequeue_bug_newest ==
  /\ Len(dequeued) < Len(enqueued)
  /\ dequeued' = Append(dequeued, Last(enqueued))
  /\ UNCHANGED enqueued

Dequeue == Queue!Get

(* An ignored sentence is at most logged. *)
Take ==
  /\ Alive /\ converter = "test"
  /\ Dequeue
  /\ converter' = IF Last(dequeued').kind = "good" THEN "parse" ELSE "test"
  /\ UNCHANGED <<mainVars, reader, datagram, converted, countVars>>

(* The handler writes what it parsed to the boat data ... *)
Parse ==
  /\ Alive /\ converter = "parse" /\ converter' = "send"
  /\ UNCHANGED <<mainVars, reader, datagram, queueVars, converted, countVars>>

(* ... and sends its messages. *)
Send ==
  /\ Alive /\ converter = "send" /\ converter' = "test"
  /\ converted' = Append(converted, Last(dequeued))
  /\ UNCHANGED <<mainVars, reader, datagram, queueVars, countVars>>

-----------------------------------------------------------------------------
Main == \/ Open \/ OpenFails \/ SendProductInformation
        \/ SubscribeHandler \/ StartThread \/ ClearBoatData
        \/ ConstructReader \/ Return

Convert == Take \/ Parse \/ Send

Next == Main \/ (\E d \in Datagrams : Receive(d)) \/ Dispatch \/ Convert

Spec == Init /\ [][Next]_vars

(* The reader finishes what it has received and the converter's thread     *)
(* keeps polling; no datagram has to arrive.                               *)
FairSpec == Spec /\ WF_vars(Dispatch) /\ WF_vars(Convert)

-----------------------------------------------------------------------------
TypeOK ==
  /\ main \in {"open", "announce", "subscribe", "start", "clear", "reader", "poll",
               "exited", "aborted"}
  /\ subscribed \in BOOLEAN /\ cleared \in BOOLEAN /\ open \in BOOLEAN
  /\ reader \in {"waiting", "dispatching"}
  /\ converter \in {"none", "test", "parse", "send"}
  /\ arrived \in Seq(Datagrams) /\ Len(arrived) <= MaxDatagrams
  /\ reader = "dispatching" => arrived # <<>> /\ datagram \in Datagrams
  /\ enqueued \in Seq([datagram : 1 .. MaxDatagrams, kind : {"good", "ignored"}])
  /\ dequeued \in Seq(Sentences) /\ converted \in Seq(Sentences)
  /\ parsed \in Nat /\ reported \in Nat

(* Nothing is converted into boat data that main() still clears: the       *)
(* converter's thread runs before the data is cleared, and only the order  *)
(* in which main() starts the reader keeps sentences from it.              *)
NothingBeforeClear == converter \in {"parse", "send"} => cleared

(* NMEA2000, which has no lock, is used by one thread at a time: main()    *)
(* has announced the node before the converter sends anything.             *)
OneBusUser == ~ (main = "announce" /\ converter = "send")

(* What the order of main()'s start-up guarantees, and the types. *)
OrderInv == TypeOK /\ NothingBeforeClear /\ OneBusUser

(* End to end the gateway is a queue: what is converted is, in the order   *)
(* of arrival and each once, the good sentences that were accepted.       *)
Good(s) ==
  LET upTo[n \in 0 .. Len(s)] ==
        IF n = 0 THEN <<>>
        ELSE IF s[n].kind = "good" THEN Append(upTo[n - 1], s[n]) ELSE upTo[n - 1]
  IN upTo[Len(s)]
Delivery == INSTANCE Fifo WITH Values <- Sentences, put <- Good(enqueued), got <- converted
EndToEndFifo == Delivery!Spec

(* A datagram that begins with a good sentence is eventually converted.   *)
FirstSentencesConverted ==
  \A n \in 1 .. MaxDatagrams :
    Len(arrived) >= n /\ Head(arrived[n]) = "good"
      ~> \E i \in 1 .. Len(converted) : converted[i].datagram = n

(* The gateway delivers: in order, and in the end. *)
SentencesConverted == EndToEndFifo /\ FirstSentencesConverted

(* p_size "returns the number of bytes processed"                          *)
(* (MessageHandlerInterface.h:68): no sentence is reported processed that  *)
(* was never parsed.                                                       *)
ReportedWasParsed == reported <= parsed

(* IThread is there "to ensure that the thread can be shutdown"            *)
(* (IThread.h:36): when main() returns no thread is left to end the        *)
(* program by std::terminate().                                            *)
ThreadsShutDown == main # "aborted"
=============================================================================
