----------------------------- MODULE MCSupport -----------------------------
(***************************************************************************)
(* The small classes the rest is built on: the sentence queue, the ring    *)
(* buffers, the handler lists, the port of NMEA 0183 sentences, the log    *)
(* and the scheduler of the heartbeats.  None of them uses another, so     *)
(* they are checked side by side: part says whose behaviour this is, and   *)
(* the others stay as they begin.                                          *)
(***************************************************************************)
EXTENDS SafeQueue

CONSTANTS
  RequestedSize, RequestedPriorities,
  Buses, Handlers, HandlerPGN, PGNs, MaxChanges, UserGroup, OwnGroup, None,
  Bodies, Messages, MaxLen, MsgOutBufSize, MaxRoom, MaxBytes,
  Main, Workers, Texts, MaxCalls, MaxInstances,
  DeviceCount, Default, DefaultOffset, MinInterval, MaxInterval,
  KeepCurrent, Restore, ShortKeep, Intervals, Offsets,
  MaxSequence, Disabled, MaxTime, MaxOdd

\* Two handlers of every message and two of PGN 5; of the group functions the
\* application has one for everything, one the library has too, one for 6.
MCHandlerPGN ==
  [h \in Handlers \cup UserGroup \cup {"own5", "own5b", "default"} |->
     CASE h \in {"a0", "b0", "u0", "default"} -> 0
       [] h = "u6" -> 6
       [] OTHER -> 5]
MCOwnGroup == <<"own5", "own5b", "default">>

\* Sentences of three lengths; messages of a few parts, one longer than the
\* ring, one with an empty field.
MCBodies == {<<"a">>, <<"a", "b", "b">>, <<"b", "a", "b", "b", "b">>}
MCMessages == {<<1, 3, 2>>, <<4, 0, 1>>}

\* Two log messages of the same length, and the beginning of one of them.
MCTexts == {<<"a">>, <<"a", "b">>, <<"b", "b">>}

VARIABLES
  part,
  rBuffer, rHead, rTail, rRef, rTaken,
  pBuffer, pRefs, pHead, pTail, pTaken,
  list, run, group,
  started, inBuf, star, wire, last, before, heard,
  outBuf, w, r, room, parts, given, line, accepted,
  s_pInstance, loggers, at, call, calls, file,
  now, open, SyncOffset, dev, beats, polled, madeIn, tame, odd

Ring == INSTANCE RingBuffer WITH
  Values <- {1, 2}, Nothing <- None,
  buffer <- rBuffer, head <- rHead, tail <- rTail, ref <- rRef, taken <- rTaken

PRing == INSTANCE PriorityRingBuffer WITH
  Values <- {1, 2}, Nothing <- None,
  buffer <- pBuffer, refs <- pRefs, head <- pHead, tail <- pTail, taken <- pTaken

Lists == INSTANCE HandlerLists

Port == INSTANCE NMEA0183Port

Log == INSTANCE EventLogger

Heart == INSTANCE Heartbeat

ASSUME SupportAssumption ==
  Ring!RingAssumption /\ PRing!PriorityRingAssumption /\ Lists!ListsAssumption
  /\ Log!LoggerAssumption /\ Port!PortAssumption /\ Heart!HeartbeatAssumption

SupportInit ==
  /\ part \in {"queue", "ring", "priority ring", "messages", "groups",
               "reading", "writing", "log", "heartbeat"}
  /\ Init /\ Ring!Init /\ PRing!Init /\ Lists!Init
  /\ Port!InitIn /\ Port!InitOut /\ Log!Init /\ Heart!Init
  \* the freedom of a part that is not looked at is not spread out
  /\ part # "ring" => rBuffer[0] = 1
  /\ part # "priority ring" => pBuffer[0].Value = 1
  /\ part # "writing" => room = 0

rVars == <<rBuffer, rHead, rTail, rRef, rTaken>>
pVars == <<pBuffer, pRefs, pHead, pTail, pTaken>>
listVars == <<list, run, group>>
inVars == <<started, inBuf, star, wire, last, before, heard>>
outVars == <<outBuf, w, r, room, parts, given, line, accepted>>
portVars == <<inVars, outVars>>
logVars == <<s_pInstance, loggers, at, call, calls, file>>
heartVars ==
  <<now, open, SyncOffset, dev, beats, polled, madeIn, tame, odd>>

SupportNext ==
  \/ /\ part = "queue" /\ Next
     /\ UNCHANGED <<part, rVars, pVars, listVars, portVars, logVars, heartVars>>
  \/ /\ part = "ring" /\ Ring!Next
     /\ UNCHANGED <<part, vars, pVars, listVars, portVars, logVars, heartVars>>
  \/ /\ part = "priority ring" /\ PRing!Next
     /\ UNCHANGED <<part, vars, rVars, listVars, portVars, logVars, heartVars>>
  \/ /\ part = "messages" /\ Lists!MsgNext
     /\ UNCHANGED <<part, vars, rVars, pVars, portVars, logVars, heartVars>>
  \/ /\ part = "groups" /\ Lists!GroupNext
     /\ UNCHANGED <<part, vars, rVars, pVars, portVars, logVars, heartVars>>
  \/ /\ part = "reading" /\ Port!InNext
     /\ UNCHANGED <<part, vars, rVars, pVars, listVars, outVars, logVars, heartVars>>
  \/ /\ part = "writing" /\ Port!OutNext
     /\ UNCHANGED <<part, vars, rVars, pVars, listVars, inVars, logVars, heartVars>>
  \/ /\ part = "log" /\ Log!Next
     /\ UNCHANGED <<part, vars, rVars, pVars, listVars, portVars, heartVars>>
  \/ /\ part = "heartbeat" /\ Heart!Next
     /\ UNCHANGED <<part, vars, rVars, pVars, listVars, portVars, logVars>>

SupportVars ==
  <<part, vars, rVars, pVars, listVars, portVars, logVars, heartVars>>

\* The fairness of SafeQueue, for the behaviours of the queue.
SupportSpec ==
  /\ SupportInit /\ [][SupportNext]_SupportVars
  /\ \A p \in Producers : WF_vars(part = "queue" /\ ProducerStep(p))
  /\ \A c \in Consumers : WF_vars(part = "queue" /\ ConsumerStep(c))

-----------------------------------------------------------------------------
\* tRingBuffer is a queue and tPriorityRingBuffer a queue for each priority,
\* the most urgent read first (IsQueue, IsPriorityQueue); a reference read
\* keeps its value until the next read (ReferenceKept), and every slot is
\* accounted for (SlotsAccounted).
RingsAreQueues ==
  /\ Ring!IsQueue /\ []Ring!ReferenceKept
  /\ PRing!IsPriorityQueue /\ []PRing!SlotsAccounted

\* RunMessageHandlers calls whom it should while the list changes, unless a
\* handler is detached inside its own call, and of the group function
\* handlers those with a PGN are asked before the default one.
HandlersServed == Lists!HandlersServed /\ Lists!SpecificAskedFirst

\* GetMessage finds the second of two whole sentences after any disturbance
\* (SecondIsHeard); SendBuf keeps the order of what it takes and sends nothing
\* of what it refuses (LineInOrder).
LinesPass == Port!SecondIsHeard /\ Port!LineInOrder

\* The log has one writer at a time, and no line twice in a row.
NoLineTwice == Log!NoLineTwice

\* Every period in which the program looks has one heartbeat.
EachPeriodBeats == Heart!EachPeriodBeats
=============================================================================
