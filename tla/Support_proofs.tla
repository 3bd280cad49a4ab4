--------------------------- MODULE Support_proofs ---------------------------
(***************************************************************************)
(* The small classes for any sizes.                                        *)
(*                                                                         *)
(* SafeQueue, for any number of producers, consumers and elements: the     *)
(* invariant is TypeOK /\ MutexInv /\ Conservation.  MutexInv makes each  *)
(* body under the lock atomic with respect to the others, which is what    *)
(* lets the pop of DequeueTake remove the element its test saw.            *)
(*                                                                         *)
(* EventLogger, for any number of threads, messages and calls (LogInv):    *)
(* main makes the logger before there is another thread, the lock has one  *)
(* owner, and what the owner will append is not the line that is last.     *)
(*                                                                         *)
(* NMEA0183Port, for any sentences that fit the buffer and any ring size:  *)
(* InInv follows a talk byte by byte (a whole sentence leaves no star      *)
(* behind), and OutInv says what the slots between the two positions hold. *)
(*                                                                         *)
(* RingBuffer, for any size: what lies between tail and head is a queue,   *)
(* and what a reference points to is the slot just before tail.            *)
(*                                                                         *)
(* HandlerLists, for any handlers, buses and PGNs: the links of each list  *)
(* lead through a sequence without repetition (MessagesOK, GroupsOK); that *)
(* of a bus is sorted by PGN and holds what the bus owns, and a run of     *)
(* RunMessageHandlers has called what stands before its place in it.       *)
(*                                                                         *)
(* Heartbeat, for any devices and settings (HeartOK): the next time of a   *)
(* device is the beginning of the slot after that of its last beat.        *)
(***************************************************************************)
EXTENDS MCSupport, SequenceTheorems, FiniteSetTheorems, WellFoundedInduction, TLAPS

(* The element at the head of t moves to the end of s. *)
LEMMA HeadMoves ==
  ASSUME NEW S, NEW s \in Seq(S), NEW t \in Seq(S), t # <<>>
  PROVE  /\ Append(s, Head(t)) \o Tail(t) = s \o t
         /\ Head(t) \in S
         /\ Tail(t) \in Seq(S)
         /\ Len(s) < Len(s \o t)
         /\ (s \o t)[Len(s) + 1] = Head(t)
OBVIOUS

(* Appending keeps what was there. *)
LEMMA AppendExtends ==
  ASSUME NEW S, NEW s \in Seq(S), NEW v \in S
  PROVE  /\ Append(s, v) \in Seq(S)
         /\ Len(Append(s, v)) = Len(s) + 1
         /\ SubSeq(Append(s, v), 1, Len(s)) = s
<1>1. /\ Append(s, v) \in Seq(S)
      /\ Len(Append(s, v)) = Len(s) + 1
  OBVIOUS
<1>2. SubSeq(Append(s, v), 1, Len(s)) = s
  OBVIOUS
<1> QED
  BY <1>1, <1>2

(* The initial state and every step keep the variables in their types. *)
THEOREM TypeCorrect == Spec => []TypeOK
<1>1. Init => TypeOK
  BY QueueAssumption DEF Init, TypeOK, Threads, Values
<1>2. TypeOK /\ [Next]_vars => TypeOK'
  <2> SUFFICES ASSUME TypeOK, [Next]_vars PROVE TypeOK'
    OBVIOUS
  <2> USE QueueAssumption DEF TypeOK, Threads, Values
  <2>1. ASSUME NEW p \in Producers, EnqueueLock(p) PROVE TypeOK'
    BY <2>1 DEF EnqueueLock, Acquire
  <2>2. ASSUME NEW p \in Producers, EnqueuePush(p) PROVE TypeOK'
    <3> DEFINE v == <<p, made[p] + 1>>
    <3>1. made[p] < MaxPuts
      BY <2>2 DEF EnqueuePush
    <3>2. v \in Values
      BY <3>1
    <3>3. CASE cw = {} /\ UNCHANGED cw /\ pc' = [pc EXCEPT ![p] = "unlock"]
      BY <2>2, <3>1, <3>2, <3>3 DEF EnqueuePush
    <3>4. ASSUME NEW c \in cw, cw' = cw \ {c},
                 pc' = [pc EXCEPT ![p] = "unlock", ![c] = "relock"]
          PROVE  TypeOK'
      <4>1. c \in Consumers /\ c # p /\ c \in Threads /\ p \in Threads
        <5>1. c \in {d \in Consumers : pc[d] = "waiting"}
          BY <3>4
        <5> QED
          BY <5>1
      <4>2. /\ q' \in Seq(Values) /\ put' \in Seq(Values) /\ got' = got /\ m' = m
            /\ made' \in [Producers -> 0 .. MaxPuts]
            /\ \A o \in Producers \ {p} : made'[o] = made[o]
        BY <2>2, <3>1, <3>2 DEF EnqueuePush
      <4>3. /\ pc' \in [Threads -> {"idle", "push", "unlock", "isEmpty", "dequeue",
                         "test", "waiting", "relock"}]
            /\ pc'[p] = "unlock" /\ pc'[c] = "relock"
            /\ \A t \in Threads \ {p, c} : pc'[t] = pc[t]
        BY <3>4, <4>1
      <4> QED
        <5>1. \A o \in Producers : /\ pc'[o] \in {"idle", "push", "unlock"}
                                   /\ pc'[o] = "push" => made'[o] < MaxPuts
          BY <4>1, <4>2, <4>3
        <5>2. \A d \in Consumers : pc'[d] \notin {"push", "unlock"}
          BY <4>1, <4>3
        <5>3. cw' = {d \in Consumers : pc'[d] = "waiting"}
          BY <3>4, <4>1, <4>3
        <5> QED
          BY <4>2, <4>3, <5>1, <5>2, <5>3
    <3> QED
      BY <2>2, <3>3, <3>4 DEF EnqueuePush
  <2>3. ASSUME NEW p \in Producers, EnqueueUnlock(p) PROVE TypeOK'
    BY <2>3 DEF EnqueueUnlock
  <2>4. ASSUME NEW c \in Consumers, ConsumerStep(c) PROVE TypeOK'
    <3>1. CASE IsEmptyLock(c)
      BY <3>1 DEF IsEmptyLock, Acquire
    <3>2. CASE IsEmptyReturn(c)
      BY <3>2 DEF IsEmptyReturn
    <3>3. CASE DequeueLock(c)
      BY <3>3 DEF DequeueLock, Acquire
    <3>4. CASE DequeueWait(c)
      BY <3>4 DEF DequeueWait
    <3>5. CASE WaitRelock(c)
      BY <3>5 DEF WaitRelock, Acquire
    <3>6. CASE DequeueTake(c)
      BY <3>6 DEF DequeueTake
    <3> QED
      BY <2>4, <3>1, <3>2, <3>3, <3>4, <3>5, <3>6 DEF ConsumerStep
  <2>5. ASSUME NEW c \in Consumers, SpuriousWakeup(c) PROVE TypeOK'
    BY <2>5 DEF SpuriousWakeup
  <2>6. CASE UNCHANGED vars
    BY <2>6 DEF vars
  <2> QED
    BY <2>1, <2>2, <2>3, <2>4, <2>5, <2>6 DEF Next, ProducerStep
<1> QED
  BY <1>1, <1>2, PTL DEF Spec

(* Only the owner of the mutex is between a lock and its unlock.           *)
THEOREM MutualExclusion == Spec => []MutexInv
<1>1. Init => MutexInv
  BY QueueAssumption DEF Init, MutexInv
<1>2. TypeOK /\ MutexInv /\ [Next]_vars => MutexInv'
  <2> SUFFICES ASSUME TypeOK, MutexInv, [Next]_vars PROVE MutexInv'
    OBVIOUS
  <2> USE QueueAssumption DEF MutexInv, Threads, TypeOK
  <2>1. ASSUME NEW p \in Producers, EnqueueLock(p) PROVE MutexInv'
    BY <2>1 DEF EnqueueLock, Acquire
  <2>2. ASSUME NEW p \in Producers, EnqueuePush(p) PROVE MutexInv'
    <3>1. CASE cw = {} /\ UNCHANGED cw /\ pc' = [pc EXCEPT ![p] = "unlock"]
      BY <2>2, <3>1 DEF EnqueuePush
    <3>2. ASSUME NEW c \in cw, pc' = [pc EXCEPT ![p] = "unlock", ![c] = "relock"]
          PROVE  MutexInv'
      <4>1. c \in {d \in Consumers : pc[d] = "waiting"}
        BY <3>2
      <4> QED
        BY <2>2, <3>2, <4>1 DEF EnqueuePush
    <3> QED
      BY <2>2, <3>1, <3>2 DEF EnqueuePush
  <2>3. ASSUME NEW p \in Producers, EnqueueUnlock(p) PROVE MutexInv'
    BY <2>3 DEF EnqueueUnlock
  <2>4. ASSUME NEW c \in Consumers, ConsumerStep(c) PROVE MutexInv'
    BY <2>4 DEF ConsumerStep, Acquire, IsEmptyLock, IsEmptyReturn, DequeueLock,
                DequeueWait, WaitRelock, DequeueTake
  <2>5. ASSUME NEW c \in Consumers, SpuriousWakeup(c) PROVE MutexInv'
    <3>1. c \in {d \in Consumers : pc[d] = "waiting"}
      BY <2>5 DEF SpuriousWakeup
    <3> QED
      BY <2>5, <3>1 DEF SpuriousWakeup
  <2>6. CASE UNCHANGED vars
    BY <2>6 DEF vars
  <2> QED
    BY <2>1, <2>2, <2>3, <2>4, <2>5, <2>6 DEF Next, ProducerStep
<1> QED
  BY <1>1, <1>2, TypeCorrect, PTL DEF Spec

-----------------------------------------------------------------------------
(* What each step does to the queue and its histories. *)
LEMMA QueueSteps ==
  ASSUME TypeOK, [Next]_vars
  PROVE  \/ UNCHANGED <<q, put, got>>
         \/ \E v \in Values : /\ q' = Append(q, v) /\ put' = Append(put, v)
                             /\ UNCHANGED got
         \/ /\ q # <<>> /\ q' = Tail(q)
            /\ got' = Append(got, Head(q)) /\ UNCHANGED put
<1>1. ASSUME NEW p \in Producers, EnqueuePush(p)
      PROVE  \E v \in Values : /\ q' = Append(q, v) /\ put' = Append(put, v)
                              /\ UNCHANGED got
  <2>1. <<p, made[p] + 1>> \in Values
    BY <1>1, QueueAssumption DEF EnqueuePush, TypeOK, Values
  <2> QED
    BY <1>1, <2>1 DEF EnqueuePush
<1>2. ASSUME NEW c \in Consumers, DequeueTake(c)
      PROVE  /\ q # <<>> /\ q' = Tail(q)
             /\ got' = Append(got, Head(q)) /\ UNCHANGED put
  BY <1>2 DEF DequeueTake
<1> QED
  BY <1>1, <1>2 DEF Next, vars, ProducerStep, ConsumerStep, Acquire, EnqueueLock,
     EnqueueUnlock, IsEmptyLock, IsEmptyReturn, DequeueLock, DequeueWait,
     WaitRelock, SpuriousWakeup

(* enqueue and dequeue neither lose, duplicate nor reorder an element.     *)
THEOREM NothingLost == Spec => []Conservation
<1>1. Init => Conservation
  BY DEF Init, Conservation
<1>2. TypeOK /\ Conservation /\ [Next]_vars => Conservation'
  <2> SUFFICES ASSUME TypeOK, Conservation, [Next]_vars PROVE Conservation'
    OBVIOUS
  <2>t. q \in Seq(Values) /\ got \in Seq(Values)
    BY DEF TypeOK
  <2>1. CASE UNCHANGED <<q, put, got>>
    BY <2>1 DEF Conservation
  <2>2. ASSUME NEW v \in Values, q' = Append(q, v), put' = Append(put, v), got' = got
        PROVE  Conservation'
    <3>1. Append(got \o q, v) = got \o Append(q, v)
      BY <2>t
    <3> QED
      BY <2>2, <3>1 DEF Conservation
  <2>3. CASE /\ q # <<>> /\ q' = Tail(q)
             /\ got' = Append(got, Head(q)) /\ UNCHANGED put
    <3>1. Append(got, Head(q)) \o Tail(q) = got \o q
      BY <2>t, <2>3, HeadMoves
    <3> QED
      BY <2>3, <3>1 DEF Conservation
  <2> QED
    BY <2>1, <2>2, <2>3, QueueSteps
<1> QED
  BY <1>1, <1>2, TypeCorrect, PTL DEF Spec

(* SafeQueue implements the abstract FIFO: every step puts, gets or        *)
(* leaves the histories alone.                                             *)
THEOREM ImplementsFifo == Spec => FifoQueue
<1>1. Init => Abstract!Init
  BY DEF Init, Abstract!Init
<1>2. TypeOK /\ Conservation /\ [Next]_vars => [Abstract!Next]_(Abstract!vars)
  <2> SUFFICES ASSUME TypeOK, Conservation, [Next]_vars
               PROVE  [Abstract!Next]_(Abstract!vars)
    OBVIOUS
  <2> USE DEF Abstract!Next, Abstract!vars
  <2>1. CASE UNCHANGED <<q, put, got>>
    BY <2>1
  <2>2. ASSUME NEW v \in Values, put' = Append(put, v), got' = got
        PROVE  Abstract!Put
    <3>1. put \in Seq(Values)
      BY DEF TypeOK
    <3> QED
      BY <2>2, <3>1, AppendExtends DEF Abstract!Put, Abstract!OneMorePut
  <2>3. CASE q # <<>> /\ got' = Append(got, Head(q)) /\ UNCHANGED put
    <3>1. Len(got) < Len(put) /\ put[Len(got) + 1] = Head(q)
      BY <2>3, HeadMoves DEF Conservation, TypeOK
    <3> QED
      BY <2>3, <3>1 DEF Abstract!Get
  <2> QED
    BY <2>1, <2>2, <2>3, QueueSteps
<1> QED
  BY <1>1, <1>2, TypeCorrect, NothingLost, PTL DEF Spec, FifoQueue, Abstract!Spec

-----------------------------------------------------------------------------
(* A lone consumer past isEmpty() knows the queue is not empty: only it    *)
(* takes elements out.                                                     *)
LoneConsumerSees ==
  \A c : Consumers = {c} =>
           /\ pc[c] \notin {"waiting", "relock"}
           /\ pc[c] \in {"dequeue", "test"} => q # <<>>

(* With one consumer, as in the gateway, dequeue() never blocks.           *)
THEOREM LoneConsumerNeverBlocks == Spec => []SoleConsumerNeverWaits
<1>1. Init => LoneConsumerSees
  BY DEF Init, LoneConsumerSees, Threads
<1>2. TypeOK /\ LoneConsumerSees /\ [Next]_vars => LoneConsumerSees'
  <2> SUFFICES ASSUME TypeOK, LoneConsumerSees, [Next]_vars,
                      NEW c, Consumers = {c}
               PROVE  /\ pc'[c] \notin {"waiting", "relock"}
                      /\ pc'[c] \in {"dequeue", "test"} => q' # <<>>
    BY DEF LoneConsumerSees
  <2>t. /\ q \in Seq(Values) /\ c \in Threads /\ c \notin Producers /\ cw = {}
        /\ pc \in [Threads -> {"idle", "push", "unlock", "isEmpty", "dequeue",
                               "test", "waiting", "relock"}]
    BY QueueAssumption DEF TypeOK, LoneConsumerSees, Threads
  <2>1. ASSUME NEW p \in Producers, EnqueueLock(p) \/ ProducerStep(p)
        PROVE  pc'[c] = pc[c] /\ (q # <<>> => q' # <<>>)
    BY <2>1, <2>t DEF EnqueueLock, Acquire, ProducerStep, EnqueuePush, EnqueueUnlock
  <2>2. ASSUME NEW d \in Consumers, SpuriousWakeup(d)
        PROVE  FALSE
    BY <2>2, <2>t DEF SpuriousWakeup
  <2>3. CASE IsEmptyReturn(c)
    BY <2>3, <2>t DEF IsEmptyReturn
  <2>4. CASE ConsumerStep(c) /\ ~IsEmptyReturn(c)
    BY <2>4, <2>t DEF ConsumerStep, Acquire, IsEmptyLock, DequeueLock, DequeueWait,
       WaitRelock, DequeueTake, LoneConsumerSees
  <2>5. CASE UNCHANGED vars
    BY <2>5 DEF vars, LoneConsumerSees
  <2> QED
    BY <2>1, <2>2, <2>3, <2>4, <2>5 DEF Next, LoneConsumerSees
<1>3. TypeOK /\ LoneConsumerSees => SoleConsumerNeverWaits
  <2> SUFFICES ASSUME TypeOK, LoneConsumerSees, Cardinality(Consumers) = 1
               PROVE  cw = {}
    BY DEF SoleConsumerNeverWaits
  <2>1. PICK c : Consumers = {c}
    BY FS_Singleton, QueueAssumption
  <2> QED
    BY <2>1 DEF TypeOK, LoneConsumerSees
<1> QED
  BY <1>1, <1>2, <1>3, TypeCorrect, PTL DEF Spec

(* How one consumer more, or one fewer, changes the count of the awake.    *)
LEMMA AwakeCount ==
  ASSUME NEW A, IsFiniteSet(A), NEW c
  PROVE  /\ Cardinality(A) \in Nat
         /\ IsFiniteSet(A \cup {c}) /\ IsFiniteSet(A \ {c})
         /\ c \notin A => Cardinality(A \cup {c}) = Cardinality(A) + 1
         /\ c \in A => Cardinality(A \ {c}) = Cardinality(A) - 1
BY FS_AddElement, FS_RemoveElement, FS_CardinalityType

(* notify_one on every push suffices: no element waits for a sleeper that  *)
(* nobody will wake.                                                       *)
THEOREM WakeupsSuffice == Spec => []NoLostWakeup
<1>1. Init => NoLostWakeup
  BY DEF Init, NoLostWakeup
<1>2. TypeOK /\ NoLostWakeup /\ [Next]_vars => NoLostWakeup'
  <2> SUFFICES ASSUME TypeOK, NoLostWakeup, [Next]_vars, cw' # {}
               PROVE  Len(q') <= Cardinality(Awake')
    BY DEF NoLostWakeup
  <2>t. /\ q \in Seq(Values)
        /\ pc \in [Threads -> {"idle", "push", "unlock", "isEmpty", "dequeue",
                               "test", "waiting", "relock"}]
        /\ \A c \in cw : c \in Consumers /\ pc[c] = "waiting"
        /\ Producers \cap Consumers = {}
    BY QueueAssumption DEF TypeOK
  <2>f. IsFiniteSet(Awake) /\ Cardinality(Awake) \in Nat /\ Len(q) \in Nat
    BY <2>t, QueueAssumption, FS_Subset, FS_CardinalityType DEF Awake
  <2>1. ASSUME NEW p \in Producers, EnqueuePush(p)
        PROVE  Len(q') <= Cardinality(Awake')
    <3>1. PICK c \in cw : /\ cw' = cw \ {c}
                          /\ pc' = [pc EXCEPT ![p] = "unlock", ![c] = "relock"]
      BY <2>1 DEF EnqueuePush
    <3>2. Len(q') = Len(q) + 1
      BY <2>1, <2>t DEF EnqueuePush
    <3>3. c \notin Awake /\ Awake' = Awake \cup {c}
      <4>1. c \in Consumers /\ p \notin Consumers /\ c # p /\ pc[c] = "waiting"
        BY <2>t
      <4>2. \A d \in Consumers : pc'[d] = IF d = c THEN "relock" ELSE pc[d]
        BY <3>1, <4>1, <2>t DEF Threads
      <4> QED
        BY <4>1, <4>2 DEF Awake
    <3>4. Cardinality(Awake') = Cardinality(Awake) + 1
      BY <3>3, <2>f, AwakeCount
    <3> QED
      BY <3>1, <3>2, <3>4, <2>f DEF NoLostWakeup
  <2>2. ASSUME NEW c \in Consumers, SpuriousWakeup(c)
        PROVE  Len(q') <= Cardinality(Awake')
    <3>1. c \in cw /\ c \notin Awake /\ Awake' = Awake \cup {c} /\ q' = q
      BY <2>2, <2>t DEF Awake, Threads, SpuriousWakeup
    <3>2. Cardinality(Awake') = Cardinality(Awake) + 1
      BY <3>1, <2>f, AwakeCount
    <3> QED
      BY <3>1, <3>2, <2>f DEF NoLostWakeup
  <2>3. ASSUME NEW c \in Consumers, DequeueTake(c)
        PROVE  Len(q') <= Cardinality(Awake')
    <3>1. c \in Awake /\ Awake' = Awake \ {c} /\ cw' = cw
      BY <2>3, <2>t DEF Awake, Threads, DequeueTake
    <3>2. Cardinality(Awake') = Cardinality(Awake) - 1
      BY <3>1, <2>f, AwakeCount
    <3>3. Len(q') = Len(q) - 1
      BY <2>3, <2>t DEF DequeueTake
    <3> QED
      BY <3>1, <3>2, <3>3, <2>f DEF NoLostWakeup
  <2>4. ASSUME NEW c \in Consumers, DequeueWait(c)
        PROVE  Len(q') <= Cardinality(Awake')
    <3>1. Awake' = Awake \ {c} /\ Len(q') = 0
      BY <2>4, <2>t DEF Awake, Threads, DequeueWait
    <3>2. Cardinality(Awake') \in Nat
      BY <3>1, <2>f, AwakeCount, FS_CardinalityType
    <3> QED
      BY <3>1, <3>2
  <2>5. ASSUME NEW c \in Consumers, IsEmptyReturn(c)
        PROVE  Len(q') <= Cardinality(Awake')
    <3>1. /\ q' = q /\ cw' = cw /\ c \notin Awake
          /\ Awake' = Awake \/ Awake' = Awake \cup {c}
      <4>1. pc[c] = "isEmpty" /\ pc'[c] \in {"idle", "dequeue"}
        BY <2>5, <2>t DEF Threads, IsEmptyReturn
      <4>2. \A d \in Consumers \ {c} : pc'[d] = pc[d]
        BY <2>5, <2>t DEF Threads, IsEmptyReturn
      <4>3. c \notin Awake
        BY <4>1 DEF Awake
      <4>4. CASE pc'[c] = "idle"
        BY <4>1, <4>2, <4>4, <2>5 DEF Awake, IsEmptyReturn
      <4>5. CASE pc'[c] = "dequeue"
        BY <4>1, <4>2, <4>5, <2>5 DEF Awake, IsEmptyReturn
      <4> QED
        BY <2>5, <4>1, <4>3, <4>4, <4>5 DEF IsEmptyReturn
    <3>2. Cardinality(Awake) <= Cardinality(Awake') /\ Cardinality(Awake') \in Nat
      BY <3>1, <2>f, AwakeCount, FS_CardinalityType
    <3> QED
      BY <3>1, <3>2, <2>f DEF NoLostWakeup
  <2>6. ASSUME q' = q, cw' = cw, Awake' = Awake
        PROVE  Len(q') <= Cardinality(Awake')
    BY <2>6 DEF NoLostWakeup
  <2>7. ASSUME NEW p \in Producers, EnqueueLock(p) \/ EnqueueUnlock(p)
        PROVE  q' = q /\ cw' = cw /\ Awake' = Awake
    BY <2>7, <2>t DEF EnqueueLock, EnqueueUnlock, Acquire, Awake, Threads
  <2>8. ASSUME NEW c \in Consumers, IsEmptyLock(c) \/ DequeueLock(c) \/ WaitRelock(c)
        PROVE  q' = q /\ cw' = cw /\ Awake' = Awake
    BY <2>8, <2>t DEF IsEmptyLock, DequeueLock, WaitRelock, Acquire, Awake, Threads
  <2>9. CASE UNCHANGED vars
    BY <2>9, <2>6 DEF vars, Awake
  <2> QED
    BY <2>1, <2>2, <2>3, <2>4, <2>5, <2>6, <2>7, <2>8, <2>9
       DEF Next, ProducerStep, ConsumerStep
<1> QED
  BY <1>1, <1>2, TypeCorrect, PTL DEF Spec

(* All of it together: what the queue keeps whatever its threads do.       *)
THEOREM QueueKept == Spec => []QueueInv
<1>1. TypeOK /\ MutexInv /\ Conservation /\ NoLostWakeup => QueueInv
  BY DEF QueueInv
<1> QED
  BY <1>1, TypeCorrect, MutualExclusion, NothingLost, WakeupsSuffice, PTL

-----------------------------------------------------------------------------
(* The log.  Only main runs until the first logger exists, so there is one *)
(* logger; its lock has one holder, and what that thread is about to       *)
(* append is not the last line.                                            *)

LogPlaces == {"get", "create", "got", "compare", "append", "unlock", "idle", "not started"}
UnderLock == {"compare", "append", "unlock"}
Lines == Texts \cup {Log!Gap}
Loggers == [lenLast : {Len(x) : x \in Lines}, lastMessage : Lines,
            m_lock : Log!Threads \cup {None}, debug : BOOLEAN]
LogCalls == [kind : {"none", "level", "event", "error", "debug", "level asked"},
             text : Lines, logger : Nat \cup {None}]

LogTypeOK ==
  /\ at \in [Log!Threads -> LogPlaces] /\ call \in [Log!Threads -> LogCalls]
  /\ loggers \in Seq(Loggers) /\ Len(loggers) \in {0, 1}
  /\ file \in Seq(Lines)

(* Before the first logger only main has begun, on its first call. *)
OneLogger ==
  IF loggers = <<>>
  THEN /\ s_pInstance = None /\ file = <<>>
       /\ at[Main] \in {"get", "create"} /\ \A t \in Workers : at[t] = "not started"
  ELSE /\ s_pInstance = 1
       /\ \A t \in Log!Threads :
            at[t] # "create" /\ (at[t] \in UnderLock \cup {"got"} => call[t].logger = 1)

AllStarted ==
  \/ \A t \in Workers : at[t] = "not started"
  \/ \A t \in Workers : at[t] # "not started"

LockHeld ==
  loggers # <<>> =>
    \A t \in Log!Threads : at[t] \in UnderLock <=> loggers[1].m_lock = t

(* The last line is the last message, unless the file could not be opened, *)
(* or unless that message is about to be written.                          *)
LastLine ==
  loggers # <<>> =>
    LET said == loggers[1].lastMessage IN
    /\ loggers[1].lenLast = Len(said)
    /\ \A t \in Log!Threads : at[t] = "append" =>
         /\ call[t].text = said
         /\ file # <<>> => file[Len(file)] = Log!Gap \/ file[Len(file)] # said
    /\ (\A t \in Log!Threads : at[t] # "append") /\ file # <<>> =>
         file[Len(file)] \in {Log!Gap, said}

NoRepeat == \A k \in 2 .. Len(file) : file[k] # file[k - 1] \/ file[k] = Log!Gap

LogInv ==
  LogTypeOK /\ OneLogger /\ AllStarted /\ LockHeld /\ LastLine /\ NoRepeat

LEMMA LogConstants ==
  Main \in Log!Threads /\ Main \notin Workers /\ None \notin Log!Threads /\ None \notin Nat
  /\ Workers \subseteq Log!Threads /\ \A t \in Log!Threads : t = Main \/ t \in Workers
  BY SupportAssumption DEF Log!LoggerAssumption, Log!Threads

LEMMA OnlyOne ==
  ASSUME NEW S, NEW s \in Seq(S), Len(s) \in {0, 1}, s # <<>>
  PROVE  Len(s) = 1 /\ s[1] \in S
  OBVIOUS

(* A thread that has gone on to its logger has found the one there is.     *)
LEMMA LoggerThere ==
  ASSUME LogInv, NEW t \in Log!Threads, at[t] \in UnderLock \cup {"got", "idle"}
  PROVE  /\ loggers # <<>> /\ Len(loggers) = 1 /\ loggers[1] \in Loggers
         /\ at[t] # "idle" => call[t].logger = 1
<1>1. loggers # <<>>
  <2> SUFFICES ASSUME loggers = <<>> PROVE FALSE
    OBVIOUS
  <2>1. at[Main] \in {"get", "create"} /\ \A o \in Workers : at[o] = "not started"
    BY DEF LogInv, OneLogger
  <2>2. at[t] \in {"get", "create", "not started"}
    BY <2>1, LogConstants
  <2> QED
    BY <2>2 DEF UnderLock
<1>2. Len(loggers) = 1 /\ loggers[1] \in Loggers
  <2>1. loggers \in Seq(Loggers) /\ Len(loggers) \in {0, 1}
    BY DEF LogInv, LogTypeOK
  <2> QED
    BY <1>1, <2>1, OnlyOne
<1> QED
  BY <1>1, <1>2 DEF LogInv, OneLogger

LEMMA OneChanged ==
  ASSUME NEW s \in Seq(Loggers), Len(s) = 1, NEW x \in Loggers,
         NEW z, z = [s EXCEPT ![1] = x]
  PROVE  z \in Seq(Loggers) /\ Len(z) = 1 /\ z # <<>> /\ z[1] = x
  OBVIOUS

LEMMA LastAppended ==
  ASSUME NEW s \in Seq(Lines), NEW x \in Lines, NEW z, z = Append(s, x)
  PROVE  /\ z \in Seq(Lines) /\ z # <<>> /\ z[Len(z)] = x /\ Len(z) = Len(s) + 1
         /\ \A k \in 1 .. Len(s) : z[k] = s[k]
  OBVIOUS

(* A step between two calls, or before one: nothing that is under the lock *)
(* changes, and neither does who is.                                       *)
LEMMA Aside ==
  ASSUME LogInv, LogTypeOK', UNCHANGED <<s_pInstance, file>>,
         loggers # <<>>, loggers' # <<>>,
         loggers'[1].m_lock = loggers[1].m_lock,
         loggers'[1].lenLast = loggers[1].lenLast,
         loggers'[1].lastMessage = loggers[1].lastMessage,
         NEW t \in Log!Threads, at[t] \notin UnderLock, at'[t] \notin UnderLock,
         at[t] # "not started", at'[t] \notin {"create", "not started"},
         at'[t] = "got" => call'[t].logger = 1,
         \A u \in Log!Threads : u # t => at'[u] = at[u] /\ call'[u] = call[u]
  PROVE  LogInv'
<1>1. OneLogger'
  BY DEF LogInv, OneLogger
<1>2. AllStarted'
  BY DEF LogInv, AllStarted, Log!Threads
<1>3. LockHeld'
  BY DEF LogInv, LockHeld
<1>4. \A u \in Log!Threads : at'[u] = "append" <=> at[u] = "append"
  BY DEF UnderLock
<1>5. \A u \in Log!Threads : at'[u] = "append" => call'[u] = call[u]
  BY DEF UnderLock
<1>6. LastLine'
  BY <1>4, <1>5 DEF LogInv, LastLine
<1>7. NoRepeat'
  BY DEF LogInv, NoRepeat
<1> QED
  BY <1>1, <1>2, <1>3, <1>6, <1>7 DEF LogInv

(* m_lastMessage is set to what differs from it, by the thread that holds  *)
(* the lock: what it will append is not the last line.                     *)
LEMMA Compared ==
  ASSUME LogInv, LogTypeOK', NEW t \in Log!Threads, Log!Compare(t)
  PROVE  LogInv'
<1> DEFINE said == loggers[1].lastMessage
           text == call[t].text
<1>1. at[t] = "compare" /\ UNCHANGED <<s_pInstance, call, file>>
  BY DEF Log!Compare
<1>2. /\ loggers # <<>> /\ Len(loggers) = 1 /\ loggers[1] \in Loggers
      /\ call[t].logger = 1
  BY <1>1, LoggerThere DEF UnderLock
<1>3. at' = [at EXCEPT ![t] = IF Log!Differs(loggers[1], text) THEN "append" ELSE "unlock"]
  BY <1>2 DEF Log!Compare
<1>4. loggers' = IF Log!Differs(loggers[1], text)
                 THEN [loggers EXCEPT ![1].lastMessage = text, ![1].lenLast = Len(text)]
                 ELSE loggers
  BY <1>2 DEF Log!Compare
<1>5. /\ loggers' # <<>>
      /\ loggers'[1].m_lock = loggers[1].m_lock
      /\ IF Log!Differs(loggers[1], text)
         THEN loggers'[1].lastMessage = text /\ loggers'[1].lenLast = Len(text)
         ELSE loggers'[1] = loggers[1]
  <2>1. loggers \in Seq(Loggers)
    BY DEF LogInv, LogTypeOK
  <2> QED
    BY <1>2, <1>4, <2>1 DEF Loggers
<1>6. /\ at \in [Log!Threads -> LogPlaces]
      /\ \A o \in Log!Threads : o # t => at'[o] = at[o]
      /\ at'[t] = IF Log!Differs(loggers[1], text) THEN "append" ELSE "unlock"
  BY <1>3 DEF LogInv, LogTypeOK
<1>7. loggers[1].lenLast = Len(said)
  BY <1>2 DEF LogInv, LastLine
<1>8. \A o \in Log!Threads : o # t => at[o] \notin UnderLock
  BY <1>1, <1>2 DEF LogInv, LockHeld, UnderLock
<1>9. OneLogger'
  BY <1>1, <1>2, <1>5, <1>6 DEF LogInv, OneLogger, UnderLock
<1>10. AllStarted'
  BY <1>1, <1>6 DEF LogInv, AllStarted, Log!Threads
<1>11. LockHeld'
  BY <1>1, <1>2, <1>5, <1>6 DEF LogInv, LockHeld, UnderLock
<1>12. file # <<>> => file[Len(file)] \in {Log!Gap, said}
  BY <1>1, <1>2, <1>8 DEF LogInv, LastLine, UnderLock
<1>13. LastLine'
  <2>1. CASE Log!Differs(loggers[1], text)
    <3>1. text # said
      BY <1>7, <2>1 DEF Log!Differs
    <3>2. at'[t] = "append" /\ \A o \in Log!Threads : o # t => at'[o] # "append"
      BY <2>1, <1>6, <1>8 DEF UnderLock
    <3> QED
      BY <1>1, <1>5, <1>12, <2>1, <3>1, <3>2 DEF LastLine
  <2>2. CASE ~Log!Differs(loggers[1], text)
    <3>1. \A o \in Log!Threads : at'[o] # "append"
      BY <2>2, <1>6, <1>8 DEF UnderLock
    <3> QED
      BY <1>1, <1>5, <1>7, <1>12, <2>2, <3>1 DEF LastLine
  <2> QED
    BY <2>1, <2>2
<1>14. NoRepeat'
  BY <1>1 DEF LogInv, NoRepeat
<1> QED
  BY <1>9, <1>10, <1>11, <1>13, <1>14 DEF LogInv

(* The line appended is the last message, or lost. *)
LEMMA Written ==
  ASSUME LogInv, LogTypeOK', NEW t \in Log!Threads, NEW opened, Log!Write(t, opened)
  PROVE  LogInv'
<1> DEFINE said == loggers[1].lastMessage
<1>1. at[t] = "append" /\ UNCHANGED <<s_pInstance, call, loggers>>
  BY DEF Log!Write
<1>2. /\ loggers # <<>> /\ Len(loggers) = 1 /\ loggers[1] \in Loggers
      /\ call[t].logger = 1
  BY <1>1, LoggerThere DEF UnderLock
<1>3. /\ at \in [Log!Threads -> LogPlaces]
      /\ \A o \in Log!Threads : o # t => at'[o] = at[o]
      /\ at'[t] = "unlock"
  BY DEF LogInv, LogTypeOK, Log!Write
<1>4. \A o \in Log!Threads : o # t => at[o] \notin UnderLock
  BY <1>1, <1>2 DEF LogInv, LockHeld, UnderLock
<1>5. /\ call[t].text = said
      /\ file # <<>> => file[Len(file)] = Log!Gap \/ file[Len(file)] # said
  BY <1>1, <1>2 DEF LogInv, LastLine
<1>6. PICK x : x = IF opened THEN call[t].text ELSE Log!Gap
  OBVIOUS
<1>7. x \in Lines /\ x \in {Log!Gap, said} /\ file \in Seq(Lines)
  <2>1. said \in Lines
    BY <1>2 DEF Loggers
  <2> QED
    BY <1>5, <1>6, <2>1 DEF LogInv, LogTypeOK, Lines
<1>8. file' = Append(file, x)
  BY <1>6 DEF Log!Write
<1>9. /\ file' # <<>> /\ file'[Len(file')] = x /\ Len(file') = Len(file) + 1
      /\ \A k \in 1 .. Len(file) : file'[k] = file[k]
  BY <1>7, <1>8, LastAppended
<1>10. OneLogger'
  BY <1>1, <1>2, <1>3 DEF LogInv, OneLogger, UnderLock
<1>11. AllStarted'
  BY <1>1, <1>3 DEF LogInv, AllStarted, Log!Threads
<1>12. LockHeld'
  BY <1>1, <1>2, <1>3 DEF LogInv, LockHeld, UnderLock
<1>13. LastLine'
  <2>1. \A o \in Log!Threads : at'[o] # "append"
    BY <1>3, <1>4 DEF UnderLock
  <2>2. loggers[1].lenLast = Len(said)
    BY <1>2 DEF LogInv, LastLine
  <2> QED
    BY <1>1, <1>7, <1>9, <2>1, <2>2 DEF LastLine
<1>14. NoRepeat'
  <2> SUFFICES ASSUME NEW k \in 2 .. Len(file) + 1
               PROVE  file'[k] # file'[k - 1] \/ file'[k] = Log!Gap
    BY <1>9 DEF NoRepeat
  <2>0. Len(file) \in Nat
    BY <1>7
  <2>1. CASE k <= Len(file)
    <3>1. file'[k] = file[k] /\ file'[k - 1] = file[k - 1]
      BY <1>9, <2>0, <2>1
    <3> QED
      BY <2>0, <2>1, <3>1 DEF LogInv, NoRepeat
  <2>2. CASE k = Len(file) + 1
    <3>1. file # <<>> /\ k - 1 = Len(file)
      BY <1>7, <2>0, <2>2
    <3>2. file'[k] = x /\ file'[k - 1] = file[Len(file)]
      BY <1>9, <2>0, <2>2, <3>1
    <3> QED
      BY <1>5, <1>7, <3>1, <3>2
  <2> QED
    BY <2>0, <2>1, <2>2
<1> QED
  BY <1>10, <1>11, <1>12, <1>13, <1>14 DEF LogInv

(* The lock is taken and given back while nothing is being appended. *)
LEMMA LockTurned ==
  ASSUME LogInv, LogTypeOK', NEW t \in Log!Threads,
         loggers # <<>>, loggers' # <<>>, UNCHANGED <<s_pInstance, file>>,
         loggers'[1].lenLast = loggers[1].lenLast,
         loggers'[1].lastMessage = loggers[1].lastMessage,
         loggers[1].m_lock \in {None, t}, at[t] \notin {"append", "not started"},
         \/ loggers'[1].m_lock = t /\ at'[t] = "compare" /\ call'[t].logger = 1
         \/ loggers'[1].m_lock = None /\ at'[t] \in {"get", "idle"},
         \A o \in Log!Threads : o # t => at'[o] = at[o] /\ call'[o] = call[o]
  PROVE  LogInv'
<1>1. None # t
  BY LogConstants
<1>2. \A o \in Log!Threads : o # t => at[o] \notin UnderLock
  BY ZenonT(60), LogConstants DEF LogInv, LockHeld
<1>3. OneLogger'
  BY DEF LogInv, OneLogger, UnderLock
<1>4. AllStarted'
  BY DEF LogInv, AllStarted, Log!Threads
<1>5. LockHeld'
  <2>1. \A o \in Log!Threads : o # t => at'[o] \notin UnderLock /\ None # o
    BY <1>2, LogConstants
  <2> QED
    BY <1>1, <2>1 DEF LockHeld, UnderLock
<1>6. \A o \in Log!Threads : at'[o] # "append" /\ at[o] # "append"
  BY <1>2 DEF UnderLock
<1>7. LastLine'
  BY <1>6 DEF LogInv, LastLine
<1>8. NoRepeat'
  BY DEF LogInv, NoRepeat
<1> QED
  BY <1>3, <1>4, <1>5, <1>7, <1>8 DEF LogInv

LEMMA FirstOne ==
  ASSUME NEW x \in Loggers, NEW z, z = Append(<<>>, x)
  PROVE  z \in Seq(Loggers) /\ Len(z) = 1 /\ z # <<>> /\ z[1] = x
  OBVIOUS

LEMMA LogStarts == Log!Init => LogInv
<1> SUFFICES ASSUME Log!Init PROVE LogInv
  OBVIOUS
<1> USE LogConstants
<1>1. LogTypeOK
  <2>1. at \in [Log!Threads -> LogPlaces]
    BY DEF Log!Init, LogPlaces
  <2>2. Log!NoCall \in LogCalls /\ [Log!NoCall EXCEPT !.kind = "level"] \in LogCalls
    BY DEF LogCalls, Log!NoCall, Log!Gap, Lines
  <2>3. call \in [Log!Threads -> LogCalls]
    BY <2>2 DEF Log!Init
  <2>4. /\ loggers \in Seq(Loggers) /\ Len(loggers) \in {0, 1}
        /\ file \in Seq(Lines)
    <3>1. loggers = <<>> /\ file = <<>>
      BY DEF Log!Init
    <3>2. Len(loggers) = 0
      BY <3>1
    <3> QED
      BY <3>1, <3>2, EmptySeq
  <2> QED
    BY <2>1, <2>3, <2>4 DEF LogTypeOK
<1>2. OneLogger /\ AllStarted
  BY DEF Log!Init, OneLogger, AllStarted
<1>3. LockHeld /\ LastLine
  BY DEF Log!Init, LockHeld, LastLine
<1>4. NoRepeat
  <2>1. Len(file) = 0
    BY DEF Log!Init
  <2> QED
    BY <2>1 DEF NoRepeat
<1> QED
  BY <1>1, <1>2, <1>3, <1>4 DEF LogInv

(* Before there is a logger only main steps, and it makes the first. *)
LEMMA FirstLogger ==
  ASSUME LogInv, NEW t \in Log!Threads,
         Log!Missing(t) \/ Log!Create(t)
  PROVE  LogInv'
<1> USE LogConstants
<1>1. at[t] \in {"get", "create"} /\ (at[t] = "get" => s_pInstance = None)
  BY DEF Log!Missing, Log!Create
<1>2. loggers = <<>>
  <2> SUFFICES ASSUME loggers # <<>> PROVE FALSE
    OBVIOUS
  <2>1. s_pInstance = 1 /\ at[t] # "create"
    BY DEF LogInv, OneLogger
  <2>2. s_pInstance # None
    BY <2>1
  <2> QED
    BY <1>1, <2>1, <2>2
<1>3. /\ t = Main /\ file = <<>> /\ s_pInstance = None
      /\ \A o \in Workers : at[o] = "not started"
  BY <1>1, <1>2 DEF LogInv, OneLogger
<1>4. /\ at \in [Log!Threads -> LogPlaces] /\ call \in [Log!Threads -> LogCalls]
      /\ file \in Seq(Lines)
  BY DEF LogInv, LogTypeOK
<1>5. CASE Log!Missing(t)
  <2>1. /\ at' = [at EXCEPT ![Main] = "create"]
        /\ UNCHANGED <<s_pInstance, loggers, call, file>>
    BY <1>3, <1>5 DEF Log!Missing
  <2>2. at'[Main] = "create" /\ \A o \in Workers : at'[o] = "not started"
    BY <1>3, <1>4, <2>1
  <2>3. LogTypeOK'
    BY <1>4, <2>1 DEF LogInv, LogTypeOK, LogPlaces
  <2>4. OneLogger' /\ AllStarted'
    BY <1>2, <1>3, <2>1, <2>2 DEF OneLogger, AllStarted
  <2>5. LockHeld' /\ LastLine'
    BY <1>2, <2>1 DEF LockHeld, LastLine
  <2>6. NoRepeat'
    BY <2>1 DEF LogInv, NoRepeat
  <2> QED
    BY <2>3, <2>4, <2>5, <2>6 DEF LogInv
<1>6. CASE Log!Create(t)
  <2>0. Log!NewLogger \in Loggers /\ Log!NewLogger.m_lock = None
        /\ Log!NewLogger.lenLast = Len(Log!NewLogger.lastMessage)
    BY DEF Log!NewLogger, Loggers, Lines, Log!Gap
  <2>1. loggers' = Append(<<>>, Log!NewLogger) /\ s_pInstance' = Len(loggers')
        /\ file' = file
    BY <1>2, <1>6 DEF Log!Create
  <2>2. /\ loggers' \in Seq(Loggers) /\ Len(loggers') = 1 /\ loggers' # <<>>
        /\ loggers'[1] = Log!NewLogger
    BY <2>0, <2>1, FirstOne
  <2>3. /\ call' = [call EXCEPT ![Main].logger = 1]
        /\ at' = [at EXCEPT ![Main] = "got"]
    BY <1>3, <1>6, <2>1, <2>2 DEF Log!Create
  <2>4. /\ at'[Main] = "got" /\ call'[Main].logger = 1
        /\ \A o \in Workers : at'[o] = "not started"
    BY <1>3, <1>4, <2>3 DEF LogCalls
  <2>5. call' \in [Log!Threads -> LogCalls]
    BY <1>4, <2>3 DEF LogCalls
  <2>6. LogTypeOK'
    BY <1>4, <2>1, <2>2, <2>3, <2>5 DEF LogTypeOK, LogPlaces
  <2>7. \A o \in Log!Threads : at'[o] \in {"got", "not started"} /\ o # None
    BY <2>4
  <2>8. OneLogger' /\ AllStarted'
    BY <2>1, <2>2, <2>4, <2>7 DEF OneLogger, AllStarted, UnderLock
  <2>9. LockHeld' /\ LastLine'
    BY <1>3, <2>0, <2>1, <2>2, <2>7 DEF LockHeld, LastLine, UnderLock
  <2>10. NoRepeat'
    BY <2>1 DEF LogInv, NoRepeat
  <2> QED
    BY <2>6, <2>8, <2>9, <2>10 DEF LogInv
<1> QED
  BY <1>5, <1>6

(* A thread finds its logger, looks at the level or goes on to a call. *)
LEMMA Besides ==
  ASSUME LogInv, NEW t \in Log!Threads,
         \/ Log!Found(t) \/ Log!Quiet(t) \/ Log!Printed(t)
         \/ \E kind \in {"event", "error", "debug"}, text \in Texts :
              Log!Call(t, kind, text)
  PROVE  LogInv'
<1> USE LogConstants
<1>1. /\ at \in [Log!Threads -> LogPlaces] /\ call \in [Log!Threads -> LogCalls]
      /\ file \in Seq(Lines) /\ loggers \in Seq(Loggers) /\ Len(loggers) \in {0, 1}
  BY DEF LogInv, LogTypeOK
<1>2. UNCHANGED <<s_pInstance, file, loggers>>
  BY DEF Log!Found, Log!Quiet, Log!Printed, Log!Call
<1>3. at[t] \in {"get", "got", "idle"} /\ (at[t] = "get" => s_pInstance # None)
  BY DEF Log!Found, Log!Quiet, Log!Printed, Log!Call
<1>4. loggers # <<>> /\ s_pInstance = 1
  <2>1. CASE at[t] = "get"
    BY <1>3, <2>1 DEF LogInv, OneLogger
  <2>2. CASE at[t] \in {"got", "idle"}
    BY <2>2, LoggerThere DEF LogInv, OneLogger
  <2> QED
    BY <1>3, <2>1, <2>2
<1>5. /\ at' \in [Log!Threads -> LogPlaces] /\ call' \in [Log!Threads -> LogCalls]
      /\ at'[t] \in {"get", "got", "idle"} /\ (at'[t] = "got" => call'[t].logger = 1)
      /\ \A o \in Log!Threads : o # t => at'[o] = at[o] /\ call'[o] = call[o]
  <2>1. CASE Log!Found(t)
    <3>1. call' = [call EXCEPT ![t].logger = 1] /\ at' = [at EXCEPT ![t] = "got"]
      BY <1>4, <2>1 DEF Log!Found
    <3> QED
      BY ZenonT(60), <1>1, <3>1 DEF LogCalls, LogPlaces
  <2>2. CASE Log!Quiet(t) \/ Log!Printed(t)
    <3>1. call' = [call EXCEPT ![t] = Log!NoCall] /\ at' = [at EXCEPT ![t] = "idle"]
      BY <2>2 DEF Log!Quiet, Log!Printed
    <3>2. Log!NoCall \in LogCalls
      BY DEF Log!NoCall, LogCalls, Lines, Log!Gap
    <3> QED
      BY <1>1, <3>1, <3>2 DEF LogPlaces
  <2>3. CASE \E kind \in {"event", "error", "debug"}, text \in Texts :
               Log!Call(t, kind, text)
    <3>1. PICK kind \in {"event", "error", "debug"}, text \in Texts :
            Log!Call(t, kind, text)
      BY <2>3
    <3>2. PICK c : c = [kind |-> kind, text |-> text, logger |-> None]
      OBVIOUS
    <3>3. c \in LogCalls
      BY <3>2 DEF LogCalls, Lines
    <3>4. call' = [call EXCEPT ![t] = c] /\ at' = [at EXCEPT ![t] = "get"]
      BY <3>1, <3>2 DEF Log!Call
    <3> QED
      BY <1>1, <3>3, <3>4 DEF LogPlaces
  <2> QED
    BY <2>1, <2>2, <2>3
<1>6. LogTypeOK'
  BY <1>1, <1>2, <1>5 DEF LogTypeOK
<1>7. at[t] \notin UnderLock /\ at'[t] \notin UnderLock
      /\ at[t] # "not started" /\ at'[t] \notin {"create", "not started"}
  BY <1>3, <1>5 DEF UnderLock
<1> QED
  BY <1>2, <1>4, <1>5, <1>6, <1>7, Aside

(* main sets the level, which is under no lock. *)
LEMMA LevelSet ==
  ASSUME LogInv, NEW t \in Log!Threads, NEW debug \in BOOLEAN, Log!SetLogLevel(t, debug)
  PROVE  LogInv'
<1> USE LogConstants
<1>1. /\ at \in [Log!Threads -> LogPlaces] /\ call \in [Log!Threads -> LogCalls]
      /\ file \in Seq(Lines) /\ loggers \in Seq(Loggers)
  BY DEF LogInv, LogTypeOK
<1>2. at[t] = "got"
  BY DEF Log!SetLogLevel
<1>3. Len(loggers) = 1 /\ loggers # <<>> /\ loggers[1] \in Loggers /\ call[t].logger = 1
  BY <1>2, LoggerThere
<1>4. PICK o : o = [loggers[1] EXCEPT !.debug = debug]
  OBVIOUS
<1>5. /\ o \in Loggers /\ o.m_lock = loggers[1].m_lock
      /\ o.lenLast = loggers[1].lenLast /\ o.lastMessage = loggers[1].lastMessage
  BY <1>3, <1>4 DEF Loggers
<1>6. loggers' = [loggers EXCEPT ![1] = o]
  BY <1>3, <1>4 DEF Log!SetLogLevel
<1>7. loggers' \in Seq(Loggers) /\ Len(loggers') = 1 /\ loggers' # <<>> /\ loggers'[1] = o
  BY <1>1, <1>3, <1>5, <1>6, OneChanged
<1>8. /\ at' = [at EXCEPT ![t] = "idle"] /\ call' = [call EXCEPT ![t] = Log!NoCall]
      /\ UNCHANGED <<s_pInstance, file>>
  BY DEF Log!SetLogLevel
<1>9. Log!NoCall \in LogCalls
  BY DEF Log!NoCall, LogCalls, Lines, Log!Gap
<1>10. /\ at' \in [Log!Threads -> LogPlaces] /\ call' \in [Log!Threads -> LogCalls]
       /\ at'[t] = "idle"
       /\ \A u \in Log!Threads : u # t => at'[u] = at[u] /\ call'[u] = call[u]
  BY <1>1, <1>8, <1>9 DEF LogPlaces
<1>11. LogTypeOK'
  BY <1>1, <1>7, <1>8, <1>10 DEF LogTypeOK
<1> QED
  BY <1>2, <1>3, <1>5, <1>7, <1>8, <1>10, <1>11, Aside DEF UnderLock

(* The lock is acquired and released. *)
LEMMA Locking ==
  ASSUME LogInv, NEW t \in Log!Threads, Log!WriteLock(t) \/ Log!Unlock(t)
  PROVE  LogInv'
<1> USE LogConstants
<1>1. /\ at \in [Log!Threads -> LogPlaces] /\ call \in [Log!Threads -> LogCalls]
      /\ file \in Seq(Lines) /\ loggers \in Seq(Loggers)
  BY DEF LogInv, LogTypeOK
<1>2. at[t] \in {"got", "unlock"} /\ UNCHANGED <<s_pInstance, file>>
  BY DEF Log!WriteLock, Log!Unlock
<1>3. Len(loggers) = 1 /\ loggers # <<>> /\ loggers[1] \in Loggers /\ call[t].logger = 1
  BY <1>2, LoggerThere DEF UnderLock
<1>4. loggers[1].m_lock \in {None, t}
  <2>1. CASE Log!WriteLock(t)
    BY <1>3, <2>1 DEF Log!WriteLock
  <2>2. CASE Log!Unlock(t)
    <3>1. at[t] = "unlock"
      BY <2>2 DEF Log!Unlock
    <3> QED
      BY <1>3, <3>1 DEF LogInv, LockHeld, UnderLock
  <2> QED
    BY <2>1, <2>2
<1>5. PICK n : n = IF Log!WriteLock(t) THEN t ELSE None
  OBVIOUS
<1>6. PICK o : o = [loggers[1] EXCEPT !.m_lock = n]
  OBVIOUS
<1>7. /\ o \in Loggers /\ o.m_lock = n
      /\ o.lenLast = loggers[1].lenLast /\ o.lastMessage = loggers[1].lastMessage
  BY <1>3, <1>5, <1>6 DEF Loggers
<1>8. loggers' = [loggers EXCEPT ![1] = o]
  <2>1. CASE Log!WriteLock(t)
    BY <1>3, <1>5, <1>6, <2>1 DEF Log!WriteLock
  <2>2. CASE ~Log!WriteLock(t)
    BY <1>3, <1>5, <1>6, <2>2 DEF Log!Unlock
  <2> QED
    BY <2>1, <2>2
<1>9. loggers' \in Seq(Loggers) /\ Len(loggers') = 1 /\ loggers' # <<>> /\ loggers'[1] = o
  BY <1>1, <1>3, <1>7, <1>8, OneChanged
<1>10. /\ at' \in [Log!Threads -> LogPlaces] /\ call' \in [Log!Threads -> LogCalls]
       /\ \/ n = t /\ at'[t] = "compare" /\ call'[t].logger = 1
          \/ n = None /\ at'[t] \in {"get", "idle"}
       /\ \A u \in Log!Threads : u # t => at'[u] = at[u] /\ call'[u] = call[u]
  <2>1. CASE Log!WriteLock(t)
    <3>1. at' = [at EXCEPT ![t] = "compare"] /\ call' = call
      BY <2>1 DEF Log!WriteLock
    <3> QED
      BY <1>1, <1>3, <1>5, <2>1, <3>1 DEF LogPlaces
  <2>2. CASE ~Log!WriteLock(t)
    <3>0. Log!Unlock(t)
      BY <2>2
    <3>1. PICK p : p = IF call[t].kind = "event" THEN "get" ELSE "idle"
      OBVIOUS
    <3>2. PICK c : c = IF call[t].kind = "event"
                       THEN [call[t] EXCEPT !.kind = "level asked"] ELSE Log!NoCall
      OBVIOUS
    <3>3. at' = [at EXCEPT ![t] = p]
      BY <3>0, <3>1 DEF Log!Unlock
    <3>4. call' = [call EXCEPT ![t] = c]
      BY <3>0, <3>2 DEF Log!Unlock
    <3>5. Log!NoCall \in LogCalls
      BY DEF Log!NoCall, LogCalls, Lines, Log!Gap
    <3>6. call[t] \in LogCalls
      BY <1>1
    <3>7. [call[t] EXCEPT !.kind = "level asked"] \in LogCalls
      BY <3>6 DEF LogCalls
    <3>8. c \in LogCalls /\ p \in {"get", "idle"}
      BY <3>1, <3>2, <3>5, <3>7
    <3> QED
      BY <1>1, <1>5, <2>2, <3>3, <3>4, <3>8 DEF LogPlaces
  <2> QED
    BY <2>1, <2>2
<1>11. LogTypeOK'
  BY <1>1, <1>2, <1>9, <1>10 DEF LogTypeOK
<1>12. at[t] \notin {"append", "not started"}
  BY <1>2
<1> QED
  BY <1>2, <1>3, <1>4, <1>7, <1>9, <1>10, <1>11, <1>12, LockTurned

(* What is compared and what is written keep the types. *)
LEMMA UnderLockTyped ==
  ASSUME LogInv, NEW t \in Log!Threads,
         Log!Compare(t) \/ \E opened \in BOOLEAN : Log!Write(t, opened)
  PROVE  LogTypeOK'
<1>1. /\ at \in [Log!Threads -> LogPlaces] /\ call \in [Log!Threads -> LogCalls]
      /\ file \in Seq(Lines) /\ loggers \in Seq(Loggers)
  BY DEF LogInv, LogTypeOK
<1>2. at[t] \in {"compare", "append"}
  BY DEF Log!Compare, Log!Write
<1>3. Len(loggers) = 1 /\ loggers # <<>> /\ loggers[1] \in Loggers /\ call[t].logger = 1
  BY <1>2, LoggerThere DEF UnderLock
<1>4. call[t].text \in Lines
  BY <1>1 DEF LogCalls
<1>5. CASE Log!Compare(t)
  <2>1. PICK p \in {"append", "unlock"} : at' = [at EXCEPT ![t] = p]
    BY <1>5 DEF Log!Compare
  <2>2. PICK o : o = [loggers[1] EXCEPT !.lastMessage = call[t].text,
                                        !.lenLast = Len(call[t].text)]
    OBVIOUS
  <2>3. o \in Loggers
    BY <1>3, <1>4, <2>2 DEF Loggers
  <2>4. loggers' \in {loggers, [loggers EXCEPT ![1] = o]}
    BY <1>1, <1>3, <1>5, <2>2 DEF Log!Compare
  <2>5. loggers' \in Seq(Loggers) /\ Len(loggers') = 1
    BY <1>1, <1>3, <2>3, <2>4, OneChanged
  <2>6. call' = call /\ file' = file
    BY <1>5 DEF Log!Compare
  <2> QED
    BY <1>1, <2>1, <2>5, <2>6 DEF LogTypeOK, LogPlaces
<1>6. ASSUME NEW opened \in BOOLEAN, Log!Write(t, opened)
      PROVE  LogTypeOK'
  <2>1. PICK x \in Lines : file' = Append(file, x)
    BY <1>4, <1>6 DEF Log!Write, Lines
  <2>2. file' \in Seq(Lines)
    BY <1>1, <2>1, LastAppended
  <2>3. at' = [at EXCEPT ![t] = "unlock"] /\ UNCHANGED <<call, loggers>>
    BY <1>6 DEF Log!Write
  <2> QED
    BY <1>1, <1>3, <2>2, <2>3 DEF LogTypeOK, LogPlaces
<1> QED
  BY <1>5, <1>6

(* The threads are started by a main that has found its logger. *)
LEMMA Started ==
  ASSUME LogInv, Log!StartThreads
  PROVE  LogInv'
<1> USE LogConstants
<1>1. at[Main] = "idle" /\ UNCHANGED <<s_pInstance, loggers, call, file>>
  BY DEF Log!StartThreads
<1>2. loggers # <<>>
  BY <1>1, LoggerThere
<1>3. \A o \in Workers : at[o] = "not started"
  BY DEF LogInv, AllStarted, Log!StartThreads
<1>4. at' = [o \in Log!Threads |-> "idle"]
  BY DEF Log!StartThreads
<1>5. /\ \A o \in Log!Threads : at[o] \notin UnderLock
      /\ \A o \in Log!Threads : at'[o] \notin UnderLock /\ at'[o] = "idle"
  BY <1>1, <1>3, <1>4 DEF UnderLock
<1>6. LogTypeOK'
  BY <1>1, <1>4 DEF LogInv, LogTypeOK, LogPlaces
<1>7. OneLogger' /\ AllStarted'
  BY <1>1, <1>2, <1>5 DEF LogInv, OneLogger, AllStarted, Log!Threads
<1>8. LockHeld'
  BY <1>1, <1>5 DEF LogInv, LockHeld
<1>9. LastLine'
  BY <1>1, <1>5 DEF LogInv, LastLine, UnderLock
<1>10. NoRepeat'
  BY <1>1 DEF LogInv, NoRepeat
<1> QED
  BY <1>6, <1>7, <1>8, <1>9, <1>10 DEF LogInv

LEMMA LogStep ==
  ASSUME LogInv, Log!Next
  PROVE  LogInv'
<1>1. CASE Log!StartThreads
  BY <1>1, Started
<1>2. ASSUME NEW t \in Log!Threads, Log!Missing(t) \/ Log!Create(t)
      PROVE  LogInv'
  BY <1>2, FirstLogger
<1>3. ASSUME NEW t \in Log!Threads, Log!Found(t) \/ Log!Quiet(t) \/ Log!Printed(t)
      PROVE  LogInv'
  BY <1>3, Besides
<1>4. ASSUME NEW t \in Log!Threads, NEW kind \in {"event", "error", "debug"},
             NEW text \in Texts, Log!Call(t, kind, text)
      PROVE  LogInv'
  BY <1>4, Besides
<1>5. ASSUME NEW t \in Log!Threads, NEW debug \in BOOLEAN, Log!SetLogLevel(t, debug)
      PROVE  LogInv'
  BY <1>5, LevelSet
<1>6. ASSUME NEW t \in Log!Threads, Log!WriteLock(t) \/ Log!Unlock(t)
      PROVE  LogInv'
  BY <1>6, Locking
<1>7. ASSUME NEW t \in Log!Threads, Log!Compare(t)
      PROVE  LogInv'
  BY <1>7, UnderLockTyped, Compared
<1>8. ASSUME NEW t \in Log!Threads, NEW opened \in BOOLEAN, Log!Write(t, opened)
      PROVE  LogInv'
  BY <1>8, UnderLockTyped, Written
<1> QED
  BY <1>1, <1>2, <1>3, <1>4, <1>5, <1>6, <1>7, <1>8 DEF Log!Next

(* Whatever main and any number of threads log together, one logger is     *)
(* made and no line repeats the line before it (WriteLog, EventLogger.cpp).*)
THEOREM LogNeverRepeats == SupportSpec => []NoLineTwice
<1>1. SupportInit => LogInv
  BY LogStarts DEF SupportInit
<1>2. LogInv /\ [SupportNext]_SupportVars => LogInv'
  <2> SUFFICES ASSUME LogInv, [SupportNext]_SupportVars PROVE LogInv'
    OBVIOUS
  <2>1. Log!Next \/ UNCHANGED logVars
    BY DEF SupportNext, SupportVars
  <2>2. CASE UNCHANGED logVars
    <3>1. UNCHANGED <<s_pInstance, loggers, at, call, file>>
      BY <2>2 DEF logVars
    <3> QED
      BY <3>1 DEF LogInv, LogTypeOK, OneLogger, AllStarted, LockHeld, LastLine, NoRepeat
  <2> QED
    BY <2>1, <2>2, LogStep
<1>3. LogInv => NoLineTwice
  <2>1. LogInv => Len(loggers) \in {0, 1}
    BY DEF LogInv, LogTypeOK
  <2>2. \A n \in {0, 1} : n <= 1
    OBVIOUS
  <2>3. LogInv => Len(loggers) <= 1
    BY <2>1, <2>2
  <2> QED
    BY <2>3 DEF LogInv, NoRepeat, NoLineTwice, Log!NoLineTwice
<1> QED
  BY <1>1, <1>2, <1>3, PTL DEF SupportSpec

-----------------------------------------------------------------------------
(* The port, reading.  n bytes of the talk T have been read; T is the      *)
(* sentence last, or no beginning of it is a sentence.  A sentence leaves  *)
(* the reader without a star whatever it found, and without a star the     *)
(* next one is found.                                                      *)

Chars == {"$", "*", "a", "b"}

Untrue(T) ==
  \A k \in 0 .. Len(T) : \A body \in Bodies : SubSeq(T, 1, k) # Port!Sentence(body)

Reading(T, n) ==
  /\ n <= Len(T) /\ wire = SubSeq(T, n + 1, Len(T))
  /\ \A k \in 1 .. Len(T) : T[k] = "$" <=> k = 1
  /\ IF last = None THEN Untrue(T) ELSE last \in Bodies /\ T = Port!Sentence(last)

Reader(T, n) ==
  /\ star \in Nat \cup {None} /\ started \in BOOLEAN
  /\ n > 0 /\ started => inBuf = SubSeq(T, 1, n)
  /\ ~started => star = None
  /\ last = None \/ n < Len(T) => heard = <<>>
  /\ last # None => /\ n = Len(T) => ~started
                    /\ started /\ n > Len(last) + 1 => star = Len(last) + 1

Clean(T, n) ==
  last # None /\ before # None =>
    /\ n = Len(T) => heard = <<last>>
    /\ 0 < n /\ n < Len(T) => started
    /\ n <= Len(last) + 1 => star = None

InInv ==
  \E T \in Seq(Chars), n \in Nat : Reading(T, n) /\ Reader(T, n) /\ Clean(T, n)

LEMMA BodyType ==
  ASSUME NEW body \in Bodies
  PROVE  /\ body \in Seq({"a", "b"}) /\ Len(body) \in Nat
         /\ Len(body) + 4 <= MaxLen /\ MaxLen \in Nat
  BY SupportAssumption DEF Port!PortAssumption

LEMMA NoneNoPlace == None \notin Nat
  BY SupportAssumption DEF Port!PortAssumption

Framed(s, x, y) == <<"$">> \o s \o <<"*">> \o <<x, y>>

FramedAs(t, s, x, y) ==
  /\ t \in Seq(Chars) /\ Len(t) = Len(s) + 4
  /\ t[1] = "$" /\ \A k \in 1 .. Len(s) : t[k + 1] = s[k]
  /\ t[Len(s) + 2] = "*" /\ t[Len(s) + 3] = x /\ t[Len(s) + 4] = y

LEMMA FramedShape ==
  ASSUME NEW s \in Seq(Chars), NEW x \in Chars, NEW y \in Chars, NEW t, t = Framed(s, x, y)
  PROVE  FramedAs(t, s, x, y)
<1>1. <<x, y>> \in Seq(Chars) /\ <<"$">> \in Seq(Chars) /\ <<"*">> \in Seq(Chars)
  BY DEF Chars
<1> QED
  BY <1>1 DEF Chars, Framed, FramedAs

(* A sentence has one "$", its first byte, and one "*", three from the end. *)
LEMMA SentenceShape ==
  ASSUME NEW body \in Bodies, NEW t, t = Port!Sentence(body)
  PROVE  /\ t \in Seq(Chars) /\ Len(t) = Len(body) + 4
         /\ \A k \in 1 .. Len(t) : t[k] = "$" <=> k = 1
         /\ \A k \in 1 .. Len(t) : t[k] = "*" <=> k = Len(body) + 2
         /\ \A k \in 1 .. Len(body) : t[k + 1] = body[k]
<1>1. PICK x \in {"a", "b"}, y \in {"a", "b"} : Port!CheckSum(body) = <<x, y>>
  BY DEF Port!CheckSum
<1>2. body \in Seq({"a", "b"}) /\ body \in Seq(Chars) /\ Len(body) \in Nat
  BY BodyType DEF Chars
<1>3. t = Framed(body, x, y)
  BY <1>1 DEF Port!Sentence, Framed
<1>4. x \in Chars /\ y \in Chars
  BY DEF Chars
<1>5. /\ t \in Seq(Chars) /\ Len(t) = Len(body) + 4
      /\ t[1] = "$" /\ \A k \in 1 .. Len(body) : t[k + 1] = body[k]
      /\ t[Len(body) + 2] = "*" /\ t[Len(body) + 3] = x /\ t[Len(body) + 4] = y
  <2>1. FramedAs(t, body, x, y)
    BY <1>2, <1>3, <1>4, FramedShape
  <2> QED
    BY <2>1 DEF FramedAs
<1>6. ASSUME NEW k \in 1 .. Len(t), k # 1, k # Len(body) + 2
      PROVE  t[k] \in {"a", "b"}
  <2>1. CASE k <= Len(body) + 1
    <3>1. k - 1 \in 1 .. Len(body)
      BY <1>2, <1>5, <1>6, <2>1
    <3>2. t[(k - 1) + 1] = body[k - 1] /\ body[k - 1] \in {"a", "b"}
      BY <1>2, <1>5, <3>1, ElementOfSeq
    <3> QED
      BY <3>2
  <2>2. CASE k \in {Len(body) + 3, Len(body) + 4}
    BY <1>5, <2>2
  <2> QED
    BY <1>2, <1>5, <1>6, <2>1, <2>2
<1> QED
  <2>1. Len(body) + 2 # 1 /\ "$" \notin {"a", "b", "*"} /\ "*" \notin {"a", "b", "$"}
    BY <1>2
  <2>2. \A k \in 1 .. Len(t) : t[k] = "$" <=> k = 1
    BY <1>5, <1>6, <2>1
  <2>3. \A k \in 1 .. Len(t) : t[k] = "*" <=> k = Len(body) + 2
    BY <1>5, <1>6, <2>1
  <2> QED
    BY <1>5, <2>2, <2>3

(* The body can be read off a sentence, *)
LEMMA SentenceUnique ==
  ASSUME NEW b \in Bodies, NEW c \in Bodies, Port!Sentence(b) = Port!Sentence(c)
  PROVE  b = c
<1>1. PICK t : t = Port!Sentence(b)
  OBVIOUS
<1>2. /\ Len(t) = Len(b) + 4 /\ Len(t) = Len(c) + 4
      /\ \A k \in 1 .. Len(b) : t[k + 1] = b[k]
      /\ \A k \in 1 .. Len(c) : t[k + 1] = c[k]
  BY <1>1, SentenceShape
<1>3. /\ b \in Seq({"a", "b"}) /\ c \in Seq({"a", "b"})
      /\ Len(b) \in Nat /\ Len(c) \in Nat
  BY BodyType
<1>4. Len(b) = Len(c)
  BY <1>2, <1>3
<1>5. \A k \in 1 .. Len(b) : b[k] = c[k]
  BY <1>2, <1>4
<1> QED
  BY <1>3, <1>4, <1>5, SeqEqual

(* and no beginning of a sentence is one. *)
LEMMA NoSentenceYet ==
  ASSUME NEW b \in Bodies, NEW c \in Bodies, NEW k \in Nat, k < Len(Port!Sentence(b))
  PROVE  SubSeq(Port!Sentence(b), 1, k) # Port!Sentence(c)
<1> SUFFICES ASSUME SubSeq(Port!Sentence(b), 1, k) = Port!Sentence(c) PROVE FALSE
  OBVIOUS
<1>1. PICK s, t : s = Port!Sentence(b) /\ t = Port!Sentence(c)
  OBVIOUS
<1>2. /\ s \in Seq(Chars) /\ Len(s) = Len(b) + 4
      /\ \A i \in 1 .. Len(s) : s[i] = "*" <=> i = Len(b) + 2
      /\ Len(t) = Len(c) + 4
      /\ \A i \in 1 .. Len(t) : t[i] = "*" <=> i = Len(c) + 2
  BY <1>1, SentenceShape
<1>3. Len(b) \in Nat /\ Len(c) \in Nat
  BY BodyType
<1>4. Len(t) = k /\ \A i \in 1 .. k : t[i] = s[i]
  BY <1>1, <1>2
<1>5. Len(c) + 2 \in 1 .. Len(t) /\ Len(c) + 2 \in 1 .. Len(s)
  BY <1>1, <1>2, <1>3, <1>4
<1>6. s[Len(c) + 2] = "*"
  BY <1>2, <1>4, <1>5
<1>7. Len(c) + 2 = Len(b) + 2
  BY <1>2, <1>5, <1>6
<1> QED
  BY <1>1, <1>2, <1>3, <1>4, <1>7

(* What a bad line leaves has no sentence in it: a beginning of one, *)
LEMMA CutIsUntrue ==
  ASSUME NEW b \in Bodies, NEW k \in 1 .. MaxLen + 1, k < Len(Port!Sentence(b)),
         NEW T, T = SubSeq(Port!Sentence(b), 1, k)
  PROVE  /\ T \in Seq(Chars) /\ Untrue(T)
         /\ \A i \in 1 .. Len(T) : T[i] = "$" <=> i = 1
<1>1. PICK s : s = Port!Sentence(b)
  OBVIOUS
<1>2. s \in Seq(Chars) /\ \A i \in 1 .. Len(s) : s[i] = "$" <=> i = 1
  BY <1>1, SentenceShape
<1>3. k \in Nat /\ k < Len(s) /\ Len(s) \in Nat
  BY <1>1, <1>2, BodyType
<1>4. T \in Seq(Chars) /\ Len(T) = k /\ \A i \in 1 .. k : T[i] = s[i]
  BY <1>1, <1>2, <1>3
<1>5. ASSUME NEW i \in 0 .. Len(T), NEW c \in Bodies
      PROVE  SubSeq(T, 1, i) # Port!Sentence(c)
  <2>1. i \in Nat /\ i <= k
    BY <1>3, <1>4
  <2>2. SubSeq(T, 1, i) = SubSeq(s, 1, i)
    <3>1. SubSeq(T, 1, i) \in Seq(Chars) /\ Len(SubSeq(T, 1, i)) = i
          /\ \A j \in 1 .. i : SubSeq(T, 1, i)[j] = T[j]
      BY <1>4, <2>1
    <3>2. SubSeq(s, 1, i) \in Seq(Chars) /\ Len(SubSeq(s, 1, i)) = i
          /\ \A j \in 1 .. i : SubSeq(s, 1, i)[j] = s[j]
      BY <1>2, <1>3, <2>1
    <3>3. \A j \in 1 .. i : T[j] = s[j]
      BY <1>3, <1>4, <2>1
    <3> QED
      BY <3>1, <3>2, <3>3, SeqEqual
  <2> QED
    BY <1>1, <1>3, <2>1, <2>2, NoSentenceYet
<1> QED
  BY <1>2, <1>3, <1>4, <1>5 DEF Untrue

(* or too many characters. *)
LEMMA TooLongIsUntrue ==
  ASSUME NEW T, T = <<"$">> \o [k \in 1 .. MaxLen |-> "a"], MaxLen \in Nat
  PROVE  /\ T \in Seq(Chars) /\ Untrue(T)
         /\ \A i \in 1 .. Len(T) : T[i] = "$" <=> i = 1
<1>1. PICK s : s = [k \in 1 .. MaxLen |-> "a"]
  OBVIOUS
<1>2. s \in Seq(Chars) /\ Len(s) = MaxLen /\ \A i \in 1 .. MaxLen : s[i] = "a"
  <2>1. \A i \in 1 .. MaxLen : s[i] \in Chars /\ s[i] = "a"
    BY <1>1 DEF Chars
  <2> QED
    BY <1>1, <2>1, IsASeq
<1>3. <<"$">> \in Seq(Chars) /\ Len(<<"$">>) = 1 /\ <<"$">>[1] = "$"
  BY DEF Chars
<1>4. T \in Seq(Chars) /\ Len(T) = MaxLen + 1 /\ T[1] = "$"
      /\ \A i \in 1 .. MaxLen : T[i + 1] = s[i]
  BY <1>1, <1>2, <1>3
<1>5. \A i \in 2 .. MaxLen + 1 : T[i] = "a"
  <2> SUFFICES ASSUME NEW i \in 2 .. MaxLen + 1 PROVE T[i] = "a"
    OBVIOUS
  <2>1. i - 1 \in 1 .. MaxLen /\ (i - 1) + 1 = i
    OBVIOUS
  <2>2. T[(i - 1) + 1] = s[i - 1]
    BY <1>4, <2>1
  <2> QED
    BY <1>2, <2>1, <2>2
<1>6. ASSUME NEW i \in 0 .. Len(T), NEW c \in Bodies, SubSeq(T, 1, i) = Port!Sentence(c)
      PROVE  FALSE
  <2>1. PICK t : t = Port!Sentence(c)
    OBVIOUS
  <2>2. Len(t) = Len(c) + 4 /\ \A j \in 1 .. Len(t) : t[j] = "*" <=> j = Len(c) + 2
    BY <2>1, SentenceShape
  <2>3. Len(c) \in Nat
    BY BodyType
  <2>4. Len(t) = i /\ \A j \in 1 .. i : t[j] = T[j]
    BY <1>4, <1>6, <2>1
  <2>5. Len(c) + 2 \in 2 .. MaxLen + 1 /\ Len(c) + 2 \in 1 .. Len(t)
    BY <1>4, <2>2, <2>3, <2>4
  <2> QED
    BY <1>5, <2>2, <2>4, <2>5
<1>7. \A i \in 1 .. Len(T) : T[i] = "$" <=> i = 1
  BY SMTT(40), <1>4, <1>5
<1> QED
  BY <1>4, <1>6, <1>7 DEF Untrue

LEMMA WholeUnread ==
  ASSUME NEW T \in Seq(Chars), NEW n \in Nat, n <= Len(T)
  PROVE  /\ SubSeq(T, n + 1, Len(T)) = <<>> <=> n = Len(T)
         /\ n < Len(T) => /\ Head(SubSeq(T, n + 1, Len(T))) = T[n + 1]
                          /\ Tail(SubSeq(T, n + 1, Len(T))) = SubSeq(T, n + 2, Len(T))
         /\ n < Len(T) => Append(SubSeq(T, 1, n), T[n + 1]) = SubSeq(T, 1, n + 1)
         /\ SubSeq(T, 1, Len(T)) = T
<1>1. Len(T) \in Nat
  OBVIOUS
<1>2. SubSeq(T, n + 1, Len(T)) = <<>> <=> n = Len(T)
  <2>1. PICK s : s = SubSeq(T, n + 1, Len(T))
    OBVIOUS
  <2>2. s \in Seq(Chars) /\ Len(s) = Len(T) - n
    BY <1>1, <2>1
  <2>3. s = <<>> <=> Len(s) = 0
    BY <2>2, EmptySeq
  <2> QED
    BY <1>1, <2>1, <2>2, <2>3
<1>3. ASSUME n < Len(T)
      PROVE  /\ Head(SubSeq(T, n + 1, Len(T))) = T[n + 1]
             /\ Tail(SubSeq(T, n + 1, Len(T))) = SubSeq(T, n + 2, Len(T))
  BY <1>1, <1>3
<1>4. ASSUME n < Len(T)
      PROVE  Append(SubSeq(T, 1, n), T[n + 1]) = SubSeq(T, 1, n + 1)
  BY <1>1, <1>4
<1>5. SubSeq(T, 1, Len(T)) = T
  OBVIOUS
<1> QED
  BY ZenonT(60), <1>2, <1>3, <1>4, <1>5

(* A sentence that is about to come finds no star if one came before. *)
LEMMA TalkStep ==
  ASSUME InInv, NEW body \in Bodies, NEW kept \in 1 .. MaxLen + 1, Port!Talk(body, kept)
  PROVE  InInv'
<1>1. PICK T \in Seq(Chars), n \in Nat : Reading(T, n) /\ Reader(T, n) /\ Clean(T, n)
  BY DEF InInv
<1>2. /\ wire = <<>> /\ before' = last /\ heard' = <<>>
      /\ UNCHANGED <<started, inBuf, star>>
  BY DEF Port!Talk
<1>3. n = Len(T)
  BY <1>1, <1>2, WholeUnread DEF Reading
<1>4. PICK S : S = Port!Sentence(body)
  OBVIOUS
<1>5. /\ S \in Seq(Chars) /\ Len(S) = Len(body) + 4
      /\ \A k \in 1 .. Len(S) : S[k] = "$" <=> k = 1
  BY <1>4, SentenceShape
<1>6. Len(body) \in Nat /\ MaxLen \in Nat /\ kept \in Nat /\ Len(S) <= MaxLen /\ None # body
  BY <1>5, BodyType, SupportAssumption DEF Port!PortAssumption
<1>7. ASSUME NEW U \in Seq(Chars), wire' = U, Reading(U, 0)'
      PROVE  InInv'
  <2>1. Reader(U, 0)'
    <3>1. last' # None => Len(U) > 0 /\ Len(last') \in Nat
      <4> SUFFICES ASSUME last' # None PROVE Len(U) > 0 /\ Len(last') \in Nat
        OBVIOUS
      <4>1. PICK l : l = last'
        OBVIOUS
      <4>2. l \in Bodies /\ U = Port!Sentence(l)
        BY <1>7, <4>1 DEF Reading
      <4>3. Len(U) = Len(l) + 4 /\ Len(l) \in Nat
        BY <4>2, SentenceShape, BodyType
      <4> QED
        BY <4>1, <4>3
    <3> QED
      BY <1>1, <1>2, <3>1 DEF Reader
  <2>2. Clean(U, 0)'
    <3> SUFFICES ASSUME last' # None, last # None
                 PROVE  Len(U) # 0 /\ star = None
      BY <1>2 DEF Clean
    <3>1. PICK l : l = last'
      OBVIOUS
    <3>2. l \in Bodies /\ U = Port!Sentence(l)
      BY <1>7, <3>1 DEF Reading
    <3>3. Len(U) = Len(l) + 4 /\ Len(l) \in Nat
      BY <3>2, SentenceShape, BodyType
    <3>4. star = None
      BY <1>1, <1>3 DEF Reader
    <3> QED
      BY <3>3, <3>4
  <2> QED
    BY <1>7, <2>1, <2>2 DEF InInv
<1>8. CASE kept = Len(S)
  <2>1. wire' = S /\ last' = body
    <3>1. SubSeq(S, 1, Len(S)) = S
      BY <1>5
    <3>2. wire' = SubSeq(S, 1, Len(S)) /\ last' = body
      BY <1>4, <1>5, <1>6, <1>8 DEF Port!Talk
    <3> QED
      BY <3>1, <3>2
  <2>2. Reading(S, 0)'
    <3>1. SubSeq(S, 0 + 1, Len(S)) = S /\ 0 <= Len(S)
      BY <1>5
    <3> QED
      BY <1>4, <1>5, <1>6, <2>1, <3>1 DEF Reading
  <2> QED
    BY <1>5, <1>7, <2>1, <2>2
<1>9. CASE kept # Len(S)
  <2>1. last' = None
    BY <1>4, <1>9 DEF Port!Talk
  <2>2. PICK U : wire' = U
    OBVIOUS
  <2>3. /\ U \in Seq(Chars) /\ Untrue(U)
        /\ \A i \in 1 .. Len(U) : U[i] = "$" <=> i = 1
    <3>1. CASE kept < Len(S)
      <4>1. U = SubSeq(Port!Sentence(body), 1, kept)
        BY <1>4, <1>5, <1>6, <2>2, <3>1 DEF Port!Talk
      <4> QED
        BY <1>4, <3>1, <4>1, CutIsUntrue
    <3>2. CASE ~(kept < Len(S))
      <4>1. ~(kept <= Len(S))
        BY <1>5, <1>6, <1>9, <3>2
      <4>2. U = <<"$">> \o [k \in 1 .. MaxLen |-> "a"]
        BY <1>4, <2>2, <4>1 DEF Port!Talk
      <4> QED
        BY <1>6, <4>2, TooLongIsUntrue
    <3> QED
      BY <3>1, <3>2
  <2>4. SubSeq(U, 0 + 1, Len(U)) = U /\ 0 <= Len(U)
    BY <2>3
  <2>5. Reading(U, 0)'
    BY <2>1, <2>2, <2>3, <2>4 DEF Reading, Untrue
  <2> QED
    BY <1>7, <2>2, <2>3, <2>5
<1> QED
  BY <1>8, <1>9

(* A byte is read: it begins a sentence, goes on with one, or is left out. *)
LEMMA ReadStep ==
  ASSUME InInv, Port!GetMessage
  PROVE  InInv'
<1>1. PICK T \in Seq(Chars), n \in Nat : Reading(T, n) /\ Reader(T, n) /\ Clean(T, n)
  BY DEF InInv
<1>2. wire # <<>> /\ wire' = Tail(wire) /\ UNCHANGED <<last, before>>
  BY DEF Port!GetMessage
<1>3. n < Len(T) /\ Len(T) \in Nat
  BY <1>1, <1>2, WholeUnread DEF Reading
<1>4. PICK c : c = T[n + 1]
  OBVIOUS
<1>5. Head(wire) = c /\ wire' = SubSeq(T, n + 2, Len(T))
  BY <1>1, <1>2, <1>3, <1>4, WholeUnread DEF Reading
<1>6. c \in Chars /\ (c = "$" <=> n = 0)
  <2>1. n + 1 \in 1 .. Len(T)
    BY <1>3
  <2>2. T[n + 1] \in Chars
    BY <2>1, ElementOfSeq
  <2>3. T[n + 1] = "$" <=> n + 1 = 1
    BY <1>1, <2>1 DEF Reading
  <2> QED
    BY <1>4, <2>2, <2>3
<1>7. Reading(T, n + 1)'
  <2>1. n + 1 <= Len(T) /\ (n + 1) + 1 = n + 2
    BY <1>3
  <2> QED
    BY <1>1, <1>2, <1>5, <2>1 DEF Reading, Untrue
<1>8. heard = <<>>
  BY <1>1, <1>3 DEF Reader
<1>9. ASSUME last # None
      PROVE  /\ last \in Bodies /\ T = Port!Sentence(last) /\ Len(T) = Len(last) + 4
             /\ Len(last) \in Nat /\ Len(T) <= MaxLen /\ MaxLen \in Nat
             /\ c = "*" <=> n + 1 = Len(last) + 2
  <2>1. last \in Bodies /\ T = Port!Sentence(last)
    BY <1>1, <1>9 DEF Reading
  <2>2. n + 1 \in 1 .. Len(T)
    BY <1>3
  <2>3. Len(T) = Len(last) + 4 /\ \A k \in 1 .. Len(T) : T[k] = "*" <=> k = Len(last) + 2
    BY <2>1, SentenceShape
  <2> QED
    BY <1>4, <2>1, <2>2, <2>3, BodyType
<1>10. SUFFICES Reader(T, n + 1)' /\ Clean(T, n + 1)'
  BY <1>7 DEF InInv
<1>11. CASE n = 0
  <2>1. started' = TRUE /\ inBuf' = <<c>> /\ UNCHANGED <<star, heard>>
    BY <1>5, <1>6, <1>11 DEF Port!GetMessage, Port!Begin
  <2>2. <<c>> = SubSeq(T, 1, n + 1)
    <3>1. SubSeq(T, 1, 0) = <<>> /\ Append(<<>>, c) = <<c>>
      OBVIOUS
    <3>2. Append(SubSeq(T, 1, n), T[n + 1]) = SubSeq(T, 1, n + 1)
      BY <1>3, WholeUnread
    <3> QED
      BY <1>4, <1>11, <3>1, <3>2
  <2>3. Reader(T, n + 1)'
    <3>1. last # None => n + 1 # Len(T) /\ ~(n + 1 > Len(last) + 1)
      BY <1>9, <1>11
    <3> QED
      BY <1>1, <1>2, <1>8, <2>1, <2>2, <3>1 DEF Reader
  <2>4. Clean(T, n + 1)'
    <3>1. last # None => n + 1 # Len(T) /\ n <= Len(last) + 1
      BY <1>9, <1>11
    <3>2. last # None /\ before # None => star = None
      BY <1>1, <3>1 DEF Clean
    <3> QED
      BY <1>2, <2>1, <3>1, <3>2 DEF Clean
  <2> QED
    BY <2>3, <2>4
<1>12. CASE n # 0 /\ ~started
  <2>1. UNCHANGED <<started, inBuf, star, heard>>
    BY <1>5, <1>6, <1>12 DEF Port!GetMessage
  <2>2. Reader(T, n + 1)'
    BY <1>1, <1>2, <1>8, <1>12, <2>1 DEF Reader
  <2>3. last = None \/ before = None
    BY <1>1, <1>3, <1>12 DEF Clean
  <2>4. Clean(T, n + 1)'
    BY <1>2, <2>3 DEF Clean
  <2> QED
    BY <2>2, <2>4
<1>13. CASE n # 0 /\ started
  <2>1. PICK p : p = IF c = "*" THEN n ELSE star
    OBVIOUS
  <2>2. PICK b : b = SubSeq(T, 1, n + 1)
    OBVIOUS
  <2>3. b = Append(inBuf, c) /\ b \in Seq(Chars) /\ Len(b) = n + 1 /\ Len(inBuf) = n
    <3>1. inBuf = SubSeq(T, 1, n)
      BY <1>1, <1>13 DEF Reader
    <3>2. Append(inBuf, c) = b
      BY <1>3, <1>4, <2>2, <3>1, WholeUnread
    <3>3. b \in Seq(Chars) /\ Len(b) = n + 1
      BY <1>3, <2>2
    <3>4. Len(inBuf) = n
      BY <1>3, <3>1
    <3> QED
      BY <3>2, <3>3, <3>4
  <2>4. Port!Continue(b, p)
    BY <1>5, <1>6, <1>13, <2>1, <2>3 DEF Port!GetMessage
  <2>5. p \in Nat \cup {None}
    BY <1>1, <2>1 DEF Reader
  <2>6. ASSUME last # None
        PROVE  /\ n + 1 > Len(last) + 1 => p = Len(last) + 1
               /\ before # None /\ n + 1 <= Len(last) + 1 => p = None
    <3>1. star \in Nat \cup {None} /\ (n > Len(last) + 1 => star = Len(last) + 1)
      BY <1>1, <1>13, <2>6 DEF Reader
    <3>2. before # None /\ n <= Len(last) + 1 => star = None
      BY <1>1, <2>6 DEF Clean
    <3> QED
      BY <1>9, <2>1, <2>6, <3>1, <3>2
  <2>7. n + 1 = Len(T) \/ Port!Found(b) = {}
    <3> SUFFICES ASSUME n + 1 < Len(T), NEW body \in Bodies, b = Port!Sentence(body)
                 PROVE  FALSE
      BY <1>3 DEF Port!Found
    <3>1. CASE last = None
      <4>1. n + 1 \in 0 .. Len(T)
        BY <1>3
      <4> QED
        BY <1>1, <2>2, <3>1, <4>1 DEF Reading, Untrue
    <3>2. CASE last # None
      <4>1. n + 1 < Len(Port!Sentence(last)) /\ n + 1 \in Nat /\ last \in Bodies
        BY <1>9, <3>2
      <4>2. SubSeq(Port!Sentence(last), 1, n + 1) # Port!Sentence(body)
        BY <4>1, NoSentenceYet
      <4> QED
        BY <1>9, <2>2, <3>2, <4>2
    <3> QED
      BY <3>1, <3>2
  <2>8. last # None /\ n + 1 = Len(T) => Port!Found(b) = {last}
    <3> SUFFICES ASSUME last # None, n + 1 = Len(T) PROVE Port!Found(b) = {last}
      OBVIOUS
    <3>1. b = Port!Sentence(last) /\ last \in Bodies
      BY <1>9, <2>2, WholeUnread
    <3> QED
      BY <3>1, SentenceUnique DEF Port!Found
  <2>9. last = None => Port!Found(b) = {}
    <3> SUFFICES ASSUME last = None, NEW body \in Bodies, b = Port!Sentence(body)
                 PROVE  FALSE
      BY DEF Port!Found
    <3>1. n + 1 \in 0 .. Len(T)
      BY <1>3
    <3> QED
      BY <1>1, <2>2, <3>1 DEF Reading, Untrue
  <2>10. CASE p # None /\ p + 3 = Len(b)
    <3>1. started' = FALSE /\ star' = None
      BY <2>4, <2>10 DEF Port!Continue, Port!StartFromBeginning
    <3>2. heard' = IF Port!Found(b) = {} THEN heard
                   ELSE Append(heard, CHOOSE body \in Port!Found(b) : TRUE)
      BY <2>4, <2>10 DEF Port!Continue
    <3>3. last = None \/ n + 1 < Len(T) => heard' = <<>>
      BY <1>8, <2>7, <2>9, <3>2
    <3>4. last # None /\ n + 1 = Len(T) => heard' = <<last>>
      <4> SUFFICES ASSUME last # None, n + 1 = Len(T) PROVE heard' = <<last>>
        OBVIOUS
      <4>1. Port!Found(b) = {last}
        BY <2>8
      <4>2. (CHOOSE body \in Port!Found(b) : TRUE) = last
        BY <4>1
      <4>3. heard' = Append(<<>>, last)
        BY <1>8, <3>2, <4>1, <4>2
      <4> QED
        BY <4>3
    <3>5. last # None /\ before # None => n + 1 = Len(T)
      <4> SUFFICES ASSUME last # None, before # None PROVE n + 1 = Len(T)
        OBVIOUS
      <4>1. n + 1 > Len(last) + 1
        BY <1>9, <2>6, <2>10
      <4>2. p = Len(last) + 1
        BY <2>6, <4>1
      <4> QED
        BY <1>9, <2>3, <2>10, <4>2
    <3>6. Reader(T, n + 1)'
      BY <1>2, <3>1, <3>3 DEF Reader
    <3>7. Clean(T, n + 1)'
      BY <1>2, <3>1, <3>4, <3>5 DEF Clean
    <3> QED
      BY <3>6, <3>7
  <2>11. CASE ~(p # None /\ p + 3 = Len(b))
    <3>1. UNCHANGED heard
      BY <2>4, <2>11 DEF Port!Continue
    <3>2. last # None => n + 1 < Len(T)
      <4> SUFFICES ASSUME last # None, n + 1 = Len(T) PROVE FALSE
        BY <1>3
      <4>1. p = Len(last) + 1 /\ p \in Nat
        BY <1>9, <2>6
      <4>2. p # None
        BY <4>1, NoneNoPlace
      <4> QED
        BY <1>9, <2>3, <2>11, <4>1, <4>2
    <3>3. CASE Len(b) >= MaxLen
      <4>1. started' = FALSE /\ star' = None
        BY <2>4, <2>11, <3>3 DEF Port!Continue, Port!StartFromBeginning
      <4>2. last = None
        BY <1>3, <1>9, <2>3, <3>2, <3>3
      <4>3. Reader(T, n + 1)'
        BY <1>2, <1>8, <3>1, <4>1, <4>2 DEF Reader
      <4>4. Clean(T, n + 1)'
        BY <1>2, <4>2 DEF Clean
      <4> QED
        BY <4>3, <4>4
    <3>4. CASE ~(Len(b) >= MaxLen)
      <4>1. started' = TRUE /\ inBuf' = b /\ star' = p
        BY <2>4, <2>11, <3>4 DEF Port!Continue
      <4>2. Reader(T, n + 1)'
        BY <1>2, <1>8, <2>2, <2>5, <2>6, <3>1, <3>2, <4>1 DEF Reader
      <4>3. Clean(T, n + 1)'
        BY <1>2, <1>9, <2>6, <3>2, <4>1 DEF Clean
      <4> QED
        BY <4>2, <4>3
    <3> QED
      BY <3>3, <3>4
  <2> QED
    BY <2>10, <2>11
<1> QED
  BY <1>1, <1>11, <1>12, <1>13 DEF Reader

LEMMA InStarts == Port!InitIn => InInv
<1> SUFFICES ASSUME Port!InitIn PROVE InInv
  OBVIOUS
<1>1. PICK T \in Seq(Chars) : T = <<>>
  BY EmptySeq
<1>2. Len(T) = 0 /\ SubSeq(T, 0 + 1, Len(T)) = <<>>
  BY <1>1
<1>3. Reading(T, 0)
  <2>1. Untrue(T)
    <3> SUFFICES ASSUME NEW k \in 0 .. Len(T), NEW body \in Bodies,
                        SubSeq(T, 1, k) = Port!Sentence(body)
                 PROVE  FALSE
      BY DEF Untrue
    <3>1. Len(SubSeq(T, 1, k)) = 0
      BY <1>1, <1>2
    <3>2. PICK t : t = Port!Sentence(body)
      OBVIOUS
    <3>3. Len(t) = Len(body) + 4 /\ Len(body) \in Nat
      BY <3>2, SentenceShape, BodyType
    <3> QED
      BY <3>1, <3>2, <3>3
  <2> QED
    BY <1>2, <2>1 DEF Port!InitIn, Reading
<1>4. Reader(T, 0) /\ Clean(T, 0)
  BY DEF Port!InitIn, Reader, Clean
<1> QED
  BY <1>1, <1>3, <1>4 DEF InInv

LEMMA InStep ==
  ASSUME InInv, Port!InNext
  PROVE  InInv'
  BY TalkStep, ReadStep DEF Port!InNext

LEMMA InHears == InInv => Port!SecondIsHeard
<1> SUFFICES ASSUME InInv, wire = <<>>
             PROVE  /\ last # None /\ before # None => heard = <<last>>
                    /\ last = None => heard = <<>>
  BY DEF Port!SecondIsHeard
<1>1. PICK T \in Seq(Chars), n \in Nat : Reading(T, n) /\ Reader(T, n) /\ Clean(T, n)
  BY DEF InInv
<1>2. n = Len(T)
  BY <1>1, WholeUnread DEF Reading
<1> QED
  BY <1>1, <1>2 DEF Reader, Clean
-----------------------------------------------------------------------------
(* The port, writing.  Of a circle of N slots the n from a on hold what     *)
(* waits.                                                                  *)

\* The slot at x, counted round the circle.
Slot(x, N) == x % N

Content(b, a, n, N) == [k \in 1 .. n |-> b[Slot(a + k - 1, N)]]

LEMMA SlotCases ==
  ASSUME NEW N \in Nat \ {0}, NEW x \in Int, 0 - N <= x, x < 2 * N
  PROVE  /\ Slot(x, N) = IF x < 0 THEN x + N ELSE IF x < N THEN x ELSE x - N
         /\ Slot(x, N) \in 0 .. N - 1
<1>1. CASE x < 0
  BY <1>1 DEF Slot
<1>2. CASE 0 <= x /\ x < N
  BY <1>2 DEF Slot
<1>3. CASE N <= x
  BY <1>3 DEF Slot
<1> QED
  BY <1>1, <1>2, <1>3

(* How far apart two slots are. *)
LEMMA Apart ==
  ASSUME NEW N \in Nat \ {0}, NEW a \in 0 .. N - 1, NEW i \in 0 .. N, NEW j \in 0 .. N,
         i < j + N, j < i + N
  PROVE  Slot(Slot(a + j, N) - Slot(a + i, N), N) = IF i <= j THEN j - i ELSE j - i + N
<1>1. PICK p, o : p = Slot(a + j, N) /\ o = Slot(a + i, N)
  OBVIOUS
<1>2. p = (IF a + j < N THEN a + j ELSE a + j - N) /\ p \in 0 .. N - 1
  BY <1>1, SlotCases
<1>3. o = (IF a + i < N THEN a + i ELSE a + i - N) /\ o \in 0 .. N - 1
  BY <1>1, SlotCases
<1>4. p - o \in Int /\ 0 - N <= p - o /\ p - o < 2 * N
  BY <1>2, <1>3
<1>5. Slot(p - o, N) = IF p - o < 0 THEN p - o + N ELSE p - o
  BY <1>2, <1>3, <1>4, SlotCases
<1>6. Slot(p - o, N) = IF i <= j THEN j - i ELSE j - i + N
  BY <1>2, <1>3, <1>5
<1> QED
  BY <1>1, <1>6

IsContent(s, b, a, n, N) ==
  /\ s \in Seq(Nat) /\ Len(s) = n
  /\ \A k \in 1 .. n : s[k] = b[Slot(a + k - 1, N)]

LEMMA ContentType ==
  ASSUME NEW N \in Nat \ {0}, NEW b \in [0 .. N - 1 -> Nat], NEW a \in Nat, NEW n \in Nat
  PROVE  IsContent(Content(b, a, n, N), b, a, n, N)
<1>1. \A k \in 1 .. n : b[Slot(a + k - 1, N)] \in Nat
  <2> SUFFICES ASSUME NEW k \in 1 .. n PROVE b[Slot(a + k - 1, N)] \in Nat
    OBVIOUS
  <2>1. a + k - 1 \in Int
    OBVIOUS
  <2>2. Slot(a + k - 1, N) \in 0 .. N - 1
    BY <2>1 DEF Slot
  <2> QED
    BY <2>2
<1> QED
  BY <1>1, IsASeq DEF Content, IsContent

(* Two sequences one after the other. *)
IsJoined(z, s, t) ==
  /\ z \in Seq(Nat) /\ Len(z) = Len(s) + Len(t)
  /\ \A k \in 1 .. Len(s) : z[k] = s[k]
  /\ \A k \in 1 .. Len(t) : z[Len(s) + k] = t[k]

LEMMA Joined ==
  ASSUME NEW s \in Seq(Nat), NEW t \in Seq(Nat)
  PROVE  IsJoined(s \o t, s, t)
  BY DEF IsJoined

(* What is taken from the front leaves the rest. *)
LEMMA ContentFront ==
  ASSUME NEW N \in Nat \ {0}, NEW b \in [0 .. N - 1 -> Nat], NEW a \in 0 .. N - 1,
         NEW n \in 0 .. N - 1, NEW g \in 0 .. n
  PROVE  SubSeq(Content(b, a, n, N), 1, g) \o Content(b, Slot(a + g, N), n - g, N)
           = Content(b, a, n, N)
<1>1. PICK s, c : s = Content(b, a, n, N) /\ c = Slot(a + g, N)
  OBVIOUS
<1>2. PICK t : t = Content(b, c, n - g, N)
  OBVIOUS
<1>3. c \in 0 .. N - 1 /\ c = IF a + g < N THEN a + g ELSE a + g - N
  BY <1>1, SlotCases
<1>4. /\ s \in Seq(Nat) /\ Len(s) = n
      /\ \A k \in 1 .. n : s[k] = b[Slot(a + k - 1, N)]
  <2>1. IsContent(s, b, a, n, N)
    BY <1>1, ContentType
  <2> QED
    BY <2>1 DEF IsContent
<1>5. /\ t \in Seq(Nat) /\ Len(t) = n - g
      /\ \A k \in 1 .. n - g : t[k] = b[Slot(c + k - 1, N)]
  <2>1. c \in Nat /\ n - g \in Nat
    BY <1>3
  <2>2. IsContent(t, b, c, n - g, N)
    BY <1>2, <2>1, ContentType
  <2> QED
    BY <2>2 DEF IsContent
<1>6. ASSUME NEW k \in 1 .. n - g
      PROVE  t[k] = s[g + k]
  <2>1. g + k \in 1 .. n
    OBVIOUS
  <2>2. Slot(c + k - 1, N) = Slot(a + (g + k) - 1, N)
    <3>1. PICK x, y : x = c + k - 1 /\ y = a + (g + k) - 1
      OBVIOUS
    <3>2. /\ y \in Int /\ 0 <= y /\ y < 2 * N
      BY <3>1
    <3>3. x \in Int /\ 0 <= x
      BY <1>3, <3>1
    <3>4. x = y \/ x = y - N
      BY <1>3, <3>1
    <3>5. /\ 0 - N <= x /\ x < 2 * N /\ 0 - N <= y
      BY <3>2, <3>3, <3>4
    <3>6. /\ Slot(x, N) = IF x < N THEN x ELSE x - N
          /\ Slot(y, N) = IF y < N THEN y ELSE y - N
      BY <3>2, <3>3, <3>5, SlotCases
    <3>7. Slot(x, N) = Slot(y, N)
      BY <3>2, <3>3, <3>4, <3>5, <3>6
    <3> QED
      BY <3>1, <3>7
  <2> QED
    BY <1>4, <1>5, <2>1, <2>2
<1>7. PICK u : u = SubSeq(s, 1, g)
  OBVIOUS
<1>8. u \in Seq(Nat) /\ Len(u) = g /\ \A k \in 1 .. g : u[k] = s[k]
  BY <1>4, <1>7
<1>9. PICK z : z = u \o t
  OBVIOUS
<1>10. /\ z \in Seq(Nat) /\ Len(z) = n
       /\ \A k \in 1 .. g : z[k] = u[k]
       /\ \A k \in 1 .. n - g : z[g + k] = t[k]
  <2>1. IsJoined(z, u, t)
    BY <1>5, <1>8, <1>9, Joined
  <2> QED
    BY <1>5, <1>8, <2>1 DEF IsJoined
<1>11. \A k \in 1 .. n : z[k] = s[k]
  <2> SUFFICES ASSUME NEW k \in 1 .. n PROVE z[k] = s[k]
    OBVIOUS
  <2>1. CASE k <= g
    BY <1>8, <1>10, <2>1
  <2>2. CASE k > g
    <3>1. k - g \in 1 .. n - g /\ g + (k - g) = k
      BY <2>2
    <3>2. z[g + (k - g)] = t[k - g] /\ t[k - g] = s[g + (k - g)]
      BY <1>6, <1>10, <3>1
    <3> QED
      BY <3>1, <3>2
  <2> QED
    BY <2>1, <2>2
<1>12. z = s
  BY <1>4, <1>10, <1>11, SeqEqual
<1> QED
  BY <1>1, <1>2, <1>7, <1>9, <1>12

(* What is written behind it: g bytes numbered from f on. *)
Filled(b, v, g, f, N) ==
  [i \in DOMAIN b |-> IF Slot(i - v, N) < g THEN f + (Slot(i - v, N)) ELSE b[i]]

IsBehind(c, b, a, n, g, f, N) ==
  /\ c \in [0 .. N - 1 -> Nat]
  /\ Content(c, a, n, N) = Content(b, a, n, N)
  /\ Content(c, a, n + g, N) = Content(b, a, n, N) \o Port!Bytes(f, g)

LEMMA ContentBehind ==
  ASSUME NEW N \in Nat \ {0}, NEW b \in [0 .. N - 1 -> Nat], NEW a \in 0 .. N - 1,
         NEW n \in 0 .. N - 1, NEW g \in Nat, n + g <= N - 1, NEW f \in Nat,
         NEW v, v = Slot(a + n, N), NEW c, c = Filled(b, v, g, f, N)
  PROVE  IsBehind(c, b, a, n, g, f, N)
<1>0. a \in Nat /\ n \in Nat /\ n + g \in Nat
  OBVIOUS
<1>1. v \in 0 .. N - 1
  BY SlotCases
<1>2. c \in [0 .. N - 1 -> Nat]
  <2>1. ASSUME NEW i \in 0 .. N - 1
        PROVE  Slot(i - v, N) \in 0 .. N - 1
    <3>1. i - v \in Int /\ 0 - N <= i - v /\ i - v < 2 * N
      BY <1>1
    <3> QED
      BY <3>1, SlotCases
  <2>2. \A i \in 0 .. N - 1 : Slot(i - v, N) \in Nat /\ f + (Slot(i - v, N)) \in Nat
    <3> SUFFICES ASSUME NEW i \in 0 .. N - 1
                 PROVE  Slot(i - v, N) \in Nat /\ f + Slot(i - v, N) \in Nat
      OBVIOUS
    <3>1. PICK x \in 0 .. N - 1 : x = Slot(i - v, N)
      BY <2>1
    <3>2. x \in Nat /\ f + x \in Nat
      OBVIOUS
    <3> QED
      BY <3>1, <3>2
  <2> QED
    BY <2>2 DEF Filled
<1>3. ASSUME NEW k \in 1 .. n + g
      PROVE  LET i == Slot(a + k - 1, N) IN
             /\ i \in 0 .. N - 1
             /\ Slot(i - v, N) = IF n < k THEN k - 1 - n ELSE k - 1 - n + N
  <2>1. k - 1 \in 0 .. N /\ a + k - 1 = a + (k - 1) /\ a + (k - 1) \in Int
    OBVIOUS
  <2>2. Slot(a + (k - 1), N) \in 0 .. N - 1
    BY <2>1, SlotCases
  <2>3. n < (k - 1) + N /\ k - 1 < n + N /\ (n < k <=> n <= k - 1)
    OBVIOUS
  <2>4. Slot(Slot(a + (k - 1), N) - v, N)
          = IF n <= k - 1 THEN (k - 1) - n ELSE (k - 1) - n + N
    <3>1. PICK j : j = k - 1
      OBVIOUS
    <3>2. j \in 0 .. N /\ n \in 0 .. N /\ n < j + N /\ j < n + N
      BY <2>1, <2>3, <3>1
    <3>3. Slot(Slot(a + j, N) - Slot(a + n, N), N) = IF n <= j THEN j - n ELSE j - n + N
      BY <3>2, Apart
    <3> QED
      BY <3>1, <3>3
  <2> QED
    BY <2>1, <2>2, <2>3, <2>4
<1>4. ASSUME NEW k \in 1 .. n
      PROVE  c[Slot(a + k - 1, N)] = b[Slot(a + k - 1, N)]
  <2>1. PICK i : i = Slot(a + k - 1, N)
    OBVIOUS
  <2>2. k \in 1 .. n + g /\ ~(n < k)
    OBVIOUS
  <2>3. i \in 0 .. N - 1 /\ Slot(i - v, N) = k - 1 - n + N
    BY <1>3, <2>1, <2>2
  <2>4. ~(Slot(i - v, N) < g)
    BY <2>3
  <2>5. c[i] = b[i]
    BY <2>3, <2>4 DEF Filled
  <2> QED
    BY <2>1, <2>5
<1>5. ASSUME NEW j \in 1 .. g
      PROVE  c[Slot(a + (n + j) - 1, N)] = f + j - 1
  <2>1. PICK i : i = Slot(a + (n + j) - 1, N)
    OBVIOUS
  <2>2. n + j \in 1 .. n + g /\ n < n + j /\ (n + j) - 1 - n = j - 1
    OBVIOUS
  <2>3. i \in 0 .. N - 1 /\ Slot(i - v, N) = j - 1
    BY <1>3, <2>1, <2>2
  <2>4. c[i] = f + (j - 1)
    BY <2>3 DEF Filled
  <2> QED
    BY <2>1, <2>4
<1>6. PICK s, t, u : /\ s = Content(b, a, n, N) /\ t = Content(c, a, n, N)
                     /\ u = Content(c, a, n + g, N)
  OBVIOUS
<1>7. /\ s \in Seq(Nat) /\ Len(s) = n
      /\ \A k \in 1 .. n : s[k] = b[Slot(a + k - 1, N)]
  <2>1. IsContent(s, b, a, n, N)
    BY <1>0, <1>6, ContentType
  <2> QED
    BY <2>1 DEF IsContent
<1>8. /\ t \in Seq(Nat) /\ Len(t) = n
      /\ \A k \in 1 .. n : t[k] = c[Slot(a + k - 1, N)]
  <2>1. IsContent(t, c, a, n, N)
    BY <1>0, <1>2, <1>6, ContentType
  <2> QED
    BY <2>1 DEF IsContent
<1>9. /\ u \in Seq(Nat) /\ Len(u) = n + g
      /\ \A k \in 1 .. n + g : u[k] = c[Slot(a + k - 1, N)]
  <2>1. IsContent(u, c, a, n + g, N)
    BY <1>0, <1>2, <1>6, ContentType
  <2> QED
    BY <2>1 DEF IsContent
<1>10. s = t
  BY ZenonT(60), <1>4, <1>7, <1>8, SeqEqual
<1>11. PICK d : d = Port!Bytes(f, g)
  OBVIOUS
<1>12. d \in Seq(Nat) /\ Len(d) = g /\ \A j \in 1 .. g : d[j] = f + j - 1
  <2>1. \A j \in 1 .. g : f + j - 1 \in Nat
    OBVIOUS
  <2> QED
    BY <1>11, <2>1, IsASeq DEF Port!Bytes
<1>13. PICK z : z = s \o d
  OBVIOUS
<1>14. /\ z \in Seq(Nat) /\ Len(z) = n + g
       /\ \A k \in 1 .. n : z[k] = s[k]
       /\ \A j \in 1 .. g : z[n + j] = d[j]
  <2>1. IsJoined(z, s, d)
    BY <1>7, <1>12, <1>13, Joined
  <2> QED
    BY <1>7, <1>12, <2>1 DEF IsJoined
<1>15. \A k \in 1 .. n + g : z[k] = u[k]
  <2> SUFFICES ASSUME NEW k \in 1 .. n + g PROVE z[k] = u[k]
    OBVIOUS
  <2>1. CASE k <= n
    <3>1. z[k] = b[Slot(a + k - 1, N)] /\ u[k] = c[Slot(a + k - 1, N)]
      <4>1. k \in 1 .. n
        BY <2>1
      <4> QED
        BY <1>7, <1>9, <1>14, <4>1
    <3> QED
      BY <1>4, <2>1, <3>1
  <2>2. CASE k > n
    <3>1. k - n \in 1 .. g /\ n + (k - n) = k
      BY <2>2
    <3>2. z[n + (k - n)] = f + (k - n) - 1
      BY <1>12, <1>14, <3>1
    <3>3. c[Slot(a + (n + (k - n)) - 1, N)] = f + (k - n) - 1
      BY <1>5, <3>1
    <3> QED
      BY <1>9, <3>1, <3>2, <3>3
  <2> QED
    BY <2>1, <2>2
<1>16. z = u
  BY <1>9, <1>14, <1>15, SeqEqual
<1> QED
  BY <1>2, <1>6, <1>10, <1>11, <1>13, <1>16 DEF IsBehind

OutTypeOK ==
  /\ outBuf \in [0 .. MsgOutBufSize - 1 -> Nat]
  /\ w \in 0 .. MsgOutBufSize - 1 /\ r \in 0 .. MsgOutBufSize - 1
  /\ room \in Nat /\ parts \in Seq(Nat) /\ given \in Nat
  /\ line \in Seq(Nat) /\ accepted \in Seq(Nat)

OutInv == OutTypeOK /\ Port!LineInOrder

LEMMA CircleSize == MsgOutBufSize \in Nat \ {0}
  BY SupportAssumption DEF Port!PortAssumption

IsBytes(s, f, n) ==
  s \in Seq(Nat) /\ Len(s) = n /\ \A j \in 1 .. n : s[j] = f + j - 1

LEMMA BytesType ==
  ASSUME NEW f \in Nat, NEW n \in Nat
  PROVE  IsBytes(Port!Bytes(f, n), f, n)
<1>1. \A j \in 1 .. n : f + j - 1 \in Nat
  OBVIOUS
<1> QED
  BY <1>1, IsASeq DEF Port!Bytes, IsBytes

LEMMA BytesSplit ==
  ASSUME NEW f \in Nat, NEW n \in Nat, NEW d \in 0 .. n
  PROVE  Port!Bytes(f, n) = Port!Bytes(f, d) \o Port!Bytes(f + d, n - d)
<1>1. PICK s, t, u : /\ s = Port!Bytes(f, d) /\ t = Port!Bytes(f + d, n - d)
                     /\ u = Port!Bytes(f, n)
  OBVIOUS
<1>2. s \in Seq(Nat) /\ Len(s) = d /\ \A j \in 1 .. d : s[j] = f + j - 1
  <2>1. d \in Nat
    OBVIOUS
  <2> QED
    BY <1>1, <2>1, BytesType DEF IsBytes
<1>3. f + d \in Nat /\ n - d \in Nat
  OBVIOUS
<1>4. t \in Seq(Nat) /\ Len(t) = n - d /\ \A j \in 1 .. n - d : t[j] = (f + d) + j - 1
  <2>1. IsBytes(t, f + d, n - d)
    BY <1>1, <1>3, BytesType
  <2> QED
    BY <2>1 DEF IsBytes
<1>5. u \in Seq(Nat) /\ Len(u) = n /\ \A j \in 1 .. n : u[j] = f + j - 1
  BY <1>1, BytesType DEF IsBytes
<1>6. PICK z : z = s \o t
  OBVIOUS
<1>7. /\ z \in Seq(Nat) /\ Len(z) = n
      /\ \A k \in 1 .. d : z[k] = s[k]
      /\ \A k \in 1 .. n - d : z[d + k] = t[k]
  <2>1. IsJoined(z, s, t)
    BY <1>2, <1>4, <1>6, Joined
  <2> QED
    BY <1>2, <1>4, <2>1 DEF IsJoined
<1>8. \A k \in 1 .. n : z[k] = u[k]
  <2> SUFFICES ASSUME NEW k \in 1 .. n PROVE z[k] = u[k]
    OBVIOUS
  <2>1. CASE k <= d
    <3>1. k \in 1 .. d
      BY <2>1
    <3> QED
      BY <1>2, <1>5, <1>7, <3>1
  <2>2. CASE k > d
    <3>1. k - d \in 1 .. n - d /\ d + (k - d) = k
      BY <2>2
    <3>2. z[d + (k - d)] = (f + d) + (k - d) - 1
      BY <1>4, <1>7, <3>1
    <3> QED
      BY <1>5, <3>1, <3>2
  <2> QED
    BY <2>1, <2>2
<1>9. z = u
  BY <1>5, <1>7, <1>8, SeqEqual
<1> QED
  BY <1>1, <1>6, <1>9

Associate(a, b, c) == (a \o b) \o c = a \o (b \o c)

LEMMA Associates ==
  ASSUME NEW a \in Seq(Nat), NEW b \in Seq(Nat), NEW c \in Seq(Nat)
  PROVE  Associate(a, b, c)
  BY ConcatAssociative DEF Associate

Regrouped(a, b, d, e) == (a \o d) \o (b \o e) = (a \o b) \o (d \o e)

LEMMA Regroup ==
  ASSUME NEW a \in Seq(Nat), NEW b \in Seq(Nat), NEW d \in Seq(Nat), NEW e \in Seq(Nat),
         b = <<>> \/ d = <<>>
  PROVE  Regrouped(a, b, d, e)
<1>1. CASE b = <<>>
  <2>1. b \o e = e /\ a \o b = a
    BY <1>1
  <2>2. Associate(a, d, e)
    BY Associates
  <2> QED
    BY <2>1, <2>2 DEF Associate, Regrouped
<1>2. CASE d = <<>>
  <2>1. d \o e = e /\ a \o d = a
    BY <1>2
  <2>2. Associate(a, b, e)
    BY Associates
  <2> QED
    BY <2>1, <2>2 DEF Associate, Regrouped
<1> QED
  BY <1>1, <1>2

LEMMA BufferedIs == Port!Buffered = Content(outBuf, r, Port!Used, MsgOutBufSize)
  BY DEF Port!Buffered, Content, Slot

LEMMA UsedIs ==
  ASSUME OutTypeOK
  PROVE  /\ Port!Used = Slot(w - r, MsgOutBufSize)
         /\ Port!Used \in 0 .. MsgOutBufSize - 1
         /\ w = Slot(r + Port!Used, MsgOutBufSize)
<1>1. PICK N \in Nat \ {0} : N = MsgOutBufSize
  BY CircleSize
<1>2. PICK a, b, u : a = r /\ b = w /\ u = Slot(b - a, N)
  OBVIOUS
<1>3. a \in 0 .. N - 1 /\ b \in 0 .. N - 1
  BY <1>1, <1>2 DEF OutTypeOK
<1>4. u = (IF b - a < 0 THEN b - a + N ELSE b - a) /\ u \in 0 .. N - 1
  <2>1. PICK x \in Int : x = b - a /\ 0 - N <= x /\ x < N
    BY <1>3
  <2>2. x < 2 * N
    BY <2>1
  <2>3. u = IF x < 0 THEN x + N ELSE IF x < N THEN x ELSE x - N
    BY <1>2, <2>1, <2>2, SlotCases
  <2>4. u \in 0 .. N - 1
    BY <1>2, <2>1, <2>2, SlotCases
  <2> QED
    BY <2>1, <2>3, <2>4
<1>5. Slot(a + u, N) = b
  <2>0. PICK y : y = a + u
    OBVIOUS
  <2>1. y \in Int /\ 0 <= y /\ y < 2 * N /\ 0 - N <= y /\ (y = b \/ y = b + N)
    BY <1>3, <1>4, <2>0
  <2>2. Slot(y, N) = IF y < 0 THEN y + N ELSE IF y < N THEN y ELSE y - N
    BY <2>1, SlotCases
  <2>3. Slot(y, N) = b
    BY <1>3, <2>1, <2>2
  <2> QED
    BY <2>0, <2>3
<1>6. Port!Used = Slot(w - r, MsgOutBufSize)
  BY DEF Port!Used, Slot
<1> QED
  BY <1>1, <1>2, <1>4, <1>5, <1>6

(* What kick does, and what it leaves.                                      *)
AfterKick(a, n) ==
  /\ a \in 0 .. MsgOutBufSize - 1 /\ n \in 0 .. MsgOutBufSize - 1
  /\ a = (r + Port!Kicked) % MsgOutBufSize
  /\ w = Slot(a + n, MsgOutBufSize) /\ Slot(w - a, MsgOutBufSize) = n
  /\ (a - w - 1) % MsgOutBufSize = MsgOutBufSize - 1 - n
  /\ Port!Kicked \in Nat /\ Port!Kicked <= room
  /\ line \o SubSeq(Port!Buffered, 1, Port!Kicked) \in Seq(Nat)
  /\ (line \o SubSeq(Port!Buffered, 1, Port!Kicked))
        \o Content(outBuf, a, n, MsgOutBufSize) = accepted

LEMMA Kicks ==
  ASSUME OutInv
  PROVE  \E a, n : AfterKick(a, n)
<1>1. PICK N \in Nat \ {0} : N = MsgOutBufSize
  BY CircleSize
<1>2. PICK u \in 0 .. N - 1 : u = Port!Used /\ w = Slot(r + u, N)
  BY <1>1, UsedIs DEF OutInv
<1>3. PICK k \in 0 .. u : k = Port!Kicked /\ k <= room
  BY <1>2 DEF Port!Kicked, Port!Least, OutInv, OutTypeOK
<1>4. PICK o \in 0 .. N - 1 : o = r
  BY <1>1 DEF OutInv, OutTypeOK
<1>5. PICK a : a = Slot(o + k, N)
  OBVIOUS
<1>6. a \in 0 .. N - 1 /\ a = IF o + k < N THEN o + k ELSE o + k - N
  BY <1>5, SlotCases
<1>7. PICK n : n = u - k
  OBVIOUS
<1>8. n \in 0 .. N - 1
  BY <1>7
<1>9. PICK v : v = w
  OBVIOUS
<1>10. v \in 0 .. N - 1 /\ v = IF o + u < N THEN o + u ELSE o + u - N
  BY <1>2, <1>4, <1>9, SlotCases
<1>11. Slot(v - a, N) = n
  <2>0. k \in 0 .. N /\ u \in 0 .. N /\ k < u + N /\ u < k + N /\ k <= u
    OBVIOUS
  <2>1. Slot(Slot(o + u, N) - Slot(o + k, N), N) = u - k
    BY <2>0, Apart
  <2> QED
    BY <1>2, <1>4, <1>5, <1>7, <1>9, <2>1
<1>12. v = Slot(a + n, N)
  <2>1. a + n = v \/ a + n = v + N
    BY <1>6, <1>7, <1>10
  <2>2. a + n \in Int /\ 0 - N <= a + n /\ a + n < 2 * N
    BY <1>6, <1>8
  <2>3. Slot(a + n, N) = IF a + n < N THEN a + n ELSE a + n - N
    BY <1>6, <1>8, <2>2, SlotCases
  <2> QED
    BY <1>6, <1>8, <1>10, <2>1, <2>3
<1>13. Slot(a - v - 1, N) = N - 1 - n
  <2>1. PICK x \in Int : x = a - v - 1
    BY <1>6, <1>10
  <2>2. x = 0 - n - 1 \/ x = N - n - 1
    BY <1>6, <1>7, <1>10, <2>1
  <2>3. 0 - N <= x /\ x < N /\ x < 2 * N
    BY <1>8, <2>2
  <2>4. Slot(x, N) = IF x < 0 THEN x + N ELSE IF x < N THEN x ELSE x - N
    BY <2>3, SlotCases
  <2> QED
    BY <1>8, <2>1, <2>2, <2>3, <2>4
<1>14. PICK s, b, t : /\ s = Port!Buffered /\ b = outBuf
                      /\ t = Content(b, a, n, N)
  OBVIOUS
<1>15. b \in [0 .. N - 1 -> Nat] /\ line \in Seq(Nat)
  BY <1>1, <1>14 DEF OutInv, OutTypeOK
<1>16. s = Content(b, o, u, N)
  BY <1>1, <1>2, <1>4, <1>14, BufferedIs
<1>17. SubSeq(s, 1, k) \o t = s
  <2>1. SubSeq(Content(b, o, u, N), 1, k) \o Content(b, Slot(o + k, N), u - k, N)
          = Content(b, o, u, N)
    BY <1>15, ContentFront
  <2> QED
    BY <1>5, <1>7, <1>14, <1>16, <2>1
<1>18. s \in Seq(Nat) /\ Len(s) = u
  <2>1. o \in Nat /\ u \in Nat
    OBVIOUS
  <2>2. IsContent(s, b, o, u, N)
    BY <1>15, <1>16, <2>1, ContentType
  <2> QED
    BY <2>2 DEF IsContent
<1>19. t \in Seq(Nat)
  <2>1. a \in Nat /\ n \in Nat
    BY <1>6, <1>8
  <2>2. IsContent(t, b, a, n, N)
    BY <1>14, <1>15, <2>1, ContentType
  <2> QED
    BY <2>2 DEF IsContent
<1>20. SubSeq(s, 1, k) \in Seq(Nat)
  BY <1>18
<1>21. (line \o SubSeq(s, 1, k)) \o t = accepted /\ line \o SubSeq(s, 1, k) \in Seq(Nat)
  <2>1. (line \o SubSeq(s, 1, k)) \o t = line \o (SubSeq(s, 1, k) \o t)
    BY <1>15, <1>19, <1>20, Associates DEF Associate
  <2>2. line \o s = accepted
    BY <1>14 DEF OutInv, Port!LineInOrder
  <2>3. line \o SubSeq(s, 1, k) \in Seq(Nat)
    BY <1>15, <1>20, ConcatProperties
  <2> QED
    BY <1>17, <2>1, <2>2, <2>3
<1>22. AfterKick(a, n)
  <2>1. a = (r + Port!Kicked) % MsgOutBufSize
    BY <1>1, <1>3, <1>4, <1>5 DEF Slot
  <2>2. (a - w - 1) % MsgOutBufSize = MsgOutBufSize - 1 - n
    BY <1>1, <1>9, <1>13 DEF Slot
  <2>3. k \in Nat
    OBVIOUS
  <2> QED
    BY <1>1, <1>3, <1>6, <1>8, <1>9, <1>11, <1>12, <1>14, <1>21, <2>1, <2>2, <2>3
       DEF AfterKick
<1> QED
  BY <1>22

LEMMA BufferedNext ==
  Port!Buffered' = Content(outBuf', r', Port!Used', MsgOutBufSize)
    /\ Port!Used' = Slot(w' - r', MsgOutBufSize)
  BY DEF Port!Buffered, Port!Used, Content, Slot

LEMMA KickStep ==
  ASSUME OutInv, Port!kick
  PROVE  OutInv'
<1>1. PICK a, n : AfterKick(a, n)
  BY Kicks
<1>2. r' = a /\ UNCHANGED <<outBuf, w, parts, given, accepted>>
  BY <1>1 DEF Port!kick, AfterKick
<1>3. line' = line \o SubSeq(Port!Buffered, 1, Port!Kicked)
  BY DEF Port!kick
<1>4. Port!Buffered' = Content(outBuf, a, n, MsgOutBufSize)
  BY <1>1, <1>2, BufferedNext DEF AfterKick
<1>5. Port!LineInOrder'
  BY <1>1, <1>2, <1>3, <1>4 DEF AfterKick, Port!LineInOrder
<1>6. room' \in Nat
  BY <1>1 DEF Port!kick, AfterKick, OutInv, OutTypeOK
<1>7. OutTypeOK'
  BY <1>1, <1>2, <1>3, <1>6 DEF AfterKick, OutInv, OutTypeOK
<1> QED
  BY <1>5, <1>7 DEF OutInv

(* What SendBuf does behind the bytes that wait: d bytes are written at    *)
(* once, and of the others all go into the circle or none stays there.     *)
LEMMA SendStep ==
  ASSUME OutInv, NEW n \in Nat, Port!SendBuf(n), parts' \in Seq(Nat)
  PROVE  OutInv'
<1>1. PICK N \in Nat \ {0} : N = MsgOutBufSize
  BY CircleSize
<1>2. PICK a, u : AfterKick(a, u)
  BY Kicks
<1>3. /\ a \in 0 .. N - 1 /\ u \in 0 .. N - 1 /\ a = (r + Port!Kicked) % MsgOutBufSize
      /\ w = Slot(a + u, N) /\ Slot(w - a, N) = u
      /\ (a - w - 1) % MsgOutBufSize = N - 1 - u
      /\ Port!Kicked \in Nat /\ Port!Kicked <= room
  BY <1>1, <1>2 DEF AfterKick
<1>4. PICK f : f = line \o SubSeq(Port!Buffered, 1, Port!Kicked)
  OBVIOUS
<1>5. PICK b : b = Content(outBuf, a, u, N)
  OBVIOUS
<1>6. f \in Seq(Nat) /\ f \o b = accepted
  BY <1>1, <1>2, <1>4, <1>5 DEF AfterKick
<1>7. /\ outBuf \in [0 .. N - 1 -> Nat]
      /\ room \in Nat /\ given \in Nat /\ accepted \in Seq(Nat)
  BY <1>1 DEF OutInv, OutTypeOK
<1>8. b \in Seq(Nat) /\ Len(b) = u
  <2>1. a \in Nat /\ u \in Nat
    BY <1>3
  <2> QED
    BY <1>5, <1>7, <2>1, ContentType DEF IsContent
<1>9. PICK d : d = IF w = a THEN Port!Least(n, room - Port!Kicked) ELSE 0
  OBVIOUS
<1>10. d \in 0 .. n /\ Port!Kicked + d <= room /\ (d # 0 => w = a)
  BY <1>3, <1>7, <1>9 DEF Port!Least
<1>11. d = 0 \/ u = 0
  <2>1. CASE w = a
    <3>1. PICK v : v = w
      OBVIOUS
    <3>2. v - a = 0 /\ v - a \in Int
      BY <1>3, <2>1, <3>1
    <3>3. Slot(0, N) = 0
      BY SlotCases
    <3> QED
      BY <1>3, <3>1, <3>2, <3>3
  <2> QED
    BY <1>10, <2>1
<1>12. PICK h : h = n - d
  OBVIOUS
<1>13. h \in Nat
  BY <1>10, <1>12
<1>14. PICK t : t = (h > 0 /\ h < Port!MsgOutBufFreeSize(a)) /\ t \in BOOLEAN
  OBVIOUS
<1>15. PICK e : e = Port!Least(h, N - 1 - u)
  OBVIOUS
<1>16. e \in Nat /\ e <= h /\ u + e <= N - 1
  BY <1>3, <1>13, <1>15 DEF Port!Least
<1>17. PICK g : g = given + d + 1
  OBVIOUS
<1>18. g \in Nat /\ given + 1 \in Nat /\ g = (given + 1) + d
  BY <1>7, <1>10, <1>17
<1>19. PICK c : c = Filled(outBuf, w, e, g, N)
  OBVIOUS
<1>20. /\ c \in [0 .. N - 1 -> Nat] /\ Content(c, a, u, N) = b
       /\ Content(c, a, u + e, N) = b \o Port!Bytes(g, e)
  <2>1. PICK v, o : v = w /\ o = outBuf
    OBVIOUS
  <2>2. /\ o \in [0 .. N - 1 -> Nat] /\ v = Slot(a + u, N) /\ c = Filled(o, v, e, g, N)
        /\ b = Content(o, a, u, N)
    BY <1>3, <1>5, <1>7, <1>19, <2>1
  <2>3. IsBehind(c, o, a, u, e, g, N)
    BY <1>3, <1>16, <1>18, <2>2, ContentBehind
  <2> QED
    BY <2>2, <2>3 DEF IsBehind
<1>21. PICK x, y : x = Port!Bytes(given + 1, d) /\ y = Port!Bytes(g, e)
  OBVIOUS
<1>22. x \in Seq(Nat) /\ Len(x) = d /\ y \in Seq(Nat)
  <2>1. d \in Nat
    BY <1>10
  <2> QED
    BY <1>16, <1>18, <1>21, <2>1, BytesType DEF IsBytes
<1>23. b = <<>> \/ x = <<>>
  BY SMTT(40), <1>8, <1>11, <1>22, EmptySeq
<1>24. /\ r' = a /\ room' = room - Port!Kicked - d /\ given' = given + n
       /\ line' = f \o x
       /\ outBuf' = IF t THEN c ELSE outBuf
       /\ w' = IF t THEN Port!WritePosAfter(h, e) ELSE w
       /\ accepted' = accepted \o Port!Bytes(given + 1, IF t /\ e = h THEN n ELSE d)
  BY ZenonT(60), <1>1, <1>3, <1>4, <1>9, <1>12, <1>14, <1>15, <1>17, <1>19, <1>21
     DEF Port!SendBuf, Filled, Slot
<1>25. /\ r' \in 0 .. N - 1 /\ room' \in Nat /\ given' \in Nat
       /\ line' \in Seq(Nat) /\ outBuf' \in [0 .. N - 1 -> Nat]
  <2>1. room' \in Nat /\ given' \in Nat
    BY <1>3, <1>7, <1>10, <1>24
  <2>2. f \o x \in Seq(Nat)
    BY <1>6, <1>22, ConcatProperties
  <2> QED
    BY <1>3, <1>7, <1>20, <1>24, <2>1, <2>2
<1>26. CASE t /\ e = h
  <2>1. w' = Slot(w + h, N)
    <3>1. ~(e < h)
      BY <1>13, <1>26
    <3> QED
      BY <1>1, <1>24, <1>26, <3>1 DEF Port!WritePosAfter, Slot
  <2>2. w' = Slot(a + (u + h), N) /\ w' \in 0 .. N - 1
    <3>1. PICK v : v = w
      OBVIOUS
    <3>2. v = (IF a + u < N THEN a + u ELSE a + u - N) /\ v \in 0 .. N - 1
      <4>1. a \in 0 .. N - 1 /\ u \in 0 .. N - 1 /\ v = Slot(a + u, N)
        BY <1>3, <3>1
      <4>2. PICK z \in Int : z = a + u /\ 0 <= z /\ z < 2 * N /\ 0 - N <= z
        BY <4>1
      <4>3. /\ Slot(z, N) = IF z < 0 THEN z + N ELSE IF z < N THEN z ELSE z - N
            /\ Slot(z, N) \in 0 .. N - 1
        BY <4>2, SlotCases
      <4> QED
        BY <4>1, <4>2, <4>3
    <3>3. PICK p, o : p = v + h /\ o = a + (u + h)
      OBVIOUS
    <3>4. /\ p \in Int /\ 0 <= p /\ p < 2 * N /\ 0 - N <= p
          /\ o \in Int /\ 0 <= o /\ o < 2 * N /\ 0 - N <= o
      <4>1. h \in Nat /\ h <= N - 1 - u
        BY <1>3, <1>13, <1>16, <1>26
      <4>2. v \in 0 .. N - 1
        BY <3>2
      <4> QED
        BY <1>3, <3>3, <4>1, <4>2
    <3>5. p = o \/ p = o - N
      <4>1. v = a + u \/ v = a + u - N
        BY <3>2
      <4> QED
        <5>1. a \in Int /\ u \in Int /\ h \in Int /\ N \in Int
          BY <1>3, <1>13
        <5> QED
          BY <3>3, <4>1, <5>1
    <3>6. /\ Slot(p, N) = (IF p < N THEN p ELSE p - N) /\ Slot(p, N) \in 0 .. N - 1
          /\ Slot(o, N) = (IF o < N THEN o ELSE o - N)
      BY <3>4, SlotCases
    <3>7. Slot(p, N) = Slot(o, N)
      BY <3>4, <3>5, <3>6
    <3> QED
      BY <2>1, <3>1, <3>3, <3>6, <3>7
  <2>3. Slot(w' - a, N) = u + h
    <3>1. PICK o : o = u + h
      OBVIOUS
    <3>2. o \in 0 .. N /\ 0 \in 0 .. N /\ 0 < o + N /\ o < 0 + N /\ 0 <= o /\ o - 0 = o
      BY <1>3, <1>13, <1>16, <1>26, <3>1
    <3>3. Slot(Slot(a + o, N) - Slot(a + 0, N), N) = o - 0
      BY <1>3, <3>2, Apart
    <3>4. a + 0 = a /\ Slot(a, N) = a
      <4>1. a \in Int /\ 0 - N <= a /\ a < 2 * N /\ 0 <= a /\ a < N
        BY <1>3
      <4> QED
        BY <4>1, SlotCases
    <3> QED
      BY <2>2, <3>1, <3>2, <3>3, <3>4
  <2>4. Port!Buffered' = b \o y
    BY <1>1, <1>20, <1>21, <1>24, <1>26, <2>3, BufferedNext
  <2>5. Port!Bytes(given + 1, n) = x \o y
    <3>1. Port!Bytes(given + 1, n)
            = Port!Bytes(given + 1, d) \o Port!Bytes((given + 1) + d, n - d)
      BY <1>10, <1>18, BytesSplit
    <3> QED
      BY <1>12, <1>18, <1>21, <1>26, <3>1
  <2>6. (f \o x) \o (b \o y) = (f \o b) \o (x \o y)
    <3>1. Regrouped(f, b, x, y)
      BY <1>6, <1>8, <1>22, <1>23, Regroup
    <3> QED
      BY <3>1 DEF Regrouped
  <2>7. Port!LineInOrder'
    BY <1>6, <1>24, <1>26, <2>4, <2>5, <2>6 DEF Port!LineInOrder
  <2>8. accepted' \in Seq(Nat)
    <3>1. x \o y \in Seq(Nat)
      BY <1>22, ConcatProperties
    <3>2. accepted' = accepted \o (x \o y)
      BY <1>24, <1>26, <2>5
    <3> QED
      BY <1>7, <3>1, <3>2, ConcatProperties
  <2> QED
    BY <1>1, <1>25, <2>2, <2>7, <2>8 DEF OutInv, OutTypeOK
<1>27. CASE ~(t /\ e = h)
  <2>1. w' = w
    BY <1>16, <1>13, <1>24, <1>27 DEF Port!WritePosAfter
  <2>2. Content(outBuf', a, u, N) = b
    BY <1>5, <1>20, <1>24
  <2>3. Port!Buffered' = b
    BY <1>1, <1>3, <1>24, <2>1, <2>2, BufferedNext
  <2>4. accepted' = accepted \o x
    BY <1>21, <1>24, <1>27
  <2>5. (f \o x) \o b = (f \o b) \o x
    <3>1. CASE b = <<>>
      BY <1>6, <1>22, <3>1, ConcatProperties
    <3>2. CASE x = <<>>
      BY <1>6, <1>8, <3>2, ConcatProperties
    <3> QED
      BY <1>23, <3>1, <3>2
  <2>6. Port!LineInOrder'
    BY <1>6, <1>24, <2>3, <2>4, <2>5 DEF Port!LineInOrder
  <2>7. accepted' \in Seq(Nat)
    BY <1>7, <1>22, <2>4, ConcatProperties
  <2>8. w' \in 0 .. MsgOutBufSize - 1
    BY <2>1 DEF OutInv, OutTypeOK
  <2> QED
    BY <1>1, <1>25, <2>6, <2>7, <2>8 DEF OutInv, OutTypeOK
<1> QED
  BY <1>26, <1>27

LEMMA OutStarts == Port!InitOut => OutInv
<1> SUFFICES ASSUME Port!InitOut PROVE OutInv
  OBVIOUS
<1>1. /\ outBuf = [k \in 0 .. MsgOutBufSize - 1 |-> 0]
      /\ w = 0 /\ r = 0 /\ room \in 0 .. MaxRoom
      /\ parts = <<>> /\ given = 0 /\ line = <<>> /\ accepted = <<>>
  BY DEF Port!InitOut
<1>2. OutTypeOK
  <2>1. 0 \in 0 .. MsgOutBufSize - 1 /\ room \in Nat
    BY <1>1, CircleSize, SupportAssumption DEF Port!PortAssumption
  <2>2. <<>> \in Seq(Nat)
    OBVIOUS
  <2> QED
    BY <1>1, <2>1, <2>2 DEF OutTypeOK
<1>3. Port!Buffered = <<>>
  <2>1. Port!Used = 0
    <3>1. w - r = 0
      BY <1>1
    <3>2. 0 % MsgOutBufSize = 0
      BY CircleSize
    <3> QED
      BY <3>1, <3>2 DEF Port!Used
  <2> QED
    BY <2>1 DEF Port!Buffered
<1> QED
  BY <1>1, <1>2, <1>3 DEF OutInv, Port!LineInOrder

LEMMA OutStep ==
  ASSUME OutInv, Port!OutNext
  PROVE  OutInv'
<1>1. CASE Port!kick
  BY <1>1, KickStep
<1>2. CASE Port!SendPart
  <2>1. Head(parts) \in Nat /\ Tail(parts) \in Seq(Nat)
    BY <1>2 DEF Port!SendPart, OutInv, OutTypeOK
  <2> QED
    BY <1>2, <2>1, SendStep DEF Port!SendPart
<1>3. CASE Port!PortDrains \/ \E lengths \in Messages : Port!SendMessage(lengths)
  <2>1. UNCHANGED <<outBuf, w, r, given, line, accepted>>
    BY <1>3 DEF Port!PortDrains, Port!SendMessage
  <2>2. room \in Nat /\ parts \in Seq(Nat) /\ Messages \subseteq Seq(Nat)
    BY SupportAssumption DEF Port!PortAssumption, OutInv, OutTypeOK
  <2>3. room' \in Nat
    BY <1>3, <2>2 DEF Port!PortDrains, Port!SendMessage
  <2>4. parts' \in Seq(Nat)
    BY <1>3, <2>2 DEF Port!PortDrains, Port!SendMessage
  <2>5. Port!Buffered' = Port!Buffered
    BY <2>1 DEF Port!Buffered, Port!Used
  <2> QED
    BY <2>1, <2>3, <2>4, <2>5 DEF OutInv, OutTypeOK, Port!LineInOrder
<1> QED
  BY <1>1, <1>2, <1>3 DEF Port!OutNext

(* However the line was disturbed before, of two whole sentences in a row  *)
(* the second is found, and no damaged one is (GetMessage); and the bytes  *)
(* taken over are written in order, none of what was refused (SendBuf,     *)
(* NMEA0183.cpp).                                                          *)
THEOREM SentencesPass == SupportSpec => []LinesPass
<1>1. SupportInit => InInv /\ OutInv
  BY InStarts, OutStarts DEF SupportInit
<1>2. InInv /\ OutInv /\ [SupportNext]_SupportVars => InInv' /\ OutInv'
  <2> SUFFICES ASSUME InInv, OutInv, [SupportNext]_SupportVars PROVE InInv' /\ OutInv'
    OBVIOUS
  <2>1. /\ Port!InNext \/ UNCHANGED inVars
        /\ Port!OutNext \/ UNCHANGED outVars
    BY DEF SupportNext, SupportVars, portVars
  <2>2. ASSUME UNCHANGED inVars PROVE InInv'
    <3>1. UNCHANGED <<started, inBuf, star, wire, last, before, heard>>
      BY <2>2 DEF inVars
    <3> QED
      BY <3>1 DEF InInv, Reading, Reader, Clean, Untrue
  <2>3. ASSUME UNCHANGED outVars PROVE OutInv'
    <3>1. UNCHANGED <<outBuf, w, r, room, parts, given, line, accepted>>
      BY <2>3 DEF outVars
    <3>2. Port!Buffered' = Port!Buffered
      BY <3>1 DEF Port!Buffered, Port!Used
    <3> QED
      BY <3>1, <3>2 DEF OutInv, OutTypeOK, Port!LineInOrder
  <2> QED
    BY <2>1, <2>2, <2>3, InStep, OutStep
<1>3. InInv /\ OutInv => LinesPass
  BY SMTT(40), InHears DEF OutInv, LinesPass
<1> QED
  BY <1>1, <1>2, <1>3, PTL DEF SupportSpec

-----------------------------------------------------------------------------
(* The ring buffer is a circle of the same kind. *)

RingOK ==
  /\ rBuffer \in [0 .. Ring!Size - 1 -> {1, 2}]
  /\ rHead \in 0 .. Ring!Size - 1 /\ rTail \in 0 .. Ring!Size - 1

(* The slot a reference points to is the one before tail. *)
RefOK ==
  rRef # None =>
    /\ rRef \in 0 .. Ring!Size - 1 /\ rTail = Slot(rRef + 1, Ring!Size)
    /\ rBuffer[rRef] = rTaken.value

LEMMA RingSize == Ring!Size \in Nat \ {0} /\ Ring!Size >= 3
  BY SupportAssumption DEF Ring!RingAssumption, Ring!Size

(* How many slots lie between a and h. *)
CountOf(h, a, N) == IF h - a < 0 THEN h - a + N ELSE h - a

(* n values are held from a = tail on; h is head. *)
RingAt(N, a, h, n, b) ==
  /\ N = Ring!Size /\ a = rTail /\ h = rHead /\ n = Ring!count /\ b = rBuffer
  /\ a \in 0 .. N - 1 /\ h \in 0 .. N - 1 /\ n \in 0 .. N - 1
  /\ h = Slot(a + n, N) /\ b \in [0 .. N - 1 -> Nat]
  /\ n = CountOf(h, a, N)
  /\ Ring!Held = Content(b, a, n, N)

LEMMA RingThere ==
  ASSUME RingOK
  PROVE  \E N \in Nat \ {0} : \E a, h, n, b : RingAt(N, a, h, n, b)
<1>1. PICK N \in Nat \ {0} : N = Ring!Size
  BY RingSize
<1>2. PICK a, h, b : a = rTail /\ h = rHead /\ b = rBuffer
  OBVIOUS
<1>3. PICK n : n = Ring!count
  OBVIOUS
<1>4. a \in 0 .. N - 1 /\ h \in 0 .. N - 1
  BY <1>1, <1>2 DEF RingOK
<1>5. n = IF h - a < 0 THEN h - a + N ELSE h - a
  BY <1>1, <1>2, <1>3 DEF Ring!count
<1>6. n \in 0 .. N - 1
  BY <1>4, <1>5
<1>7. h = Slot(a + n, N)
  <2>1. PICK y : y = a + n
    OBVIOUS
  <2>2. y \in Int /\ 0 - N <= y /\ 0 <= y /\ y < 2 * N /\ (y = h \/ y = h + N)
    BY <1>4, <1>5, <2>1
  <2>3. Slot(y, N) = IF y < 0 THEN y + N ELSE IF y < N THEN y ELSE y - N
    BY <2>2, SlotCases
  <2>4. Slot(y, N) = h
    BY <1>4, <2>2, <2>3
  <2> QED
    BY <2>1, <2>4
<1>8. b \in [0 .. N - 1 -> Nat]
  BY <1>1, <1>2 DEF RingOK
<1>9. Ring!Held = Content(b, a, n, N)
  BY <1>1, <1>2, <1>3 DEF Ring!Held, Content, Slot
<1>10. RingAt(N, a, h, n, b)
  BY <1>1, <1>2, <1>3, <1>4, <1>5, <1>6, <1>7, <1>8, <1>9 DEF RingAt, CountOf
<1> QED
  BY <1>10

(* The same after a step. *)
LEMMA RingNext ==
  ASSUME NEW N, N = Ring!Size, NEW a, a = rTail', NEW h, h = rHead', NEW n, n = Ring!count',
         NEW b, b = rBuffer'
  PROVE  /\ Ring!Held' = Content(b, a, n, N)
         /\ n = CountOf(h, a, N)
  BY DEF Ring!Held, Ring!count, Content, Slot, CountOf

LEMMA CountIs ==
  ASSUME NEW N \in Nat \ {0}, NEW a \in 0 .. N - 1, NEW n \in 0 .. N - 1,
         NEW h, h = Slot(a + n, N)
  PROVE  CountOf(h, a, N) = n /\ h \in 0 .. N - 1
<1>1. PICK y : y = a + n
  OBVIOUS
<1>2. y \in Int /\ 0 - N <= y /\ y < 2 * N /\ 0 <= y
  BY <1>1
<1>3. h = (IF y < 0 THEN y + N ELSE IF y < N THEN y ELSE y - N) /\ h \in 0 .. N - 1
  BY <1>1, <1>2, SlotCases
<1> QED
  BY <1>1, <1>2, <1>3 DEF CountOf

(* One slot further, twice. *)
LEMMA SlotOn ==
  ASSUME NEW N \in Nat \ {0}, NEW a \in 0 .. N - 1, NEW n \in Nat, n + 1 <= N - 1
  PROVE  /\ Slot(Slot(a + n, N) + 1, N) = Slot(a + (n + 1), N)
         /\ Slot(Slot(a + 1, N) + n, N) = Slot(a + (n + 1), N)
<1>1. PICK p, o, y, z : p = a + n /\ o = a + 1 /\ y = Slot(p, N) /\ z = Slot(o, N)
  OBVIOUS
<1>2. /\ p \in Int /\ 0 <= p /\ 0 - N <= p /\ p < 2 * N
      /\ o \in Int /\ 0 <= o /\ 0 - N <= o /\ o < 2 * N
  BY <1>1
<1>3. /\ y = (IF p < 0 THEN p + N ELSE IF p < N THEN p ELSE p - N) /\ y \in 0 .. N - 1
      /\ z = (IF o < 0 THEN o + N ELSE IF o < N THEN o ELSE o - N) /\ z \in 0 .. N - 1
  BY <1>1, <1>2, SlotCases
<1>4. PICK i, j, k : i = y + 1 /\ j = z + n /\ k = a + (n + 1)
  OBVIOUS
<1>5. /\ i \in Int /\ 0 <= i /\ 0 - N <= i /\ i < 2 * N
      /\ j \in Int /\ 0 <= j /\ 0 - N <= j /\ j < 2 * N
      /\ k \in Int /\ 0 <= k /\ 0 - N <= k /\ k < 2 * N
  BY <1>3, <1>4
<1>6. (i = k \/ i = k - N) /\ (j = k \/ j = k - N)
  BY <1>1, <1>2, <1>3, <1>4
<1>7. /\ Slot(i, N) = (IF i < 0 THEN i + N ELSE IF i < N THEN i ELSE i - N)
      /\ Slot(j, N) = (IF j < 0 THEN j + N ELSE IF j < N THEN j ELSE j - N)
      /\ Slot(k, N) = (IF k < 0 THEN k + N ELSE IF k < N THEN k ELSE k - N)
  BY <1>5, SlotCases
<1>8. Slot(i, N) = Slot(k, N) /\ Slot(j, N) = Slot(k, N)
  BY <1>5, <1>6, <1>7
<1> QED
  BY <1>1, <1>4, <1>8

(* A value is written at head, unless head is the slot before tail. *)
LEMMA RingAdds ==
  ASSUME RingOK, RefOK, NEW v \in {1, 2}, Ring!add(v)
  PROVE  RingOK' /\ RefOK' /\ Ring!Held' = Append(Ring!Held, v)
<1>0. PICK N \in Nat \ {0} : \E a, h, n, b : RingAt(N, a, h, n, b)
  BY RingThere
<1>1. PICK a, h, n, b : RingAt(N, a, h, n, b)
  BY <1>0
<1>2. /\ N = Ring!Size /\ a = rTail /\ h = rHead /\ b = rBuffer
      /\ a \in 0 .. N - 1 /\ h \in 0 .. N - 1 /\ n \in 0 .. N - 1
      /\ h = Slot(a + n, N) /\ b \in [0 .. N - 1 -> Nat]
      /\ Ring!Held = Content(b, a, n, N)
  BY <1>1 DEF RingAt
<1>3. Slot(h + 1, N) # a
  BY <1>2 DEF Ring!add, Ring!Full, Ring!Next1, Slot
<1>4. /\ rBuffer' = [b EXCEPT ![h] = v] /\ rHead' = Slot(h + 1, N)
      /\ UNCHANGED <<rTail, rRef, rTaken>>
  BY <1>2 DEF Ring!add, Ring!Next1, Slot
<1>5. n + 1 <= N - 1
  <2> SUFFICES ASSUME n = N - 1 PROVE FALSE
    BY <1>2
  <2>1. PICK y : y = h + 1
    OBVIOUS
  <2>2. n = IF h - a < 0 THEN h - a + N ELSE h - a
    BY <1>1 DEF RingAt, CountOf
  <2>3. y = a \/ y = a + N
    <3>1. a \in 0 .. N - 1 /\ h \in 0 .. N - 1 /\ N \in Nat \ {0} /\ n = N - 1
      BY <1>0, <1>2
    <3>2. CASE h - a < 0
      BY <2>1, <2>2, <3>1, <3>2
    <3>3. CASE ~(h - a < 0)
      BY <2>1, <2>2, <3>1, <3>3
    <3> QED
      BY <3>2, <3>3
  <2>4. y \in Int /\ 0 <= y /\ 0 - N <= y /\ y < 2 * N
    BY <1>2, <2>1
  <2>5. Slot(y, N) = IF y < 0 THEN y + N ELSE IF y < N THEN y ELSE y - N
    BY <2>4, SlotCases
  <2>6. Slot(y, N) = a
    BY SMTT(40), <1>2, <2>1, <2>3, <2>4, <2>5
  <2> QED
    BY <1>3, <2>1, <2>6
<1>6. PICK g : g = Slot(h + 1, N)
  OBVIOUS
<1>7. g = Slot(a + (n + 1), N)
  <2>1. n \in Nat
    BY <1>2
  <2>2. Slot(Slot(a + n, N) + 1, N) = Slot(a + (n + 1), N)
    BY <1>2, <1>5, <2>1, SlotOn
  <2> QED
    BY <1>2, <1>6, <2>2
<1>8. n + 1 \in 0 .. N - 1
  BY <1>2, <1>5
<1>9. CountOf(g, a, N) = n + 1 /\ g \in 0 .. N - 1
  <2>1. PICK k \in 0 .. N - 1 : k = n + 1
    BY <1>8
  <2>2. g = Slot(a + k, N)
    BY <1>7, <2>1
  <2>3. CountOf(g, a, N) = k /\ g \in 0 .. N - 1
    <3>1. a \in 0 .. N - 1 /\ N \in Nat \ {0}
      BY <1>0, <1>2
    <3> QED
      BY <2>1, <2>2, <3>1, CountIs
  <2> QED
    BY <2>1, <2>3
<1>10. PICK c : c = [b EXCEPT ![h] = v]
  OBVIOUS
<1>11. c = Filled(b, h, 1, v, N)
  <2>1. ASSUME NEW i \in 0 .. N - 1
        PROVE  c[i] = IF Slot(i - h, N) < 1 THEN v + Slot(i - h, N) ELSE b[i]
    <3>1. PICK x : x = i - h
      OBVIOUS
    <3>2. x \in Int /\ 0 - N <= x /\ x < N /\ x < 2 * N /\ 0 - N < x
      BY SMTT(40), <1>2, <3>1
    <3>3. Slot(x, N) = IF x < 0 THEN x + N ELSE IF x < N THEN x ELSE x - N
      BY <3>2, SlotCases
    <3>4. CASE i = h
      <4>1. x = 0 /\ Slot(x, N) = 0
        BY <1>2, <3>1, <3>2, <3>3, <3>4
      <4>2. v + 0 = v
        OBVIOUS
      <4> QED
        BY <1>2, <1>10, <3>1, <3>4, <4>1, <4>2
    <3>5. CASE i # h
      <4>1. x # 0 /\ x \in Int /\ N \in Int /\ 0 - N < x /\ x < N
        BY <1>0, <1>2, <3>1, <3>2, <3>5
      <4>2. ASSUME x < 0 PROVE ~(Slot(x, N) < 1)
        <5>1. Slot(x, N) = x + N
          BY <3>3, <4>2
        <5> QED
          BY <4>1, <5>1
      <4>3. ASSUME 0 < x PROVE ~(Slot(x, N) < 1)
        <5>1. Slot(x, N) = x
          BY <3>3, <4>1, <4>3
        <5> QED
          BY <4>1, <4>3, <5>1
      <4>4. ~(Slot(x, N) < 1)
        BY <4>1, <4>2, <4>3
      <4> QED
        BY <1>2, <1>10, <3>1, <3>5, <4>4
    <3> QED
      BY <3>4, <3>5
  <2>2. DOMAIN b = 0 .. N - 1 /\ c = [i \in 0 .. N - 1 |-> c[i]]
    BY <1>2, <1>10
  <2> QED
    BY <2>1, <2>2 DEF Filled
<1>12. IsBehind(c, b, a, n, 1, v, N)
  BY <1>2, <1>5, <1>11, ContentBehind
<1>13. Port!Bytes(v, 1) = <<v>>
  BY DEF Port!Bytes
<1>14. Content(c, a, n + 1, N) = Append(Content(b, a, n, N), v)
  <2>1. PICK s : s = Content(b, a, n, N)
    OBVIOUS
  <2>2. a \in Nat /\ n \in Nat
    BY <1>2
  <2>3. s \in Seq(Nat)
    BY <1>2, <2>1, <2>2, ContentType DEF IsContent
  <2>4. s \o <<v>> = Append(s, v)
    BY <2>3
  <2> QED
    BY <1>12, <1>13, <2>1, <2>4 DEF IsBehind
<1>15. Ring!Held' = Append(Ring!Held, v)
  <2>1. PICK k : k = Ring!count'
    OBVIOUS
  <2>2. Ring!Held' = Content(c, a, k, N) /\ k = CountOf(g, a, N)
    BY <1>2, <1>4, <1>6, <1>10, <2>1, RingNext
  <2> QED
    BY <1>2, <1>9, <1>14, <2>2
<1>16. RingOK'
  <2>1. c \in [0 .. N - 1 -> {1, 2}]
    BY <1>2, <1>10 DEF RingOK
  <2> QED
    BY <1>2, <1>4, <1>6, <1>9, <1>10, <2>1 DEF RingOK, Ring!Size
<1>17. RefOK'
  <2> SUFFICES ASSUME rRef # None
               PROVE  /\ rRef \in 0 .. N - 1 /\ rTail = Slot(rRef + 1, N)
                      /\ c[rRef] = rTaken.value
    BY <1>2, <1>4, <1>10 DEF RefOK, Ring!Size
  <2>1. /\ rRef \in 0 .. N - 1 /\ rTail = Slot(rRef + 1, N)
        /\ b[rRef] = rTaken.value
    BY <1>2 DEF RefOK
  <2>2. rRef # h
    BY <1>2, <1>3, <2>1
  <2> QED
    BY <1>2, <1>10, <2>1, <2>2
<1> QED
  BY <1>15, <1>16, <1>17

(* The value at tail is the oldest. *)
LEMMA RingReads ==
  ASSUME RingOK, Ring!read \/ Ring!getReadRef
  PROVE  /\ RingOK' /\ RefOK' /\ Ring!Held # <<>>
         /\ Ring!Held' = Tail(Ring!Held)
         /\ rTaken' = [value |-> Head(Ring!Held), from |-> "any"]
<1>0. PICK N \in Nat \ {0} : \E a, h, n, b : RingAt(N, a, h, n, b)
  BY RingThere
<1>1. PICK a, h, n, b : RingAt(N, a, h, n, b)
  BY <1>0
<1>2. /\ N = Ring!Size /\ a = rTail /\ h = rHead /\ b = rBuffer
      /\ a \in 0 .. N - 1 /\ h \in 0 .. N - 1 /\ n \in 0 .. N - 1
      /\ h = Slot(a + n, N) /\ b \in [0 .. N - 1 -> Nat]
      /\ Ring!Held = Content(b, a, n, N)
      /\ n = CountOf(h, a, N)
  BY <1>1 DEF RingAt
<1>3. /\ h # a /\ rTaken' = [value |-> b[a], from |-> "any"]
      /\ rTail' = Slot(a + 1, N) /\ UNCHANGED <<rBuffer, rHead>>
      /\ rRef' \in {None, a}
  BY <1>2 DEF Ring!read, Ring!getReadRef, Ring!isEmpty, Ring!Taken, Ring!Next1, Slot
<1>4. n >= 1 /\ n - 1 \in 0 .. N - 1 /\ n \in Nat
  <2>1. a \in Int /\ h \in Int /\ N \in Nat /\ a < N /\ h >= 0 /\ h # a
    BY <1>2, <1>3
  <2>2. n = IF h - a < 0 THEN h - a + N ELSE h - a
    BY <1>2 DEF CountOf
  <2>3. n # 0
    BY <2>1, <2>2
  <2>4. n \in 0 .. N - 1
    BY <1>2
  <2> QED
    BY <2>3, <2>4
<1>5. PICK g : g = Slot(a + 1, N)
  OBVIOUS
<1>6. g \in 0 .. N - 1
  <2>1. a + 1 \in Int /\ 0 - N <= a + 1 /\ a + 1 < 2 * N
    BY <1>2
  <2> QED
    BY <1>5, <2>1, SlotCases
<1>7. h = Slot(g + (n - 1), N)
  <2>1. PICK k : k = n - 1
    OBVIOUS
  <2>2. k \in Nat /\ k + 1 <= N - 1 /\ k + 1 = n
    <3>1. n \in 0 .. N - 1 /\ n >= 1
      BY <1>2, <1>4
    <3> QED
      BY <2>1, <3>1
  <2>3. Slot(Slot(a + 1, N) + k, N) = Slot(a + (k + 1), N)
    BY <1>2, <2>2, SlotOn
  <2> QED
    BY <1>2, <1>5, <2>1, <2>2, <2>3
<1>8. CountOf(h, g, N) = n - 1
  <2>1. PICK k \in 0 .. N - 1 : k = n - 1
    BY <1>4
  <2>2. h = Slot(g + k, N)
    BY <1>7, <2>1
  <2>3. CountOf(h, g, N) = k
    BY <1>6, <2>2, CountIs
  <2> QED
    BY <2>1, <2>3
<1>9. PICK s, t : s = Content(b, a, n, N) /\ t = Content(b, g, n - 1, N)
  OBVIOUS
<1>10. SubSeq(s, 1, 1) \o t = s
  <2>1. 1 \in 0 .. n
    BY <1>2, <1>4
  <2>2. PICK one \in 0 .. n : one = 1
    BY <2>1
  <2>3. SubSeq(Content(b, a, n, N), 1, one) \o Content(b, Slot(a + one, N), n - one, N)
          = Content(b, a, n, N)
    <3>1. /\ N \in Nat \ {0} /\ b \in [0 .. N - 1 -> Nat]
          /\ a \in 0 .. N - 1 /\ n \in 0 .. N - 1
      BY <1>0, <1>2
    <3> QED
      BY <2>2, <3>1, ContentFront
  <2> QED
    BY <1>5, <1>9, <2>2, <2>3
<1>11. s \in Seq(Nat) /\ Len(s) = n /\ s[1] = b[Slot(a + 1 - 1, N)]
  <2>1. a \in Nat /\ n \in Nat /\ 1 \in 1 .. n
    BY <1>2, <1>4
  <2>2. IsContent(s, b, a, n, N)
    BY <1>2, <1>9, <2>1, ContentType
  <2> QED
    BY <2>1, <2>2 DEF IsContent
<1>12. t \in Seq(Nat)
  <2>1. g \in Nat /\ n - 1 \in Nat
    BY <1>4, <1>6
  <2> QED
    BY <1>2, <1>9, <2>1, ContentType DEF IsContent
<1>13. Slot(a + 1 - 1, N) = a
  <2>1. a + 1 - 1 = a /\ a \in Int /\ 0 - N <= a /\ a < 2 * N /\ 0 <= a /\ a < N
    BY <1>2
  <2> QED
    BY <2>1, SlotCases
<1>14. s # <<>> /\ Head(s) = b[a] /\ Tail(s) = t
  <2>1. s # <<>>
    BY <1>4, <1>11
  <2>2. SubSeq(s, 1, 1) = <<s[1]>>
    <3>1. PICK u : u = SubSeq(s, 1, 1)
      OBVIOUS
    <3>2. u \in Seq(Nat) /\ Len(u) = 1 /\ u[1] = s[1]
      BY <1>4, <1>11, <3>1
    <3>3. <<s[1]>> \in Seq(Nat) /\ Len(<<s[1]>>) = 1 /\ <<s[1]>>[1] = s[1]
      BY <1>4, <1>11
    <3>4. \A i \in 1 .. 1 : i = 1
      OBVIOUS
    <3> QED
      BY <3>1, <3>2, <3>3, <3>4, SeqEqual
  <2>3. s = <<s[1]>> \o t
    BY <1>10, <2>2
  <2>4. Tail(<<s[1]>> \o t) = t
    BY <1>12
  <2>5. Head(s) = s[1]
    BY <1>11, <2>1
  <2> QED
    BY <1>11, <1>13, <2>1, <2>3, <2>4, <2>5
<1>15. Ring!Held' = t
  <2>1. PICK k : k = Ring!count'
    OBVIOUS
  <2>2. Ring!Held' = Content(b, g, k, N) /\ k = CountOf(h, g, N)
    BY ZenonT(60), <1>2, <1>3, <1>5, <2>1, RingNext
  <2> QED
    BY <1>8, <1>9, <2>2
<1>16. RingOK'
  BY <1>2, <1>3, <1>5, <1>6 DEF RingOK, Ring!Size
<1>17. RefOK'
  BY <1>2, <1>3, <1>5 DEF RefOK, Ring!Size
<1> QED
  BY <1>2, <1>3, <1>9, <1>14, <1>15, <1>16, <1>17

(* Nothing is lost, repeated or overtaken in a tRingBuffer, round after    *)
(* round, and a reference handed out keeps its value until the next read.  *)
THEOREM RingIsQueue == SupportSpec => Ring!IsQueue /\ []Ring!ReferenceKept
<1> DEFINE held == [p \in {0} |-> Ring!Held]
<1>1. SupportInit => RingOK /\ RefOK /\ Ring!Held = <<>> /\ rTaken = None
  <2> SUFFICES ASSUME SupportInit
               PROVE  RingOK /\ RefOK /\ Ring!Held = <<>> /\ rTaken = None
    OBVIOUS
  <2>1. /\ rBuffer \in {[slot \in 0 .. Ring!Size - 1 |-> v] : v \in {1, 2}}
        /\ rHead = 0 /\ rTail = 0 /\ rRef = None /\ rTaken = None
    BY DEF SupportInit, Ring!Init
  <2>2. RingOK
    <3>1. 0 \in 0 .. Ring!Size - 1
      BY RingSize
    <3> QED
      BY <2>1, <3>1 DEF RingOK
  <2>3. Ring!Held = <<>>
    <3>1. Ring!count = 0
      BY <2>1 DEF Ring!count
    <3> QED
      BY <3>1 DEF Ring!Held
  <2> QED
    BY <2>1, <2>2, <2>3 DEF RefOK
<1>2. RingOK /\ RefOK /\ [SupportNext]_SupportVars => RingOK' /\ RefOK'
  <2> SUFFICES ASSUME RingOK, RefOK, [SupportNext]_SupportVars PROVE RingOK' /\ RefOK'
    OBVIOUS
  <2>1. Ring!Next \/ UNCHANGED rVars
    BY DEF SupportNext, SupportVars
  <2>2. CASE UNCHANGED rVars
    BY <2>2 DEF rVars, RingOK, RefOK, Ring!Size
  <2>3. CASE Ring!clear
    <3>1. 0 \in 0 .. Ring!Size - 1
      BY RingSize
    <3> QED
      BY <2>3, <3>1 DEF Ring!clear, RingOK, RefOK, Ring!Size
  <2> QED
    BY <2>1, <2>2, <2>3, RingAdds, RingReads DEF Ring!Next
<1>3. RingOK /\ RefOK /\ [SupportNext]_SupportVars
        => [Ring!Abstract!Next]_(Ring!Abstract!vars)
  <2> SUFFICES ASSUME RingOK, RefOK, [SupportNext]_SupportVars
               PROVE  [Ring!Abstract!Next]_(Ring!Abstract!vars)
    OBVIOUS
  <2>1. Ring!Next \/ UNCHANGED rVars
    BY DEF SupportNext, SupportVars
  <2>2. CASE UNCHANGED rVars
    <3>1. Ring!Held' = Ring!Held /\ rTaken' = rTaken
      BY <2>2 DEF rVars, Ring!Held, Ring!count
    <3> QED
      BY <3>1 DEF Ring!Abstract!vars
  <2>3. Ring!Abstract!Priorities = {0}
    BY DEF Ring!Abstract!Priorities
  <2>4. ASSUME NEW v \in {1, 2}, Ring!add(v) PROVE Ring!Abstract!Next
    <3>1. Ring!Held' = Append(Ring!Held, v) /\ rTaken' = rTaken
      BY <2>4, RingAdds DEF Ring!add
    <3>2. Ring!Abstract!Put(0, v)
      BY <3>1 DEF Ring!Abstract!Put
    <3> QED
      BY <2>3, <3>2 DEF Ring!Abstract!Next
  <2>5. CASE Ring!read \/ Ring!getReadRef
    <3>1. /\ Ring!Held # <<>> /\ Ring!Held' = Tail(Ring!Held)
          /\ rTaken' = [value |-> Head(Ring!Held), from |-> "any"]
      BY <2>5, RingReads
    <3>2. Ring!Abstract!TakeMostUrgent
      <4>1. PICK p : p = 0
        OBVIOUS
      <4>2. p \in {0} /\ \A u \in 0 .. p - 1 : FALSE
        BY <4>1
      <4>3. held[p] = Ring!Held /\ held' = [held EXCEPT ![p] = Ring!Held']
        BY <4>1
      <4> QED
        BY <2>3, <3>1, <4>1, <4>2, <4>3 DEF Ring!Abstract!TakeMostUrgent
    <3> QED
      BY <3>2 DEF Ring!Abstract!Next
  <2>6. CASE Ring!clear
    <3>1. Ring!Held' = <<>> /\ rTaken' = rTaken
      <4>1. Ring!count' = 0
        BY <2>6 DEF Ring!clear, Ring!count
      <4> QED
        BY <2>6, <4>1 DEF Ring!clear, Ring!Held
    <3> QED
      BY <2>3, <3>1 DEF Ring!Abstract!Clear, Ring!Abstract!Next
  <2> QED
    BY <2>1, <2>2, <2>4, <2>5, <2>6 DEF Ring!Next
<1>4. SupportInit => Ring!Abstract!Init
  <2>1. Ring!Abstract!Priorities = {0}
    BY DEF Ring!Abstract!Priorities
  <2> QED
    BY <1>1, <2>1 DEF Ring!Abstract!Init
<1>5. RefOK => Ring!ReferenceKept
  BY DEF RefOK, Ring!ReferenceKept
<1> QED
  BY <1>1, <1>2, <1>3, <1>4, <1>5, PTL DEF SupportSpec, Ring!IsQueue, Ring!Abstract!Spec

-----------------------------------------------------------------------------
(* HandlerLists: a list of handlers is a sequence, which the links lead     *)
(* through.  Walks along the links are recursive functions; that they end,  *)
(* and where, is shown for the last position in the sequence at which it    *)
(* would be untrue.                                                         *)

(* The element at position k of s, or None behind its end. *)
Elem(s, k) == IF k \in 1 .. Len(s) THEN s[k] ELSE None

Holds(s, h) == \E k \in 1 .. Len(s) : s[k] = h

(* s holds nothing twice. *)
Distinct(s) == \A i, j \in 1 .. Len(s) : s[i] = s[j] => i = j

(* s is what the links next lead through, from first on. *)
Linked(first, next, s) ==
  /\ first = Elem(s, 1)
  /\ \A k \in 1 .. Len(s) : next[s[k]] = Elem(s, k + 1)

(* s is the list of bus b: of those the bus owns, sorted by PGN. *)
ListOf(l, b, s) ==
  /\ s \in Seq(Handlers) /\ Distinct(s)
  /\ Linked(l.first[b], l.next, s)
  /\ \A h \in Handlers : l.owner[h] = b <=> \E k \in 1 .. Len(s) : s[k] = h
  /\ \A i, j \in 1 .. Len(s) : i <= j => Lists!PGN(s[i]) <= Lists!PGN(s[j])

ListsOK(l) ==
  /\ l = [first |-> l.first, next |-> l.next, owner |-> l.owner]
  /\ l.first \in [Buses -> Handlers \cup {None}]
  /\ l.next \in [Handlers -> Handlers \cup {None}]
  /\ l.owner \in [Handlers -> Buses \cup {None}]
  /\ \A h \in Handlers : l.owner[h] = None => l.next[h] = None
  /\ \A b \in Buses : \E s \in Seq(Handlers) : ListOf(l, b, s)

Asked(h) == Lists!PGN(h) \in {0, run.pgn}

(* Of those that stayed, the ones before the place of the run in the list  *)
(* were called.                                                            *)
RunAt(s) ==
  \/ /\ run.stop.at = None
     /\ \A h \in run.stayed : Asked(h) => run.called[h] = 1
  \/ \E k \in 1 .. Len(s) :
       /\ run.stop.at = s[k] /\ Asked(s[k])
       /\ run.stop.loop = 1 <=> Lists!PGN(s[k]) = 0
       /\ \A j \in 1 .. Len(s) : s[j] \in run.stayed /\ Asked(s[j]) =>
            run.called[s[j]] = IF j < k THEN 1 ELSE 0

RunShape ==
  /\ run = [bus |-> run.bus, pgn |-> run.pgn, stop |-> run.stop, called |-> run.called,
            stayed |-> run.stayed, tame |-> run.tame, changes |-> run.changes]
  /\ run.tame \in BOOLEAN

RunServes ==
  /\ run.bus \in Buses /\ run.pgn \in PGNs
  /\ run.stop \in [loop : {1, 2}, at : Handlers \cup {None}]
  /\ run.called \in [Handlers -> Nat]
  /\ \A h \in Handlers : ~Asked(h) => run.called[h] = 0
  /\ run.stayed \subseteq {h \in Handlers : list.owner[h] = run.bus}
  /\ \E s \in Seq(Handlers) : ListOf(list, run.bus, s) /\ RunAt(s)

RunOK == run # None => RunShape /\ (run.tame => RunServes)

MessagesOK == ListsOK(list) /\ RunOK

(* s is the list of group function handlers. *)
GroupOf(g, s) ==
  /\ s \in Seq(Lists!GroupHandlers) /\ Distinct(s)
  /\ Linked(g.first, g.next, s)
  /\ \A h \in Lists!GroupHandlers : (\A k \in 1 .. Len(s) : s[k] # h) => g.next[h] = None
  /\ \A i, j \in 2 .. Len(s) : i <= j /\ Lists!PGN(s[i]) = 0 => Lists!PGN(s[j]) = 0

(* The first n handlers of the library are in the list, and no later one. *)
OwnUpTo(s, n) ==
  /\ \A k \in 1 .. Len(OwnGroup) : Holds(s, OwnGroup[k]) <=> k <= n
  /\ n = Len(OwnGroup) => s[1] # Lists!DefaultGroup

GroupsOK ==
  /\ group = [first |-> group.first, next |-> group.next, opened |-> group.opened]
  /\ group.first \in Lists!GroupHandlers \cup {None}
  /\ group.next \in [Lists!GroupHandlers -> Lists!GroupHandlers \cup {None}]
  /\ group.opened \in BOOLEAN
  /\ \E s \in Seq(Lists!GroupHandlers) :
       GroupOf(group, s) /\ OwnUpTo(s, IF group.opened THEN Len(OwnGroup) ELSE 0)

-----------------------------------------------------------------------------
(* A set of positions that is not empty has a last one.                    *)
LEMMA LastPosition ==
  ASSUME NEW n \in Nat, NEW K, K \subseteq 1 .. n, K # {}
  PROVE  \E k \in K : \A j \in K : j <= k
<1> DEFINE S == 1 .. n
           R == StrictSubsetOrdering(S)
           T == {i .. n : i \in K}
<1>1. IsFiniteSet(S)
  BY FS_Interval
<1>2. T \subseteq FiniteSubsetsOf(S)
  <2> SUFFICES ASSUME NEW i \in K PROVE i .. n \in FiniteSubsetsOf(S)
    OBVIOUS
  <2>1. i .. n \subseteq S
    OBVIOUS
  <2>2. IsFiniteSet(i .. n)
    BY FS_Interval
  <2> QED
    BY <2>1, <2>2 DEF FiniteSubsetsOf
<1>3. T # {}
  OBVIOUS
<1>4. IsWellFoundedOn(R, FiniteSubsetsOf(S))
  BY FS_StrictSubsetOrderingWellFounded
<1> HIDE DEF R
<1>5. PICK x \in T : \A y \in T : ~(<<y, x>> \in R)
  <2> HIDE DEF T
  <2> QED
    BY <1>2, <1>3, <1>4, WFMin
<1>6. PICK k \in K : x = k .. n
  OBVIOUS
<1>7. ASSUME NEW j \in K, j > k PROVE FALSE
  <2>1. j .. n \in T
    OBVIOUS
  <2>2. j .. n \subseteq S /\ k .. n \subseteq S
    OBVIOUS
  <2>3. k \in k .. n /\ k \notin j .. n
    BY <1>7
  <2>4. j .. n \subseteq k .. n
    BY <1>7
  <2>5. <<j .. n, k .. n>> \in R
    BY <2>2, <2>3, <2>4 DEF R, StrictSubsetOrdering
  <2> QED
    BY <2>1, <2>5, <1>5, <1>6
<1>8. \A j \in K : j <= k
  BY <1>7
<1> QED
  BY <1>8

(* And a first one.                                                        *)
LEMMA FirstPosition ==
  ASSUME NEW n \in Nat, NEW K, K \subseteq 1 .. n, K # {}
  PROVE  \E k \in K : \A j \in K : k <= j
<1> DEFINE M == {n + 1 - i : i \in K}
<1>1. M \subseteq 1 .. n /\ M # {}
  <2>1. M \subseteq 1 .. n
    OBVIOUS
  <2>2. PICK i \in K : TRUE
    OBVIOUS
  <2>3. n + 1 - i \in M
    OBVIOUS
  <2> QED
    BY <2>1, <2>3
<1>2. PICK z \in M : \A j \in M : j <= z
  <2> HIDE DEF M
  <2> QED
    BY <1>1, LastPosition
<1>3. PICK k \in K : z = n + 1 - k
  OBVIOUS
<1>4. ASSUME NEW j \in K PROVE k <= j
  <2>1. n + 1 - j \in M
    OBVIOUS
  <2>2. n + 1 - j <= n + 1 - k
    BY <2>1, <1>2, <1>3
  <2> QED
    BY <2>2
<1> QED
  BY <1>4

(* From x the links next lead to y, the first in Q they lead to.           *)
Leads(D, Q, next, x, y) ==
  \E c \in Seq(D) :
    /\ Len(c) >= 1 /\ c[1] = x /\ c[Len(c)] = y /\ y \in Q
    /\ \A k \in 1 .. Len(c) - 1 : c[k] \notin Q /\ c[k + 1] = next[c[k]]

LEMMA LeadsOn ==
  ASSUME NEW D, NEW Q, NEW next, NEW x \in D, x \notin Q, next[x] \in D, NEW y
  PROVE  Leads(D, Q, next, x, y) <=> Leads(D, Q, next, next[x], y)
<1>1. ASSUME Leads(D, Q, next, x, y) PROVE Leads(D, Q, next, next[x], y)
  <2>1. PICK c \in Seq(D) :
          /\ Len(c) >= 1 /\ c[1] = x /\ c[Len(c)] = y /\ y \in Q
          /\ \A k \in 1 .. Len(c) - 1 : c[k] \notin Q /\ c[k + 1] = next[c[k]]
    BY <1>1 DEF Leads
  <2>2. Len(c) \in Nat /\ Len(c) >= 2
    BY <2>1
  <2>3. PICK n \in Nat : n = Len(c) - 1
    BY <2>2
  <2> DEFINE d == [k \in 1 .. n |-> c[k + 1]]
  <2>4. d \in Seq(D) /\ Len(d) = n /\ \A k \in 1 .. n : d[k] = c[k + 1]
    BY <2>2, <2>3
  <2> HIDE DEF d
  <2>5. d[1] = next[x] /\ d[Len(d)] = y
    BY <2>1, <2>2, <2>3, <2>4
  <2>6. \A k \in 1 .. Len(d) - 1 : d[k] \notin Q /\ d[k + 1] = next[d[k]]
    <3> SUFFICES ASSUME NEW k \in 1 .. n - 1
                 PROVE  d[k] \notin Q /\ d[k + 1] = next[d[k]]
      BY <2>4
    <3>1. k + 1 \in 1 .. Len(c) - 1 /\ k \in 1 .. n /\ k + 1 \in 1 .. n
      BY <2>3
    <3> QED
      BY <3>1, <2>1, <2>4
  <2>7. Len(d) >= 1
    BY <2>2, <2>3, <2>4
  <2> QED
    BY <2>1, <2>4, <2>5, <2>6, <2>7 DEF Leads
<1>2. ASSUME Leads(D, Q, next, next[x], y) PROVE Leads(D, Q, next, x, y)
  <2>1. PICK c \in Seq(D) :
          /\ Len(c) >= 1 /\ c[1] = next[x] /\ c[Len(c)] = y /\ y \in Q
          /\ \A k \in 1 .. Len(c) - 1 : c[k] \notin Q /\ c[k + 1] = next[c[k]]
    BY <1>2 DEF Leads
  <2>2. PICK n \in Nat : n = Len(c)
    OBVIOUS
  <2> DEFINE d == [k \in 1 .. n + 1 |-> IF k = 1 THEN x ELSE c[k - 1]]
  <2>4. /\ d \in Seq(D) /\ Len(d) = n + 1 /\ d[1] = x
        /\ \A k \in 2 .. n + 1 : d[k] = c[k - 1]
    <3>1. \A k \in 1 .. n + 1 : d[k] \in D
      BY <2>2
    <3>2. n + 1 \in Nat
      OBVIOUS
    <3>3. d \in [1 .. n + 1 -> D]
      BY <3>1
    <3> QED
      BY <3>2, <3>3
  <2> HIDE DEF d
  <2>5. d[Len(d)] = y
    BY <2>1, <2>2, <2>4
  <2>6. \A k \in 1 .. Len(d) - 1 : d[k] \notin Q /\ d[k + 1] = next[d[k]]
    <3> SUFFICES ASSUME NEW k \in 1 .. n
                 PROVE  d[k] \notin Q /\ d[k + 1] = next[d[k]]
      BY <2>4
    <3>1. d[k + 1] = c[k]
      BY <2>4
    <3>2. CASE k = 1
      BY <3>1, <3>2, <2>1, <2>4
    <3>3. CASE k # 1
      <4>1. k - 1 \in 1 .. Len(c) - 1 /\ d[k] = c[k - 1] /\ (k - 1) + 1 = k
        BY <3>3, <2>2, <2>4
      <4> QED
        BY <3>1, <4>1, <2>1
    <3> QED
      BY <3>2, <3>3
  <2>7. Len(d) >= 1
    BY <2>2, <2>4
  <2> QED
    BY <2>1, <2>4, <2>5, <2>6, <2>7 DEF Leads
<1> QED
  BY <1>1, <1>2

(* go walks along next until it stands in Q and gives what out says of that *)
(* place.                                                                  *)
Walks(D, Q, next, out, go) ==
  go = [x \in D |-> IF x \in Q THEN out[x] ELSE go[next[x]]]

Walk(D, Q, next, out) == CHOOSE go : Walks(D, Q, next, out, go)

(* There is such a function, wherever the links lead.                      *)
LEMMA WalkThere ==
  ASSUME NEW D, NEW Q, Q \subseteq D, NEW next, NEW out,
         \A x \in D : x \notin Q => next[x] \in D
  PROVE  Walks(D, Q, next, out, Walk(D, Q, next, out))
<1> DEFINE end(x) == CHOOSE y : Leads(D, Q, next, x, y)
           v == [x \in D |-> out[end(x)]]
<1>1. ASSUME NEW x \in D, x \in Q PROVE end(x) = x
  <2>1. Leads(D, Q, next, x, x)
    <3>0. PICK c : c = <<x>>
      OBVIOUS
    <3>1. c \in Seq(D) /\ Len(c) = 1 /\ c[1] = x
      BY <3>0
    <3>2. \A k \in 1 .. Len(c) - 1 : FALSE
      BY <3>1
    <3> QED
      BY <3>1, <3>2, <1>1 DEF Leads
  <2>2. ASSUME NEW y, Leads(D, Q, next, x, y) PROVE y = x
    <3>1. PICK c \in Seq(D) :
            /\ Len(c) >= 1 /\ c[1] = x /\ c[Len(c)] = y
            /\ \A k \in 1 .. Len(c) - 1 : c[k] \notin Q
      BY <2>2 DEF Leads
    <3>2. CASE Len(c) = 1
      BY <3>1, <3>2
    <3>3. CASE Len(c) # 1
      <4>1. PICK n \in Nat : n = Len(c)
        OBVIOUS
      <4>a. n >= 1 /\ n # 1
        BY <3>1, <3>3, <4>1
      <4>2. 1 \in 1 .. Len(c) - 1
        BY <4>1, <4>a
      <4>3. c[1] \notin Q
        BY <4>2, <3>1
      <4> QED
        BY <4>3, <3>1, <1>1
    <3> QED
      BY <3>2, <3>3
  <2> QED
    BY <2>1, <2>2
<1>2. ASSUME NEW x \in D, x \notin Q PROVE end(x) = end(next[x])
  <2>1. \A y : Leads(D, Q, next, x, y) <=> Leads(D, Q, next, next[x], y)
    BY <1>2, LeadsOn
  <2> QED
    BY <2>1
<1> HIDE DEF end
<1>3. v = [x \in D |-> IF x \in Q THEN out[x] ELSE v[next[x]]]
  <2>1. ASSUME NEW x \in D
        PROVE  v[x] = IF x \in Q THEN out[x] ELSE v[next[x]]
    BY <2>1, <1>1, <1>2
  <2> QED
    BY <2>1
<1>4. Walks(D, Q, next, out, v)
  BY <1>3 DEF Walks
<1> QED
  BY <1>4 DEF Walk

(* Where such a walk ends that goes along the sequence s.                  *)
LEMMA WalkEnds ==
  ASSUME NEW D, NEW Q, NEW next, NEW out, NEW go, NEW s,
         Walks(D, Q, next, out, go),
         NEW k \in Nat, NEW n \in Nat, 1 <= k, k <= n,
         \A i \in k .. n : s[i] \in D,
         \A i \in k .. n : i < n => s[i] \notin Q /\ next[s[i]] = s[i + 1],
         s[n] \in Q
  PROVE  go[s[k]] = out[s[n]]
<1> DEFINE K == {i \in k .. n : go[s[i]] # out[s[n]]}
<1>0. \A x \in D : go[x] = IF x \in Q THEN out[x] ELSE go[next[x]]
  <2> DEFINE f == [x \in D |-> IF x \in Q THEN out[x] ELSE go[next[x]]]
  <2>1. \A x \in D : f[x] = IF x \in Q THEN out[x] ELSE go[next[x]]
    OBVIOUS
  <2>2. go = f
    BY DEF Walks
  <2> HIDE DEF f
  <2> QED
    BY <2>1, <2>2
<1>1. CASE K = {}
  BY <1>1
<1>2. CASE K # {}
  <2>1. K \subseteq 1 .. n
    OBVIOUS
  <2>2. PICK i \in K : \A j \in K : j <= i
    <3> HIDE DEF K
    <3> QED
      BY <1>2, <2>1, LastPosition
  <2>3. i # n
    BY <1>0
  <2>4. i + 1 \in k .. n /\ i + 1 \notin K
    BY <2>2, <2>3
  <2>5. go[s[i + 1]] = out[s[n]]
    BY <2>4
  <2>6. go[s[i]] = go[s[i + 1]]
    BY <1>0, <2>3
  <2> QED
    BY <2>5, <2>6
<1> QED
  BY <1>1, <1>2
(* A walk that comes to position k of s and cannot leave it stops at   *)
(* the first position from there on that is in Q.                          *)
Route(D, Q, next, s, n) ==
  /\ Q \subseteq D /\ \A x \in D : x \notin Q => next[x] \in D
  /\ \A i \in 1 .. n : s[i] \in D /\ (i < n => next[s[i]] = s[i + 1])
  /\ s[n] \in Q

StopsOn(D, Q, next, out, s, k, n) ==
  \E j \in k .. n :
    /\ s[j] \in Q /\ \A i \in k .. j - 1 : s[i] \notin Q
    /\ Walk(D, Q, next, out)[s[k]] = out[s[j]]

LEMMA WalkStops ==
  ASSUME NEW D, NEW Q, NEW next, NEW out, NEW n \in Nat, NEW s, NEW k \in 1 .. n,
         Route(D, Q, next, s, n)
  PROVE  StopsOn(D, Q, next, out, s, k, n)
<1> USE DEF Route
<1> DEFINE K == {i \in k .. n : s[i] \in Q}
<1>1. K \subseteq 1 .. n /\ K # {}
  OBVIOUS
<1>2. PICK j \in K : \A i \in K : j <= i
  <2> HIDE DEF K
  <2> QED
    BY <1>1, FirstPosition
<1>3. j \in k .. n /\ s[j] \in Q /\ \A i \in k .. j - 1 : s[i] \notin Q
  BY <1>2
<1>4. PICK go : go = Walk(D, Q, next, out)
  OBVIOUS
<1>5. Walks(D, Q, next, out, go)
  BY <1>4, WalkThere
<1>6. /\ j \in Nat /\ k \in Nat /\ 1 <= k /\ k <= j
      /\ \A i \in k .. j : s[i] \in D
      /\ \A i \in k .. j : i < j => s[i] \notin Q /\ next[s[i]] = s[i + 1]
  BY <1>3
<1>7. go[s[k]] = out[s[j]]
  BY <1>3, <1>5, <1>6, WalkEnds
<1> QED
  BY <1>3, <1>4, <1>7 DEF StopsOn

-----------------------------------------------------------------------------
(* Lists as sequences.                                                     *)

(* s with what stands at position k left out. *)
Without(s, k) == [i \in 1 .. Len(s) - 1 |-> IF i < k THEN s[i] ELSE s[i + 1]]

(* s with h at position k, what stood there and behind it one further on. *)
Put(s, k, h) ==
  [i \in 1 .. Len(s) + 1 |-> IF i < k THEN s[i] ELSE IF i = k THEN h ELSE s[i - 1]]

(* What stands in both stands in the same order in both. *)
SameOrder(s, t) ==
  \A i, j \in 1 .. Len(s) : \A u, v \in 1 .. Len(t) :
    s[i] = t[u] /\ s[j] = t[v] => (i < j <=> u < v)

IsWithout(D, s, k, t) ==
  /\ t \in Seq(D) /\ Len(t) = Len(s) - 1
  /\ \A i \in 1 .. Len(s) - 1 : t[i] = IF i < k THEN s[i] ELSE s[i + 1]
  /\ Distinct(t) /\ SameOrder(s, t)
  /\ \A x : Holds(t, x) <=> Holds(s, x) /\ x # s[k]

LEMMA WithoutIs ==
  ASSUME NEW D, NEW s \in Seq(D), Distinct(s), NEW k \in 1 .. Len(s)
  PROVE  IsWithout(D, s, k, Without(s, k))
<1> DEFINE t == Without(s, k)
<1>0. PICK n \in Nat : n = Len(s) - 1
  OBVIOUS
<1>1. \A i \in 1 .. n : i \in 1 .. Len(s) /\ i + 1 \in 1 .. Len(s)
  BY <1>0
<1>2. t = [i \in 1 .. n |-> IF i < k THEN s[i] ELSE s[i + 1]]
  BY <1>0 DEF Without
<1>3. t \in [1 .. n -> D]
  BY <1>1, <1>2
<1>4. t \in Seq(D) /\ Len(t) = n
  BY <1>3
<1>5. \A i \in 1 .. n : t[i] = IF i < k THEN s[i] ELSE s[i + 1]
  BY <1>2
<1> HIDE DEF t
<1>6. \A i \in 1 .. n : \E p \in 1 .. Len(s) :
        p = (IF i < k THEN i ELSE i + 1) /\ t[i] = s[p] /\ p # k
  BY <1>0, <1>5
<1>7. Distinct(t)
  <2> SUFFICES ASSUME NEW i \in 1 .. n, NEW j \in 1 .. n, t[i] = t[j] PROVE i = j
    BY <1>4 DEF Distinct
  <2>1. (IF i < k THEN i ELSE i + 1) = (IF j < k THEN j ELSE j + 1)
    BY <1>6 DEF Distinct
  <2> QED
    BY <2>1
<1>8. SameOrder(s, t)
  <2> SUFFICES ASSUME NEW i \in 1 .. Len(s), NEW j \in 1 .. Len(s),
                      NEW u \in 1 .. n, NEW v \in 1 .. n,
                      s[i] = t[u], s[j] = t[v]
               PROVE  i < j <=> u < v
    BY <1>4 DEF SameOrder
  <2>1. i = (IF u < k THEN u ELSE u + 1) /\ j = (IF v < k THEN v ELSE v + 1)
    BY <1>6 DEF Distinct
  <2> QED
    BY <2>1
<1>9. ASSUME NEW x PROVE Holds(t, x) <=> Holds(s, x) /\ x # s[k]
  <2>1. ASSUME NEW i \in 1 .. n, t[i] = x PROVE Holds(s, x) /\ x # s[k]
    <3>1. PICK p \in 1 .. Len(s) : t[i] = s[p] /\ p # k
      BY <1>6
    <3> QED
      BY <2>1, <3>1 DEF Holds, Distinct
  <2>2. ASSUME NEW p \in 1 .. Len(s), s[p] = x, x # s[k] PROVE Holds(t, x)
    <3>1. p # k
      BY <2>2
    <3>2. CASE p < k
      <4>1. p \in 1 .. n /\ t[p] = x
        BY <3>2, <1>0, <1>5, <2>2
      <4> QED
        BY <4>1, <1>4 DEF Holds
    <3>3. CASE p > k
      <4>1. p - 1 \in 1 .. n /\ ~(p - 1 < k) /\ (p - 1) + 1 = p
        BY <3>3, <1>0
      <4>2. t[p - 1] = x
        BY <4>1, <1>5, <2>2
      <4> QED
        BY <4>1, <4>2, <1>4 DEF Holds
    <3> QED
      BY <3>1, <3>2, <3>3
  <2> QED
    BY <1>4, <2>1, <2>2 DEF Holds
<1> QED
  BY <1>0, <1>4, <1>5, <1>7, <1>8, <1>9 DEF t, IsWithout

IsPut(D, s, k, h, t) ==
  /\ t \in Seq(D) /\ Len(t) = Len(s) + 1
  /\ \A i \in 1 .. Len(s) + 1 :
       t[i] = IF i < k THEN s[i] ELSE IF i = k THEN h ELSE s[i - 1]
  /\ Distinct(t) /\ SameOrder(s, t)
  /\ \A x : Holds(t, x) <=> Holds(s, x) \/ x = h

LEMMA PutIs ==
  ASSUME NEW D, NEW s \in Seq(D), Distinct(s), NEW k \in 1 .. Len(s) + 1,
         NEW h \in D, ~Holds(s, h)
  PROVE  IsPut(D, s, k, h, Put(s, k, h))
<1> DEFINE t == Put(s, k, h)
<1>0. PICK n \in Nat : n = Len(s) + 1
  OBVIOUS
<1>1. \A i \in 1 .. n : /\ i < k => i \in 1 .. Len(s)
                        /\ i > k => i - 1 \in 1 .. Len(s)
  BY <1>0
<1>2. t = [i \in 1 .. n |-> IF i < k THEN s[i] ELSE IF i = k THEN h ELSE s[i - 1]]
  BY <1>0 DEF Put
<1>3. t \in [1 .. n -> D]
  <2>1. \A i \in 1 .. n :
          (IF i < k THEN s[i] ELSE IF i = k THEN h ELSE s[i - 1]) \in D
    BY <1>1
  <2> QED
    BY <1>2, <2>1
<1>4. t \in Seq(D) /\ Len(t) = n
  BY <1>3
<1>5. \A i \in 1 .. n :
        t[i] = IF i < k THEN s[i] ELSE IF i = k THEN h ELSE s[i - 1]
  BY <1>2
<1> HIDE DEF t
<1>6. \A i \in 1 .. n : i = k \/ \E p \in 1 .. Len(s) :
        p = (IF i < k THEN i ELSE i - 1) /\ t[i] = s[p]
  BY <1>1, <1>5
<1>a. k \in 1 .. n /\ t[k] = h /\ \A p \in 1 .. Len(s) : s[p] # h
  BY <1>0, <1>5 DEF Holds
<1>7. Distinct(t)
  <2> SUFFICES ASSUME NEW i \in 1 .. n, NEW j \in 1 .. n, t[i] = t[j] PROVE i = j
    BY <1>4 DEF Distinct
  <2>1. CASE i = k \/ j = k
    BY <2>1, <1>6, <1>a
  <2>2. CASE i # k /\ j # k
    <3>1. (IF i < k THEN i ELSE i - 1) = (IF j < k THEN j ELSE j - 1)
      BY <2>2, <1>6 DEF Distinct
    <3> QED
      BY <2>2, <3>1
  <2> QED
    BY <2>1, <2>2
<1>8. SameOrder(s, t)
  <2> SUFFICES ASSUME NEW i \in 1 .. Len(s), NEW j \in 1 .. Len(s),
                      NEW u \in 1 .. n, NEW v \in 1 .. n,
                      s[i] = t[u], s[j] = t[v]
               PROVE  i < j <=> u < v
    BY <1>4 DEF SameOrder
  <2>1. u # k /\ v # k
    BY <1>a
  <2>2. i = (IF u < k THEN u ELSE u - 1) /\ j = (IF v < k THEN v ELSE v - 1)
    BY <1>6, <2>1 DEF Distinct
  <2> QED
    BY <2>1, <2>2
<1>9. ASSUME NEW x PROVE Holds(t, x) <=> Holds(s, x) \/ x = h
  <2>1. ASSUME NEW i \in 1 .. n, t[i] = x PROVE Holds(s, x) \/ x = h
    BY <2>1, <1>6, <1>a DEF Holds
  <2>2. ASSUME NEW p \in 1 .. Len(s), s[p] = x PROVE Holds(t, x)
    <3>1. CASE p < k
      <4>1. p \in 1 .. n /\ t[p] = x
        BY <3>1, <1>0, <1>5, <2>2
      <4> QED
        BY <4>1, <1>4 DEF Holds
    <3>2. CASE ~(p < k)
      <4>1. p + 1 \in 1 .. n /\ ~(p + 1 < k) /\ p + 1 # k /\ (p + 1) - 1 = p
        BY <3>2, <1>0
      <4>2. t[p + 1] = x
        BY <4>1, <1>5, <2>2
      <4> QED
        BY <4>1, <4>2, <1>4 DEF Holds
    <3> QED
      BY <3>1, <3>2
  <2>3. Holds(t, h)
    BY <1>a, <1>4 DEF Holds
  <2> QED
    BY <1>4, <2>1, <2>2, <2>3 DEF Holds
<1> QED
  BY <1>0, <1>4, <1>5, <1>7, <1>8, <1>9 DEF t, IsPut
(* The links that leave one element of a list out.                         *)
CutLinks(s, k, first, next, f, g) ==
  /\ f = IF k = 1 THEN next[s[k]] ELSE first
  /\ \A i \in 1 .. Len(s) : i # k =>
       g[s[i]] = IF i = k - 1 THEN next[s[k]] ELSE next[s[i]]

LEMMA CutOut ==
  ASSUME NEW D, NEW s \in Seq(D), Distinct(s), NEW k \in 1 .. Len(s),
         NEW first, NEW next, Linked(first, next, s),
         NEW f, NEW g, CutLinks(s, k, first, next, f, g)
  PROVE  Linked(f, g, Without(s, k))
<1> DEFINE t == Without(s, k)
<1> USE DEF CutLinks
<1>0. PICK n \in Nat : n = Len(s) - 1
  OBVIOUS
<1>1. t \in Seq(D) /\ Len(t) = n
      /\ \A i \in 1 .. n : t[i] = IF i < k THEN s[i] ELSE s[i + 1]
  <2>1. IsWithout(D, s, k, t)
    BY WithoutIs
  <2> HIDE DEF t
  <2> QED
    BY <1>0, <2>1 DEF IsWithout
<1> HIDE DEF t
<1>2. \A i \in 1 .. n + 1 : Elem(t, i) = Elem(s, IF i < k THEN i ELSE i + 1)
  BY <1>0, <1>1 DEF Elem
<1>3. first = Elem(s, 1) /\ \A i \in 1 .. n + 1 : next[s[i]] = Elem(s, i + 1)
  BY <1>0 DEF Linked
<1>4. f = Elem(t, 1)
  BY <1>2, <1>3, <1>0
<1>5. ASSUME NEW i \in 1 .. n PROVE g[t[i]] = Elem(t, i + 1)
  <2>1. CASE i < k - 1
    <3>1. t[i] = s[i] /\ g[s[i]] = next[s[i]]
      BY <2>1, <1>0, <1>1
    <3>2. next[s[i]] = Elem(s, i + 1) /\ Elem(t, i + 1) = Elem(s, i + 1)
      BY <2>1, <1>2, <1>3
    <3> QED
      BY <3>1, <3>2
  <2>2. CASE i = k - 1
    <3>1. t[i] = s[i] /\ g[s[i]] = next[s[k]]
      BY <2>2, <1>0, <1>1
    <3>2. next[s[k]] = Elem(s, k + 1) /\ Elem(t, i + 1) = Elem(s, k + 1)
      BY <2>2, <1>0, <1>2, <1>3
    <3> QED
      BY <3>1, <3>2
  <2>3. CASE i >= k
    <3>1. t[i] = s[i + 1] /\ g[s[i + 1]] = next[s[i + 1]]
      BY <2>3, <1>0, <1>1
    <3>2. next[s[i + 1]] = Elem(s, i + 2) /\ Elem(t, i + 1) = Elem(s, i + 2)
      BY <2>3, <1>0, <1>2, <1>3
    <3> QED
      BY <3>1, <3>2
  <2> QED
    BY <2>1, <2>2, <2>3
<1> QED
  BY <1>1, <1>4, <1>5 DEF Linked, t

(* The links that put h into a list at position k.                         *)
PutLinks(s, k, h, first, next, f, g) ==
  /\ f = (IF k = 1 THEN h ELSE first) /\ g[h] = Elem(s, k)
  /\ \A i \in 1 .. Len(s) : g[s[i]] = IF i = k - 1 THEN h ELSE next[s[i]]

LEMMA PutIn ==
  ASSUME NEW D, NEW s \in Seq(D), Distinct(s), NEW k \in 1 .. Len(s) + 1,
         NEW h \in D, ~Holds(s, h),
         NEW first, NEW next, Linked(first, next, s),
         NEW f, NEW g, PutLinks(s, k, h, first, next, f, g)
  PROVE  Linked(f, g, Put(s, k, h))
<1> DEFINE t == Put(s, k, h)
<1> USE DEF PutLinks
<1>0. PICK n \in Nat : n = Len(s)
  OBVIOUS
<1>1. t \in Seq(D) /\ Len(t) = n + 1
      /\ \A i \in 1 .. n + 1 :
           t[i] = IF i < k THEN s[i] ELSE IF i = k THEN h ELSE s[i - 1]
  <2>1. IsPut(D, s, k, h, t)
    BY PutIs
  <2> HIDE DEF t
  <2> QED
    BY <1>0, <2>1 DEF IsPut
<1> HIDE DEF t
<1>2. \A i \in 1 .. n + 2 :
        Elem(t, i) = IF i < k THEN Elem(s, i) ELSE IF i = k THEN h ELSE Elem(s, i - 1)
  BY <1>0, <1>1 DEF Elem
<1>3. first = Elem(s, 1) /\ \A i \in 1 .. n : next[s[i]] = Elem(s, i + 1)
  BY <1>0 DEF Linked
<1>4. f = Elem(t, 1)
  BY <1>2, <1>3, <1>0
<1>5. ASSUME NEW i \in 1 .. n + 1 PROVE g[t[i]] = Elem(t, i + 1)
  <2>1. CASE i < k - 1
    <3>1. t[i] = s[i] /\ g[s[i]] = next[s[i]]
      BY <2>1, <1>0, <1>1
    <3>2. next[s[i]] = Elem(s, i + 1) /\ Elem(t, i + 1) = Elem(s, i + 1)
      BY <2>1, <1>0, <1>2, <1>3
    <3> QED
      BY <3>1, <3>2
  <2>2. CASE i = k - 1
    <3>1. t[i] = s[i] /\ g[s[i]] = h
      BY <2>2, <1>0, <1>1
    <3>2. Elem(t, i + 1) = h
      BY <2>2, <1>0, <1>2
    <3> QED
      BY <3>1, <3>2
  <2>3. CASE i = k
    <3>1. t[i] = h /\ Elem(t, i + 1) = Elem(s, k)
      BY <2>3, <1>0, <1>1, <1>2
    <3> QED
      BY <3>1
  <2>4. CASE i > k
    <3>1. t[i] = s[i - 1] /\ g[s[i - 1]] = next[s[i - 1]]
      BY <2>4, <1>0, <1>1
    <3>2. i - 1 \in 1 .. n /\ (i - 1) + 1 = i /\ (i + 1) - 1 = i
      BY <2>4
    <3>3. next[s[i - 1]] = Elem(s, i) /\ Elem(t, i + 1) = Elem(s, i)
      BY <2>4, <3>2, <1>2, <1>3
    <3> QED
      BY <3>1, <3>3
  <2> QED
    BY <2>1, <2>2, <2>3, <2>4
<1> QED
  BY <1>1, <1>4, <1>5 DEF Linked, t

-----------------------------------------------------------------------------
(* The walks of the code.  The first one looks for what stands before h in *)
(* the list.                                                               *)
BeforeQ(D, next, h) == {z \in D \cup {None} : z = None \/ next[z] = h}

Before(D, next, h) ==
  Walk(D \cup {None}, BeforeQ(D, next, h), next, [z \in D \cup {None} |-> z])

LEMMA BeforeIs ==
  ASSUME NEW D, None \notin D, NEW next \in [D -> D \cup {None}],
         NEW s \in Seq(D), Distinct(s), NEW first, Linked(first, next, s),
         NEW h \in D, first # h
  PROVE  /\ \A k \in 1 .. Len(s) : s[k] = h =>
              k >= 2 /\ Before(D, next, h)[first] = s[k - 1]
         /\ ~Holds(s, h) => Before(D, next, h)[first] = None
<1> DEFINE E == D \cup {None}
           Q == BeforeQ(D, next, h)
           id == [z \in E |-> z]
<1>0. PICK n \in Nat : n = Len(s) + 1
  OBVIOUS
<1>1. PICK e : e = [i \in 1 .. n |-> Elem(s, i)]
  OBVIOUS
<1>2. /\ \A i \in 1 .. n : e[i] \in E /\ (i < n => e[i] = s[i] /\ s[i] \in D)
      /\ e[n] = None
  BY <1>0, <1>1 DEF Elem
<1>3. e[1] = first /\ \A i \in 1 .. n : i < n => next[e[i]] = e[i + 1]
  BY <1>0, <1>1, <1>2 DEF Linked
<1>4. Q \subseteq E /\ \A x \in E : x \notin Q => next[x] \in E
  BY DEF BeforeQ
<1>5. e[n] \in Q
  BY <1>2 DEF BeforeQ
<1>6. \A i \in 1 .. n : e[i] \in Q <=> i = n \/ next[e[i]] = h
  BY <1>2 DEF BeforeQ
<1> HIDE DEF Q
<1>7. 1 \in 1 .. n
  BY <1>0
<1>8. PICK j \in 1 .. n :
        /\ e[j] \in Q /\ \A i \in 1 .. j - 1 : e[i] \notin Q
        /\ Walk(E, Q, next, id)[e[1]] = id[e[j]]
  <2> HIDE DEF E, id
  <2>1. Route(E, Q, next, e, n)
    <3>1. \A i \in 1 .. n : e[i] \in E /\ (i < n => next[e[i]] = e[i + 1])
      BY <1>2, <1>3
    <3> QED
      BY <1>4, <1>5, <3>1 DEF Route
  <2>3. PICK k \in 1 .. n : k = 1
    BY <1>7
  <2>4. StopsOn(E, Q, next, id, e, k, n)
    BY <2>1, WalkStops
  <2> QED
    BY <2>3, <2>4 DEF StopsOn
<1>9. Before(D, next, h)[first] = e[j]
  BY <1>2, <1>3, <1>8 DEF Before, Q
<1>10. ASSUME NEW k \in 1 .. Len(s), s[k] = h
       PROVE  k >= 2 /\ Before(D, next, h)[first] = s[k - 1]
  <2>1. k # 1
    BY <1>10, <1>2, <1>3, <1>0
  <2>2. k - 1 \in 1 .. n /\ k - 1 < n /\ (k - 1) + 1 = k /\ k < n
    BY <2>1, <1>0
  <2>3. next[e[k - 1]] = h
    BY <2>2, <1>2, <1>3, <1>10
  <2>4. j <= k - 1
    BY <2>2, <2>3, <1>6, <1>8
  <2>5. next[e[j]] = h /\ j < n
    BY <2>4, <2>2, <1>6, <1>8
  <2>6. e[j + 1] = h /\ e[j + 1] = s[j + 1] /\ j + 1 \in 1 .. Len(s)
    BY <2>4, <2>5, <2>2, <1>2, <1>3, <1>0
  <2>7. j + 1 = k
    BY <2>6, <1>10 DEF Distinct
  <2> QED
    BY <2>1, <2>2, <2>7, <1>9, <1>2
<1>11. ASSUME ~Holds(s, h) PROVE Before(D, next, h)[first] = None
  <2>1. ASSUME j < n PROVE FALSE
    <3>1. next[e[j]] = h
      BY <2>1, <1>6, <1>8
    <3>2. e[j + 1] = h /\ j + 1 \in 1 .. n
      BY <2>1, <3>1, <1>3
    <3>3. j + 1 < n
      BY <3>2, <1>2
    <3> QED
      BY <3>2, <3>3, <1>2, <1>0, <1>11 DEF Holds
  <2> QED
    BY <2>1, <1>9, <1>2
<1> QED
  BY <1>10, <1>11
(* The other two go on while what comes next is in G.                      *)
ForthQ(D, G, next) == {z \in D : ~(next[z] # None /\ next[z] \in G)}

Forth(D, G, next) == Walk(D, ForthQ(D, G, next), next, [z \in D |-> z])

GoesForth(G, s, x) ==
  \E j \in 1 .. Len(s) :
    /\ x = s[j] /\ \A i \in 2 .. j : s[i] \in G
    /\ j < Len(s) => s[j + 1] \notin G

LEMMA ForthIs ==
  ASSUME NEW D, None \notin D, NEW G, NEW next \in [D -> D \cup {None}],
         NEW s \in Seq(D), NEW first, Linked(first, next, s), first # None
  PROVE  GoesForth(G, s, Forth(D, G, next)[first])
<1> DEFINE Q == ForthQ(D, G, next)
           id == [z \in D |-> z]
<1>0. PICK n \in Nat : n = Len(s)
  OBVIOUS
<1>1. 1 \in 1 .. n /\ first = s[1]
  BY <1>0 DEF Linked, Elem
<1>2. \A i \in 1 .. n : s[i] \in D /\ (i < n => next[s[i]] = s[i + 1])
  BY <1>0 DEF Linked, Elem
<1>3. next[s[n]] = None
  BY <1>0, <1>1 DEF Linked, Elem
<1>4. Route(D, Q, next, s, n)
  BY <1>1, <1>2, <1>3 DEF Route, ForthQ
<1>5. \A i \in 1 .. n : i < n => (s[i] \in Q <=> s[i + 1] \notin G)
  <2> SUFFICES ASSUME NEW i \in 1 .. n, i < n PROVE s[i] \in Q <=> s[i + 1] \notin G
    OBVIOUS
  <2>1. i + 1 \in 1 .. n
    OBVIOUS
  <2>2. s[i] \in D /\ next[s[i]] = s[i + 1] /\ s[i + 1] # None
    BY <2>1, <1>2
  <2> QED
    BY <2>2 DEF ForthQ
<1> HIDE DEF Q
<1>8. PICK j \in 1 .. n :
        /\ s[j] \in Q /\ \A i \in 1 .. j - 1 : s[i] \notin Q
        /\ Walk(D, Q, next, id)[s[1]] = id[s[j]]
  <2> HIDE DEF id
  <2>3. PICK k \in 1 .. n : k = 1
    BY <1>1
  <2>1. PICK c : c = s
    OBVIOUS
  <2>2. Route(D, Q, next, c, n)
    BY <1>4, <2>1
  <2>4. StopsOn(D, Q, next, id, c, k, n)
    BY <2>2, WalkStops
  <2> QED
    BY <2>1, <2>3, <2>4 DEF StopsOn
<1>9. Forth(D, G, next)[first] = s[j]
  BY <1>1, <1>2, <1>8 DEF Forth, Q
<1>10. ASSUME NEW i \in 2 .. j PROVE s[i] \in G
  <2>1. i - 1 \in 1 .. j - 1 /\ i - 1 \in 1 .. n /\ i - 1 < n /\ (i - 1) + 1 = i
    OBVIOUS
  <2> QED
    BY <2>1, <1>5, <1>8
<1>11. j < n => s[j + 1] \notin G
  BY <1>5, <1>8
<1> QED
  BY <1>0, <1>9, <1>10, <1>11 DEF GoesForth

-----------------------------------------------------------------------------
(* DetachMsgHandler and AttachMsgHandler keep the lists sorted and linked. *)
BeforeWalk(D, next, h) ==
  LET ahead[z \in D \cup {None}] ==
        IF z = None \/ next[z] = h THEN z ELSE ahead[next[z]]
  IN ahead

LEMMA BeforeWalkIs ==
  ASSUME NEW D, NEW next, NEW h
  PROVE  BeforeWalk(D, next, h) = Before(D, next, h)
<1>1. ASSUME NEW go
      PROVE  [z \in D \cup {None} |->
                IF z = None \/ next[z] = h THEN z ELSE go[next[z]]]
             = [z \in D \cup {None} |->
                IF z \in BeforeQ(D, next, h) THEN [x \in D \cup {None} |-> x][z]
                ELSE go[next[z]]]
  BY DEF BeforeQ
<1> QED
  BY <1>1 DEF BeforeWalk, Before, Walk, Walks

Less(h) == {x \in Handlers : Lists!PGN(x) < Lists!PGN(h)}

AfterWalk(next, h) ==
  LET after[z \in Handlers] ==
        IF next[z] # None /\ Lists!PGN(next[z]) < Lists!PGN(h)
        THEN after[next[z]] ELSE z
  IN after

LEMMA AfterWalkIs ==
  ASSUME NEW next \in [Handlers -> Handlers \cup {None}], NEW h
  PROVE  AfterWalk(next, h) = Forth(Handlers, Less(h), next)
<1>1. ASSUME NEW go
      PROVE  [z \in Handlers |->
                IF next[z] # None /\ Lists!PGN(next[z]) < Lists!PGN(h)
                THEN go[next[z]] ELSE z]
             = [z \in Handlers |->
                IF z \in ForthQ(Handlers, Less(h), next) THEN [x \in Handlers |-> x][z]
                ELSE go[next[z]]]
  <2>1. ASSUME NEW z \in Handlers
        PROVE  (IF next[z] # None /\ Lists!PGN(next[z]) < Lists!PGN(h)
                THEN go[next[z]] ELSE z)
               = (IF z \in ForthQ(Handlers, Less(h), next) THEN [x \in Handlers |-> x][z]
                ELSE go[next[z]])
    <3>1. z \in ForthQ(Handlers, Less(h), next)
            <=> ~(next[z] # None /\ Lists!PGN(next[z]) < Lists!PGN(h))
      BY DEF ForthQ, Less
    <3> QED
      BY <3>1
  <2> QED
    BY <2>1
<1> QED
  BY <1>1 DEF AfterWalk, Forth, Walk, Walks

LEMMA ListsNone ==
  /\ None \notin Handlers /\ None \notin Lists!GroupHandlers /\ None \notin Buses
  /\ \A h \in Handlers : Lists!PGN(h) \in Nat
  /\ \A h \in Lists!GroupHandlers : Lists!PGN(h) \in Nat
BY SupportAssumption DEF Lists!ListsAssumption, Lists!PGN

(* To leave h, at k in its list s, out of it only changes its own link and *)
(* the one before.                                                         *)
DetachesAt(l, h, s, k, z) ==
  /\ z = [first |-> z.first, next |-> z.next, owner |-> z.owner]
  /\ z.owner = [l.owner EXCEPT ![h] = None]
  /\ z.first = IF k = 1 THEN [l.first EXCEPT ![l.owner[h]] = l.next[h]] ELSE l.first
  /\ z.next = IF k = 1 THEN [l.next EXCEPT ![h] = None]
              ELSE [l.next EXCEPT ![s[k - 1]] = l.next[h], ![h] = None]

LEMMA DetachLinks ==
  ASSUME NEW l, ListsOK(l), NEW h \in Handlers, l.owner[h] # None,
         NEW s \in Seq(Handlers), ListOf(l, l.owner[h], s),
         NEW k \in 1 .. Len(s), s[k] = h
  PROVE  DetachesAt(l, h, s, k, Lists!Detached(l, h))
<1> DEFINE b == l.owner[h]
           p == BeforeWalk(Handlers, l.next, h)[l.first[b]]
           cut == IF l.first[b] = h THEN [l EXCEPT !.first[b] = l.next[h]]
                  ELSE IF p = None THEN l
                  ELSE [l EXCEPT !.next[p] = l.next[h]]
<1>1. Lists!Detached(l, h) = [cut EXCEPT !.next[h] = None, !.owner[h] = None]
  BY DEF Lists!Detached, BeforeWalk
<1>2. /\ l = [first |-> l.first, next |-> l.next, owner |-> l.owner]
      /\ l.first \in [Buses -> Handlers \cup {None}]
      /\ l.next \in [Handlers -> Handlers \cup {None}]
      /\ l.owner \in [Handlers -> Buses \cup {None}]
  BY DEF ListsOK
<1>3. Distinct(s) /\ Linked(l.first[b], l.next, s)
  BY DEF ListOf
<1>4. l.first[b] = h <=> k = 1
  <2>1. 1 \in 1 .. Len(s) /\ l.first[b] = s[1]
    BY <1>3 DEF Linked, Elem
  <2> QED
    BY <2>1, <1>3 DEF Distinct
<1>5. k # 1 => p = s[k - 1] /\ p # None
  <2> HIDE DEF b
  <2> SUFFICES ASSUME k # 1 PROVE p = s[k - 1] /\ p # None
    OBVIOUS
  <2>1. p = Before(Handlers, l.next, h)[l.first[b]]
    BY BeforeWalkIs
  <2>2. Before(Handlers, l.next, h)[l.first[b]] = s[k - 1]
    BY <1>2, <1>3, <1>4, BeforeIs, ListsNone
  <2>3. s[k - 1] \in Handlers
    OBVIOUS
  <2> QED
    BY <2>1, <2>2, <2>3, ListsNone
<1>6. CASE k = 1
  <2>1. cut = [l EXCEPT !.first[b] = l.next[h]]
    BY <1>4, <1>6
  <2>2. cut = [first |-> [l.first EXCEPT ![b] = l.next[h]], next |-> l.next, owner |-> l.owner]
    BY <1>2, <2>1
  <2> HIDE DEF cut
  <2> QED
    BY <1>1, <1>6, <2>2 DEF DetachesAt
<1>7. CASE k # 1
  <2>1. cut = [l EXCEPT !.next[p] = l.next[h]]
    BY <1>4, <1>5, <1>7
  <2>2. cut = [first |-> l.first, next |-> [l.next EXCEPT ![s[k - 1]] = l.next[h]],
               owner |-> l.owner]
    BY <1>2, <1>5, <1>7, <2>1
  <2> HIDE DEF cut, p
  <2> QED
    BY <1>1, <1>7, <2>2 DEF DetachesAt
<1> QED
  BY <1>6, <1>7

LEMMA SameOrderSelf ==
  ASSUME NEW s, Distinct(s)
  PROVE  SameOrder(s, s)
BY DEF Distinct, SameOrder

LEMMA DetachStep ==
  ASSUME NEW l, ListsOK(l), NEW h \in Handlers, l.owner[h] # None,
         NEW z, z = Lists!Detached(l, h)
  PROVE  /\ ListsOK(z) /\ z.owner = [l.owner EXCEPT ![h] = None]
         /\ \A b \in Buses : \A s \in Seq(Handlers) : ListOf(l, b, s) =>
              \E t \in Seq(Handlers) : ListOf(z, b, t) /\ SameOrder(s, t)
<1> DEFINE o == l.owner[h]
<1>1. /\ l = [first |-> l.first, next |-> l.next, owner |-> l.owner]
      /\ l.first \in [Buses -> Handlers \cup {None}]
      /\ l.next \in [Handlers -> Handlers \cup {None}]
      /\ l.owner \in [Handlers -> Buses \cup {None}]
      /\ o \in Buses
  BY DEF ListsOK
<1>2. PICK rest \in Seq(Handlers) : ListOf(l, o, rest)
  BY <1>1 DEF ListsOK
<1>3. PICK n \in 1 .. Len(rest) : rest[n] = h
  BY <1>2 DEF ListOf
<1>4. /\ z = [first |-> z.first, next |-> z.next, owner |-> z.owner]
      /\ z.owner = [l.owner EXCEPT ![h] = None]
      /\ z.first = IF n = 1 THEN [l.first EXCEPT ![o] = l.next[h]] ELSE l.first
      /\ z.next = IF n = 1 THEN [l.next EXCEPT ![h] = None]
                  ELSE [l.next EXCEPT ![rest[n - 1]] = l.next[h], ![h] = None]
  <2>1. DetachesAt(l, h, rest, n, Lists!Detached(l, h))
    BY <1>2, <1>3, DetachLinks
  <2> QED
    BY <2>1 DEF DetachesAt
<1>5. /\ n # 1 => rest[n - 1] \in Handlers /\ l.owner[rest[n - 1]] = o /\ rest[n - 1] # h
  <2> SUFFICES ASSUME n # 1
               PROVE  rest[n - 1] \in Handlers /\ l.owner[rest[n - 1]] = o /\ rest[n - 1] # h
    OBVIOUS
  <2>1. n - 1 \in 1 .. Len(rest) /\ n - 1 # n
    OBVIOUS
  <2> QED
    BY <2>1, <1>2, <1>3 DEF ListOf, Distinct
<1>6. /\ z.first \in [Buses -> Handlers \cup {None}]
      /\ z.next \in [Handlers -> Handlers \cup {None}]
      /\ z.owner \in [Handlers -> Buses \cup {None}]
  <2>1. l.next[h] \in Handlers \cup {None}
    BY <1>1
  <2> QED
    BY <1>1, <1>4, <2>1
<1>7. ASSUME NEW x \in Handlers, z.owner[x] = None PROVE z.next[x] = None
  <2>1. CASE x = h
    BY <2>1, <1>1, <1>4
  <2>2. CASE x # h
    <3>1. l.owner[x] = None /\ l.next[x] = None
      BY <2>2, <1>1, <1>4, <1>7 DEF ListsOK
    <3>2. n # 1 => x # rest[n - 1]
      BY <3>1, <1>5, <1>1, ListsNone
    <3> QED
      BY <2>2, <3>1, <3>2, <1>1, <1>4
  <2> QED
    BY <2>1, <2>2
<1>8. ASSUME NEW b \in Buses, NEW s \in Seq(Handlers), ListOf(l, b, s), b # o
      PROVE  ListOf(z, b, s) /\ SameOrder(s, s)
  <2>0. PICK size \in Nat : size = Len(s)
    OBVIOUS
  <2>1. \A i \in 1 .. size : s[i] \in Handlers /\ l.owner[s[i]] = b
    BY <1>8, <2>0 DEF ListOf
  <2>2. \A i \in 1 .. size : s[i] # h /\ (n # 1 => s[i] # rest[n - 1])
    BY <2>1, <1>5, <1>8
  <2>3. \A i \in 1 .. size : z.next[s[i]] = l.next[s[i]]
    BY <2>1, <2>2, <1>1, <1>4
  <2>4. z.first[b] = l.first[b]
    BY <1>1, <1>4, <1>8
  <2>5. Linked(z.first[b], z.next, s)
    BY <2>0, <2>3, <2>4, <1>8 DEF ListOf, Linked
  <2>6. \A x \in Handlers : z.owner[x] = b <=> l.owner[x] = b
    BY <1>1, <1>4, <1>8, ListsNone
  <2>7. /\ Distinct(s)
        /\ \A x \in Handlers : l.owner[x] = b <=> \E k \in 1 .. Len(s) : s[k] = x
        /\ \A i, j \in 1 .. Len(s) : i <= j => Lists!PGN(s[i]) <= Lists!PGN(s[j])
    BY <1>8 DEF ListOf
  <2> QED
    BY <2>5, <2>6, <2>7, SameOrderSelf DEF ListOf
<1>9. ASSUME NEW s \in Seq(Handlers), ListOf(l, o, s)
      PROVE  \E t \in Seq(Handlers) : ListOf(z, o, t) /\ SameOrder(s, t)
  <2>1. PICK k \in 1 .. Len(s) : s[k] = h
    BY <1>9 DEF ListOf
  <2>2. /\ z.first = IF k = 1 THEN [l.first EXCEPT ![o] = l.next[h]] ELSE l.first
        /\ z.next = IF k = 1 THEN [l.next EXCEPT ![h] = None]
                    ELSE [l.next EXCEPT ![s[k - 1]] = l.next[h], ![h] = None]
    <3>1. DetachesAt(l, h, s, k, Lists!Detached(l, h))
      BY <1>9, <2>1, DetachLinks
    <3> QED
      BY <3>1 DEF DetachesAt
  <2>3. Distinct(s) /\ Linked(l.first[o], l.next, s)
    BY <1>9 DEF ListOf
  <2>4. PICK t : t = Without(s, k)
    OBVIOUS
  <2>5. /\ t \in Seq(Handlers) /\ Len(t) = Len(s) - 1
        /\ \A i \in 1 .. Len(s) - 1 : t[i] = IF i < k THEN s[i] ELSE s[i + 1]
        /\ Distinct(t) /\ SameOrder(s, t)
        /\ \A x : Holds(t, x) <=> Holds(s, x) /\ x # h
    <3>1. IsWithout(Handlers, s, k, Without(s, k))
      BY <2>3, WithoutIs
    <3> QED
      BY <2>1, <2>4, <3>1 DEF IsWithout
  <2>6. z.first[o] = IF k = 1 THEN l.next[h] ELSE l.first[o]
    BY <2>2, <1>1
  <2>7. ASSUME NEW i \in 1 .. Len(s), i # k
        PROVE  z.next[s[i]] = IF i = k - 1 THEN l.next[h] ELSE l.next[s[i]]
    <3>1. s[i] \in Handlers /\ s[i] # h
      BY <2>1, <2>3, <2>7 DEF Distinct
    <3>2. CASE k = 1
      BY <3>1, <3>2, <2>2, <1>1
    <3>3. CASE k # 1
      <4>1. k - 1 \in 1 .. Len(s)
        BY <3>3
      <4>2. s[k - 1] \in Handlers /\ (s[i] = s[k - 1] <=> i = k - 1)
        BY <4>1, <2>3 DEF Distinct
      <4> QED
        BY <3>1, <3>3, <4>2, <2>2, <1>1
    <3> QED
      BY <3>2, <3>3
  <2>8. Linked(z.first[o], z.next, t)
    <3>1. z.first[o] = IF k = 1 THEN l.next[s[k]] ELSE l.first[o]
      BY <2>1, <2>6
    <3>2. \A i \in 1 .. Len(s) : i # k =>
            z.next[s[i]] = IF i = k - 1 THEN l.next[s[k]] ELSE l.next[s[i]]
      BY <2>1, <2>7
    <3>3. CutLinks(s, k, l.first[o], l.next, z.first[o], z.next)
      BY <3>1, <3>2 DEF CutLinks
    <3>4. Linked(z.first[o], z.next, Without(s, k))
      BY <2>3, <3>3, CutOut
    <3> QED
      BY <3>4, <2>4
  <2>9. \A x \in Handlers : z.owner[x] = o <=> Holds(t, x)
    <3>1. \A x \in Handlers : l.owner[x] = o <=> Holds(s, x)
      BY <1>9 DEF ListOf, Holds
    <3> QED
      BY <3>1, <2>5, <1>1, <1>4, ListsNone
  <2>10. ASSUME NEW i \in 1 .. Len(t), NEW j \in 1 .. Len(t), i <= j
         PROVE  Lists!PGN(t[i]) <= Lists!PGN(t[j])
    <3>1. PICK u \in 1 .. Len(s) : u = (IF i < k THEN i ELSE i + 1) /\ t[i] = s[u]
      BY <2>5
    <3>2. PICK v \in 1 .. Len(s) : v = (IF j < k THEN j ELSE j + 1) /\ t[j] = s[v]
      BY <2>5
    <3>3. u <= v
      BY <3>1, <3>2, <2>10
    <3> QED
      BY <3>1, <3>2, <3>3, <1>9 DEF ListOf
  <2> QED
    BY <2>5, <2>8, <2>9, <2>10 DEF ListOf, Holds
<1>10. \A b \in Buses : \A s \in Seq(Handlers) : ListOf(l, b, s) =>
         \E t \in Seq(Handlers) : ListOf(z, b, t) /\ SameOrder(s, t)
  BY <1>8, <1>9
<1>11. \A b \in Buses : \E t \in Seq(Handlers) : ListOf(z, b, t)
  BY <1>10 DEF ListsOK
<1> QED
  BY <1>4, <1>6, <1>7, <1>10, <1>11 DEF ListsOK

(* To put h into the list s of bus b at k only changes its own link and    *)
(* the one before.                                                         *)
AttachesAt(l, h, b, s, k, z) ==
  /\ z = [first |-> z.first, next |-> z.next, owner |-> z.owner]
  /\ z.owner = [l.owner EXCEPT ![h] = b]
  /\ z.first = IF k = 1 THEN [l.first EXCEPT ![b] = h] ELSE l.first
  /\ z.next = IF k = 1 THEN [l.next EXCEPT ![h] = Elem(s, 1)]
              ELSE [l.next EXCEPT ![h] = Elem(s, k), ![s[k - 1]] = h]

(* The place is such that the list stays sorted.                           *)
SortedAt(s, k, h) ==
  /\ \A i \in 1 .. Len(s) : i < k => Lists!PGN(s[i]) <= Lists!PGN(h)
  /\ \A i \in 1 .. Len(s) : i >= k => Lists!PGN(h) <= Lists!PGN(s[i])

LEMMA AttachLinks ==
  ASSUME NEW l, ListsOK(l), NEW h \in Handlers, l.owner[h] = None, NEW b \in Buses,
         NEW s \in Seq(Handlers), ListOf(l, b, s)
  PROVE  \E k \in 1 .. Len(s) + 1 :
           SortedAt(s, k, h) /\ AttachesAt(l, h, b, s, k, Lists!Inserted(l, h, b))
<1> DEFINE first == l.first[b]
           p == AfterWalk(l.next, h)[first]
           linked == IF first = None THEN [l EXCEPT !.first[b] = h]
                     ELSE IF Lists!PGN(first) > Lists!PGN(h)
                     THEN [l EXCEPT !.next[h] = first, !.first[b] = h]
                     ELSE [l EXCEPT !.next[h] = l.next[p], !.next[p] = h]
<1>1. Lists!Inserted(l, h, b) = [linked EXCEPT !.owner[h] = b]
  BY DEF Lists!Inserted, AfterWalk
<1>2. /\ l = [first |-> l.first, next |-> l.next, owner |-> l.owner]
      /\ l.first \in [Buses -> Handlers \cup {None}]
      /\ l.next \in [Handlers -> Handlers \cup {None}]
      /\ l.owner \in [Handlers -> Buses \cup {None}]
      /\ l.next[h] = None
  BY DEF ListsOK
<1>3. /\ Distinct(s) /\ Linked(first, l.next, s)
      /\ \A i, j \in 1 .. Len(s) : i <= j => Lists!PGN(s[i]) <= Lists!PGN(s[j])
  BY DEF ListOf
<1>4. PICK n \in Nat : n = Len(s)
  OBVIOUS
<1>5. first = Elem(s, 1) /\ \A i \in 1 .. n : s[i] \in Handlers
  BY <1>3, <1>4 DEF Linked
<1>6. CASE first = None
  <2>1. n = 0
    BY <1>4, <1>5, <1>6, ListsNone DEF Elem
  <2>2. Elem(s, 1) = None /\ 1 \in 1 .. Len(s) + 1 /\ SortedAt(s, 1, h)
    BY <2>1, <1>4 DEF Elem, SortedAt
  <2>3. linked = [first |-> [l.first EXCEPT ![b] = h], next |-> l.next, owner |-> l.owner]
    BY <1>2, <1>6
  <2>4. l.next = [l.next EXCEPT ![h] = None]
    BY <1>2
  <2>5. AttachesAt(l, h, b, s, 1, Lists!Inserted(l, h, b))
    <3> HIDE DEF linked
    <3> QED
      BY <1>1, <2>2, <2>3, <2>4 DEF AttachesAt
  <2> QED
    BY <2>2, <2>5
<1>7. CASE first # None /\ Lists!PGN(first) > Lists!PGN(h)
  <2>1. 1 \in 1 .. n /\ first = s[1]
    BY <1>4, <1>5, <1>7 DEF Elem
  <2>2. SortedAt(s, 1, h) /\ 1 \in 1 .. Len(s) + 1
    <3>1. \A i \in 1 .. n : Lists!PGN(first) <= Lists!PGN(s[i])
      BY <2>1, <1>3, <1>4
    <3>a. \A x \in Handlers : Lists!PGN(x) \in Nat
      BY ListsNone
    <3>b. first \in Handlers /\ \A i \in 1 .. n : s[i] \in Handlers
      BY <2>1, <1>5
    <3>c. \A i \in 1 .. n : Lists!PGN(s[i]) \in Nat
      BY <3>a, <3>b
    <3>2. \A i \in 1 .. n : Lists!PGN(h) <= Lists!PGN(s[i])
      <4> HIDE DEF first
      <4>1. Lists!PGN(first) \in Nat /\ Lists!PGN(h) \in Nat
        BY <3>a, <3>b
      <4> QED
        BY <3>1, <3>c, <4>1, <1>7
    <3> QED
      BY <3>2, <1>4 DEF SortedAt
  <2>3. linked = [first |-> [l.first EXCEPT ![b] = h],
                  next |-> [l.next EXCEPT ![h] = first], owner |-> l.owner]
    BY <1>2, <1>7
  <2>4. AttachesAt(l, h, b, s, 1, Lists!Inserted(l, h, b))
    <3> HIDE DEF linked
    <3> QED
      BY <1>1, <1>5, <2>3 DEF AttachesAt
  <2> QED
    BY <2>2, <2>4
<1>8. CASE first # None /\ ~(Lists!PGN(first) > Lists!PGN(h))
  <2>1. 1 \in 1 .. n /\ first = s[1]
    BY <1>4, <1>5, <1>8 DEF Elem
  <2>2. PICK j \in 1 .. Len(s) :
          /\ Forth(Handlers, Less(h), l.next)[first] = s[j]
          /\ \A i \in 2 .. j : s[i] \in Less(h)
          /\ j < Len(s) => s[j + 1] \notin Less(h)
    <3> HIDE DEF first
    <3>1. GoesForth(Less(h), s, Forth(Handlers, Less(h), l.next)[first])
      BY <1>2, <1>3, <1>8, ForthIs, ListsNone
    <3> QED
      BY <3>1 DEF GoesForth
  <2>3. p = s[j] /\ s[j] \in Handlers
    BY <1>2, <2>2, AfterWalkIs
  <2>4. s[j] # h
    <3>1. l.owner[s[j]] = b
      BY <2>3 DEF ListOf
    <3> QED
      BY <3>1, ListsNone
  <2>5. l.next[s[j]] = Elem(s, j + 1)
    BY <1>3 DEF Linked
  <2>6. SortedAt(s, j + 1, h)
    <3>1. ASSUME NEW i \in 1 .. n, i < j + 1 PROVE Lists!PGN(s[i]) <= Lists!PGN(h)
      <4>1. CASE i = 1
        <5>1. s[i] = first /\ first \in Handlers
          BY <4>1, <2>1, <1>5
        <5> HIDE DEF first
        <5>2. Lists!PGN(first) \in Nat /\ Lists!PGN(h) \in Nat
          BY <5>1, ListsNone
        <5> QED
          BY <5>1, <5>2, <1>8
      <4>2. CASE i # 1
        <5>1. s[i] \in Less(h)
          BY <4>2, <3>1, <2>2
        <5> QED
          BY <5>1, ListsNone DEF Less
      <4> QED
        BY <4>1, <4>2
    <3>2. ASSUME NEW i \in 1 .. n, i >= j + 1 PROVE Lists!PGN(h) <= Lists!PGN(s[i])
      <4>1. j + 1 \in 1 .. n /\ j < Len(s)
        BY <3>2, <1>4
      <4>2. s[j + 1] \in Handlers /\ s[j + 1] \notin Less(h)
        BY <4>1, <2>2, <1>5
      <4>3. Lists!PGN(h) <= Lists!PGN(s[j + 1])
        BY <4>2, ListsNone DEF Less
      <4>4. Lists!PGN(s[j + 1]) <= Lists!PGN(s[i])
        BY <4>1, <3>2, <1>3, <1>4
      <4>5. s[i] \in Handlers
        BY <1>5
      <4> QED
        BY <4>2, <4>3, <4>4, <4>5, ListsNone
    <3> QED
      BY <1>4, <3>1, <3>2 DEF SortedAt
  <2>7. linked = [first |-> l.first, next |-> [l.next EXCEPT ![h] = l.next[p], ![p] = h],
                  owner |-> l.owner]
    <3> HIDE DEF p
    <3> QED
      BY <1>2, <1>8
  <2>8. AttachesAt(l, h, b, s, j + 1, Lists!Inserted(l, h, b))
    <3>1. j + 1 # 1 /\ (j + 1) - 1 = j
      OBVIOUS
    <3>2. l.next[p] = Elem(s, j + 1)
      BY <2>3, <2>5
    <3> HIDE DEF linked, p
    <3> QED
      BY <1>1, <2>3, <2>7, <3>1, <3>2 DEF AttachesAt
  <2>9. j + 1 \in 1 .. Len(s) + 1
    OBVIOUS
  <2> QED
    BY <2>6, <2>8, <2>9
<1> QED
  BY <1>6, <1>7, <1>8

LEMMA InsertStep ==
  ASSUME NEW l, ListsOK(l), NEW h \in Handlers, l.owner[h] = None, NEW o \in Buses,
         NEW z, z = Lists!Inserted(l, h, o)
  PROVE  /\ ListsOK(z) /\ z.owner = [l.owner EXCEPT ![h] = o]
         /\ \A b \in Buses : \A s \in Seq(Handlers) : ListOf(l, b, s) =>
              \E t \in Seq(Handlers) : ListOf(z, b, t) /\ SameOrder(s, t)
<1>1. /\ l = [first |-> l.first, next |-> l.next, owner |-> l.owner]
      /\ l.first \in [Buses -> Handlers \cup {None}]
      /\ l.next \in [Handlers -> Handlers \cup {None}]
      /\ l.owner \in [Handlers -> Buses \cup {None}]
  BY DEF ListsOK
<1>2. PICK rest \in Seq(Handlers) : ListOf(l, o, rest)
  BY <1>1 DEF ListsOK
<1>3. PICK n \in 1 .. Len(rest) + 1 : AttachesAt(l, h, o, rest, n, z)
  BY <1>2, AttachLinks
<1>4. /\ z = [first |-> z.first, next |-> z.next, owner |-> z.owner]
      /\ z.owner = [l.owner EXCEPT ![h] = o]
      /\ z.first = IF n = 1 THEN [l.first EXCEPT ![o] = h] ELSE l.first
      /\ z.next = IF n = 1 THEN [l.next EXCEPT ![h] = Elem(rest, 1)]
                  ELSE [l.next EXCEPT ![h] = Elem(rest, n), ![rest[n - 1]] = h]
  BY <1>3 DEF AttachesAt
<1>5. n # 1 => rest[n - 1] \in Handlers /\ l.owner[rest[n - 1]] = o /\ rest[n - 1] # h
  <2> SUFFICES ASSUME n # 1
               PROVE  rest[n - 1] \in Handlers /\ l.owner[rest[n - 1]] = o /\ rest[n - 1] # h
    OBVIOUS
  <2>1. n - 1 \in 1 .. Len(rest)
    OBVIOUS
  <2>2. rest[n - 1] \in Handlers /\ l.owner[rest[n - 1]] = o
    BY <2>1, <1>2 DEF ListOf
  <2> QED
    BY <2>2, ListsNone
<1>a. Elem(rest, 1) \in Handlers \cup {None} /\ Elem(rest, n) \in Handlers \cup {None}
  BY DEF Elem
<1>6. /\ z.first \in [Buses -> Handlers \cup {None}]
      /\ z.next \in [Handlers -> Handlers \cup {None}]
      /\ z.owner \in [Handlers -> Buses \cup {None}]
  BY <1>1, <1>4, <1>a
<1>7. ASSUME NEW x \in Handlers, z.owner[x] = None PROVE z.next[x] = None
  <2>1. x # h
    BY <1>7, <1>1, <1>4, ListsNone
  <2>2. l.owner[x] = None /\ l.next[x] = None
    BY <2>1, <1>1, <1>4, <1>7 DEF ListsOK
  <2>3. n # 1 => x # rest[n - 1]
    BY <2>2, <1>5, ListsNone
  <2> QED
    BY <2>1, <2>2, <2>3, <1>1, <1>4
<1>8. ASSUME NEW b \in Buses, NEW s \in Seq(Handlers), ListOf(l, b, s), b # o
      PROVE  ListOf(z, b, s) /\ SameOrder(s, s)
  <2>0. PICK size \in Nat : size = Len(s)
    OBVIOUS
  <2>1. \A i \in 1 .. size : s[i] \in Handlers /\ l.owner[s[i]] = b
    BY <1>8, <2>0 DEF ListOf
  <2>2. \A i \in 1 .. size : s[i] # h /\ (n # 1 => s[i] # rest[n - 1])
    BY <2>1, <1>5, <1>8, ListsNone
  <2>3. \A i \in 1 .. size : z.next[s[i]] = l.next[s[i]]
    BY <2>1, <2>2, <1>1, <1>4
  <2>4. z.first[b] = l.first[b]
    BY <1>1, <1>4, <1>8
  <2>5. Linked(z.first[b], z.next, s)
    BY <2>0, <2>3, <2>4, <1>8 DEF ListOf, Linked
  <2>6. \A x \in Handlers : z.owner[x] = b <=> l.owner[x] = b
    BY <1>1, <1>4, <1>8, ListsNone
  <2>7. /\ Distinct(s)
        /\ \A x \in Handlers : l.owner[x] = b <=> \E k \in 1 .. Len(s) : s[k] = x
        /\ \A i, j \in 1 .. Len(s) : i <= j => Lists!PGN(s[i]) <= Lists!PGN(s[j])
    BY <1>8 DEF ListOf
  <2> QED
    BY <2>5, <2>6, <2>7, SameOrderSelf DEF ListOf
<1>9. ASSUME NEW s \in Seq(Handlers), ListOf(l, o, s)
      PROVE  \E t \in Seq(Handlers) : ListOf(z, o, t) /\ SameOrder(s, t)
  <2>1. PICK k \in 1 .. Len(s) + 1 : SortedAt(s, k, h) /\ AttachesAt(l, h, o, s, k, z)
    BY <1>9, AttachLinks
  <2>2. /\ z.first = IF k = 1 THEN [l.first EXCEPT ![o] = h] ELSE l.first
        /\ z.next = IF k = 1 THEN [l.next EXCEPT ![h] = Elem(s, 1)]
                    ELSE [l.next EXCEPT ![h] = Elem(s, k), ![s[k - 1]] = h]
    BY <2>1 DEF AttachesAt
  <2>3. Distinct(s) /\ Linked(l.first[o], l.next, s)
    BY <1>9 DEF ListOf
  <2>a. \A x \in Handlers : l.owner[x] = o <=> Holds(s, x)
    BY <1>9 DEF ListOf, Holds
  <2>b. ~Holds(s, h) /\ \A i \in 1 .. Len(s) : s[i] # h
    BY <2>a, ListsNone DEF Holds
  <2>4. PICK t : t = Put(s, k, h)
    OBVIOUS
  <2>5. /\ t \in Seq(Handlers) /\ Len(t) = Len(s) + 1
        /\ \A i \in 1 .. Len(s) + 1 :
             t[i] = IF i < k THEN s[i] ELSE IF i = k THEN h ELSE s[i - 1]
        /\ Distinct(t) /\ SameOrder(s, t)
        /\ \A x : Holds(t, x) <=> Holds(s, x) \/ x = h
    <3>1. IsPut(Handlers, s, k, h, Put(s, k, h))
      BY <2>3, <2>b, PutIs
    <3> QED
      BY <2>4, <3>1 DEF IsPut
  <2>6. z.first[o] = IF k = 1 THEN h ELSE l.first[o]
    BY <2>2, <1>1
  <2>c. k # 1 => s[k - 1] \in Handlers /\ s[k - 1] # h
    <3> SUFFICES ASSUME k # 1 PROVE s[k - 1] \in Handlers /\ s[k - 1] # h
      OBVIOUS
    <3>1. k - 1 \in 1 .. Len(s)
      OBVIOUS
    <3> QED
      BY <3>1, <2>b
  <2>d. z.next[h] = Elem(s, k)
    BY <2>2, <2>c, <1>1
  <2>7. ASSUME NEW i \in 1 .. Len(s)
        PROVE  z.next[s[i]] = IF i = k - 1 THEN h ELSE l.next[s[i]]
    <3>1. s[i] \in Handlers /\ s[i] # h
      BY <2>b
    <3>2. CASE k = 1
      BY <3>1, <3>2, <2>2, <1>1
    <3>3. CASE k # 1
      <4>1. k - 1 \in 1 .. Len(s)
        BY <3>3
      <4>2. s[k - 1] \in Handlers /\ (s[i] = s[k - 1] <=> i = k - 1)
        BY <4>1, <2>3 DEF Distinct
      <4> QED
        BY <3>1, <3>3, <4>2, <2>2, <1>1
    <3> QED
      BY <3>2, <3>3
  <2>8. Linked(z.first[o], z.next, t)
    <3>0. PutLinks(s, k, h, l.first[o], l.next, z.first[o], z.next)
      BY <2>6, <2>7, <2>d DEF PutLinks
    <3>1. Linked(z.first[o], z.next, Put(s, k, h))
      BY <3>0, <2>3, <2>b, PutIn
    <3> QED
      BY <3>1, <2>4
  <2>9. \A x \in Handlers : z.owner[x] = o <=> Holds(t, x)
    BY <2>a, <2>5, <1>1, <1>4
  <2>10. ASSUME NEW i \in 1 .. Len(t), NEW j \in 1 .. Len(t), i <= j
         PROVE  Lists!PGN(t[i]) <= Lists!PGN(t[j])
    <3>1. \A u \in 1 .. Len(s) : s[u] \in Handlers
      OBVIOUS
    <3>2. CASE i = k /\ j = k
      BY <3>2, <2>5, ListsNone
    <3>3. CASE i = k /\ j # k
      <4>1. j - 1 \in 1 .. Len(s) /\ j - 1 >= k /\ t[i] = h /\ t[j] = s[j - 1]
        BY <3>3, <2>5, <2>10
      <4> QED
        BY <4>1, <2>1 DEF SortedAt
    <3>4. CASE i # k /\ j = k
      <4>1. i \in 1 .. Len(s) /\ i < k /\ t[j] = h /\ t[i] = s[i]
        BY <3>4, <2>5, <2>10
      <4> QED
        BY <4>1, <2>1 DEF SortedAt
    <3>5. CASE i # k /\ j # k
      <4>1. PICK u \in 1 .. Len(s) : u = (IF i < k THEN i ELSE i - 1) /\ t[i] = s[u]
        BY <3>5, <2>5
      <4>2. PICK v \in 1 .. Len(s) : v = (IF j < k THEN j ELSE j - 1) /\ t[j] = s[v]
        BY <3>5, <2>5
      <4>3. u <= v
        BY <4>1, <4>2, <3>5, <2>10
      <4> QED
        BY <4>1, <4>2, <4>3, <1>9 DEF ListOf
    <3> QED
      BY <3>2, <3>3, <3>4, <3>5
  <2> QED
    BY <2>5, <2>8, <2>9, <2>10 DEF ListOf, Holds
<1>10. \A b \in Buses : \A s \in Seq(Handlers) : ListOf(l, b, s) =>
         \E t \in Seq(Handlers) : ListOf(z, b, t) /\ SameOrder(s, t)
  BY <1>8, <1>9
<1>11. \A b \in Buses : \E t \in Seq(Handlers) : ListOf(z, b, t)
  BY <1>10 DEF ListsOK
<1> QED
  BY <1>4, <1>6, <1>7, <1>10, <1>11 DEF ListsOK

-----------------------------------------------------------------------------
(* A change of the lists for h leaves the others in their lists and order. *)
OrderKept(s, t, h) ==
  \A i, j \in 1 .. Len(s) : \A u, v \in 1 .. Len(t) :
    s[i] = t[u] /\ s[j] = t[v] /\ s[i] # h /\ s[j] # h => (i < j <=> u < v)

OthersKept(l, h, z) ==
  /\ ListsOK(z)
  /\ \A x \in Handlers : x # h => z.owner[x] = l.owner[x]
  /\ \A b \in Buses : \A s \in Seq(Handlers) : ListOf(l, b, s) =>
       \E t \in Seq(Handlers) : ListOf(z, b, t) /\ OrderKept(s, t, h)

LEMMA DetachKeeps ==
  ASSUME NEW l, ListsOK(l), NEW h \in Handlers, l.owner[h] # None
  PROVE  /\ OthersKept(l, h, Lists!Detached(l, h))
         /\ Lists!Detached(l, h).owner[h] = None
<1>1. PICK z : z = Lists!Detached(l, h)
  OBVIOUS
<1>2. /\ ListsOK(z) /\ z.owner = [l.owner EXCEPT ![h] = None]
      /\ \A b \in Buses : \A s \in Seq(Handlers) : ListOf(l, b, s) =>
           \E t \in Seq(Handlers) : ListOf(z, b, t) /\ SameOrder(s, t)
  BY <1>1, DetachStep
<1>3. \A s, t : SameOrder(s, t) => OrderKept(s, t, h)
  BY DEF SameOrder, OrderKept
<1>4. l.owner \in [Handlers -> Buses \cup {None}]
  BY DEF ListsOK
<1>5. /\ \A x \in Handlers : x # h => z.owner[x] = l.owner[x]
      /\ z.owner[h] = None
  BY <1>2, <1>4
<1> QED
  BY <1>1, <1>2, <1>3, <1>5 DEF OthersKept

LEMMA AttachKeeps ==
  ASSUME NEW l, ListsOK(l), NEW h \in Handlers, NEW o \in Buses, l.owner[h] # o
  PROVE  OthersKept(l, h, Lists!Attached(l, h, o))
<1>1. PICK d : d = Lists!Detached(l, h)
  OBVIOUS
<1>2. PICK z : z = Lists!Inserted(d, h, o)
  OBVIOUS
<1>3. Lists!Attached(l, h, o) = z
  BY <1>1, <1>2 DEF Lists!Attached
<1>4. OthersKept(l, h, d) /\ d.owner[h] = None
  <2>1. CASE l.owner[h] = None
    <3>1. d = l
      BY <1>1, <2>1 DEF Lists!Detached
    <3>2. \A s : Distinct(s) => OrderKept(s, s, h)
      BY DEF Distinct, OrderKept
    <3>3. \A b, s : ListOf(l, b, s) => Distinct(s)
      BY DEF ListOf
    <3> QED
      BY <2>1, <3>1, <3>2, <3>3 DEF OthersKept
  <2>2. CASE l.owner[h] # None
    BY <1>1, <2>2, DetachKeeps
  <2> QED
    BY <2>1, <2>2
<1>5. ListsOK(d)
  BY <1>4 DEF OthersKept
<1>6. /\ ListsOK(z) /\ z.owner = [d.owner EXCEPT ![h] = o]
      /\ \A b \in Buses : \A s \in Seq(Handlers) : ListOf(d, b, s) =>
           \E t \in Seq(Handlers) : ListOf(z, b, t) /\ SameOrder(s, t)
  BY <1>2, <1>4, <1>5, InsertStep
<1>7. ASSUME NEW x \in Handlers, x # h PROVE z.owner[x] = l.owner[x]
  <2>1. d.owner \in [Handlers -> Buses \cup {None}]
    BY <1>5 DEF ListsOK
  <2>2. d.owner[x] = l.owner[x]
    BY <1>4, <1>7 DEF OthersKept
  <2> QED
    BY <1>6, <1>7, <2>1, <2>2
<1>8. ASSUME NEW b \in Buses, NEW s \in Seq(Handlers), ListOf(l, b, s)
      PROVE  \E t \in Seq(Handlers) : ListOf(z, b, t) /\ OrderKept(s, t, h)
  <2>1. PICK rest \in Seq(Handlers) : ListOf(d, b, rest) /\ OrderKept(s, rest, h)
    BY <1>4, <1>8 DEF OthersKept
  <2>2. PICK t \in Seq(Handlers) : ListOf(z, b, t) /\ SameOrder(rest, t)
    BY <1>6, <2>1
  <2>3. ASSUME NEW i \in 1 .. Len(s), NEW j \in 1 .. Len(s),
               NEW u \in 1 .. Len(t), NEW v \in 1 .. Len(t),
               s[i] = t[u], s[j] = t[v], s[i] # h, s[j] # h
        PROVE  i < j <=> u < v
    <3>1. /\ s[i] \in Handlers /\ l.owner[s[i]] = b
          /\ s[j] \in Handlers /\ l.owner[s[j]] = b
      BY <1>8 DEF ListOf
    <3>2. d.owner[s[i]] = b /\ d.owner[s[j]] = b
      BY <3>1, <2>3, <1>4 DEF OthersKept
    <3>3. PICK p \in 1 .. Len(rest) : rest[p] = s[i]
      BY <3>1, <3>2, <2>1 DEF ListOf
    <3>4. PICK size \in 1 .. Len(rest) : rest[size] = s[j]
      BY <3>1, <3>2, <2>1 DEF ListOf
    <3>5. i < j <=> p < size
      BY <2>1, <2>3, <3>3, <3>4 DEF OrderKept
    <3>6. p < size <=> u < v
      BY <2>2, <2>3, <3>3, <3>4 DEF SameOrder
    <3> QED
      BY <3>5, <3>6
  <2> QED
    BY <2>2, <2>3 DEF OrderKept
<1> QED
  BY <1>3, <1>6, <1>7, <1>8 DEF OthersKept

-----------------------------------------------------------------------------
(* Where RunMessageHandlers goes on.                                       *)
Places == Handlers \cup {None}

Far(pgn) == {x \in Places : x = None \/ Lists!PGN(x) > pgn \/ Lists!PGN(x) = pgn}

StopAt(pgn) ==
  [x \in Places |-> IF x = None \/ Lists!PGN(x) > pgn THEN [loop |-> 2, at |-> None]
                    ELSE [loop |-> 2, at |-> x]]

Specific(l, pgn) ==
  LET specific[x \in Places] ==
        IF x = None \/ Lists!PGN(x) > pgn THEN [loop |-> 2, at |-> None]
        ELSE IF Lists!PGN(x) = pgn THEN [loop |-> 2, at |-> x]
        ELSE specific[l.next[x]]
  IN specific

LEMMA SpecificIs ==
  ASSUME NEW l, NEW pgn
  PROVE  Specific(l, pgn) = Walk(Places, Far(pgn), l.next, StopAt(pgn))
<1>1. ASSUME NEW go
      PROVE  [x \in Places |->
                IF x = None \/ Lists!PGN(x) > pgn THEN [loop |-> 2, at |-> None]
                ELSE IF Lists!PGN(x) = pgn THEN [loop |-> 2, at |-> x]
                ELSE go[l.next[x]]]
             = [x \in Places |->
                IF x \in Far(pgn) THEN StopAt(pgn)[x] ELSE go[l.next[x]]]
  BY DEF Far, StopAt
<1> QED
  BY <1>1 DEF Specific, Walk, Walks

LEMMA StopIs ==
  ASSUME NEW l, NEW pgn, NEW loop, NEW z
  PROVE  Lists!Stop(l, pgn, loop, z) =
           IF loop = 1 /\ z # None /\ Lists!PGN(z) = 0 THEN [loop |-> 1, at |-> z]
           ELSE Specific(l, pgn)[z]
BY DEF Lists!Stop, Specific, Places

(* Coming to position k of the list s, the run stops at the next handler   *)
(* that asked for the message.                                             *)
StopsWell(s, pgn, k, rest) ==
  /\ rest \in [loop : {1, 2}, at : Handlers \cup {None}]
  /\ \/ /\ rest.at = None
        /\ \A i \in k .. Len(s) : Lists!PGN(s[i]) \notin {0, pgn}
     \/ \E j \in k .. Len(s) :
          /\ rest.at = s[j] /\ Lists!PGN(s[j]) \in {0, pgn}
          /\ rest.loop = 1 <=> Lists!PGN(s[j]) = 0
          /\ \A i \in k .. j - 1 : Lists!PGN(s[i]) \notin {0, pgn}

LEMMA StopStep ==
  ASSUME NEW l, ListsOK(l), NEW b \in Buses, NEW s \in Seq(Handlers), ListOf(l, b, s),
         NEW k \in 1 .. Len(s) + 1, NEW pgn \in Nat, NEW loop \in {1, 2},
         loop = 2 => \A i \in k .. Len(s) : Lists!PGN(s[i]) > 0
  PROVE  StopsWell(s, pgn, k, Lists!Stop(l, pgn, loop, Elem(s, k)))
<1> DEFINE x == Elem(s, k)
           rest == Lists!Stop(l, pgn, loop, x)
<1>1. PICK n \in Nat : n = Len(s)
  OBVIOUS
<1>2. /\ \A i \in 1 .. n : s[i] \in Handlers /\ Lists!PGN(s[i]) \in Nat /\ s[i] # None
      /\ \A i, j \in 1 .. n : i <= j => Lists!PGN(s[i]) <= Lists!PGN(s[j])
  BY <1>1, ListsNone DEF ListOf
<1>3. CASE loop = 1 /\ x # None /\ Lists!PGN(x) = 0
  <2>1. k \in 1 .. n /\ x = s[k]
    BY <1>1, <1>3 DEF Elem
  <2>2. rest = [loop |-> 1, at |-> s[k]]
    BY <1>3, <2>1, StopIs
  <2> HIDE DEF rest
  <2>3. rest \in [loop : {1, 2}, at : Handlers \cup {None}] /\ rest.at = s[k] /\ rest.loop = 1
    BY <2>1, <2>2, <1>2
  <2>4. k \in k .. Len(s) /\ \A i \in k .. k - 1 : FALSE
    BY <2>1, <1>1
  <2>5. Lists!PGN(s[k]) = 0
    BY <2>1, <1>3
  <2>6. StopsWell(s, pgn, k, rest)
    BY <2>3, <2>4, <2>5 DEF StopsWell
  <2> QED
    BY <2>6 DEF rest
<1>4. CASE ~(loop = 1 /\ x # None /\ Lists!PGN(x) = 0)
  <2>1. \A i \in k .. n : Lists!PGN(s[i]) > 0
    <3>1. CASE loop = 2
      BY <3>1, <1>1
    <3>2. CASE loop = 1 /\ k \in 1 .. n
      <4>1. x = s[k] /\ x # None
        BY <3>2, <1>1, <1>2 DEF Elem
      <4>2. Lists!PGN(s[k]) # 0
        BY <1>4, <3>2, <4>1
      <4>3. Lists!PGN(s[k]) > 0
        BY <4>2, <3>2, <1>2
      <4> SUFFICES ASSUME NEW i \in k .. n PROVE Lists!PGN(s[i]) > 0
        OBVIOUS
      <4>4. Lists!PGN(s[k]) <= Lists!PGN(s[i]) /\ Lists!PGN(s[i]) \in Nat
                /\ Lists!PGN(s[k]) \in Nat
        BY <3>2, <1>2
      <4> QED
        BY <4>3, <4>4
    <3>3. CASE ~(k \in 1 .. n)
      BY <3>3, <1>1
    <3> QED
      BY <3>1, <3>2, <3>3
  <2>2. PICK e : e = [i \in 1 .. n + 1 |-> Elem(s, i)]
    OBVIOUS
  <2>3. /\ \A i \in 1 .. n : e[i] = s[i]
        /\ e[n + 1] = None /\ e[k] = x
    BY <2>2, <1>1 DEF Elem
  <2>4. PICK len \in Nat : len = n + 1
    OBVIOUS
  <2>5. Route(Places, Far(pgn), l.next, e, len)
    <3>1. \A i \in 1 .. len : e[i] \in Places
      BY <2>3, <2>4, <1>2 DEF Places
    <3>2. \A i \in 1 .. len : i < len => l.next[e[i]] = e[i + 1]
      <4> SUFFICES ASSUME NEW i \in 1 .. n PROVE l.next[e[i]] = e[i + 1]
        BY <2>4
      <4>1. l.next[s[i]] = Elem(s, i + 1)
        BY <1>1 DEF ListOf, Linked
      <4>2. i + 1 \in 1 .. n + 1
        OBVIOUS
      <4>3. e[i + 1] = Elem(s, i + 1)
        BY <4>2, <2>2
      <4>4. e[i] = s[i]
        BY <2>3
      <4> QED
        BY <4>1, <4>3, <4>4
    <3>3. e[len] \in Far(pgn)
      BY <2>3, <2>4 DEF Far, Places
    <3>4. Far(pgn) \subseteq Places /\ \A y \in Places : y \notin Far(pgn) => l.next[y] \in Places
      BY DEF Far, Places, ListsOK
    <3> QED
      BY <3>1, <3>2, <3>3, <3>4 DEF Route
  <2>6. k \in 1 .. len
    BY <2>4, <1>1
  <2>7. PICK j \in k .. len :
          /\ e[j] \in Far(pgn) /\ \A i \in k .. j - 1 : e[i] \notin Far(pgn)
          /\ Walk(Places, Far(pgn), l.next, StopAt(pgn))[e[k]] = StopAt(pgn)[e[j]]
    <3>1. StopsOn(Places, Far(pgn), l.next, StopAt(pgn), e, k, len)
      BY <2>5, <2>6, WalkStops
    <3> QED
      BY <3>1 DEF StopsOn
  <2>8. rest = StopAt(pgn)[e[j]]
    BY <1>4, <2>3, <2>7, StopIs, SpecificIs
  <2>9. \A i \in k .. j - 1 : i \in 1 .. n /\ Lists!PGN(s[i]) < pgn
    <3> SUFFICES ASSUME NEW i \in k .. j - 1 PROVE i \in 1 .. n /\ Lists!PGN(s[i]) < pgn
      OBVIOUS
    <3>1. i \in 1 .. n
      BY <2>4, <2>6
    <3>2. s[i] \notin Far(pgn) /\ s[i] \in Handlers /\ Lists!PGN(s[i]) \in Nat
      BY <3>1, <2>3, <2>7, <1>2
    <3> QED
      BY <3>1, <3>2 DEF Far, Places
  <2>10. CASE j \in 1 .. n /\ Lists!PGN(s[j]) = pgn
    <3>1. e[j] = s[j] /\ s[j] \in Handlers /\ s[j] # None /\ Lists!PGN(s[j]) > 0
      BY <2>1, <2>3, <2>10, <1>2
    <3>2. rest = [loop |-> 2, at |-> s[j]]
      BY <2>8, <2>10, <3>1 DEF StopAt, Places
    <3> HIDE DEF rest
    <3>3. rest \in [loop : {1, 2}, at : Handlers \cup {None}] /\ rest.at = s[j] /\ rest.loop = 2
      BY <3>1, <3>2
    <3>4. \A i \in k .. j - 1 : Lists!PGN(s[i]) \notin {0, pgn}
      <4> SUFFICES ASSUME NEW i \in k .. j - 1 PROVE Lists!PGN(s[i]) \notin {0, pgn}
        OBVIOUS
      <4>1. i \in 1 .. n /\ Lists!PGN(s[i]) < pgn
        BY <2>9
      <4>2. Lists!PGN(s[i]) > 0 /\ Lists!PGN(s[i]) \in Nat
        BY <4>1, <2>1, <1>2
      <4> QED
        BY <4>1, <4>2
    <3>5. j \in k .. Len(s)
      BY <2>10, <1>1
    <3>6. StopsWell(s, pgn, k, rest)
      BY <3>1, <3>3, <3>4, <3>5, <2>10 DEF StopsWell
    <3> QED
      BY <3>6 DEF rest
  <2>11. CASE ~(j \in 1 .. n /\ Lists!PGN(s[j]) = pgn)
    <3>1. j = n + 1 \/ (j \in 1 .. n /\ Lists!PGN(s[j]) > pgn)
      <4>1. CASE j = n + 1
        BY <4>1
      <4>2. CASE j # n + 1
        <5>1. j \in 1 .. n
          BY <4>2, <2>4, <2>6
        <5>2. s[j] \in Far(pgn) /\ s[j] # None
          BY <5>1, <2>3, <2>7, <1>2
        <5> QED
          BY <5>1, <5>2, <2>11 DEF Far
      <4> QED
        BY <4>1, <4>2
    <3>2. rest = [loop |-> 2, at |-> None]
      <4>1. e[j] \in Places /\ (e[j] = None \/ Lists!PGN(e[j]) > pgn)
        BY <3>1, <2>3, <2>7 DEF Far
      <4> QED
        BY <4>1, <2>8 DEF StopAt
    <3> HIDE DEF rest
    <3>3. rest \in [loop : {1, 2}, at : Handlers \cup {None}] /\ rest.at = None
      BY <3>2
    <3>4. \A i \in k .. Len(s) : Lists!PGN(s[i]) \notin {0, pgn}
      <4> SUFFICES ASSUME NEW i \in k .. n PROVE Lists!PGN(s[i]) \notin {0, pgn}
        BY <1>1
      <4>0. i \in 1 .. n /\ Lists!PGN(s[i]) > 0 /\ Lists!PGN(s[i]) \in Nat
        BY <2>1, <1>2
      <4>1. CASE i <= j - 1
        <5>1. Lists!PGN(s[i]) < pgn
          BY <4>1, <2>9
        <5> QED
          BY <4>0, <5>1
      <4>2. CASE ~(i <= j - 1)
        <5>1. j \in 1 .. n /\ Lists!PGN(s[j]) > pgn
          BY <4>2, <3>1
        <5>2. Lists!PGN(s[j]) <= Lists!PGN(s[i]) /\ Lists!PGN(s[j]) \in Nat
          BY <5>1, <4>0, <4>2, <1>2
        <5> QED
          BY <5>1, <5>2, <4>0
      <4> QED
        BY <4>1, <4>2
    <3>5. StopsWell(s, pgn, k, rest)
      BY <3>3, <3>4 DEF StopsWell
    <3> QED
      BY <3>5 DEF rest
  <2> QED
    BY <2>10, <2>11
<1> QED
  BY <1>3, <1>4

-----------------------------------------------------------------------------
(* The lists and the run.                                                  *)
LEMMA MessagesStart == Lists!Init => MessagesOK
<1> SUFFICES ASSUME Lists!Init PROVE MessagesOK
  OBVIOUS
<1>1. list = [first |-> [b \in Buses |-> None], next |-> [h \in Handlers |-> None],
              owner |-> [h \in Handlers |-> None]]
      /\ run = None
  BY DEF Lists!Init
<1>2. ASSUME NEW b \in Buses PROVE \E s \in Seq(Handlers) : ListOf(list, b, s)
  <2>1. PICK s : s = <<>>
    OBVIOUS
  <2>2. s \in Seq(Handlers) /\ Len(s) = 0 /\ Elem(s, 1) = None
    BY <2>1 DEF Elem
  <2>3. \A i \in 1 .. Len(s) : FALSE
    BY <2>2
  <2>4. list.first[b] = None /\ \A h \in Handlers : list.owner[h] # b
    BY <1>1, ListsNone
  <2>5. ListOf(list, b, s)
    BY <2>2, <2>3, <2>4 DEF ListOf, Linked, Distinct
  <2> QED
    BY <2>2, <2>5
<1>3. ListsOK(list)
  BY <1>1, <1>2 DEF ListsOK
<1> QED
  BY <1>1, <1>3 DEF MessagesOK, RunOK

LEMMA BeginKeeps ==
  ASSUME MessagesOK, NEW b \in Buses, NEW pgn \in PGNs, Lists!BeginRun(b, pgn)
  PROVE  MessagesOK'
<1>1. PICK s \in Seq(Handlers) : ListOf(list, b, s)
  BY DEF MessagesOK, ListsOK
<1>2. list' = list /\ ListsOK(list) /\ pgn \in Nat
  BY SupportAssumption DEF Lists!BeginRun, MessagesOK, Lists!ListsAssumption
<1>3. PICK rest : rest = Lists!Stop(list, pgn, 1, Elem(s, 1))
  OBVIOUS
<1>4. StopsWell(s, pgn, 1, rest)
  <2>1. PICK k \in 1 .. Len(s) + 1 : k = 1
    OBVIOUS
  <2>2. PICK loop \in {1, 2} : loop = 1
    OBVIOUS
  <2>3. StopsWell(s, pgn, k, Lists!Stop(list, pgn, loop, Elem(s, k)))
    BY <1>1, <1>2, <2>2, StopStep
  <2> QED
    BY <1>3, <2>1, <2>2, <2>3
<1>5. list.first[b] = Elem(s, 1)
  BY <1>1 DEF ListOf, Linked
<1>6. run' = [bus |-> b, pgn |-> pgn, stop |-> rest, called |-> [h \in Handlers |-> 0],
              stayed |-> {h \in Handlers : list.owner[h] = b}, tame |-> TRUE, changes |-> 0]
  BY <1>3, <1>5 DEF Lists!BeginRun
<1>7. /\ run'.bus = b /\ run'.pgn = pgn /\ run'.stop = rest
      /\ run'.called = [h \in Handlers |-> 0]
      /\ run'.stayed = {h \in Handlers : list.owner[h] = b} /\ run'.tame = TRUE
  BY <1>6
<1>8. RunShape'
  BY <1>6 DEF RunShape
<1>9. RunAt(s)'
  <2>1. CASE rest.at = None /\ \A i \in 1 .. Len(s) : Lists!PGN(s[i]) \notin {0, pgn}
    <3>1. ASSUME NEW h \in run'.stayed PROVE ~Asked(h)'
      <4>1. PICK i \in 1 .. Len(s) : s[i] = h
        BY <3>1, <1>1, <1>7 DEF ListOf
      <4> QED
        BY <2>1, <4>1, <1>7 DEF Asked
    <3> QED
      BY <2>1, <3>1, <1>7 DEF RunAt
  <2>2. ASSUME NEW j \in 1 .. Len(s),
               rest.at = s[j], Lists!PGN(s[j]) \in {0, pgn}, rest.loop = 1 <=> Lists!PGN(s[j]) = 0,
               \A i \in 1 .. j - 1 : Lists!PGN(s[i]) \notin {0, pgn}
        PROVE  RunAt(s)'
    <3>1. Asked(s[j])'
      BY <2>2, <1>7 DEF Asked
    <3>2. ASSUME NEW i \in 1 .. Len(s), Asked(s[i])'
          PROVE  run'.called[s[i]] = IF i < j THEN 1 ELSE 0
      <4>1. ~(i < j)
        <5> SUFFICES ASSUME i < j PROVE FALSE
          OBVIOUS
        <5>1. i \in 1 .. j - 1
          OBVIOUS
        <5>2. Lists!PGN(s[i]) \notin {0, pgn}
          BY <5>1, <2>2
        <5> QED
          BY <5>2, <3>2, <1>7 DEF Asked
      <4> QED
        BY <4>1, <1>7
    <3>3. run'.stop.at = s[j] /\ (run'.stop.loop = 1 <=> Lists!PGN(s[j]) = 0)
      BY <2>2, <1>7
    <3> QED
      BY <3>1, <3>2, <3>3 DEF RunAt
  <2> QED
    BY <1>4, <2>1, <2>2 DEF StopsWell
<1>10. RunServes'
  <2>1. run'.stop \in [loop : {1, 2}, at : Handlers \cup {None}]
    BY <1>4, <1>7 DEF StopsWell
  <2>2. run'.called \in [Handlers -> Nat] /\ \A h \in Handlers : run'.called[h] = 0
    BY <1>7
  <2>3. run'.stayed \subseteq {h \in Handlers : list'.owner[h] = run'.bus}
    BY <1>2, <1>7
  <2>4. ListOf(list', run'.bus, s)
    BY <1>1, <1>2, <1>7
  <2> QED
    BY <1>7, <1>9, <2>1, <2>2, <2>3, <2>4 DEF RunServes
<1> QED
  BY <1>2, <1>8, <1>10 DEF MessagesOK, RunOK

LEMMA ReturnKeeps ==
  ASSUME MessagesOK, Lists!HandlerReturns
  PROVE  MessagesOK'
<1>1. /\ run # None /\ run.stop.at # None /\ list' = list /\ ListsOK(list)
      /\ RunShape /\ (run.tame => RunServes)
  BY DEF Lists!HandlerReturns, Lists!InCall, MessagesOK, RunOK
<1>2. PICK rest : rest = Lists!Stop(list, run.pgn, run.stop.loop, list.next[run.stop.at])
  OBVIOUS
<1>3. run' = [run EXCEPT !.called[run.stop.at] = @ + 1, !.stop = rest]
  BY <1>2 DEF Lists!HandlerReturns
<1>4. /\ RunShape' /\ run'.bus = run.bus /\ run'.pgn = run.pgn /\ run'.stop = rest
      /\ run'.stayed = run.stayed /\ run'.tame = run.tame
      /\ run'.called = [run.called EXCEPT ![run.stop.at] = @ + 1]
  <2>1. run' = [bus |-> run.bus, pgn |-> run.pgn, stop |-> rest,
                called |-> [run.called EXCEPT ![run.stop.at] = @ + 1],
                stayed |-> run.stayed, tame |-> run.tame, changes |-> run.changes]
    BY <1>1, <1>3 DEF RunShape
  <2> QED
    BY <2>1, <1>1 DEF RunShape
<1>5. ASSUME run.tame PROVE RunServes'
  <2>1. /\ run.bus \in Buses /\ run.pgn \in PGNs /\ run.pgn \in Nat
        /\ run.stop \in [loop : {1, 2}, at : Handlers \cup {None}]
        /\ run.called \in [Handlers -> Nat]
        /\ \A h \in Handlers : ~Asked(h) => run.called[h] = 0
        /\ run.stayed \subseteq {h \in Handlers : list.owner[h] = run.bus}
    BY <1>1, <1>5, SupportAssumption DEF RunServes, Lists!ListsAssumption
  <2>2. PICK s \in Seq(Handlers) : ListOf(list, run.bus, s) /\ RunAt(s)
    BY <1>1, <1>5 DEF RunServes
  <2>3. PICK k \in 1 .. Len(s) :
          /\ run.stop.at = s[k] /\ Asked(s[k])
          /\ run.stop.loop = 1 <=> Lists!PGN(s[k]) = 0
          /\ \A j \in 1 .. Len(s) : s[j] \in run.stayed /\ Asked(s[j]) =>
               run.called[s[j]] = IF j < k THEN 1 ELSE 0
    BY <1>1, <2>2 DEF RunAt
  <2>4. list.next[run.stop.at] = Elem(s, k + 1)
    BY <2>2, <2>3 DEF ListOf, Linked
  <2>5. /\ \A i \in 1 .. Len(s) : s[i] \in Handlers /\ Lists!PGN(s[i]) \in Nat
        /\ Distinct(s)
    BY <2>2, ListsNone DEF ListOf
  <2>6. run.stop.loop = 2 => \A i \in k + 1 .. Len(s) : Lists!PGN(s[i]) > 0
    <3> SUFFICES ASSUME run.stop.loop = 2, NEW i \in k + 1 .. Len(s)
                 PROVE  Lists!PGN(s[i]) > 0
      OBVIOUS
    <3>1. Lists!PGN(s[k]) # 0 /\ Lists!PGN(s[k]) \in Nat
      BY <2>3, <2>5
    <3>2. i \in 1 .. Len(s) /\ k <= i
      OBVIOUS
    <3>3. Lists!PGN(s[k]) <= Lists!PGN(s[i]) /\ Lists!PGN(s[i]) \in Nat
      BY <3>2, <2>2, <2>5 DEF ListOf
    <3> QED
      BY <3>1, <3>3
  <2>7. StopsWell(s, run.pgn, k + 1, rest)
    <3>1. PICK len \in 1 .. Len(s) + 1 : len = k + 1
      OBVIOUS
    <3>2. PICK loop \in {1, 2} : loop = run.stop.loop
      BY <2>1
    <3>3. PICK l : l = list
      OBVIOUS
    <3>4. PICK pgn \in Nat : pgn = run.pgn
      BY <2>1
    <3>5. PICK b \in Buses : b = run.bus
      BY <2>1
    <3>6. StopsWell(s, pgn, len, Lists!Stop(l, pgn, loop, Elem(s, len)))
      <4>1. ListsOK(l) /\ ListOf(l, b, s)
        BY <1>1, <2>2, <3>3, <3>5
      <4>2. loop = 2 => \A i \in len .. Len(s) : Lists!PGN(s[i]) > 0
        BY <2>6, <3>1, <3>2
      <4> QED
        BY <4>1, <4>2, StopStep
    <3> QED
      BY <1>2, <2>4, <3>1, <3>2, <3>3, <3>4, <3>6
  <2>8. \A h \in Handlers : Asked(h)' <=> Asked(h)
    BY <1>4 DEF Asked
  <2>9. /\ run'.called \in [Handlers -> Nat]
        /\ \A h \in Handlers : run'.called[h] =
             IF h = s[k] THEN run.called[h] + 1 ELSE run.called[h]
    BY <1>4, <2>1, <2>3, <2>5
  <2>10. \A h \in Handlers : ~Asked(h)' => run'.called[h] = 0
    BY <2>1, <2>3, <2>8, <2>9
  <2>11. \A i \in 1 .. Len(s) : Asked(s[i])' <=> Lists!PGN(s[i]) \in {0, run.pgn}
    BY <2>5, <2>8 DEF Asked
  <2>12. ASSUME NEW i \in 1 .. Len(s), s[i] \in run.stayed, Asked(s[i])'
         PROVE  run'.called[s[i]] = IF i <= k THEN 1 ELSE 0
    <3>1. run.called[s[i]] = IF i < k THEN 1 ELSE 0
      BY <2>3, <2>5, <2>8, <2>12
    <3>2. s[i] = s[k] <=> i = k
      BY <2>5 DEF Distinct
    <3> QED
      BY <3>1, <3>2, <2>5, <2>9
  <2>13. RunAt(s)'
    <3>1. CASE rest.at = None
               /\ \A i \in k + 1 .. Len(s) : Lists!PGN(s[i]) \notin {0, run.pgn}
      <4>1. ASSUME NEW h \in run.stayed, Asked(h)' PROVE run'.called[h] = 1
        <5>1. PICK i \in 1 .. Len(s) : s[i] = h
          BY <4>1, <2>1, <2>2 DEF ListOf
        <5>2. i <= k
          BY <3>1, <4>1, <5>1, <2>11
        <5> QED
          BY <4>1, <5>1, <5>2, <2>12
      <4> QED
        BY <3>1, <4>1, <1>4 DEF RunAt
    <3>2. ASSUME NEW j \in k + 1 .. Len(s),
                 rest.at = s[j], Lists!PGN(s[j]) \in {0, run.pgn},
                 rest.loop = 1 <=> Lists!PGN(s[j]) = 0,
                 \A i \in k + 1 .. j - 1 : Lists!PGN(s[i]) \notin {0, run.pgn}
          PROVE  RunAt(s)'
      <4>1. j \in 1 .. Len(s) /\ Asked(s[j])'
        BY <3>2, <2>11
      <4>2. ASSUME NEW i \in 1 .. Len(s), s[i] \in run.stayed, Asked(s[i])'
            PROVE  run'.called[s[i]] = IF i < j THEN 1 ELSE 0
        <5>1. ~(i \in k + 1 .. j - 1)
          BY <3>2, <4>2, <2>11
        <5>2. i < j <=> i <= k
          BY <5>1
        <5> QED
          BY <5>2, <4>2, <2>12
      <4>3. run'.stop.at = s[j] /\ (run'.stop.loop = 1 <=> Lists!PGN(s[j]) = 0)
        BY <3>2, <1>4
      <4> QED
        BY <4>1, <4>2, <4>3, <1>4 DEF RunAt
    <3> QED
      BY <3>1, <3>2, <2>7 DEF StopsWell
  <2>14. run'.stop \in [loop : {1, 2}, at : Handlers \cup {None}]
    BY <2>7, <1>4 DEF StopsWell
  <2>15. ListOf(list', run'.bus, s)
    BY <2>2, <1>1, <1>4
  <2>16. run'.stayed \subseteq {h \in Handlers : list'.owner[h] = run'.bus}
    BY <2>1, <1>1, <1>4
  <2> QED
    BY <1>4, <2>1, <2>9, <2>10, <2>13, <2>14, <2>15, <2>16 DEF RunServes
<1> QED
  BY <1>1, <1>4, <1>5 DEF MessagesOK, RunOK

LEMMA ChangeKeeps ==
  ASSUME MessagesOK, NEW h \in Handlers, NEW new, OthersKept(list, h, new),
         Lists!Change(h, new)
  PROVE  MessagesOK'
<1>1. list' = new /\ ListsOK(list')
  BY DEF Lists!Change, OthersKept
<1>2. CASE run = None /\ UNCHANGED run
  BY <1>1, <1>2 DEF MessagesOK, RunOK
<1>3. CASE /\ Lists!InCall
           /\ run' = [run EXCEPT !.changes = @ + 1, !.stayed = @ \ {h},
                                 !.tame = @ /\ h # run.stop.at]
  <2>1. run # None /\ run.stop.at # None /\ RunShape /\ (run.tame => RunServes)
    BY <1>3 DEF Lists!InCall, MessagesOK, RunOK
  <2>2. run' = [bus |-> run.bus, pgn |-> run.pgn, stop |-> run.stop,
                called |-> run.called, stayed |-> run.stayed \ {h},
                tame |-> (run.tame /\ h # run.stop.at), changes |-> run.changes + 1]
    BY <1>3, <2>1 DEF RunShape
  <2>3. /\ RunShape' /\ run'.bus = run.bus /\ run'.pgn = run.pgn /\ run'.stop = run.stop
        /\ run'.called = run.called /\ run'.stayed = run.stayed \ {h}
        /\ run'.tame = (run.tame /\ h # run.stop.at)
    BY <2>2 DEF RunShape
  <2>4. ASSUME run'.tame PROVE RunServes'
    <3>1. run.tame /\ h # run.stop.at /\ RunServes
      BY <2>1, <2>3, <2>4 DEF RunShape
    <3>2. /\ run.bus \in Buses /\ run.pgn \in PGNs
          /\ run.stop \in [loop : {1, 2}, at : Handlers \cup {None}]
          /\ run.called \in [Handlers -> Nat]
          /\ \A x \in Handlers : ~Asked(x) => run.called[x] = 0
          /\ run.stayed \subseteq {x \in Handlers : list.owner[x] = run.bus}
      BY <3>1 DEF RunServes
    <3>3. PICK s \in Seq(Handlers) : ListOf(list, run.bus, s) /\ RunAt(s)
      BY <3>1 DEF RunServes
    <3>4. PICK k \in 1 .. Len(s) :
            /\ run.stop.at = s[k] /\ Asked(s[k])
            /\ run.stop.loop = 1 <=> Lists!PGN(s[k]) = 0
            /\ \A j \in 1 .. Len(s) : s[j] \in run.stayed /\ Asked(s[j]) =>
                 run.called[s[j]] = IF j < k THEN 1 ELSE 0
      BY <2>1, <3>3 DEF RunAt
    <3>5. PICK t \in Seq(Handlers) : ListOf(new, run.bus, t) /\ OrderKept(s, t, h)
      BY <3>2, <3>3 DEF OthersKept
    <3>6. \A x \in Handlers : x # h => new.owner[x] = list.owner[x]
      BY DEF OthersKept
    <3>7. PICK z \in 1 .. Len(t) : t[z] = s[k]
      <4>1. s[k] \in Handlers /\ s[k] # h /\ list.owner[s[k]] = run.bus
        BY <3>1, <3>3, <3>4 DEF ListOf
      <4> QED
        BY <4>1, <3>5, <3>6 DEF ListOf
    <3>8. \A x \in Handlers : Asked(x)' <=> Asked(x)
      BY <2>3 DEF Asked
    <3>9. ASSUME NEW j \in 1 .. Len(t), t[j] \in run'.stayed, Asked(t[j])'
          PROVE  run'.called[t[j]] = IF j < z THEN 1 ELSE 0
      <4>1. t[j] \in run.stayed /\ t[j] # h /\ t[j] \in Handlers /\ Asked(t[j])
        BY <3>8, <3>9, <2>3
      <4>2. PICK i \in 1 .. Len(s) : s[i] = t[j]
        BY <4>1, <3>2, <3>3 DEF ListOf
      <4>3. i < k <=> j < z
        BY <4>1, <4>2, <3>1, <3>4, <3>5, <3>7 DEF OrderKept
      <4>4. run.called[s[i]] = IF i < k THEN 1 ELSE 0
        BY <4>1, <4>2, <3>4
      <4> QED
        BY <4>2, <4>3, <4>4, <2>3
    <3>10. Asked(t[z])'
      BY <3>4, <3>7, <3>8
    <3>11. RunAt(t)'
      BY <2>3, <3>4, <3>7, <3>9, <3>10 DEF RunAt
    <3>12. run'.stayed \subseteq {x \in Handlers : list'.owner[x] = run'.bus}
      BY <2>3, <3>2, <3>6, <1>1
    <3>13. \A x \in Handlers : ~Asked(x)' => run'.called[x] = 0
      BY <2>3, <3>2, <3>8
    <3>14. ListOf(list', run'.bus, t)
      BY <1>1, <2>3, <3>5
    <3> QED
      BY <2>3, <3>2, <3>11, <3>12, <3>13, <3>14 DEF RunServes
  <2> QED
    BY <1>1, <2>3, <2>4 DEF MessagesOK, RunOK
<1> QED
  BY <1>2, <1>3 DEF Lists!Change

LEMMA MessagesStep == MessagesOK /\ (Lists!MsgNext \/ UNCHANGED listVars) => MessagesOK'
<1> SUFFICES ASSUME MessagesOK, Lists!MsgNext \/ UNCHANGED listVars PROVE MessagesOK'
  OBVIOUS
<1>0. ListsOK(list)
  BY DEF MessagesOK
<1>1. CASE UNCHANGED listVars
  BY <1>1 DEF listVars, MessagesOK, RunOK, RunShape, RunServes, RunAt, Asked
<1>2. ASSUME NEW b \in Buses, NEW pgn \in PGNs, Lists!BeginRun(b, pgn) PROVE MessagesOK'
  BY <1>2, BeginKeeps
<1>3. CASE Lists!HandlerReturns
  BY <1>3, ReturnKeeps
<1>4. CASE Lists!EndRun
  BY <1>4 DEF Lists!EndRun, MessagesOK, RunOK
<1>5. ASSUME NEW h \in Handlers, NEW b \in Buses, Lists!AttachMsgHandler(h, b)
      PROVE  MessagesOK'
  <2>1. list.owner[h] # b /\ Lists!Change(h, Lists!Attached(list, h, b))
    BY <1>5 DEF Lists!AttachMsgHandler
  <2>2. PICK new : new = Lists!Attached(list, h, b)
    OBVIOUS
  <2>3. OthersKept(list, h, new)
    BY <1>0, <2>1, <2>2, AttachKeeps
  <2> QED
    BY <2>1, <2>2, <2>3, ChangeKeeps
<1>6. ASSUME NEW h \in Handlers, Lists!DetachMsgHandler(h) PROVE MessagesOK'
  <2>1. list.owner[h] # None /\ Lists!Change(h, Lists!Detached(list, h))
    BY <1>6 DEF Lists!DetachMsgHandler
  <2>2. PICK new : new = Lists!Detached(list, h)
    OBVIOUS
  <2>3. OthersKept(list, h, new)
    BY <1>0, <2>1, <2>2, DetachKeeps
  <2> QED
    BY <2>1, <2>2, <2>3, ChangeKeeps
<1> QED
  BY <1>1, <1>2, <1>3, <1>4, <1>5, <1>6 DEF Lists!MsgNext

LEMMA MessagesServed == MessagesOK => Lists!HandlersServed
<1> SUFFICES ASSUME MessagesOK, run # None, run.stop.at = None, run.tame,
                    NEW h \in Handlers
             PROVE  /\ ~(Lists!PGN(h) \in {0, run.pgn}) => run.called[h] = 0
                    /\ h \in run.stayed /\ Lists!PGN(h) \in {0, run.pgn} => run.called[h] = 1
  BY DEF Lists!HandlersServed
<1>1. RunServes
  BY DEF MessagesOK, RunOK
<1>2. PICK s \in Seq(Handlers) : RunAt(s)
  BY <1>1 DEF RunServes
<1>3. \A k \in 1 .. Len(s) : s[k] # None
  BY ListsNone
<1>4. \A x \in run.stayed : Asked(x) => run.called[x] = 1
  BY <1>2, <1>3 DEF RunAt
<1>5. ~Asked(h) => run.called[h] = 0
  BY <1>1 DEF RunServes
<1> QED
  BY <1>4, <1>5 DEF Asked

-----------------------------------------------------------------------------
(* The list of group function handlers.                                    *)
GroupTyped(g) ==
  /\ g = [first |-> g.first, next |-> g.next, opened |-> g.opened]
  /\ g.first \in Lists!GroupHandlers \cup {None}
  /\ g.next \in [Lists!GroupHandlers -> Lists!GroupHandlers \cup {None}]

(* t is s without h.                                                       *)
TakenOut(s, h, t) ==
  \/ ~Holds(s, h) /\ t = s
  \/ \E k \in 1 .. Len(s) : s[k] = h /\ IsWithout(Lists!GroupHandlers, s, k, t)

LEMMA TakenOutHolds ==
  ASSUME NEW s, NEW h, NEW t, TakenOut(s, h, t)
  PROVE  \A x : Holds(t, x) <=> Holds(s, x) /\ x # h
BY DEF TakenOut, IsWithout

(* RemoveGroupFunctionHandler takes the handler out of the list, if it is  *)
(* there.                                                                  *)
LEMMA RemovedIs ==
  ASSUME NEW g, GroupTyped(g), NEW s \in Seq(Lists!GroupHandlers), GroupOf(g, s),
         NEW h \in Lists!GroupHandlers, NEW rest, rest = Lists!Removed(g, h)
  PROVE  /\ GroupTyped(rest) /\ rest.opened = g.opened
         /\ \E t \in Seq(Lists!GroupHandlers) : GroupOf(rest, t) /\ TakenOut(s, h, t)
<1> DEFINE D == Lists!GroupHandlers
           p == BeforeWalk(D, g.next, h)[g.first]
           cut == IF g.first = h THEN [g EXCEPT !.first = g.next[h]]
                  ELSE IF p = None THEN g
                  ELSE [g EXCEPT !.next[p] = g.next[h]]
<1>1. rest = IF g.first = None THEN g ELSE [cut EXCEPT !.next[h] = None]
  BY DEF Lists!Removed, BeforeWalk
<1>2. /\ g = [first |-> g.first, next |-> g.next, opened |-> g.opened]
      /\ g.first \in D \cup {None}
      /\ g.next \in [D -> D \cup {None}]
  BY DEF GroupTyped
<1>3. /\ Distinct(s) /\ Linked(g.first, g.next, s)
      /\ \A x \in D : ~Holds(s, x) => g.next[x] = None
      /\ \A i, j \in 2 .. Len(s) :
           i <= j /\ Lists!PGN(s[i]) = 0 => Lists!PGN(s[j]) = 0
  BY DEF GroupOf, Holds
<1>4. None \notin D
  BY ListsNone
<1>5. PICK n \in Nat : n = Len(s)
  OBVIOUS
<1>6. \A i \in 1 .. n : s[i] \in D
  BY <1>5
<1>7. g.first = Elem(s, 1)
  BY <1>3 DEF Linked
<1>8. p = Before(D, g.next, h)[g.first]
  BY BeforeWalkIs
<1> HIDE DEF D, p
<1>9. CASE ~Holds(s, h)
  <2>1. g.first = None => rest = g
    BY <1>1
  <2>2. ASSUME g.first # None PROVE rest = g
    <3>1. n >= 1 /\ g.first = s[1]
      BY <2>2, <1>5, <1>7 DEF Elem
    <3>2. g.first # h
      BY <3>1, <1>5, <1>9 DEF Holds
    <3>3. p = None
      BY <3>2, <1>2, <1>3, <1>4, <1>8, <1>9, BeforeIs DEF D
    <3>4. cut = g
      BY <3>2, <3>3
    <3>5. g.next[h] = None /\ h \in D
      BY <1>3, <1>9 DEF D
    <3>6. g.next = [g.next EXCEPT ![h] = None]
      BY <3>5, <1>2
    <3> HIDE DEF cut
    <3> QED
      BY <3>4, <3>6, <2>2, <1>1, <1>2
  <2> QED
    BY <2>1, <2>2, <1>9 DEF TakenOut
<1>10. CASE Holds(s, h)
  <2>1. PICK k \in 1 .. Len(s) : s[k] = h
    BY <1>10 DEF Holds
  <2>2. g.first = s[1] /\ g.first \in D /\ g.first # None
    <3>1. 1 \in 1 .. Len(s)
      OBVIOUS
    <3> QED
      BY <3>1, <1>4, <1>5, <1>6, <1>7 DEF Elem
  <2>3. g.first = h <=> k = 1
    <3>1. 1 \in 1 .. Len(s)
      OBVIOUS
    <3> QED
      BY <3>1, <2>1, <2>2, <1>3 DEF Distinct
  <2>4. k # 1 => p = s[k - 1] /\ p # None /\ p \in D /\ p # h
    <3> SUFFICES ASSUME k # 1 PROVE p = s[k - 1] /\ p # None /\ p \in D /\ p # h
      OBVIOUS
    <3>1. p = s[k - 1]
      BY <2>1, <2>3, <1>2, <1>3, <1>4, <1>8, BeforeIs DEF D
    <3>2. k - 1 \in 1 .. n /\ k - 1 # k /\ k - 1 \in 1 .. Len(s)
      BY <1>5
    <3>3. s[k - 1] # s[k]
      BY <3>2, <1>3 DEF Distinct
    <3> QED
      BY <3>1, <3>2, <3>3, <2>1, <1>4, <1>6
  <2>5. /\ rest = [first |-> rest.first, next |-> rest.next, opened |-> g.opened]
        /\ rest.first = (IF k = 1 THEN g.next[h] ELSE g.first)
        /\ rest.next = IF k = 1 THEN [g.next EXCEPT ![h] = None]
                    ELSE [g.next EXCEPT ![s[k - 1]] = g.next[h], ![h] = None]
    <3>0. rest = [cut EXCEPT !.next[h] = None]
      BY <1>1, <2>2
    <3>1. CASE k = 1
      <4>1. cut = [first |-> g.next[h], next |-> g.next, opened |-> g.opened]
        BY <3>1, <2>3, <1>2
      <4> HIDE DEF cut
      <4> QED
        BY <3>0, <3>1, <4>1
    <3>2. CASE k # 1
      <4>1. cut = [g EXCEPT !.next[p] = g.next[h]]
        BY <3>2, <2>3, <2>4
      <4>2. cut = [first |-> g.first, next |-> [g.next EXCEPT ![s[k - 1]] = g.next[h]],
                   opened |-> g.opened]
        BY <3>2, <4>1, <2>4, <1>2
      <4> HIDE DEF cut
      <4> QED
        BY <3>0, <3>2, <4>2
    <3> QED
      BY <3>1, <3>2
  <2>6. GroupTyped(rest) /\ rest.opened = g.opened
    <3>1. g.next[h] \in D \cup {None}
      BY <1>2 DEF D
    <3>2. rest.first \in D \cup {None} /\ rest.next \in [D -> D \cup {None}]
      BY <3>1, <2>4, <2>5, <1>2
    <3>3. rest.opened = g.opened
      BY <2>5
    <3>4. rest = [first |-> rest.first, next |-> rest.next, opened |-> rest.opened]
      BY <2>5, <3>3
    <3> QED
      BY <3>2, <3>3, <3>4 DEF GroupTyped, D
  <2>7. PICK t : t = Without(s, k)
    OBVIOUS
  <2>8. IsWithout(D, s, k, t)
    BY <2>7, <1>3, WithoutIs DEF D
  <2>9. /\ t \in Seq(D) /\ Len(t) = Len(s) - 1 /\ Distinct(t)
        /\ \A i \in 1 .. Len(s) - 1 : t[i] = IF i < k THEN s[i] ELSE s[i + 1]
        /\ \A x : Holds(t, x) <=> Holds(s, x) /\ x # h
    BY <2>8, <2>1 DEF IsWithout
  <2>10. ASSUME NEW i \in 1 .. Len(s), i # k
         PROVE  rest.next[s[i]] = IF i = k - 1 THEN g.next[h] ELSE g.next[s[i]]
    <3>1. s[i] \in D /\ s[i] # h
      BY <2>1, <2>10, <1>3, <1>5, <1>6 DEF Distinct
    <3>2. CASE k = 1
      BY <3>1, <3>2, <2>5, <1>2
    <3>3. CASE k # 1
      <4>1. k - 1 \in 1 .. Len(s)
        BY <3>3
      <4>2. s[k - 1] \in D /\ (s[i] = s[k - 1] <=> i = k - 1)
        BY <4>1, <1>3, <2>4, <3>3 DEF Distinct
      <4> QED
        BY <3>1, <3>3, <4>2, <2>5, <1>2
    <3> QED
      BY <3>2, <3>3
  <2>11. Linked(rest.first, rest.next, t)
    <3>1. rest.first = IF k = 1 THEN g.next[s[k]] ELSE g.first
      BY <2>1, <2>5
    <3>2. \A i \in 1 .. Len(s) : i # k =>
            rest.next[s[i]] = IF i = k - 1 THEN g.next[s[k]] ELSE g.next[s[i]]
      BY <2>1, <2>10
    <3>3. CutLinks(s, k, g.first, g.next, rest.first, rest.next)
      BY <3>1, <3>2 DEF CutLinks
    <3>4. Linked(rest.first, rest.next, Without(s, k))
      BY <1>3, <3>3, CutOut
    <3> QED
      BY <3>4, <2>7
  <2>12. ASSUME NEW x \in D, ~Holds(t, x) PROVE rest.next[x] = None
    <3>1. CASE x = h
      BY <3>1, <2>5, <1>2 DEF D
    <3>2. CASE x # h
      <4>1. ~Holds(s, x) /\ g.next[x] = None
        BY <3>2, <2>9, <2>12, <1>3
      <4>2. k # 1 => x # s[k - 1]
        BY <4>1 DEF Holds
      <4> QED
        BY <3>2, <4>1, <4>2, <2>4, <2>5, <1>2
    <3> QED
      BY <3>1, <3>2
  <2>13. ASSUME NEW i \in 2 .. Len(t), NEW j \in 2 .. Len(t), i <= j,
                Lists!PGN(t[i]) = 0
         PROVE  Lists!PGN(t[j]) = 0
    <3>1. PICK u \in 2 .. Len(s) : u = (IF i < k THEN i ELSE i + 1) /\ t[i] = s[u]
      BY <2>9
    <3>2. PICK v \in 2 .. Len(s) : v = (IF j < k THEN j ELSE j + 1) /\ t[j] = s[v]
      BY <2>9
    <3>3. u <= v
      BY <3>1, <3>2, <2>13
    <3>4. Lists!PGN(s[u]) = 0
      BY <3>1, <2>13
    <3>5. Lists!PGN(s[v]) = 0
      BY <3>3, <3>4, <1>3
    <3> QED
      BY <3>2, <3>5
  <2>14. GroupOf(rest, t)
    BY <2>9, <2>11, <2>12, <2>13 DEF GroupOf, Holds, D
  <2>15. TakenOut(s, h, t)
    BY <2>1, <2>8 DEF TakenOut, D
  <2> QED
    BY <2>6, <2>9, <2>14, <2>15 DEF D
<1> QED
  BY <1>9, <1>10

(* AddGroupFunctionHandler goes on while the next handler has a PGN.       *)
WithPGN == {x \in Lists!GroupHandlers : Lists!PGN(x) # 0}

LastWalk(next) ==
  LET final[z \in Lists!GroupHandlers] ==
        IF next[z] # None /\ Lists!PGN(next[z]) # 0 THEN final[next[z]] ELSE z
  IN final

LEMMA LastWalkIs ==
  ASSUME NEW next \in [Lists!GroupHandlers -> Lists!GroupHandlers \cup {None}]
  PROVE  LastWalk(next) = Forth(Lists!GroupHandlers, WithPGN, next)
<1> DEFINE D == Lists!GroupHandlers
<1>1. ASSUME NEW go
      PROVE  [z \in D |->
                IF next[z] # None /\ Lists!PGN(next[z]) # 0 THEN go[next[z]] ELSE z]
             = [z \in D |->
                IF z \in ForthQ(D, WithPGN, next) THEN [x \in D |-> x][z]
                ELSE go[next[z]]]
  <2>1. ASSUME NEW z \in D
        PROVE  (IF next[z] # None /\ Lists!PGN(next[z]) # 0 THEN go[next[z]] ELSE z)
               = (IF z \in ForthQ(D, WithPGN, next) THEN [x \in D |-> x][z]
                  ELSE go[next[z]])
    <3>1. z \in ForthQ(D, WithPGN, next)
            <=> ~(next[z] # None /\ Lists!PGN(next[z]) # 0)
      <4> HIDE DEF D
      <4>1. next[z] \in D \cup {None}
        BY DEF D
      <4> QED
        BY <4>1 DEF ForthQ, WithPGN, D
    <3> HIDE DEF D
    <3> QED
      BY <3>1
  <2> HIDE DEF D
  <2> QED
    BY <2>1
<1> QED
  BY <1>1 DEF LastWalk, Forth, Walk, Walks

(* u is t with h somewhere in it; only an empty list gets a new first one. *)
PutInto(t, h, u) ==
  /\ \A x : Holds(u, x) <=> Holds(t, x) \/ x = h
  /\ u[1] = IF Len(t) = 0 THEN h ELSE t[1]

LEMMA OneLink ==
  ASSUME NEW g, g = [first |-> g.first, next |-> g.next, opened |-> g.opened],
         NEW h, NEW e
  PROVE  [g EXCEPT !.next[h] = e]
         = [first |-> g.first, next |-> [g.next EXCEPT ![h] = e], opened |-> g.opened]
OBVIOUS

LEMMA TwoLinks ==
  ASSUME NEW g, g = [first |-> g.first, next |-> g.next, opened |-> g.opened],
         NEW h, NEW e, NEW p
  PROVE  [g EXCEPT !.next[h] = e, !.next[p] = h]
         = [first |-> g.first, next |-> [g.next EXCEPT ![h] = e, ![p] = h],
            opened |-> g.opened]
<1>1. PICK one : one = [g EXCEPT !.next[h] = e]
  OBVIOUS
<1>2. PICK n : n = [g.next EXCEPT ![h] = e]
  OBVIOUS
<1>3. one = [first |-> g.first, next |-> n, opened |-> g.opened]
  BY <1>1, <1>2, OneLink
<1>4. /\ one = [first |-> one.first, next |-> one.next, opened |-> one.opened]
      /\ one.first = g.first /\ one.opened = g.opened /\ one.next = n
  BY <1>3
<1>5. [one EXCEPT !.next[p] = h]
      = [first |-> g.first, next |-> [n EXCEPT ![p] = h], opened |-> g.opened]
  BY <1>4, OneLink
<1>6. [g EXCEPT !.next[h] = e, !.next[p] = h] = [one EXCEPT !.next[p] = h]
  BY <1>1
<1>7. [g.next EXCEPT ![h] = e, ![p] = h] = [n EXCEPT ![p] = h]
  BY <1>2
<1> QED
  BY <1>5, <1>6, <1>7

LEMMA AddedIs ==
  ASSUME NEW g, GroupTyped(g), NEW s \in Seq(Lists!GroupHandlers), GroupOf(g, s),
         NEW h \in Lists!GroupHandlers, NEW a, a = Lists!Added(g, h)
  PROVE  /\ GroupTyped(a) /\ a.opened = g.opened
         /\ \E t, u \in Seq(Lists!GroupHandlers) :
              TakenOut(s, h, t) /\ PutInto(t, h, u) /\ GroupOf(a, u)
<1> DEFINE D == Lists!GroupHandlers
<1>1. PICK rest : rest = Lists!Removed(g, h)
  OBVIOUS
<1> DEFINE p == LastWalk(rest.next)[rest.first]
<1>2. a = IF rest.first = None THEN [rest EXCEPT !.first = h]
          ELSE [rest EXCEPT !.next[h] = rest.next[p], !.next[p] = h]
  BY <1>1 DEF Lists!Added, LastWalk
<1>3. /\ GroupTyped(rest) /\ rest.opened = g.opened
      /\ \E t \in Seq(D) : GroupOf(rest, t) /\ TakenOut(s, h, t)
  BY <1>1, RemovedIs
<1>4. PICK t \in Seq(D) : GroupOf(rest, t) /\ TakenOut(s, h, t)
  BY <1>3
<1>5. /\ rest = [first |-> rest.first, next |-> rest.next, opened |-> g.opened]
      /\ rest.first \in D \cup {None}
      /\ rest.next \in [D -> D \cup {None}]
  BY <1>3 DEF GroupTyped
<1>6. /\ Distinct(t) /\ Linked(rest.first, rest.next, t)
      /\ \A x \in D : ~Holds(t, x) => rest.next[x] = None
      /\ \A i, j \in 2 .. Len(t) :
           i <= j /\ Lists!PGN(t[i]) = 0 => Lists!PGN(t[j]) = 0
  BY <1>4 DEF GroupOf, Holds
<1>7. ~Holds(t, h)
  BY <1>4, TakenOutHolds
<1>8. None \notin D /\ h \in D
  BY ListsNone
<1>9. PICK n \in Nat : n = Len(t)
  OBVIOUS
<1>10. \A i \in 1 .. n : t[i] \in D /\ t[i] # h
  BY <1>7, <1>9 DEF Holds
<1>11. rest.first = Elem(t, 1)
  BY <1>6 DEF Linked
<1>12. ASSUME rest.first # None
       PROVE  \E j \in 1 .. Len(t) :
                /\ p = t[j] /\ \A i \in 2 .. j : t[i] \in WithPGN
                /\ j < Len(t) => t[j + 1] \notin WithPGN
  <2>1. GoesForth(WithPGN, t, Forth(D, WithPGN, rest.next)[rest.first])
    BY <1>5, <1>6, <1>8, <1>12, ForthIs
  <2> QED
    BY <2>1, <1>5, LastWalkIs DEF GoesForth
<1> HIDE DEF D, p
<1>13. CASE rest.first = None
  <2>1. n = 0
    BY <1>8, <1>9, <1>10, <1>11, <1>13 DEF Elem
  <2>2. a = [first |-> h, next |-> rest.next, opened |-> g.opened]
    BY <1>2, <1>5, <1>13
  <2>3. GroupTyped(a) /\ a.opened = g.opened
    BY <2>2, <1>5, <1>8 DEF GroupTyped, D
  <2>4. PICK u : u = <<h>>
    OBVIOUS
  <2>5. u \in Seq(D) /\ Len(u) = 1 /\ u[1] = h
    BY <2>4, <1>8
  <2>6. \A x : Holds(u, x) <=> x = h
    BY <2>5 DEF Holds
  <2>7. \A x : ~Holds(t, x)
    BY <2>1, <1>9 DEF Holds
  <2>8. PutInto(t, h, u)
    BY <2>1, <2>5, <2>6, <2>7, <1>9 DEF PutInto
  <2>9. Linked(a.first, a.next, u)
    <3>1. rest.next[h] = None
      BY <1>6, <1>7, <1>8
    <3> QED
      BY <3>1, <2>2, <2>5 DEF Linked, Elem
  <2>10. \A x \in D : a.next[x] = None
    BY <2>2, <2>7, <1>6
  <2>11. Distinct(u) /\ \A i, j \in 2 .. Len(u) : FALSE
    BY <2>5 DEF Distinct
  <2>12. GroupOf(a, u)
    BY <2>5, <2>9, <2>10, <2>11 DEF GroupOf, D
  <2> QED
    BY <2>3, <2>5, <2>8, <2>12, <1>4 DEF D
<1>14. CASE rest.first # None
  <2>1. PICK j \in 1 .. Len(t) :
          /\ p = t[j] /\ \A i \in 2 .. j : t[i] \in WithPGN
          /\ j < Len(t) => t[j + 1] \notin WithPGN
    BY <1>12, <1>14
  <2>2. p \in D /\ p # h /\ rest.next[p] = Elem(t, j + 1)
    BY <2>1, <1>6, <1>9, <1>10 DEF Linked
  <2>3. a = [first |-> rest.first, next |-> [rest.next EXCEPT ![h] = Elem(t, j + 1), ![p] = h],
             opened |-> g.opened]
    <3>1. a = [rest EXCEPT !.next[h] = rest.next[p], !.next[p] = h]
      BY <1>2, <1>14
    <3>2. a = [rest EXCEPT !.next[h] = Elem(t, j + 1), !.next[p] = h]
      BY <3>1, <2>2
    <3>3. PICK e : e = Elem(t, j + 1)
      OBVIOUS
    <3>a. rest = [first |-> rest.first, next |-> rest.next, opened |-> rest.opened]
          /\ rest.opened = g.opened
      BY <1>5
    <3>4. a = [first |-> rest.first, next |-> [rest.next EXCEPT ![h] = e, ![p] = h],
               opened |-> g.opened]
      BY <3>2, <3>3, <3>a, TwoLinks
    <3> QED
      BY <3>3, <3>4
  <2>4. GroupTyped(a) /\ a.opened = g.opened
    <3>1. Elem(t, j + 1) \in D \cup {None}
      BY <1>5, <2>2
    <3> QED
      BY <2>2, <2>3, <3>1, <1>5, <1>8 DEF GroupTyped, D
  <2>5. PICK k \in 1 .. Len(t) + 1 : k = j + 1
    OBVIOUS
  <2>6. PICK u : u = Put(t, k, h)
    OBVIOUS
  <2>7. IsPut(D, t, k, h, u)
    BY <2>6, <1>6, <1>7, <1>8, PutIs
  <2>8. /\ u \in Seq(D) /\ Len(u) = Len(t) + 1 /\ Distinct(u)
        /\ \A i \in 1 .. Len(t) + 1 :
             u[i] = IF i < k THEN t[i] ELSE IF i = k THEN h ELSE t[i - 1]
        /\ \A x : Holds(u, x) <=> Holds(t, x) \/ x = h
    BY <2>7 DEF IsPut
  <2>9. PutLinks(t, k, h, rest.first, rest.next, a.first, a.next)
    <3>1. k # 1 /\ k - 1 = j
      BY <2>5
    <3>2. a.next[h] = Elem(t, k)
      BY <2>2, <2>3, <2>5, <1>5, <1>8
    <3>3. ASSUME NEW i \in 1 .. Len(t)
          PROVE  a.next[t[i]] = IF i = k - 1 THEN h ELSE rest.next[t[i]]
      <4>1. t[i] = p <=> i = j
        BY <2>1, <1>6 DEF Distinct
      <4>2. t[i] \in D /\ t[i] # h
        BY <1>9, <1>10
      <4> QED
        BY <4>1, <4>2, <3>1, <2>3, <1>5
    <3>4. a.first = IF k = 1 THEN h ELSE rest.first
      BY <3>1, <2>3
    <3> QED
      BY <3>2, <3>3, <3>4 DEF PutLinks
  <2>10. Linked(a.first, a.next, u)
    BY <2>6, <2>9, <1>6, <1>7, <1>8, PutIn
  <2>11. ASSUME NEW x \in D, ~Holds(u, x) PROVE a.next[x] = None
    <3>1. x # h /\ ~Holds(t, x)
      BY <2>8, <2>11
    <3>2. x # p /\ rest.next[x] = None
      BY <3>1, <2>1, <1>6 DEF Holds
    <3> QED
      BY <3>1, <3>2, <2>3, <1>5
  <2>12. ASSUME NEW c \in 2 .. Len(u), NEW e \in 2 .. Len(u), c <= e,
                Lists!PGN(u[c]) = 0
         PROVE  Lists!PGN(u[e]) = 0
    <3>1. CASE c < k
      <4>1. c \in 2 .. j /\ u[c] = t[c]
        BY <3>1, <2>5, <2>8
      <4>2. t[c] \in WithPGN
        BY <4>1, <2>1
      <4> QED
        BY <4>1, <4>2, <2>12 DEF WithPGN
    <3>2. CASE c = k /\ e = k
      BY <3>2, <2>12
    <3>3. CASE c = k /\ e # k
      <4>1. u[e] = t[e - 1] /\ e - 1 \in 2 .. Len(t) /\ k <= e - 1 /\ k \in 2 .. Len(t)
        BY <3>3, <2>5, <2>8, <2>12
      <4>2. j < Len(t) /\ t[k] \notin WithPGN
        BY <4>1, <2>1, <2>5
      <4>3. Lists!PGN(t[k]) = 0
        BY <4>1, <4>2, <1>9, <1>10 DEF WithPGN, D
      <4> QED
        BY <4>1, <4>3, <1>6
    <3>4. CASE c > k
      <4>1. /\ u[c] = t[c - 1] /\ u[e] = t[e - 1] /\ c - 1 <= e - 1
            /\ c - 1 \in 2 .. Len(t) /\ e - 1 \in 2 .. Len(t)
        BY <3>4, <2>5, <2>8, <2>12
      <4>2. Lists!PGN(t[c - 1]) = 0
        BY <4>1, <2>12
      <4> QED
        BY <4>1, <4>2, <1>6
    <3> QED
      BY <3>1, <3>2, <3>3, <3>4
  <2>13. GroupOf(a, u)
    BY <2>8, <2>10, <2>11, <2>12 DEF GroupOf, Holds, D
  <2>14. u[1] = t[1] /\ Len(t) # 0
    <3>1. 1 \in 1 .. Len(t) + 1 /\ 1 < k
      BY <2>5
    <3>2. Len(t) # 0
      BY <2>1
    <3> QED
      BY <3>1, <3>2, <2>8
  <2>15. PutInto(t, h, u)
    BY SMTT(40), <2>8, <2>14 DEF PutInto
  <2> QED
    BY <2>4, <2>8, <2>13, <2>15, <1>4 DEF D
<1> QED
  BY <1>13, <1>14

-----------------------------------------------------------------------------
(* The library's own handlers, and that one of them with a PGN stands      *)
(* before the default one.                                                 *)
LEMMA OwnList ==
  /\ OwnGroup \in Seq(Lists!GroupHandlers) /\ Len(OwnGroup) \in Nat /\ Len(OwnGroup) >= 2
  /\ \A k \in 1 .. Len(OwnGroup) :
       /\ OwnGroup[k] \in Lists!GroupHandlers /\ OwnGroup[k] \notin UserGroup
       /\ Lists!PGN(OwnGroup[k]) = 0 <=> k = Len(OwnGroup)
       /\ \A i \in 1 .. Len(OwnGroup) : OwnGroup[i] = OwnGroup[k] => i = k
  /\ Lists!DefaultGroup = OwnGroup[Len(OwnGroup)]
<1>1. /\ OwnGroup \in Seq(Lists!GroupHandlers) /\ Len(OwnGroup) >= 2
      /\ \A k \in DOMAIN OwnGroup :
           /\ OwnGroup[k] \notin UserGroup
           /\ Lists!PGN(OwnGroup[k]) = 0 <=> k = Len(OwnGroup)
           /\ \A i \in DOMAIN OwnGroup : OwnGroup[i] = OwnGroup[k] => i = k
  BY SupportAssumption DEF Lists!ListsAssumption
<1>2. DOMAIN OwnGroup = 1 .. Len(OwnGroup)
  BY <1>1
<1>3. Len(OwnGroup) \in Nat /\ \A k \in 1 .. Len(OwnGroup) : OwnGroup[k] \in Lists!GroupHandlers
  BY <1>1
<1>4. Lists!DefaultGroup = OwnGroup[Len(OwnGroup)]
  BY DEF Lists!DefaultGroup
<1> QED
  BY <1>1, <1>2, <1>3, <1>4

(* A handler of the application that leaves the list changes nothing for   *)
(* the library's.                                                          *)
LEMMA OwnStays ==
  ASSUME NEW g, NEW s \in Seq(Lists!GroupHandlers), GroupOf(g, s),
         NEW n \in 0 .. Len(OwnGroup), OwnUpTo(s, n),
         NEW h \in UserGroup, NEW t, TakenOut(s, h, t)
  PROVE  OwnUpTo(t, n)
<1>1. \A k \in 1 .. Len(OwnGroup) : Holds(t, OwnGroup[k]) <=> k <= n
  BY OwnList, TakenOutHolds DEF OwnUpTo
<1>2. ASSUME n = Len(OwnGroup) PROVE t[1] # Lists!DefaultGroup
  <2>1. s[1] # Lists!DefaultGroup
    BY <1>2 DEF OwnUpTo
  <2>2. CASE t = s
    BY <2>1, <2>2
  <2>3. ASSUME NEW k \in 1 .. Len(s), s[k] = h, IsWithout(Lists!GroupHandlers, s, k, t)
        PROVE  t[1] # Lists!DefaultGroup
    <3>1. 1 \in 1 .. Len(OwnGroup) /\ 1 <= n /\ 1 # Len(OwnGroup)
      BY <1>2, OwnList
    <3>2. Holds(t, OwnGroup[1]) /\ Holds(s, OwnGroup[1])
      BY <3>1, <1>1 DEF OwnUpTo
    <3>3. 1 \in 1 .. Len(s) - 1
      BY <3>2, <2>3 DEF IsWithout, Holds
    <3>4. t[1] = IF 1 < k THEN s[1] ELSE s[2]
      BY <3>3, <2>3 DEF IsWithout
    <3>5. CASE 1 < k
      BY <3>4, <3>5, <2>1
    <3>6. CASE ~(1 < k)
      <4>1. s[1] = h /\ t[1] = s[2]
        BY <3>4, <3>6, <2>3
      <4>2. PICK size \in 1 .. Len(s) : s[size] = OwnGroup[1]
        BY <3>2 DEF Holds
      <4>3. size # 1 /\ Lists!PGN(s[size]) # 0
        BY <3>1, <4>1, <4>2, OwnList
      <4>4. size \in 2 .. Len(s) /\ 2 \in 2 .. Len(s) /\ 2 <= size
        BY <4>3
      <4>5. Lists!PGN(s[2]) # 0
        BY <4>3, <4>4 DEF GroupOf
      <4>6. Lists!PGN(Lists!DefaultGroup) = 0
        BY OwnList
      <4> QED
        BY <4>1, <4>5, <4>6
    <3> QED
      BY <3>5, <3>6
  <2> QED
    BY <2>2, <2>3 DEF TakenOut
<1> QED
  BY <1>1, <1>2 DEF OwnUpTo

(* One that enters it neither.                                             *)
LEMMA OwnStaysAdded ==
  ASSUME NEW n \in 0 .. Len(OwnGroup), NEW t \in Seq(Lists!GroupHandlers), OwnUpTo(t, n),
         NEW h \in UserGroup, NEW u, PutInto(t, h, u)
  PROVE  OwnUpTo(u, n)
<1>1. \A k \in 1 .. Len(OwnGroup) : Holds(u, OwnGroup[k]) <=> k <= n
  BY OwnList DEF OwnUpTo, PutInto
<1>2. ASSUME n = Len(OwnGroup) PROVE u[1] # Lists!DefaultGroup
  <2>1. 1 \in 1 .. Len(OwnGroup) /\ 1 <= n
    BY <1>2, OwnList
  <2>2. Holds(t, OwnGroup[1])
    BY <2>1 DEF OwnUpTo
  <2>3. Len(t) # 0
    BY <2>2 DEF Holds
  <2> QED
    BY <2>3, <1>2 DEF OwnUpTo, PutInto
<1> QED
  BY <1>1, <1>2 DEF OwnUpTo

(* The next one of the library's own comes after those that are there.     *)
LEMMA OwnGrows ==
  ASSUME NEW n \in 1 .. Len(OwnGroup), NEW s \in Seq(Lists!GroupHandlers),
         OwnUpTo(s, n - 1),
         NEW t, TakenOut(s, OwnGroup[n], t), NEW u, PutInto(t, OwnGroup[n], u)
  PROVE  OwnUpTo(u, n)
<1>1. ~Holds(s, OwnGroup[n])
  BY DEF OwnUpTo
<1>2. t = s
  BY <1>1 DEF TakenOut, Holds
<1>3. \A k \in 1 .. Len(OwnGroup) : Holds(u, OwnGroup[k]) <=> k <= n
  <2>1. \A k \in 1 .. Len(OwnGroup) : Holds(s, OwnGroup[k]) <=> k <= n - 1
    BY DEF OwnUpTo
  <2>2. \A k \in 1 .. Len(OwnGroup) : OwnGroup[k] = OwnGroup[n] <=> k = n
    BY OwnList
  <2>3. \A x : Holds(u, x) <=> Holds(s, x) \/ x = OwnGroup[n]
    BY <1>2 DEF PutInto
  <2> QED
    BY <2>1, <2>2, <2>3
<1>4. ASSUME n = Len(OwnGroup) PROVE u[1] # Lists!DefaultGroup
  <2>1. 1 \in 1 .. Len(OwnGroup) /\ 1 <= n - 1
    BY <1>4, OwnList
  <2>2. Holds(s, OwnGroup[1])
    BY <2>1 DEF OwnUpTo
  <2>3. 1 \in 1 .. Len(s)
    BY <2>2 DEF Holds
  <2>4. u[1] = s[1]
    BY <2>3, <1>2 DEF PutInto
  <2>5. s[1] # OwnGroup[n]
    BY <2>3, <1>1 DEF Holds
  <2> QED
    BY <2>4, <2>5, <1>4, OwnList
<1> QED
  BY <1>3, <1>4 DEF OwnUpTo

(* What the handlers are when the library has added n of its own.          *)
WithOwn(g, n) ==
  /\ GroupTyped(g)
  /\ \E s \in Seq(Lists!GroupHandlers) : GroupOf(g, s) /\ OwnUpTo(s, n)

(* Open() adds them one after the other.                                   *)
OpenSteps(g, n, f) ==
  f = [k \in 0 .. n |-> IF k = 0 THEN g ELSE Lists!Added(f[k - 1], OwnGroup[k])]

LEMMA OpenThere ==
  ASSUME NEW g, NEW n \in Nat
  PROVE  \E f : OpenSteps(g, n, f)
<1> DEFINE K == {k \in 1 .. n : ~\E f : OpenSteps(g, k, f)}
<1>1. \E f : OpenSteps(g, 0, f)
  <2>1. PICK f : f = [k \in 0 .. 0 |-> g]
    OBVIOUS
  <2>2. f = [k \in 0 .. 0 |-> IF k = 0 THEN g ELSE Lists!Added(f[k - 1], OwnGroup[k])]
    <3>1. \A k \in 0 .. 0 : k = 0
      OBVIOUS
    <3> QED
      BY <2>1, <3>1
  <2> QED
    BY <2>2 DEF OpenSteps
<1>2. CASE K = {}
  BY <1>1, <1>2
<1>3. CASE K # {}
  <2>1. PICK k \in K : \A j \in K : k <= j
    <3>1. K \subseteq 1 .. n
      OBVIOUS
    <3> HIDE DEF K
    <3> QED
      BY <1>3, <3>1, FirstPosition
  <2>2. PICK f : OpenSteps(g, k - 1, f)
    <3>1. k - 1 = 0 \/ k - 1 \in (1 .. n) \ K
      BY <2>1
    <3> QED
      BY <3>1, <1>1
  <2>3. f = [i \in 0 .. k - 1 |-> IF i = 0 THEN g ELSE Lists!Added(f[i - 1], OwnGroup[i])]
    BY <2>2 DEF OpenSteps
  <2>4. \A i \in 0 .. k - 1 :
          f[i] = IF i = 0 THEN g ELSE Lists!Added(f[i - 1], OwnGroup[i])
    <3> DEFINE e ==
          [i \in 0 .. k - 1 |-> IF i = 0 THEN g ELSE Lists!Added(f[i - 1], OwnGroup[i])]
    <3>1. \A i \in 0 .. k - 1 :
            e[i] = IF i = 0 THEN g ELSE Lists!Added(f[i - 1], OwnGroup[i])
      OBVIOUS
    <3>2. f = e
      BY <2>3
    <3> HIDE DEF e
    <3> QED
      BY <3>1, <3>2
  <2>5. PICK e : e = [i \in 0 .. k |-> IF i < k THEN f[i]
                                       ELSE Lists!Added(f[k - 1], OwnGroup[k])]
    OBVIOUS
  <2>6. ASSUME NEW i \in 0 .. k
        PROVE  e[i] = IF i = 0 THEN g ELSE Lists!Added(e[i - 1], OwnGroup[i])
    <3>1. i # 0 => i - 1 \in 0 .. k /\ i - 1 < k
      BY <2>1
    <3>2. i # 0 => e[i - 1] = f[i - 1]
      BY <2>5, <3>1
    <3>3. CASE i < k
      <4>1. e[i] = f[i] /\ i \in 0 .. k - 1
        BY <2>1, <2>5, <3>3
      <4> QED
        BY <4>1, <2>4, <3>2
    <3>4. CASE ~(i < k)
      <4>1. i = k /\ e[i] = Lists!Added(f[k - 1], OwnGroup[k]) /\ k # 0
        BY <2>1, <2>5, <3>4
      <4> QED
        BY <4>1, <3>2
    <3> QED
      BY <3>3, <3>4
  <2>7. OpenSteps(g, k, e)
    <3>1. e = [i \in 0 .. k |-> e[i]]
      BY <2>5
    <3> QED
      BY <2>6, <3>1 DEF OpenSteps
  <2> QED
    BY <2>1, <2>7
<1> QED
  BY <1>2, <1>3

LEMMA OpenGives ==
  ASSUME NEW g, WithOwn(g, 0), NEW n \in Nat, n = Len(OwnGroup), NEW f, OpenSteps(g, n, f)
  PROVE  WithOwn(f[n], n)
<1> DEFINE K == {k \in 1 .. n : ~WithOwn(f[k], k)}
<1>1. \A i \in 0 .. n :
        f[i] = IF i = 0 THEN g ELSE Lists!Added(f[i - 1], OwnGroup[i])
  <2> DEFINE e ==
        [i \in 0 .. n |-> IF i = 0 THEN g ELSE Lists!Added(f[i - 1], OwnGroup[i])]
  <2>1. \A i \in 0 .. n :
          e[i] = IF i = 0 THEN g ELSE Lists!Added(f[i - 1], OwnGroup[i])
    OBVIOUS
  <2>2. f = e
    BY DEF OpenSteps
  <2> HIDE DEF e
  <2> QED
    BY <2>1, <2>2
<1>2. CASE K = {}
  <2>1. n \in 1 .. n
    BY OwnList
  <2> QED
    BY <2>1, <1>2
<1>3. CASE K # {}
  <2>1. PICK k \in K : \A j \in K : k <= j
    <3>1. K \subseteq 1 .. n
      OBVIOUS
    <3> HIDE DEF K
    <3> QED
      BY <1>3, <3>1, FirstPosition
  <2>2. WithOwn(f[k - 1], k - 1)
    <3>1. CASE k - 1 = 0
      <4>1. 0 \in 0 .. n
        OBVIOUS
      <4>2. f[0] = g
        BY <4>1, <1>1
      <4> QED
        BY <3>1, <4>2
    <3>2. CASE k - 1 # 0
      <4>1. k - 1 \in (1 .. n) \ K
        BY <2>1, <3>2
      <4> QED
        BY <4>1
    <3> QED
      BY <3>1, <3>2
  <2>3. f[k] = Lists!Added(f[k - 1], OwnGroup[k])
    <3>1. k \in 0 .. n /\ k # 0
      BY <2>1
    <3> QED
      BY <3>1, <1>1
  <2>4. PICK b : b = f[k - 1]
    OBVIOUS
  <2>5. PICK a : a = f[k]
    OBVIOUS
  <2>6. GroupTyped(b) /\ \E s \in Seq(Lists!GroupHandlers) : GroupOf(b, s) /\ OwnUpTo(s, k - 1)
    BY <2>2, <2>4 DEF WithOwn
  <2>7. PICK s \in Seq(Lists!GroupHandlers) : GroupOf(b, s) /\ OwnUpTo(s, k - 1)
    BY <2>6
  <2>8. PICK h \in Lists!GroupHandlers : h = OwnGroup[k]
    BY <2>1, OwnList
  <2>9. a = Lists!Added(b, h)
    BY <2>3, <2>4, <2>5, <2>8
  <2>10. /\ GroupTyped(a)
         /\ \E t, u \in Seq(Lists!GroupHandlers) :
              TakenOut(s, h, t) /\ PutInto(t, h, u) /\ GroupOf(a, u)
    BY <2>6, <2>7, <2>9, AddedIs
  <2>11. PICK t, u \in Seq(Lists!GroupHandlers) :
           TakenOut(s, h, t) /\ PutInto(t, h, u) /\ GroupOf(a, u)
    BY <2>10
  <2>12. PICK p \in 1 .. Len(OwnGroup) : p = k
    BY <2>1
  <2>13. OwnUpTo(u, p)
    BY <2>7, <2>8, <2>11, <2>12, OwnGrows
  <2>14. WithOwn(a, k)
    BY <2>10, <2>11, <2>12, <2>13 DEF WithOwn
  <2> QED
    BY <2>1, <2>5, <2>14
<1> QED
  BY <1>2, <1>3

LEMMA GroupsAre ==
  GroupsOK <=> /\ group.opened \in BOOLEAN
               /\ WithOwn(group, IF group.opened THEN Len(OwnGroup) ELSE 0)
BY DEF GroupsOK, WithOwn, GroupTyped

LEMMA GroupsAreNext ==
  GroupsOK' <=> /\ group'.opened \in BOOLEAN
                /\ WithOwn(group', IF group'.opened THEN Len(OwnGroup) ELSE 0)
BY DEF GroupsOK, WithOwn, GroupTyped

LEMMA OpenKeeps == GroupsOK /\ Lists!Open => GroupsOK'
<1> SUFFICES ASSUME GroupsOK, Lists!Open PROVE GroupsOK'
  OBVIOUS
<1>1. PICK g : g = group
  OBVIOUS
<1>2. PICK n \in Nat : n = Len(OwnGroup)
  BY OwnList
<1> DEFINE opens ==
      LET with[k \in 0 .. Len(OwnGroup)] ==
            IF k = 0 THEN group ELSE Lists!Added(with[k - 1], OwnGroup[k])
      IN with
<1>3. /\ ~group.opened
      /\ group' = [opens[Len(OwnGroup)] EXCEPT !.opened = TRUE]
  BY DEF Lists!Open
<1>4. opens = CHOOSE f : OpenSteps(g, n, f)
  BY <1>1, <1>2 DEF OpenSteps
<1>5. OpenSteps(g, n, opens)
  BY <1>4, OpenThere
<1> HIDE DEF opens
<1>6. PICK f : f = opens
  OBVIOUS
<1>7. WithOwn(g, 0)
  BY <1>1, <1>3, GroupsAre
<1>8. WithOwn(f[n], n)
  BY <1>2, <1>5, <1>6, <1>7, OpenGives
<1>9. PICK a : a = f[n]
  OBVIOUS
<1>10. PICK s \in Seq(Lists!GroupHandlers) : GroupOf(a, s) /\ OwnUpTo(s, n)
  BY <1>8, <1>9 DEF WithOwn
<1>11. a = [first |-> a.first, next |-> a.next, opened |-> a.opened]
       /\ GroupTyped(a)
  BY <1>8, <1>9 DEF WithOwn, GroupTyped
<1>12. group' = [a EXCEPT !.opened = TRUE]
  BY <1>2, <1>3, <1>6, <1>9
<1>13. group' = [first |-> a.first, next |-> a.next, opened |-> TRUE]
  BY <1>11, <1>12
<1>14. GroupTyped(group') /\ group'.opened = TRUE
  BY <1>11, <1>13 DEF GroupTyped
<1>15. GroupOf(group', s)
  BY <1>10, <1>13 DEF GroupOf
<1>16. WithOwn(group', n)
  BY <1>10, <1>14, <1>15 DEF WithOwn
<1> QED
  BY <1>2, <1>14, <1>16, GroupsAreNext

LEMMA RemoveKeeps ==
  ASSUME NEW h \in UserGroup, GroupsOK, Lists!RemoveGroupFunctionHandler(h)
  PROVE  GroupsOK'
<1>1. PICK g : g = group
  OBVIOUS
<1>2. PICK n \in 0 .. Len(OwnGroup) : n = IF group.opened THEN Len(OwnGroup) ELSE 0
  BY OwnList
<1>3. group.opened \in BOOLEAN /\ WithOwn(g, n)
  BY <1>1, <1>2, GroupsAre
<1>4. PICK s \in Seq(Lists!GroupHandlers) : GroupOf(g, s) /\ OwnUpTo(s, n)
  BY <1>3 DEF WithOwn
<1>5. PICK rest : rest = Lists!Removed(g, h)
  OBVIOUS
<1>6. h \in Lists!GroupHandlers
  BY DEF Lists!GroupHandlers
<1>7. /\ GroupTyped(rest) /\ rest.opened = g.opened
      /\ \E t \in Seq(Lists!GroupHandlers) : GroupOf(rest, t) /\ TakenOut(s, h, t)
  <2>1. GroupTyped(g)
    BY <1>3 DEF WithOwn
  <2> QED
    BY <2>1, <1>4, <1>5, <1>6, RemovedIs
<1>8. PICK t \in Seq(Lists!GroupHandlers) : GroupOf(rest, t) /\ TakenOut(s, h, t)
  BY <1>7
<1>9. OwnUpTo(t, n)
  BY <1>4, <1>8, OwnStays
<1>10. WithOwn(rest, n)
  BY <1>7, <1>8, <1>9 DEF WithOwn
<1>11. group' = rest
  BY <1>1, <1>5 DEF Lists!RemoveGroupFunctionHandler
<1> QED
  BY <1>1, <1>2, <1>3, <1>7, <1>10, <1>11, GroupsAreNext

LEMMA AddKeeps ==
  ASSUME NEW h \in UserGroup, GroupsOK, Lists!AddGroupFunctionHandler(h)
  PROVE  GroupsOK'
<1>1. PICK g : g = group
  OBVIOUS
<1>2. PICK n \in 0 .. Len(OwnGroup) : n = IF group.opened THEN Len(OwnGroup) ELSE 0
  BY OwnList
<1>3. group.opened \in BOOLEAN /\ WithOwn(g, n)
  BY <1>1, <1>2, GroupsAre
<1>4. PICK s \in Seq(Lists!GroupHandlers) : GroupOf(g, s) /\ OwnUpTo(s, n)
  BY <1>3 DEF WithOwn
<1>5. PICK a : a = Lists!Added(g, h)
  OBVIOUS
<1>6. h \in Lists!GroupHandlers
  BY DEF Lists!GroupHandlers
<1>7. /\ GroupTyped(a) /\ a.opened = g.opened
      /\ \E t, u \in Seq(Lists!GroupHandlers) :
           TakenOut(s, h, t) /\ PutInto(t, h, u) /\ GroupOf(a, u)
  <2>1. GroupTyped(g)
    BY <1>3 DEF WithOwn
  <2> QED
    BY <2>1, <1>4, <1>5, <1>6, AddedIs
<1>8. PICK t, u \in Seq(Lists!GroupHandlers) :
        TakenOut(s, h, t) /\ PutInto(t, h, u) /\ GroupOf(a, u)
  BY <1>7
<1>9. OwnUpTo(t, n)
  BY <1>4, <1>8, OwnStays
<1>10. OwnUpTo(u, n)
  BY <1>8, <1>9, OwnStaysAdded
<1>11. WithOwn(a, n)
  BY <1>7, <1>8, <1>10 DEF WithOwn
<1>12. group' = a
  BY <1>1, <1>5 DEF Lists!AddGroupFunctionHandler
<1> QED
  BY <1>1, <1>2, <1>3, <1>7, <1>11, <1>12, GroupsAreNext

LEMMA GroupsStep == GroupsOK /\ (Lists!GroupNext \/ UNCHANGED listVars) => GroupsOK'
<1> SUFFICES ASSUME GroupsOK, Lists!GroupNext \/ UNCHANGED listVars PROVE GroupsOK'
  OBVIOUS
<1>1. CASE UNCHANGED listVars
  BY <1>1 DEF listVars, GroupsOK
<1>2. CASE Lists!Open
  BY <1>2, OpenKeeps
<1>3. ASSUME NEW h \in UserGroup, Lists!AddGroupFunctionHandler(h) PROVE GroupsOK'
  BY <1>3, AddKeeps
<1>4. ASSUME NEW h \in UserGroup, Lists!RemoveGroupFunctionHandler(h) PROVE GroupsOK'
  BY <1>4, RemoveKeeps
<1> QED
  BY <1>1, <1>2, <1>3, <1>4 DEF Lists!GroupNext

LEMMA GroupsStart == Lists!Init => GroupsOK
<1> SUFFICES ASSUME Lists!Init PROVE GroupsOK
  OBVIOUS
<1>1. group = [first |-> None, next |-> [h \in Lists!GroupHandlers |-> None],
               opened |-> FALSE]
  BY DEF Lists!Init
<1>2. GroupTyped(group) /\ group.opened = FALSE
  BY <1>1 DEF GroupTyped
<1>3. PICK s : s = <<>>
  OBVIOUS
<1>4. s \in Seq(Lists!GroupHandlers) /\ Len(s) = 0
  BY <1>3
<1>5. GroupOf(group, s)
  BY <1>1, <1>4 DEF GroupOf, Distinct, Linked, Elem
<1>6. OwnUpTo(s, 0)
  BY <1>4, OwnList DEF OwnUpTo, Holds
<1> QED
  BY <1>2, <1>4, <1>5, <1>6, GroupsAre DEF WithOwn

-----------------------------------------------------------------------------
(* GroupList is the sequence the list stands for.                          *)
Rest(s, k) == [i \in 1 .. Len(s) + 1 - k |-> s[i + k - 1]]

LEMMA RestIs ==
  ASSUME NEW D, NEW s \in Seq(D)
  PROVE  /\ Rest(s, 1) = s /\ Rest(s, Len(s) + 1) = <<>>
         /\ \A k \in 1 .. Len(s) : Rest(s, k) = <<s[k]>> \o Rest(s, k + 1)
<1>1. PICK n \in Nat : n = Len(s)
  OBVIOUS
<1>2. Rest(s, 1) = s
  <2>1. Rest(s, 1) = [i \in 1 .. n |-> s[i]]
    <3>1. Len(s) + 1 - 1 = n /\ \A i \in 1 .. n : i + 1 - 1 = i
      BY <1>1
    <3> QED
      BY <3>1 DEF Rest
  <2>2. s = [i \in 1 .. n |-> s[i]]
    BY <1>1
  <2> QED
    BY <2>1, <2>2
<1>3. Rest(s, Len(s) + 1) = <<>>
  <2>1. Len(s) + 1 - (Len(s) + 1) = 0
    OBVIOUS
  <2>2. Rest(s, Len(s) + 1) = [i \in 1 .. 0 |-> s[i + (Len(s) + 1) - 1]]
    BY <2>1 DEF Rest
  <2>3. PICK e : e = Rest(s, Len(s) + 1)
    OBVIOUS
  <2>7. \A i \in 1 .. 0 : s[i + (Len(s) + 1) - 1] \in D
    OBVIOUS
  <2>4. e \in [1 .. 0 -> D]
    BY <2>2, <2>3, <2>7
  <2>5. e \in Seq(D) /\ Len(e) = 0
    BY <2>4
  <2>6. e = <<>>
    BY <2>5
  <2> QED
    BY <2>3, <2>6
<1>4. ASSUME NEW k \in 1 .. Len(s) PROVE Rest(s, k) = <<s[k]>> \o Rest(s, k + 1)
  <2>0. n - k \in Nat
    BY <1>1
  <2>1. PICK p \in Nat : p = n - k
    BY <2>0
  <2>2. PICK e : e = Rest(s, k)
    OBVIOUS
  <2>3. PICK f : f = Rest(s, k + 1)
    OBVIOUS
  <2>4. e = [i \in 1 .. p + 1 |-> s[i + k - 1]]
    <3>1. Len(s) + 1 - k = p + 1
      BY <1>1, <2>1
    <3> QED
      BY <2>2, <3>1 DEF Rest
  <2>5. f = [i \in 1 .. p |-> s[i + (k + 1) - 1]]
    <3>1. Len(s) + 1 - (k + 1) = p
      BY <1>1, <2>1
    <3> QED
      BY <2>3, <3>1 DEF Rest
  <2>6. \A i \in 1 .. p + 1 : i + k - 1 \in 1 .. n /\ s[i + k - 1] \in D
    BY <1>1, <2>1
  <2>7. e \in Seq(D) /\ Len(e) = p + 1
    <3>1. e \in [1 .. p + 1 -> D]
      BY <2>4, <2>6
    <3> QED
      BY <3>1
  <2>8. f \in Seq(D) /\ Len(f) = p
    <3>1. \A i \in 1 .. p : i + (k + 1) - 1 \in 1 .. n /\ s[i + (k + 1) - 1] \in D
      BY <1>1, <2>1
    <3>2. f \in [1 .. p -> D]
      BY <2>5, <3>1
    <3> QED
      BY <3>2
  <2>9. PICK c : c = <<s[k]>>
    OBVIOUS
  <2>10. c \in Seq(D) /\ Len(c) = 1 /\ c[1] = s[k]
    BY <2>9
  <2>11. PICK d : d = c \o f
    OBVIOUS
  <2>12. d \in Seq(D) /\ Len(d) = p + 1
         /\ \A i \in 1 .. p + 1 : d[i] = IF i <= 1 THEN c[i] ELSE f[i - 1]
    BY SMTT(40), <2>8, <2>10, <2>11, ConcatProperties
  <2>13. ASSUME NEW i \in 1 .. p + 1 PROVE e[i] = d[i]
    <3>1. e[i] = s[i + k - 1]
      BY <2>4
    <3>2. CASE i = 1
      BY <3>1, <3>2, <2>10, <2>12
    <3>3. CASE i # 1
      <4>1. i - 1 \in 1 .. p /\ (i - 1) + (k + 1) - 1 = i + k - 1 /\ ~(i <= 1)
        BY <3>3
      <4>2. f[i - 1] = s[i + k - 1]
        BY <4>1, <2>5
      <4> QED
        BY <3>1, <4>1, <4>2, <2>12
    <3> QED
      BY <3>2, <3>3
  <2>14. e = d
    BY <2>7, <2>12, <2>13
  <2> QED
    BY <2>2, <2>3, <2>9, <2>11, <2>14
<1> QED
  BY <1>2, <1>3, <1>4

(* from[h] is what the links lead through, from h on.                      *)
Collects(next, f) ==
  f = [h \in Lists!GroupHandlers \cup {None} |->
         IF h = None THEN <<>> ELSE <<h>> \o f[next[h]]]

LEMMA CollectsRest ==
  ASSUME NEW g, GroupTyped(g), NEW s \in Seq(Lists!GroupHandlers), GroupOf(g, s),
         NEW f, Collects(g.next, f)
  PROVE  f[g.first] = s
<1> DEFINE D == Lists!GroupHandlers \cup {None}
           K == {k \in 1 .. Len(s) + 1 : f[Elem(s, k)] # Rest(s, k)}
<1>0. \A h \in D : f[h] = IF h = None THEN <<>> ELSE <<h>> \o f[g.next[h]]
  <2> DEFINE e == [h \in D |-> IF h = None THEN <<>> ELSE <<h>> \o f[g.next[h]]]
  <2>1. \A h \in D : e[h] = IF h = None THEN <<>> ELSE <<h>> \o f[g.next[h]]
    OBVIOUS
  <2>2. f = e
    BY DEF Collects
  <2> HIDE DEF e
  <2> QED
    BY <2>1, <2>2
<1>1. Linked(g.first, g.next, s)
  BY DEF GroupOf
<1>2. PICK n \in Nat : n = Len(s) + 1
  OBVIOUS
<1>3. CASE K = {}
  <2>1. 1 \in 1 .. Len(s) + 1
    BY <1>2
  <2>2. f[Elem(s, 1)] = Rest(s, 1)
    BY <2>1, <1>3
  <2> QED
    BY <2>2, <1>1, RestIs DEF Linked
<1>4. CASE K # {}
  <2>1. PICK k \in K : \A j \in K : j <= k
    <3>1. K \subseteq 1 .. n
      BY <1>2
    <3> HIDE DEF K
    <3> QED
      BY <1>4, <3>1, LastPosition
  <2>2. CASE k = n
    <3>1. Elem(s, k) = None
      BY <2>2, <1>2 DEF Elem
    <3>2. f[None] = <<>>
      BY <1>0
    <3>3. Rest(s, k) = <<>>
      BY <2>2, <1>2, RestIs
    <3> QED
      BY <3>1, <3>2, <3>3, <2>1
  <2>3. CASE k # n
    <3>1. k \in 1 .. Len(s) /\ k + 1 \in 1 .. Len(s) + 1 /\ k + 1 \notin K
      BY <2>1, <2>3, <1>2
    <3>2. f[Elem(s, k + 1)] = Rest(s, k + 1)
      BY <3>1
    <3>3. Elem(s, k) = s[k] /\ s[k] \in Lists!GroupHandlers
      BY <3>1 DEF Elem
    <3>4. s[k] \in D /\ s[k] # None
      BY <3>3, ListsNone
    <3>5. g.next[s[k]] = Elem(s, k + 1)
      BY <3>1, <1>1 DEF Linked
    <3>6. f[s[k]] = <<s[k]>> \o f[g.next[s[k]]]
      BY <3>4, <1>0
    <3>7. Rest(s, k) = <<s[k]>> \o Rest(s, k + 1)
      BY <3>1, RestIs
    <3> QED
      BY <2>1, <3>2, <3>3, <3>5, <3>6, <3>7
  <2> QED
    BY <2>2, <2>3
<1> QED
  BY <1>3, <1>4

LEMMA CollectsThere ==
  ASSUME NEW g, GroupTyped(g), NEW s \in Seq(Lists!GroupHandlers), GroupOf(g, s)
  PROVE  \E f : Collects(g.next, f)
<1> DEFINE D == Lists!GroupHandlers \cup {None}
           pos(h) == CHOOSE k \in 1 .. Len(s) : s[k] = h
<1>1. PICK f : f = [h \in D |-> IF h = None THEN <<>>
                                ELSE IF Holds(s, h) THEN Rest(s, pos(h)) ELSE <<h>>]
  OBVIOUS
<1>2. Distinct(s) /\ Linked(g.first, g.next, s)
      /\ \A h \in Lists!GroupHandlers : ~Holds(s, h) => g.next[h] = None
  BY DEF GroupOf, Holds
<1>3. ASSUME NEW k \in 1 .. Len(s) PROVE pos(s[k]) = k /\ Holds(s, s[k])
  <2>1. \A j \in 1 .. Len(s) : s[j] = s[k] => j = k
    BY <1>2 DEF Distinct
  <2> QED
    BY <2>1 DEF Holds
<1> HIDE DEF pos
<1>4. \A h \in D : f[h] = IF h = None THEN <<>>
                          ELSE IF Holds(s, h) THEN Rest(s, pos(h)) ELSE <<h>>
  BY <1>1
<1>5. f[None] = <<>>
  BY <1>4
<1>6. \A k \in 1 .. Len(s) + 1 : f[Elem(s, k)] = Rest(s, k)
  <2> SUFFICES ASSUME NEW k \in 1 .. Len(s) + 1 PROVE f[Elem(s, k)] = Rest(s, k)
    OBVIOUS
  <2>1. CASE k \in 1 .. Len(s)
    <3>1. Elem(s, k) = s[k] /\ s[k] \in Lists!GroupHandlers
      BY <2>1 DEF Elem
    <3>2. s[k] # None /\ s[k] \in D /\ Holds(s, s[k]) /\ pos(s[k]) = k
      BY <2>1, <3>1, <1>3, ListsNone
    <3> QED
      BY <3>1, <3>2, <1>4
  <2>2. CASE k \notin 1 .. Len(s)
    <3>1. k = Len(s) + 1 /\ Elem(s, k) = None
      BY <2>2 DEF Elem
    <3> QED
      BY <3>1, <1>5, RestIs
  <2> QED
    BY <2>1, <2>2
<1>7. ASSUME NEW h \in D
      PROVE  f[h] = IF h = None THEN <<>> ELSE <<h>> \o f[g.next[h]]
  <2>1. CASE h = None
    BY <2>1, <1>5
  <2>2. CASE h # None /\ Holds(s, h)
    <3>1. PICK k \in 1 .. Len(s) : s[k] = h
      BY <2>2 DEF Holds
    <3>2. g.next[h] = Elem(s, k + 1) /\ Elem(s, k) = h
      BY <3>1, <1>2 DEF Linked, Elem
    <3>3. k \in 1 .. Len(s) + 1 /\ k + 1 \in 1 .. Len(s) + 1
      OBVIOUS
    <3>4. f[h] = Rest(s, k) /\ f[g.next[h]] = Rest(s, k + 1)
      BY <3>2, <3>3, <1>6
    <3>5. Rest(s, k) = <<s[k]>> \o Rest(s, k + 1)
      BY RestIs
    <3> QED
      BY <2>2, <3>1, <3>4, <3>5
  <2>3. CASE h # None /\ ~Holds(s, h)
    <3>1. g.next[h] = None /\ f[h] = <<h>>
      BY <2>3, <1>2, <1>4
    <3>2. <<h>> \o <<>> = <<h>>
      OBVIOUS
    <3> QED
      BY <2>3, <3>1, <3>2, <1>5
  <2> QED
    BY <2>1, <2>2, <2>3
<1>8. f = [h \in D |-> IF h = None THEN <<>> ELSE <<h>> \o f[g.next[h]]]
  <2>1. f = [h \in D |-> f[h]]
    BY <1>1
  <2> QED
    BY <2>1, <1>7
<1> QED
  BY <1>8 DEF Collects

LEMMA GroupListIs ==
  ASSUME GroupTyped(group), NEW s \in Seq(Lists!GroupHandlers), GroupOf(group, s)
  PROVE  Lists!GroupList = s
<1>1. PICK g : g = group
  OBVIOUS
<1> DEFINE lists ==
      LET from[h \in Lists!GroupHandlers \cup {None}] ==
            IF h = None THEN <<>> ELSE <<h>> \o from[group.next[h]]
      IN from
<1>2. Lists!GroupList = lists[g.first]
  BY <1>1 DEF Lists!GroupList
<1>3. lists = CHOOSE f : Collects(g.next, f)
  BY <1>1 DEF Collects
<1>4. PICK f : f = lists
  OBVIOUS
<1>5. GroupTyped(g) /\ GroupOf(g, s)
  BY <1>1
<1> HIDE DEF lists
<1>6. Collects(g.next, f)
  BY <1>3, <1>4, <1>5, CollectsThere
<1>7. f[g.first] = s
  BY <1>5, <1>6, CollectsRest
<1> QED
  BY <1>2, <1>4, <1>7

(* A sequence without repetition is as long as it has elements.            *)
LEMMA DistinctCounts ==
  ASSUME NEW D, NEW s \in Seq(D), Distinct(s)
  PROVE  Len(s) = Cardinality(Lists!Range(s))
<1>1. PICK n \in Nat : n = Len(s)
  OBVIOUS
<1>2. PICK R : R = Lists!Range(s)
  OBVIOUS
<1>3. R = {s[k] : k \in 1 .. n}
  BY <1>1, <1>2 DEF Lists!Range
<1>4. s \in Bijection(1 .. n, R)
  <2>1. s \in [1 .. n -> R]
    BY <1>1, <1>3
  <2>2. \A a, b \in 1 .. n : s[a] = s[b] => a = b
    BY <1>1 DEF Distinct
  <2>3. \A t \in R : \E k \in 1 .. n : s[k] = t
    BY <1>3
  <2> QED
    BY <2>1, <2>2, <2>3 DEF Bijection, Injection, Surjection, IsInjective
<1>5. ExistsBijection(1 .. n, R)
  BY <1>4 DEF ExistsBijection
<1>6. Cardinality(R) = n
  BY <1>5, FS_CountingElements
<1> QED
  BY <1>1, <1>2, <1>6

LEMMA SameCardinality == \A S : Lists!Cardinality(S) = Cardinality(S)
BY DEF Lists!Cardinality, Cardinality

(* The list l holds what it should, the default handler behind the others. *)
AskedFirst(l) ==
  LET place(h) == CHOOSE k \in DOMAIN l : l[k] = h
  IN /\ Lists!Range(OwnGroup) \subseteq Lists!Range(l)
     /\ Len(l) = Lists!Cardinality(Lists!Range(l))
     /\ \A h \in Lists!Range(l) : Lists!PGN(h) # 0 => place(h) < place(Lists!DefaultGroup)

LEMMA AskedFirstIs ==
  group.opened => (Lists!SpecificAskedFirst <=> AskedFirst(Lists!GroupList))
BY DEF Lists!SpecificAskedFirst, AskedFirst

LEMMA GroupsServed == GroupsOK => Lists!SpecificAskedFirst
<1> SUFFICES ASSUME GroupsOK, group.opened PROVE Lists!SpecificAskedFirst
  BY DEF Lists!SpecificAskedFirst
<1> DEFINE def == Lists!DefaultGroup
<1>1. PICK n \in Nat : n = Len(OwnGroup)
  BY OwnList
<1>2. GroupTyped(group) /\ \E s \in Seq(Lists!GroupHandlers) : GroupOf(group, s) /\ OwnUpTo(s, n)
  BY <1>1, GroupsAre DEF WithOwn
<1>3. PICK s \in Seq(Lists!GroupHandlers) : GroupOf(group, s) /\ OwnUpTo(s, n)
  BY <1>2
<1>4. Lists!GroupList = s
  BY <1>2, <1>3, GroupListIs
<1>5. /\ Distinct(s)
      /\ \A i, j \in 2 .. Len(s) : i <= j /\ Lists!PGN(s[i]) = 0 => Lists!PGN(s[j]) = 0
  BY <1>3 DEF GroupOf
<1>6. \A k \in 1 .. n : Holds(s, OwnGroup[k])
  BY <1>1, <1>3 DEF OwnUpTo
<1>7. s[1] # def /\ Lists!PGN(def) = 0 /\ Holds(s, def)
  <2>1. n \in 1 .. n /\ def = OwnGroup[n]
    BY <1>1, OwnList
  <2> QED
    BY <2>1, <1>1, <1>3, <1>6, OwnList DEF OwnUpTo
<1> HIDE DEF def
<1>8. DOMAIN s = 1 .. Len(s) /\ Lists!Range(s) = {s[k] : k \in 1 .. Len(s)}
  BY DEF Lists!Range
<1>9. Lists!Range(OwnGroup) \subseteq Lists!Range(s)
  <2>1. \A x \in Lists!Range(OwnGroup) : \E k \in 1 .. n : x = OwnGroup[k]
    BY <1>1, OwnList DEF Lists!Range
  <2> QED
    BY <2>1, <1>6, <1>8 DEF Holds
<1>10. Len(s) = Cardinality(Lists!Range(s))
  BY <1>5, DistinctCounts
<1>11. ASSUME NEW k \in 1 .. Len(s)
       PROVE  (CHOOSE j \in DOMAIN s : s[j] = s[k]) = k
  <2>1. \A j \in DOMAIN s : s[j] = s[k] => j = k
    BY <1>5, <1>8 DEF Distinct
  <2> QED
    BY <2>1, <1>8
<1>12. ASSUME NEW h \in Lists!Range(s), Lists!PGN(h) # 0
       PROVE  (CHOOSE j \in DOMAIN s : s[j] = h) < (CHOOSE j \in DOMAIN s : s[j] = def)
  <2>1. PICK k \in 1 .. Len(s) : s[k] = h
    BY <1>8
  <2>2. PICK p \in 1 .. Len(s) : s[p] = def
    BY <1>7 DEF Holds
  <2>3. (CHOOSE j \in DOMAIN s : s[j] = h) = k /\ (CHOOSE j \in DOMAIN s : s[j] = def) = p
    BY <2>1, <2>2, <1>11
  <2>4. p # 1 /\ k # p
    BY <2>1, <2>2, <1>7, <1>12
  <2>5. ASSUME p < k PROVE FALSE
    <3>1. p \in 2 .. Len(s) /\ k \in 2 .. Len(s) /\ p <= k
      BY <2>4, <2>5
    <3>2. Lists!PGN(s[p]) = 0
      BY <2>2, <1>7
    <3>3. Lists!PGN(s[k]) = 0
      BY <3>1, <3>2, <1>5
    <3> QED
      BY <3>3, <2>1, <1>12
  <2>6. k < p
    BY <2>4, <2>5
  <2> QED
    BY <2>3, <2>6
<1>13. \A h \in Lists!Range(s) : Lists!PGN(h) # 0 =>
         (CHOOSE j \in DOMAIN s : s[j] = h) < (CHOOSE j \in DOMAIN s : s[j] = def)
  BY <1>12
<1>14. Len(s) = Lists!Cardinality(Lists!Range(s))
  BY <1>10, SameCardinality
<1>15. AskedFirst(s)
  BY <1>9, <1>13, <1>14, Zenon DEF AskedFirst, def
<1> QED
  BY <1>4, <1>15, AskedFirstIs

(* The handlers are served: in every walk in which no handler is detached  *)
(* inside its own call, after which the code skips the rest of the list    *)
(* (NMEA2000.cpp:2661), a message reaches those that asked for it and no   *)
(* other one, each once, and of the group function handlers those with a   *)
(* PGN are asked before the default one.                                   *)
THEOREM HandlersAreServed == SupportSpec => []HandlersServed
<1>1. SupportInit => MessagesOK /\ GroupsOK
  BY MessagesStart, GroupsStart DEF SupportInit
<1>2. MessagesOK /\ GroupsOK /\ [SupportNext]_SupportVars => (MessagesOK /\ GroupsOK)'
  <2> SUFFICES ASSUME MessagesOK, GroupsOK, [SupportNext]_SupportVars
               PROVE  MessagesOK' /\ GroupsOK'
    OBVIOUS
  <2>1. CASE Lists!MsgNext
    <3>1. UNCHANGED group
      BY <2>1 DEF Lists!MsgNext, Lists!BeginRun, Lists!HandlerReturns, Lists!EndRun,
                  Lists!AttachMsgHandler, Lists!DetachMsgHandler, Lists!Change
    <3>2. GroupsOK'
      BY <3>1 DEF GroupsOK
    <3> QED
      BY <2>1, <3>2, MessagesStep
  <2>2. CASE Lists!GroupNext
    <3>1. UNCHANGED <<list, run>>
      BY <2>2 DEF Lists!GroupNext, Lists!Open, Lists!AddGroupFunctionHandler,
                  Lists!RemoveGroupFunctionHandler
    <3>2. MessagesOK'
      BY <3>1 DEF MessagesOK, RunOK, RunShape, RunServes, RunAt, Asked
    <3> QED
      BY <2>2, <3>2, GroupsStep
  <2>3. CASE UNCHANGED listVars
    BY <2>3, MessagesStep, GroupsStep
  <2>4. Lists!MsgNext \/ Lists!GroupNext \/ UNCHANGED listVars
    BY DEF SupportNext, SupportVars
  <2> QED
    BY <2>1, <2>2, <2>3, <2>4
<1>3. MessagesOK /\ GroupsOK => HandlersServed
  BY MessagesServed, GroupsServed DEF HandlersServed
<1> QED
  BY <1>1, <1>2, <1>3, PTL DEF SupportSpec

-----------------------------------------------------------------------------
(* The heartbeats.  After the last beat, or since its settings were made,  *)
(* the next time of a device is the beginning of the next period.          *)
Beat == [slot : Int, sequence : 0 .. MaxSequence]

Sched == [Period : Nat, Offset : Nat, NextTime : Int, sequence : 0 .. MaxSequence,
          claiming : BOOLEAN]

HeartTypes ==
  /\ now \in 0 .. MaxTime /\ SyncOffset \in Nat
  /\ dev \in [Heart!DeviceIds -> Sched]
  /\ beats \in [Heart!DeviceIds -> Seq(Beat)]
  /\ polled \in [Heart!DeviceIds -> Int] /\ madeIn \in [Heart!DeviceIds -> Int]
  /\ tame \in [Heart!DeviceIds -> BOOLEAN]

(* The slot of the last beat, and the sequence number behind another.      *)
LastSlot(b, since) == IF b = <<>> THEN since ELSE b[Len(b)].slot
Succeeding(n) == IF n + 1 > MaxSequence THEN 0 ELSE n + 1

OnTime(s, x, sync) == s.NextTime = s.Offset + sync + (x + 1) * s.Period

RowOK(s, b, p, since, sync) ==
  /\ s.Period = 0 => b = <<>>
  /\ s.Period # 0 => OnTime(s, LastSlot(b, since), sync)
  /\ LastSlot(b, since) >= 0 - 1 /\ p <= LastSlot(b, since)
  /\ \A k \in 1 .. Len(b) : b[k].slot > since
  /\ \A k \in 2 .. Len(b) : /\ b[k - 1].slot < b[k].slot
                            /\ b[k].sequence = Succeeding(b[k - 1].sequence)
  /\ b # <<>> => s.sequence = Succeeding(b[Len(b)].sequence)

(* The device has a period, or is off.                                     *)
OffOrPeriod(s) == s.Period = 0 => s.NextTime = Disabled

HeartOK ==
  /\ HeartTypes
  /\ \A d \in Heart!DeviceIds :
       OffOrPeriod(dev[d]) /\ (tame[d] => RowOK(dev[d], beats[d], polled[d], madeIn[d], SyncOffset))

LEMMA HeartConstants ==
  /\ DeviceCount \in Nat /\ MaxSequence \in Nat
  /\ Default \in Nat /\ DefaultOffset \in Nat
  /\ MinInterval \in Nat \ {0} /\ MaxInterval \in Nat /\ MinInterval <= MaxInterval
  /\ Intervals \subseteq Nat \cup {KeepCurrent, Restore}
  /\ Offsets \subseteq Nat \cup {KeepCurrent}
  /\ MaxTime \in Nat /\ Disabled \in Nat /\ MaxTime < Disabled
BY SupportAssumption DEF Heart!HeartbeatAssumption

-----------------------------------------------------------------------------
(* What division gives.                                                    *)
LEMMA DivIs ==
  ASSUME NEW x \in Int, NEW p \in Nat \ {0}, NEW k, k = x \div p
  PROVE  k \in Int /\ k * p <= x /\ x < (k + 1) * p
OBVIOUS

LEMMA TimesLess ==
  ASSUME NEW a \in Int, NEW b \in Int, NEW p \in Nat \ {0}, a * p < b * p
  PROVE  a < b
OBVIOUS

LEMMA TimesOn ==
  ASSUME NEW a \in Int, NEW p \in Nat \ {0}
  PROVE  (a * p) % p = 0
OBVIOUS

LEMMA SucceedingIs ==
  ASSUME NEW n \in 0 .. MaxSequence
  PROVE  /\ Succeeding(n) = (n + 1) % (MaxSequence + 1)
         /\ Succeeding(n) \in 0 .. MaxSequence
BY HeartConstants DEF Succeeding

(* The slot of a time is -1 before the grid begins, then it is the number  *)
(* of whole periods since.                                                 *)
InSlot(s, sync, x) ==
  /\ x \in Int
  /\ now < s.Offset + sync => x = 0 - 1
  /\ ~(now < s.Offset + sync) =>
       /\ x >= 0
       /\ x * s.Period <= now - (s.Offset + sync)
       /\ now - (s.Offset + sync) < (x + 1) * s.Period

LEMMA SlotIs ==
  ASSUME NEW s \in Sched, s.Period # 0, NEW sync \in Nat, now \in Nat
  PROVE  InSlot(s, sync, Heart!Slot(s, sync, now))
<1>1. s.Period \in Nat \ {0} /\ s.Offset \in Nat
  BY DEF Sched
<1>2. PICK p \in Nat \ {0} : p = s.Period
  BY <1>1
<1>3. PICK o \in Nat : o = s.Offset
  BY <1>1
<1>4. PICK t \in Nat : t = now
  OBVIOUS
<1>5. CASE t < o + sync
  BY <1>3, <1>4, <1>5 DEF Heart!Slot, InSlot
<1>6. CASE ~(t < o + sync)
  <2>1. PICK y \in Nat : y = t - o - sync
    BY <1>6
  <2>2. PICK k : k = y \div p
    OBVIOUS
  <2>3. k \in Int /\ k * p <= y /\ y < (k + 1) * p
    BY <2>2, DivIs
  <2>4. k >= 0
    <3>1. 0 * p < (k + 1) * p
      BY <2>1, <2>3
    <3>2. 0 < k + 1
      BY <2>3, <3>1, TimesLess
    <3> QED
      BY <2>3, <3>2
  <2>5. Heart!Slot(s, sync, now) = k
    BY <1>2, <1>3, <1>4, <1>6, <2>1, <2>2 DEF Heart!Slot
  <2>6. now - (s.Offset + sync) = y
    BY <1>3, <1>4, <2>1
  <2> QED
    BY <1>2, <1>3, <1>4, <1>6, <2>3, <2>4, <2>5, <2>6 DEF InSlot
<1> QED
  BY <1>5, <1>6

(* UpdateNextTime() leads to the beginning of the next slot.               *)
LEMMA UpdateIs ==
  ASSUME NEW s \in Sched, s.Period # 0, NEW sync \in Nat, now \in Nat
  PROVE  LET x == Heart!Slot(s, sync, now)
         IN Heart!UpdateNextTime(s, sync) =
              [s EXCEPT !.NextTime = s.Offset + sync + (x + 1) * s.Period]
<1>1. PICK x : x = Heart!Slot(s, sync, now)
  OBVIOUS
<1>2. InSlot(s, sync, x)
  BY <1>1, SlotIs
<1>3. s.Period \in Nat /\ s.Offset \in Nat
  BY DEF Sched
<1>4. CASE now < s.Offset + sync
  <2>1. (x + 1) * s.Period = 0
    <3>1. x + 1 = 0
      BY <1>2, <1>4 DEF InSlot
    <3> QED
      BY <1>3, <3>1
  <2>2. s.Offset + sync + (x + 1) * s.Period = s.Offset + sync
    BY <2>1, <1>3
  <2> QED
    BY <1>1, <1>3, <1>4, <2>2 DEF Heart!UpdateNextTime
<1>5. CASE ~(now < s.Offset + sync)
  <2>1. x = (now - (s.Offset + sync)) \div s.Period
    <3>1. now - s.Offset - sync = now - (s.Offset + sync)
      BY <1>3
    <3> QED
      BY <1>1, <1>5, <3>1 DEF Heart!Slot
  <2> QED
    BY <1>1, <1>3, <1>5, <2>1 DEF Heart!UpdateNextTime
<1> QED
  BY <1>1, <1>4, <1>5

(* A device that is due is in a later slot than that of its last beat; one *)
(* that is not is not, unless a slot begins this very moment.              *)
LEMMA DueLater ==
  ASSUME NEW s \in Sched, s.Period # 0, NEW sync \in Nat, now \in Nat,
         NEW l \in Int, l >= 0 - 1, OnTime(s, l, sync), now > s.NextTime
  PROVE  Heart!Slot(s, sync, now) > l
<1>1. PICK x : x = Heart!Slot(s, sync, now)
  OBVIOUS
<1>2. InSlot(s, sync, x)
  BY <1>1, SlotIs
<1>3. s.Period \in Nat \ {0} /\ s.Offset \in Nat
  BY DEF Sched
<1>4. PICK p \in Nat \ {0} : p = s.Period
  BY <1>3
<1>5. PICK o \in Nat : o = s.Offset
  BY <1>3
<1>6. PICK y \in Int : y = (l + 1) * p
  OBVIOUS
<1>7. y >= 0
  BY <1>6
<1>8. now > o + sync + y
  BY <1>4, <1>5, <1>6 DEF OnTime
<1>9. x \in Int /\ now - (o + sync) < (x + 1) * p
  BY <1>2, <1>4, <1>5, <1>7, <1>8 DEF InSlot
<1>10. (l + 1) * p < (x + 1) * p
  BY <1>6, <1>8, <1>9
<1>11. l + 1 < x + 1
  BY <1>9, <1>10, TimesLess
<1> QED
  BY <1>1, <1>9, <1>11

LEMMA NotDueYet ==
  ASSUME NEW s \in Sched, s.Period # 0, NEW sync \in Nat, now \in Nat,
         NEW l \in Int, l >= 0 - 1, OnTime(s, l, sync), ~(now > s.NextTime),
         (now - s.Offset - sync) % s.Period # 0
  PROVE  Heart!Slot(s, sync, now) <= l
<1>1. PICK x : x = Heart!Slot(s, sync, now)
  OBVIOUS
<1>2. InSlot(s, sync, x)
  BY <1>1, SlotIs
<1>3. s.Period \in Nat \ {0} /\ s.Offset \in Nat /\ s.NextTime \in Int
  BY DEF Sched
<1>4. PICK p \in Nat \ {0} : p = s.Period
  BY <1>3
<1>5. PICK o \in Nat : o = s.Offset
  BY <1>3
<1>6. PICK y \in Int : y = (l + 1) * p
  OBVIOUS
<1>7. now <= o + sync + y
  BY <1>3, <1>4, <1>5, <1>6 DEF OnTime
<1>8. now - o - sync # y
  <2>1. y % p = 0
    BY <1>6, TimesOn
  <2> QED
    BY <2>1, <1>4, <1>5
<1>9. CASE now < o + sync
  BY <1>1, <1>2, <1>5, <1>9 DEF InSlot
<1>10. CASE ~(now < o + sync)
  <2>1. x \in Int /\ x * p <= now - (o + sync)
    BY <1>2, <1>4, <1>5, <1>10 DEF InSlot
  <2>2. x * p < (l + 1) * p
    <3>1. now - (o + sync) < y
      BY <1>7, <1>8
    <3>2. x * p \in Int
      BY <2>1
    <3> QED
      BY <2>1, <3>1, <3>2, <1>6
  <2>3. x < l + 1
    BY <2>1, <2>2, TimesLess
  <2> QED
    BY <1>1, <2>1, <2>3
<1> QED
  BY <1>9, <1>10

-----------------------------------------------------------------------------
(* SendHeartbeat() of one device: what a heartbeat adds, what one that is  *)
(* forced leaves, and what looking without one changes.                    *)
LEMMA SendTypes ==
  ASSUME NEW s \in Sched, NEW sync \in Nat, now \in Nat
  PROVE  Heart!UpdateNextTime(s, sync) \in Sched
<1>1. CASE s.Period = 0
  BY <1>1, HeartConstants DEF Heart!UpdateNextTime, Sched
<1>2. CASE s.Period # 0
  <2>1. PICK x : x = Heart!Slot(s, sync, now)
    OBVIOUS
  <2>2. x \in Int
    BY <1>2, <2>1, SlotIs DEF InSlot
  <2>3. PICK t \in Int : t = s.Offset + sync + (x + 1) * s.Period
    BY <2>2 DEF Sched
  <2>4. Heart!UpdateNextTime(s, sync) = [s EXCEPT !.NextTime = t]
    BY <1>2, <2>1, <2>3, UpdateIs
  <2> QED
    BY <2>4 DEF Sched
<1> QED
  BY <1>1, <1>2

(* The scheduler after a beat with sequence number k to follow.            *)
Beaten(s, sync, k) == [Heart!UpdateNextTime(s, sync) EXCEPT !.sequence = k]

LEMMA BeatenIs ==
  ASSUME NEW s \in Sched, s.Period # 0, NEW sync \in Nat, now \in Nat,
         NEW k \in 0 .. MaxSequence
  PROVE  /\ Beaten(s, sync, k) \in Sched
         /\ Beaten(s, sync, k).Period = s.Period
         /\ Beaten(s, sync, k).sequence = k
         /\ OnTime(Beaten(s, sync, k), Heart!Slot(s, sync, now), sync)
<1>1. PICK x : x = Heart!Slot(s, sync, now)
  OBVIOUS
<1>2. x \in Int
  BY <1>1, SlotIs DEF InSlot
<1>3. PICK t \in Int : t = s.Offset + sync + (x + 1) * s.Period
  BY <1>2 DEF Sched
<1>4. Heart!UpdateNextTime(s, sync) = [s EXCEPT !.NextTime = t]
  BY <1>1, <1>3, UpdateIs
<1>5. PICK u : u = [[s EXCEPT !.NextTime = t] EXCEPT !.sequence = k]
  OBVIOUS
<1>6. /\ u \in Sched /\ u.Period = s.Period /\ u.Offset = s.Offset /\ u.NextTime = t
      /\ u.sequence = k
  BY <1>5 DEF Sched
<1>7. Beaten(s, sync, k) = u
  BY <1>4, <1>5 DEF Beaten
<1> QED
  BY <1>1, <1>3, <1>6, <1>7 DEF OnTime

LEMMA BeatAdded ==
  ASSUME NEW s \in Sched, s.Period # 0, NEW sync \in Nat, now \in Nat,
         NEW b \in Seq(Beat), NEW p \in Int, NEW since \in Int, RowOK(s, b, p, since, sync),
         now > s.NextTime,
         NEW v, v \in {p, Heart!Slot(s, sync, now)}
  PROVE  /\ Append(b, [slot |-> Heart!Slot(s, sync, now), sequence |-> s.sequence]) \in Seq(Beat)
         /\ RowOK(Beaten(s, sync, Succeeding(s.sequence)),
                  Append(b, [slot |-> Heart!Slot(s, sync, now), sequence |-> s.sequence]),
                  v, since, sync)
<1>1. PICK x : x = Heart!Slot(s, sync, now)
  OBVIOUS
<1>2. x \in Int /\ x >= 0 - 1
  <2>1. InSlot(s, sync, x)
    BY <1>1, SlotIs
  <2> QED
    BY <2>1 DEF InSlot
<1>3. PICK n \in 0 .. MaxSequence : n = s.sequence
  BY DEF Sched
<1>4. PICK e \in Beat : e = [slot |-> x, sequence |-> n]
  BY <1>2 DEF Beat
<1>5. PICK c \in Seq(Beat) : c = Append(b, e)
  <2>1. Append(b, e) \in Seq(Beat)
    OBVIOUS
  <2> QED
    BY <2>1
<1>6. PICK i \in Nat : i = Len(b)
  OBVIOUS
<1>7. /\ Len(c) = i + 1 /\ c[i + 1] = e /\ c # <<>>
      /\ \A j \in 1 .. i : c[j] = b[j]
  BY <1>5, <1>6
<1>8. PICK l \in Int : l = LastSlot(b, since)
  <2>1. LastSlot(b, since) \in Int
    <3>1. b # <<>> => b[Len(b)] \in Beat
      OBVIOUS
    <3> QED
      BY <3>1 DEF LastSlot, Beat
  <2> QED
    BY <2>1
<1>9. l >= 0 - 1 /\ p <= l /\ OnTime(s, l, sync)
  BY <1>8 DEF RowOK
<1>10. x > l
  BY <1>1, <1>9, DueLater
<1>11. LastSlot(c, since) = x
  BY <1>4, <1>7 DEF LastSlot
<1>12. PICK t \in Sched : t = Beaten(s, sync, Succeeding(n))
  BY BeatenIs, SucceedingIs
<1>13. t.Period # 0 /\ t.sequence = Succeeding(n) /\ OnTime(t, x, sync)
  <2>1. Succeeding(n) \in 0 .. MaxSequence
    BY SucceedingIs
  <2> QED
    BY <1>1, <1>12, <2>1, BeatenIs
<1>14. v \in Int /\ v <= x
  BY <1>1, <1>2, <1>9, <1>10
<1>15. x > since
  <2>1. l >= since
    <3>1. CASE b = <<>>
      BY <1>8, <3>1 DEF LastSlot
    <3>2. CASE b # <<>>
      <4>1. i \in 1 .. i
        BY <1>6, <3>2
      <4>2. b[i].slot > since
        BY <1>6, <4>1 DEF RowOK
      <4>3. l = b[i].slot
        BY <1>6, <1>8, <3>2 DEF LastSlot
      <4> QED
        BY <4>2, <4>3
    <3> QED
      BY <3>1, <3>2
  <2> QED
    BY <1>2, <1>10, <2>1
<1>16. \A j \in 1 .. Len(c) : c[j].slot > since
  <2> SUFFICES ASSUME NEW j \in 1 .. i + 1 PROVE c[j].slot > since
    BY <1>7
  <2>1. CASE j = i + 1
    BY <1>4, <1>7, <1>15, <2>1
  <2>2. CASE j # i + 1
    <3>1. j \in 1 .. i
      BY <2>2
    <3> QED
      BY <1>6, <1>7, <3>1 DEF RowOK
  <2> QED
    BY <2>1, <2>2
<1>17. \A j \in 2 .. Len(c) : /\ c[j - 1].slot < c[j].slot
                              /\ c[j].sequence = Succeeding(c[j - 1].sequence)
  <2> SUFFICES ASSUME NEW j \in 2 .. i + 1
               PROVE  /\ c[j - 1].slot < c[j].slot
                      /\ c[j].sequence = Succeeding(c[j - 1].sequence)
    BY <1>7
  <2>0. j - 1 \in 1 .. i /\ c[j - 1] = b[j - 1]
    <3>1. j - 1 \in 1 .. i
      OBVIOUS
    <3> QED
      BY <1>7, <3>1
  <2>1. CASE j = i + 1
    <3>1. c[j - 1] = b[i] /\ b # <<>>
      BY <2>0, <2>1, <1>6
    <3>2. b[i].slot = l /\ n = Succeeding(b[i].sequence)
      BY <1>3, <1>6, <1>8, <3>1 DEF RowOK, LastSlot
    <3> QED
      BY <1>4, <1>7, <1>10, <2>1, <3>1, <3>2
  <2>2. CASE j # i + 1
    <3>1. j \in 2 .. i
      BY <2>2
    <3>2. c[j] = b[j]
      BY <1>7, <3>1
    <3> QED
      BY <1>6, <2>0, <3>1, <3>2 DEF RowOK
  <2> QED
    BY <2>1, <2>2
<1>18. t.sequence = Succeeding(c[Len(c)].sequence)
  BY <1>4, <1>7, <1>13
<1>19. RowOK(t, c, v, since, sync)
  BY <1>2, <1>7, <1>11, <1>13, <1>14, <1>16, <1>17, <1>18 DEF RowOK
<1> QED
  BY <1>1, <1>3, <1>4, <1>5, <1>12, <1>19

(* A new row begins where the device is now.                               *)
LEMMA RowBegins ==
  ASSUME NEW s \in Sched, NEW x \in Int, x >= 0 - 1, NEW sync \in Nat,
         s.Period # 0 => OnTime(s, x, sync)
  PROVE  RowOK(s, <<>>, 0 - 1, x, sync)
<1>1. PICK e \in Seq(Beat) : e = <<>>
  <2>1. <<>> \in Seq(Beat)
    OBVIOUS
  <2> QED
    BY <2>1
<1>2. Len(e) = 0
  BY <1>1
<1>3. RowOK(s, e, 0 - 1, x, sync)
  BY <1>1, <1>2 DEF RowOK, LastSlot
<1> QED
  BY <1>1, <1>3

-----------------------------------------------------------------------------
(* SendHeartbeat() of all devices.                                         *)
LEMMA BeatenTypes ==
  ASSUME NEW s \in Sched, NEW sync \in Nat, now \in Nat, NEW k \in 0 .. MaxSequence
  PROVE  /\ Beaten(s, sync, k) \in Sched
         /\ Heart!UpdateNextTime(s, sync).sequence = s.sequence
         /\ s.Period = 0 => /\ Beaten(s, sync, k).Period = 0
                            /\ Beaten(s, sync, k).NextTime = Disabled
<1>1. PICK u \in Sched : u = Heart!UpdateNextTime(s, sync)
  BY SendTypes
<1>2. u.sequence = s.sequence
  BY <1>1 DEF Heart!UpdateNextTime, Sched
<1>3. s.Period = 0 => u.Period = 0 /\ u.NextTime = Disabled
  BY <1>1 DEF Heart!UpdateNextTime, Sched
<1>4. PICK z \in Sched : z = [u EXCEPT !.sequence = k]
  BY DEF Sched
<1>5. z.Period = u.Period /\ z.NextTime = u.NextTime
  BY <1>4 DEF Sched
<1> QED
  BY <1>1, <1>2, <1>3, <1>4, <1>5 DEF Beaten

(* What is done to a device: nothing but looking; a forced beat; a beat.   *)
Looks(d) ==
  /\ dev'[d] = dev[d] /\ beats'[d] = beats[d] /\ madeIn'[d] = madeIn[d]
  /\ \/ polled'[d] = polled[d]
     \/ /\ dev[d].Period # 0 /\ ~(now > dev[d].NextTime) /\ ~Heart!OnGrid(d)
        /\ polled'[d] = Heart!Slot(dev[d], SyncOffset, now)

ForcedTo(d) ==
  /\ dev'[d] = Beaten(dev[d], SyncOffset, dev[d].sequence) /\ beats'[d] = <<>>
  /\ IF dev[d].Period = 0
     THEN polled'[d] = polled[d] /\ madeIn'[d] = madeIn[d]
     ELSE polled'[d] = 0 - 1 /\ madeIn'[d] = Heart!Slot(dev[d], SyncOffset, now)

BeatsNow(d) ==
  /\ now > dev[d].NextTime
  /\ dev'[d] = Beaten(dev[d], SyncOffset, Succeeding(dev[d].sequence))
  /\ beats'[d] = Append(beats[d], [slot |-> Heart!Slot(dev[d], SyncOffset, now),
                                   sequence |-> dev[d].sequence])
  /\ madeIn'[d] = madeIn[d]
  /\ \/ polled'[d] = polled[d]
     \/ dev[d].Period # 0 /\ polled'[d] = Heart!Slot(dev[d], SyncOffset, now)

LEMMA SendDoes ==
  ASSUME HeartTypes, NEW force \in BOOLEAN, Heart!SendHeartbeat(force),
         NEW d \in Heart!DeviceIds
  PROVE  Looks(d) \/ ForcedTo(d) \/ BeatsNow(d)
<1>1. PICK s \in Sched : s = dev[d]
  BY DEF HeartTypes
<1>2. PICK x : x = Heart!Slot(s, SyncOffset, now)
  OBVIOUS
<1>3. PICK u : u = Heart!UpdateNextTime(s, SyncOffset)
  OBVIOUS
<1>4. u.sequence = s.sequence
  <2>1. SyncOffset \in Nat /\ now \in Nat /\ s.sequence \in 0 .. MaxSequence
    BY HeartConstants DEF HeartTypes, Sched
  <2> QED
    BY <1>3, <2>1, BeatenTypes
<1>5. PICK active \in BOOLEAN : active = Heart!Active(d)
  <2>1. Heart!Active(d) \in BOOLEAN
    BY DEF Heart!Active
  <2> QED
    BY <2>1
<1>6. /\ dev'[d] = IF ~(active /\ (force \/ now > s.NextTime)) THEN s
                   ELSE [u EXCEPT !.sequence =
                           IF force THEN @ ELSE IF @ + 1 > MaxSequence THEN 0 ELSE @ + 1]
      /\ beats'[d] = IF ~(active /\ (force \/ now > s.NextTime)) THEN beats[d]
                     ELSE IF force THEN <<>>
                     ELSE Append(beats[d], [slot |-> x, sequence |-> s.sequence])
      /\ polled'[d] = IF ~active \/ s.Period = 0 THEN polled[d]
                      ELSE IF force THEN -1
                      ELSE IF Heart!OnGrid(d) THEN polled[d] ELSE x
      /\ madeIn'[d] = IF force /\ active /\ s.Period # 0 THEN x ELSE madeIn[d]
  BY <1>1, <1>2, <1>3, <1>5 DEF Heart!SendHeartbeat, Heart!IsTime
<1>7. -1 = 0 - 1
  OBVIOUS
<1>8. CASE ~(active /\ (force \/ now > s.NextTime))
  BY <1>1, <1>2, <1>6, <1>8 DEF Looks
<1>9. CASE active /\ force
  <2>1. dev'[d] = [u EXCEPT !.sequence = s.sequence]
    BY <1>4, <1>6, <1>9
  <2>2. dev'[d] = Beaten(s, SyncOffset, s.sequence)
    BY <1>3, <2>1 DEF Beaten
  <2> QED
    BY <1>1, <1>2, <1>6, <1>7, <1>9, <2>2 DEF ForcedTo
<1>10. CASE active /\ ~force /\ now > s.NextTime
  <2>1. dev'[d] = [u EXCEPT !.sequence = Succeeding(s.sequence)]
    BY <1>4, <1>6, <1>10 DEF Succeeding
  <2>2. dev'[d] = Beaten(s, SyncOffset, Succeeding(s.sequence))
    BY <1>3, <2>1 DEF Beaten
  <2> QED
    BY <1>1, <1>2, <1>6, <1>10, <2>2 DEF BeatsNow
<1> QED
  BY <1>8, <1>9, <1>10

(* The types of one device, and its row.                                   *)
DeviceOK(d) ==
  /\ dev[d] \in Sched /\ beats[d] \in Seq(Beat) /\ polled[d] \in Int /\ madeIn[d] \in Int
  /\ tame[d] \in BOOLEAN /\ OffOrPeriod(dev[d])
  /\ tame[d] => RowOK(dev[d], beats[d], polled[d], madeIn[d], SyncOffset)

LEMMA LooksKeeps ==
  ASSUME now \in 0 .. MaxTime, SyncOffset \in Nat, UNCHANGED <<SyncOffset, tame>>,
         NEW d \in Heart!DeviceIds, DeviceOK(d), Looks(d)
  PROVE  DeviceOK(d)'
<1>1. CASE polled'[d] = polled[d]
  BY <1>1 DEF DeviceOK, Looks
<1>2. CASE /\ dev[d].Period # 0 /\ ~(now > dev[d].NextTime) /\ ~Heart!OnGrid(d)
           /\ polled'[d] = Heart!Slot(dev[d], SyncOffset, now)
  <2>1. PICK s \in Sched : s = dev[d]
    BY DEF DeviceOK
  <2>2. PICK b \in Seq(Beat) : b = beats[d]
    BY DEF DeviceOK
  <2>3. PICK since \in Int : since = madeIn[d]
    BY DEF DeviceOK
  <2>4. PICK x : x = Heart!Slot(s, SyncOffset, now)
    OBVIOUS
  <2>5. now \in Nat
    BY HeartConstants
  <2>6. x \in Int
    BY <1>2, <2>1, <2>4, <2>5, SlotIs DEF InSlot
  <2>7. ASSUME tame[d] PROVE RowOK(s, b, x, since, SyncOffset)
    <3>1. RowOK(s, b, polled[d], since, SyncOffset)
      BY <2>1, <2>2, <2>3, <2>7 DEF DeviceOK
    <3>2. PICK l \in Int : l = LastSlot(b, since)
      <4>1. b # <<>> => b[Len(b)] \in Beat
        OBVIOUS
      <4>2. LastSlot(b, since) \in Int
        BY <4>1 DEF LastSlot, Beat
      <4> QED
        BY <4>2
    <3>3. l >= 0 - 1 /\ OnTime(s, l, SyncOffset)
      BY <1>2, <2>1, <3>1, <3>2 DEF RowOK
    <3>4. ~(now > s.NextTime) /\ (now - s.Offset - SyncOffset) % s.Period # 0 /\ s.Period # 0
      BY <1>2, <2>1 DEF Heart!OnGrid
    <3>5. x <= l
      BY <2>4, <2>5, <3>3, <3>4, NotDueYet
    <3> QED
      BY <3>1, <3>2, <3>5 DEF RowOK
  <2> QED
    BY <1>2, <2>1, <2>2, <2>3, <2>4, <2>6, <2>7 DEF DeviceOK, Looks
<1> QED
  BY <1>1, <1>2 DEF Looks

LEMMA ForcedKeeps ==
  ASSUME now \in 0 .. MaxTime, SyncOffset \in Nat, UNCHANGED <<SyncOffset, tame>>,
         NEW d \in Heart!DeviceIds, DeviceOK(d), ForcedTo(d)
  PROVE  DeviceOK(d)'
<1>1. PICK s \in Sched : s = dev[d]
  BY DEF DeviceOK
<1>2. s.sequence \in 0 .. MaxSequence /\ now \in Nat
  BY HeartConstants DEF Sched
<1>3. PICK t \in Sched : t = Beaten(s, SyncOffset, s.sequence)
  BY <1>2, BeatenTypes
<1>4. <<>> \in Seq(Beat)
  OBVIOUS
<1>5. dev'[d] = t /\ beats'[d] = <<>>
  BY <1>1, <1>3 DEF ForcedTo
<1>6. CASE s.Period = 0
  <2>1. t.Period = 0 /\ t.NextTime = Disabled
    BY <1>2, <1>3, <1>6, BeatenTypes
  <2>2. polled'[d] = polled[d] /\ madeIn'[d] = madeIn[d]
    BY <1>1, <1>6 DEF ForcedTo
  <2>3. ASSUME tame[d] PROVE RowOK(t, <<>>, polled[d], madeIn[d], SyncOffset)
    <3>1. PICK b : b = beats[d]
      OBVIOUS
    <3>2. RowOK(s, b, polled[d], madeIn[d], SyncOffset)
      BY <1>1, <2>3, <3>1 DEF DeviceOK
    <3>3. b = <<>>
      BY <1>6, <3>2 DEF RowOK
    <3>4. Len(b) = 0
      BY <3>3
    <3>5. RowOK(t, b, polled[d], madeIn[d], SyncOffset)
      BY <2>1, <3>2, <3>3, <3>4 DEF RowOK
    <3> QED
      BY <3>3, <3>5
  <2> QED
    BY <1>4, <1>5, <2>1, <2>2, <2>3 DEF DeviceOK, OffOrPeriod
<1>7. CASE s.Period # 0
  <2>1. PICK x : x = Heart!Slot(s, SyncOffset, now)
    OBVIOUS
  <2>2. InSlot(s, SyncOffset, x)
    BY <1>2, <1>7, <2>1, SlotIs
  <2>3. x \in Int /\ x >= 0 - 1
    BY <2>2 DEF InSlot
  <2>4. t.Period # 0 /\ OnTime(t, x, SyncOffset)
    BY <1>2, <1>3, <1>7, <2>1, BeatenIs
  <2>5. RowOK(t, <<>>, 0 - 1, x, SyncOffset)
    BY <2>3, <2>4, RowBegins
  <2>6. polled'[d] = 0 - 1 /\ madeIn'[d] = x
    BY <1>1, <1>7, <2>1 DEF ForcedTo
  <2> QED
    BY <1>4, <1>5, <2>3, <2>4, <2>5, <2>6 DEF DeviceOK, OffOrPeriod
<1> QED
  BY <1>6, <1>7

LEMMA BeatKeeps ==
  ASSUME now \in 0 .. MaxTime, SyncOffset \in Nat, UNCHANGED <<SyncOffset, tame>>,
         NEW d \in Heart!DeviceIds, DeviceOK(d), BeatsNow(d)
  PROVE  DeviceOK(d)'
<1>1. PICK s \in Sched : s = dev[d]
  BY DEF DeviceOK
<1>2. s.sequence \in 0 .. MaxSequence /\ now \in Nat
  BY HeartConstants DEF Sched
<1>3. PICK b \in Seq(Beat) : b = beats[d]
  BY DEF DeviceOK
<1>4. PICK since \in Int : since = madeIn[d]
  BY DEF DeviceOK
<1>5. PICK p \in Int : p = polled[d]
  BY DEF DeviceOK
<1>6. PICK x : x = Heart!Slot(s, SyncOffset, now)
  OBVIOUS
<1>7. PICK n \in 0 .. MaxSequence : n = Succeeding(s.sequence)
  BY <1>2, SucceedingIs
<1>8. PICK t \in Sched : t = Beaten(s, SyncOffset, n)
  BY <1>2, BeatenTypes
<1>9. PICK v : v = polled'[d]
  OBVIOUS
<1>10. PICK c : c = Append(b, [slot |-> x, sequence |-> s.sequence])
  OBVIOUS
<1>11. /\ dev'[d] = t /\ beats'[d] = c /\ madeIn'[d] = since /\ now > s.NextTime
       /\ v = p \/ (s.Period # 0 /\ v = x)
  BY <1>1, <1>3, <1>4, <1>5, <1>6, <1>7, <1>8, <1>9, <1>10 DEF BeatsNow
<1>12. s.Period # 0 /\ x \in Int /\ t.Period # 0
  <2>1. s.Period # 0
    <3>1. s.Period = 0 => s.NextTime = Disabled
      BY <1>1 DEF DeviceOK, OffOrPeriod
    <3> QED
      BY <1>11, <3>1, HeartConstants
  <2>2. t.Period # 0
    BY <1>2, <1>8, <2>1, BeatenIs
  <2> QED
    BY <1>2, <1>6, <2>1, <2>2, SlotIs DEF InSlot
<1>13. c \in Seq(Beat) /\ v \in Int
  <2>1. [slot |-> x, sequence |-> s.sequence] \in Beat
    BY <1>2, <1>12 DEF Beat
  <2>2. \A e \in Beat : Append(b, e) \in Seq(Beat)
    OBVIOUS
  <2> QED
    BY <1>10, <1>11, <1>12, <2>1, <2>2
<1>14. ASSUME tame[d] PROVE RowOK(t, c, v, since, SyncOffset)
  <2>1. RowOK(s, b, p, since, SyncOffset)
    BY <1>1, <1>3, <1>4, <1>5, <1>14 DEF DeviceOK
  <2>2. s.Period # 0
    BY <1>12
  <2>3. v \in {p, Heart!Slot(s, SyncOffset, now)}
    BY <1>6, <1>11
  <2> QED
    BY <1>2, <1>6, <1>7, <1>8, <1>10, <1>11, <2>1, <2>2, <2>3, BeatAdded
<1> QED
  BY <1>9, <1>11, <1>12, <1>13, <1>14 DEF DeviceOK, OffOrPeriod

-----------------------------------------------------------------------------
(* The settings.  What the loop over the devices does to one of them.      *)
SetEffect(s, t, sync) ==
  \/ t = s
  \/ t = [s EXCEPT !.NextTime = Disabled]
  \/ \E p \in Nat \ {0}, o \in Nat :
       /\ s.Period # p \/ s.Offset # o
       /\ t = Heart!SetPeriodAndOffset(s, p, o, sync)

(* The arguments and the devices between two rounds of the loop.           *)
Carried(c) ==
  /\ c.interval \in Nat \cup {KeepCurrent, Restore}
  /\ c.offset \in Nat \cup {KeepCurrent}
  /\ c.dev \in [Heart!DeviceIds -> Sched]

SetTo(t, p, o, sync) ==
  /\ t \in Sched /\ t.Period = p /\ t.Offset = o
  /\ OnTime(t, Heart!Slot(t, sync, now), sync)

LEMMA SetPeriodIs ==
  ASSUME NEW s \in Sched, NEW p \in Nat \ {0}, NEW o \in Nat, NEW sync \in Nat, now \in Nat
  PROVE  SetTo(Heart!SetPeriodAndOffset(s, p, o, sync), p, o, sync)
<1>1. PICK u \in Sched : u = [s EXCEPT !.Period = p, !.Offset = o]
  BY DEF Sched
<1>2. u.Period = p /\ u.Offset = o
  BY <1>1 DEF Sched
<1>3. PICK x : x = Heart!Slot(u, sync, now)
  OBVIOUS
<1>4. x \in Int
  BY <1>2, <1>3, SlotIs DEF InSlot
<1>5. PICK i \in Int : i = u.Offset + sync + (x + 1) * u.Period
  BY <1>2, <1>4
<1>6. Heart!UpdateNextTime(u, sync) = [u EXCEPT !.NextTime = i]
  BY <1>2, <1>3, <1>5, UpdateIs
<1>7. PICK t \in Sched : t = [u EXCEPT !.NextTime = i]
  BY DEF Sched
<1>8. t.Period = p /\ t.Offset = o /\ t.NextTime = i
  BY <1>2, <1>7 DEF Sched
<1>9. Heart!Slot(t, sync, now) = x
  BY <1>2, <1>3, <1>8 DEF Heart!Slot
<1>10. OnTime(t, x, sync)
  BY <1>2, <1>5, <1>8 DEF OnTime
<1>11. Heart!SetPeriodAndOffset(s, p, o, sync) = t
  BY <1>1, <1>6, <1>7 DEF Heart!SetPeriodAndOffset
<1> QED
  BY <1>8, <1>9, <1>10, <1>11 DEF SetTo

LEMMA SetOneIs ==
  ASSUME NEW c, Carried(c), NEW d \in Heart!DeviceIds, NEW sync \in Nat, now \in Nat
  PROVE  /\ Carried(Heart!SetOne(c, d, sync))
         /\ SetEffect(c.dev[d], Heart!SetOne(c, d, sync).dev[d], sync)
         /\ \A e \in Heart!DeviceIds \ {d} : Heart!SetOne(c, d, sync).dev[e] = c.dev[e]
<1>1. PICK s \in Sched : s = c.dev[d]
  BY DEF Carried
<1>2. PICK i : i = CASE c.interval = KeepCurrent -> s.Period
                     [] c.interval = Restore -> Default
                     [] OTHER -> c.interval
  OBVIOUS
<1>3. i \in Nat
  <2>1. s.Period \in Nat
    BY DEF Sched
  <2>2. CASE c.interval = KeepCurrent /\ c.interval # Restore
    BY <1>2, <2>1, <2>2
  <2>3. CASE c.interval # KeepCurrent /\ c.interval = Restore
    BY <1>2, <2>3, HeartConstants
  <2>4. CASE c.interval = KeepCurrent /\ c.interval = Restore
    BY <1>2, <2>1, <2>4, HeartConstants
  <2>5. CASE c.interval # KeepCurrent /\ c.interval # Restore
    BY <1>2, <2>5 DEF Carried
  <2> QED
    BY <2>2, <2>3, <2>4, <2>5
<1>4. PICK o \in Nat : o = IF c.offset = KeepCurrent THEN s.Offset ELSE c.offset
  BY DEF Carried, Sched
<1>5. PICK p \in Nat \ {0} : p = Heart!Within(i)
  BY <1>3, HeartConstants DEF Heart!Within
<1>6. PICK r1 : r1 = Heart!SetOne(c, d, sync)
  OBVIOUS
<1>7. CASE i = 0
  <2>1. r1 = [interval |-> 0, offset |-> o, dev |-> [c.dev EXCEPT ![d].NextTime = Disabled]]
    BY <1>1, <1>2, <1>4, <1>6, <1>7 DEF Heart!SetOne
  <2>2. PICK t \in Sched : t = [s EXCEPT !.NextTime = Disabled]
    <3>1. Disabled \in Int
      BY HeartConstants
    <3>2. [s EXCEPT !.NextTime = Disabled] \in Sched
      BY <3>1 DEF Sched
    <3> QED
      BY <3>2
  <2>3. r1.dev = [c.dev EXCEPT ![d] = t]
    BY <1>1, <2>1, <2>2 DEF Carried
  <2>4. r1.dev \in [Heart!DeviceIds -> Sched] /\ r1.dev[d] = t
        /\ \A e \in Heart!DeviceIds \ {d} : r1.dev[e] = c.dev[e]
    BY <2>3 DEF Carried
  <2> QED
    BY <1>1, <1>6, <2>1, <2>2, <2>4 DEF Carried, SetEffect
<1>8. CASE i # 0 /\ s.Period = p /\ s.Offset = o
  <2>1. r1 = [interval |-> p, offset |-> o, dev |-> c.dev]
    BY <1>1, <1>2, <1>4, <1>5, <1>6, <1>8 DEF Heart!SetOne
  <2> QED
    BY <1>6, <2>1 DEF Carried, SetEffect
<1>9. CASE i # 0 /\ ~(s.Period = p /\ s.Offset = o)
  <2>1. PICK t \in Sched : t = Heart!SetPeriodAndOffset(s, p, o, sync)
    BY SetPeriodIs DEF SetTo
  <2>2. r1 = [interval |-> p, offset |-> o, dev |-> [c.dev EXCEPT ![d] = t]]
    BY <1>1, <1>2, <1>4, <1>5, <1>6, <1>9, <2>1 DEF Heart!SetOne
  <2>3. r1.dev \in [Heart!DeviceIds -> Sched] /\ r1.dev[d] = t
        /\ \A e \in Heart!DeviceIds \ {d} : r1.dev[e] = c.dev[e]
    BY <2>2 DEF Carried
  <2>4. SetEffect(s, t, sync)
    BY <1>9, <2>1 DEF SetEffect
  <2> QED
    BY <1>1, <1>6, <2>2, <2>3, <2>4 DEF Carried
<1> QED
  BY <1>7, <1>8, <1>9

(* The loop, round by round.                                               *)
SettingSteps(start, ids, sync, n, f) ==
  f = [k \in 0 .. n |->
         IF k = 0 THEN start
         ELSE IF k - 1 \in ids THEN Heart!SetOne(f[k - 1], k - 1, sync)
         ELSE f[k - 1]]

LEMMA SettingAt ==
  ASSUME NEW start, NEW ids, NEW sync, NEW n, NEW f, SettingSteps(start, ids, sync, n, f),
         NEW i \in 0 .. n
  PROVE  f[i] = IF i = 0 THEN start
                ELSE IF i - 1 \in ids THEN Heart!SetOne(f[i - 1], i - 1, sync)
                ELSE f[i - 1]
<1> DEFINE e == [k \in 0 .. n |->
                   IF k = 0 THEN start
                   ELSE IF k - 1 \in ids THEN Heart!SetOne(f[k - 1], k - 1, sync)
                   ELSE f[k - 1]]
<1>1. e[i] = IF i = 0 THEN start
             ELSE IF i - 1 \in ids THEN Heart!SetOne(f[i - 1], i - 1, sync)
             ELSE f[i - 1]
  OBVIOUS
<1>2. f = e
  BY DEF SettingSteps
<1> HIDE DEF e
<1> QED
  BY <1>1, <1>2

LEMMA SettingThere ==
  ASSUME NEW start, NEW ids, NEW sync, NEW n \in Nat
  PROVE  \E f : SettingSteps(start, ids, sync, n, f)
<1> DEFINE K == {k \in 1 .. n : ~\E f : SettingSteps(start, ids, sync, k, f)}
<1>1. \E f : SettingSteps(start, ids, sync, 0, f)
  <2>1. PICK f : f = [k \in 0 .. 0 |-> start]
    OBVIOUS
  <2>2. f = [k \in 0 .. 0 |->
               IF k = 0 THEN start
               ELSE IF k - 1 \in ids THEN Heart!SetOne(f[k - 1], k - 1, sync)
               ELSE f[k - 1]]
    <3>1. \A k \in 0 .. 0 : k = 0
      OBVIOUS
    <3> QED
      BY <2>1, <3>1
  <2> QED
    BY <2>2 DEF SettingSteps
<1>2. CASE K = {}
  BY <1>1, <1>2
<1>3. CASE K # {}
  <2>1. PICK k \in K : \A j \in K : k <= j
    <3>1. K \subseteq 1 .. n
      OBVIOUS
    <3> HIDE DEF K
    <3> QED
      BY <1>3, <3>1, FirstPosition
  <2>2. PICK f : SettingSteps(start, ids, sync, k - 1, f)
    <3>1. k - 1 = 0 \/ k - 1 \in (1 .. n) \ K
      BY <2>1
    <3> QED
      BY <3>1, <1>1
  <2>3. PICK x : x = IF k - 1 \in ids THEN Heart!SetOne(f[k - 1], k - 1, sync) ELSE f[k - 1]
    OBVIOUS
  <2>4. PICK e : e = [i \in 0 .. k |-> IF i < k THEN f[i] ELSE x]
    OBVIOUS
  <2>5. ASSUME NEW i \in 0 .. k
        PROVE  e[i] = IF i = 0 THEN start
                      ELSE IF i - 1 \in ids THEN Heart!SetOne(e[i - 1], i - 1, sync)
                      ELSE e[i - 1]
    <3>1. i # 0 => e[i - 1] = f[i - 1]
      <4> SUFFICES ASSUME i # 0 PROVE e[i - 1] = f[i - 1]
        OBVIOUS
      <4>1. i - 1 \in 0 .. k /\ i - 1 < k
        BY <2>1
      <4> QED
        BY <4>1, <2>4
    <3>2. CASE i < k
      <4>1. e[i] = f[i] /\ i \in 0 .. k - 1
        BY <2>1, <2>4, <3>2
      <4>2. f[i] = IF i = 0 THEN start
                   ELSE IF i - 1 \in ids THEN Heart!SetOne(f[i - 1], i - 1, sync)
                   ELSE f[i - 1]
        BY <2>2, <4>1, SettingAt
      <4> QED
        BY <3>1, <4>1, <4>2
    <3>3. CASE ~(i < k)
      <4>1. i = k /\ e[i] = x /\ k # 0
        BY <2>1, <2>4, <3>3
      <4> QED
        BY <4>1, <2>3, <3>1
    <3> QED
      BY <3>2, <3>3
  <2>6. e = [i \in 0 .. k |-> e[i]]
    BY <2>4
  <2>7. SettingSteps(start, ids, sync, k, e)
    BY <2>5, <2>6 DEF SettingSteps
  <2> QED
    BY <2>1, <2>7
<1> QED
  BY <1>2, <1>3

(* After n rounds the first n devices are set, and no other one.           *)
SetSoFar(old, c, sync, n) ==
  /\ Carried(c)
  /\ \A d \in Heart!DeviceIds : SetEffect(old[d], c.dev[d], sync)
                                /\ (d >= n => c.dev[d] = old[d])

LEMMA SettingGives ==
  ASSUME NEW start, NEW ids, ids \subseteq Heart!DeviceIds, NEW sync \in Nat, now \in Nat,
         NEW n \in Nat, n = DeviceCount, NEW f, SettingSteps(start, ids, sync, n, f),
         Carried(start)
  PROVE  SetSoFar(start.dev, f[n], sync, n)
<1> DEFINE K == {k \in 1 .. n : ~SetSoFar(start.dev, f[k], sync, k)}
<1>0. Heart!DeviceIds = 0 .. n - 1
  BY DEF Heart!DeviceIds
<1>1. SetSoFar(start.dev, f[0], sync, 0)
  <2>1. 0 \in 0 .. n
    OBVIOUS
  <2>2. f[0] = start
    BY <2>1, SettingAt
  <2> QED
    BY <2>2 DEF SetSoFar, SetEffect
<1>2. CASE K = {}
  <2>1. n = 0 \/ n \in 1 .. n
    OBVIOUS
  <2> QED
    BY <2>1, <1>1, <1>2
<1>3. CASE K # {}
  <2>1. PICK k \in K : \A j \in K : k <= j
    <3>1. K \subseteq 1 .. n
      OBVIOUS
    <3> HIDE DEF K
    <3> QED
      BY <1>3, <3>1, FirstPosition
  <2>2. PICK h \in Nat : h = k - 1
    BY <2>1
  <2>3. PICK c : c = f[h]
    OBVIOUS
  <2>4. SetSoFar(start.dev, c, sync, h)
    <3>1. h = 0 \/ h \in (1 .. n) \ K
      BY <2>1, <2>2
    <3> QED
      BY <3>1, <1>1, <2>3
  <2>5. k \in 0 .. n /\ k # 0 /\ h \in Heart!DeviceIds
    BY <1>0, <2>1, <2>2
  <2>6. PICK e : e = f[k]
    OBVIOUS
  <2>7. e = IF h \in ids THEN Heart!SetOne(c, h, sync) ELSE c
    BY <2>2, <2>3, <2>5, <2>6, SettingAt
  <2>8. \A d \in Heart!DeviceIds : d >= k => d >= h /\ d # h
    BY <1>0, <2>2
  <2>9. Carried(c)
    BY <2>4 DEF SetSoFar
  <2>10. CASE h \in ids
    <3>1. /\ Carried(e) /\ SetEffect(c.dev[h], e.dev[h], sync)
          /\ \A d \in Heart!DeviceIds \ {h} : e.dev[d] = c.dev[d]
      BY <2>5, <2>7, <2>9, <2>10, SetOneIs
    <3>2. c.dev[h] = start.dev[h]
      BY <2>4, <2>5 DEF SetSoFar
    <3>3. SetSoFar(start.dev, e, sync, k)
      BY <2>4, <2>8, <3>1, <3>2 DEF SetSoFar
    <3> QED
      BY <2>1, <2>6, <3>3
  <2>11. CASE h \notin ids
    <3>1. SetSoFar(start.dev, e, sync, k)
      BY <2>4, <2>7, <2>8, <2>11 DEF SetSoFar
    <3> QED
      BY <2>1, <2>6, <3>1
  <2> QED
    BY <2>10, <2>11
<1> QED
  BY <1>2, <1>3

(* What AfterSetting() leaves.                                             *)
SettingsOf(new, sync) ==
  /\ new \in [Heart!DeviceIds -> Sched]
  /\ \A d \in Heart!DeviceIds : SetEffect(dev[d], new[d], sync)

LEMMA AfterSettingIs ==
  ASSUME HeartTypes, NEW i \in Nat \cup {KeepCurrent, Restore}, NEW o \in Nat \cup {KeepCurrent},
         NEW ids, ids \subseteq Heart!DeviceIds, NEW sync \in Nat
  PROVE  SettingsOf(Heart!AfterSetting(i, o, ids, sync), sync)
<1>1. PICK start : start = [interval |-> i, offset |-> o, dev |-> dev]
  OBVIOUS
<1>2. Carried(start) /\ start.dev = dev
  BY <1>1 DEF Carried, HeartTypes
<1>3. PICK n \in Nat : n = DeviceCount
  BY HeartConstants
<1>4. PICK f : f = CHOOSE x : SettingSteps(start, ids, sync, n, x)
  OBVIOUS
<1>5. SettingSteps(start, ids, sync, n, f)
  BY <1>4, SettingThere
<1>6. now \in Nat
  BY HeartConstants DEF HeartTypes
<1>7. SetSoFar(start.dev, f[n], sync, n)
  BY <1>2, <1>3, <1>5, <1>6, SettingGives
<1>8. CASE i = KeepCurrent /\ o = ShortKeep
  <2>1. Heart!AfterSetting(i, o, ids, sync) = dev
    BY <1>8 DEF Heart!AfterSetting
  <2> QED
    BY <2>1 DEF SettingsOf, SetEffect, HeartTypes
<1>9. CASE ~(i = KeepCurrent /\ o = ShortKeep)
  <2>1. Heart!AfterSetting(i, o, ids, sync) = f[n].dev
    BY <1>1, <1>3, <1>4, <1>9 DEF Heart!AfterSetting, SettingSteps
  <2> QED
    BY <1>2, <1>7, <2>1 DEF SetSoFar, SettingsOf, Carried
<1> QED
  BY <1>8, <1>9

(* Settings that change begin a new row; others leave it, or turn it off.  *)
LEMMA SettingKeeps ==
  ASSUME NEW new, NEW sync \in Nat, now \in 0 .. MaxTime, SyncOffset' = sync,
         SettingsOf(new, sync), Heart!Settings(new, sync),
         NEW d \in Heart!DeviceIds, DeviceOK(d)
  PROVE  DeviceOK(d)'
<1>1. PICK s \in Sched : s = dev[d]
  BY DEF DeviceOK
<1>2. PICK t \in Sched : t = new[d]
  BY DEF SettingsOf
<1>3. PICK changed : changed = (s.Period # t.Period \/ s.Offset # t.Offset \/ sync # SyncOffset)
  OBVIOUS
<1>4. PICK x : x = Heart!Slot(t, sync, now)
  OBVIOUS
<1>5. /\ dev'[d] = t
      /\ beats'[d] = IF changed THEN <<>> ELSE beats[d]
      /\ polled'[d] = IF changed THEN 0 - 1 ELSE polled[d]
      /\ madeIn'[d] = IF changed /\ t.Period # 0 THEN x ELSE madeIn[d]
      /\ tame'[d] = (/\ tame[d]
                     /\ t.Period # 0 => /\ t.NextTime # Disabled
                                        /\ sync # SyncOffset =>
                                             t.Period # s.Period \/ t.Offset # s.Offset)
  <2>1. -1 = 0 - 1
    OBVIOUS
  <2> QED
    BY <1>1, <1>2, <1>3, <1>4, <2>1 DEF Heart!Settings
<1>6. now \in Nat
  BY HeartConstants
<1>7. t.Period # 0 => x \in Int /\ x >= 0 - 1
  <2> SUFFICES ASSUME t.Period # 0 PROVE x \in Int /\ x >= 0 - 1
    OBVIOUS
  <2>1. InSlot(t, sync, x)
    BY <1>4, <1>6, SlotIs
  <2> QED
    BY <2>1 DEF InSlot
<1>8. SetEffect(s, t, sync)
  BY <1>1, <1>2 DEF SettingsOf
<1>9. s.Period = 0 => s.NextTime = Disabled
  BY <1>1 DEF DeviceOK, OffOrPeriod
<1>10. \/ t = s
       \/ t.Period = s.Period /\ t.Offset = s.Offset /\ t.NextTime = Disabled
       \/ /\ t.Period # 0 /\ (s.Period # t.Period \/ s.Offset # t.Offset)
          /\ OnTime(t, x, sync)
  <2>1. CASE t = [s EXCEPT !.NextTime = Disabled]
    BY <2>1 DEF Sched
  <2>2. ASSUME NEW p \in Nat \ {0}, NEW o \in Nat, s.Period # p \/ s.Offset # o,
               t = Heart!SetPeriodAndOffset(s, p, o, sync)
        PROVE  /\ t.Period # 0 /\ (s.Period # t.Period \/ s.Offset # t.Offset)
               /\ OnTime(t, x, sync)
    <3>1. PICK z : z = Heart!SetPeriodAndOffset(s, p, o, sync)
      OBVIOUS
    <3>2. z.Period = p /\ z.Offset = o /\ OnTime(z, Heart!Slot(z, sync, now), sync)
      <4>1. SetTo(z, p, o, sync)
        BY <1>6, <3>1, SetPeriodIs
      <4> QED
        BY <4>1 DEF SetTo
    <3>3. z = t
      BY <2>2, <3>1
    <3> QED
      BY <1>4, <2>2, <3>2, <3>3
  <2> QED
    BY <1>8, <2>1, <2>2 DEF SetEffect
<1>11. t.Period = 0 => t.NextTime = Disabled
  BY <1>9, <1>10
<1>12. /\ beats'[d] \in Seq(Beat) /\ polled'[d] \in Int /\ madeIn'[d] \in Int
       /\ tame'[d] \in BOOLEAN
  <2>1. <<>> \in Seq(Beat)
    OBVIOUS
  <2>2. beats[d] \in Seq(Beat) /\ polled[d] \in Int /\ madeIn[d] \in Int /\ tame[d] \in BOOLEAN
    BY DEF DeviceOK
  <2>3. tame'[d] \in BOOLEAN
    BY <1>5, <2>2
  <2> QED
    BY <1>5, <1>7, <2>1, <2>2, <2>3
<1>13. ASSUME tame'[d] PROVE RowOK(t, beats'[d], polled'[d], madeIn'[d], sync)
  <2>0. /\ tame[d]
        /\ t.Period # 0 => /\ t.NextTime # Disabled
                           /\ sync # SyncOffset => t.Period # s.Period \/ t.Offset # s.Offset
    BY <1>5, <1>13
  <2>1. PICK b \in Seq(Beat) : b = beats[d]
    BY DEF DeviceOK
  <2>2. PICK since \in Int : since = madeIn[d]
    BY DEF DeviceOK
  <2>3. RowOK(s, b, polled[d], since, SyncOffset)
    BY <1>1, <2>0, <2>1, <2>2 DEF DeviceOK
  <2>4. CASE ~changed
    <3>1. t = s \/ (t.Period = s.Period /\ t.Offset = s.Offset /\ t.NextTime = Disabled)
      BY <1>3, <1>10, <2>4
    <3>2. sync = SyncOffset
      BY <1>3, <2>4
    <3>3. RowOK(t, b, polled[d], since, sync)
      <4>1. CASE t.Period # 0
        BY <2>0, <2>3, <3>1, <3>2, <4>1
      <4>2. CASE t.Period = 0
        <5>1. b = <<>> /\ s.Period = 0
          BY <2>3, <3>1, <4>2 DEF RowOK
        <5> QED
          BY <2>3, <4>2, <5>1 DEF RowOK
      <4> QED
        BY <4>1, <4>2
    <3> QED
      BY <1>5, <2>1, <2>2, <2>4, <3>3
  <2>5. CASE changed
    <3>1. CASE t.Period = 0
      <4>1. s.Period = 0
        BY <1>10, <3>1
      <4>2. b = <<>>
        BY <2>3, <4>1 DEF RowOK
      <4>3. since >= 0 - 1
        BY <2>3, <4>2 DEF RowOK, LastSlot
      <4>4. RowOK(t, <<>>, 0 - 1, since, sync)
        BY <3>1, <4>3, RowBegins
      <4> QED
        BY <1>5, <2>2, <2>5, <3>1, <4>4
    <3>2. CASE t.Period # 0
      <4>1. OnTime(t, x, sync)
        BY <1>3, <1>10, <2>0, <2>5, <3>2
      <4>2. RowOK(t, <<>>, 0 - 1, x, sync)
        BY <1>7, <3>2, <4>1, RowBegins
      <4> QED
        BY <1>5, <2>5, <3>2, <4>2
    <3> QED
      BY <3>1, <3>2
  <2> QED
    BY <1>3, <2>4, <2>5
<1> QED
  BY <1>5, <1>11, <1>12, <1>13 DEF DeviceOK, OffOrPeriod

LEMMA HeartDevices ==
  HeartOK <=> /\ now \in 0 .. MaxTime /\ SyncOffset \in Nat
              /\ dev \in [Heart!DeviceIds -> Sched]
              /\ beats \in [Heart!DeviceIds -> Seq(Beat)]
              /\ polled \in [Heart!DeviceIds -> Int] /\ madeIn \in [Heart!DeviceIds -> Int]
              /\ tame \in [Heart!DeviceIds -> BOOLEAN]
              /\ \A d \in Heart!DeviceIds : DeviceOK(d)
BY DEF HeartOK, HeartTypes, DeviceOK

(* The devices together, from each of them.                                *)
Arrays ==
  /\ dev = [d \in Heart!DeviceIds |-> dev[d]]
  /\ beats = [d \in Heart!DeviceIds |-> beats[d]]
  /\ polled = [d \in Heart!DeviceIds |-> polled[d]]
  /\ madeIn = [d \in Heart!DeviceIds |-> madeIn[d]]
  /\ tame = [d \in Heart!DeviceIds |-> tame[d]]

LEMMA HeartFromDevices ==
  ASSUME now' \in 0 .. MaxTime, SyncOffset' \in Nat, Arrays',
         \A d \in Heart!DeviceIds : DeviceOK(d)'
  PROVE  HeartOK'
<1>1. dev' \in [Heart!DeviceIds -> Sched]
  BY DEF Arrays, DeviceOK
<1>2. beats' \in [Heart!DeviceIds -> Seq(Beat)]
  BY DEF Arrays, DeviceOK
<1>3. polled' \in [Heart!DeviceIds -> Int] /\ madeIn' \in [Heart!DeviceIds -> Int]
  BY DEF Arrays, DeviceOK
<1>4. tame' \in [Heart!DeviceIds -> BOOLEAN]
  BY DEF Arrays, DeviceOK
<1>5. \A d \in Heart!DeviceIds :
        /\ OffOrPeriod(dev'[d])
        /\ tame'[d] => RowOK(dev'[d], beats'[d], polled'[d], madeIn'[d], SyncOffset')
  BY DEF DeviceOK
<1> QED
  BY <1>1, <1>2, <1>3, <1>4, <1>5 DEF HeartOK, HeartTypes

LEMMA HeartStart == Heart!Init => HeartOK
<1> SUFFICES ASSUME Heart!Init PROVE HeartOK
  OBVIOUS
<1>1. PICK s \in Sched : s = Heart!tN2kSyncScheduler
  <2>1. Disabled \in Int /\ 0 \in 0 .. MaxSequence
    BY HeartConstants
  <2>2. Heart!tN2kSyncScheduler \in Sched
    BY <2>1 DEF Sched, Heart!tN2kSyncScheduler
  <2> QED
    BY <2>2
<1>2. s.Period = 0 /\ s.NextTime = Disabled
  BY <1>1 DEF Heart!tN2kSyncScheduler
<1>3. -1 = 0 - 1
  OBVIOUS
<1>4. <<>> \in Seq(Beat)
  OBVIOUS
<1>5. now \in 0 .. MaxTime /\ SyncOffset = 0
  BY HeartConstants DEF Heart!Init
<1>6. RowOK(s, <<>>, 0 - 1, 0 - 1, 0)
  BY <1>2, RowBegins
<1>7. /\ dev = [d \in Heart!DeviceIds |-> s]
      /\ beats = [d \in Heart!DeviceIds |-> <<>>]
      /\ polled = [d \in Heart!DeviceIds |-> 0 - 1]
      /\ madeIn = [d \in Heart!DeviceIds |-> 0 - 1]
      /\ tame = [d \in Heart!DeviceIds |-> TRUE]
  BY <1>1, <1>3 DEF Heart!Init
<1>8. HeartTypes
  BY <1>4, <1>5, <1>7 DEF HeartTypes
<1>9. \A d \in Heart!DeviceIds :
        OffOrPeriod(dev[d]) /\ RowOK(dev[d], beats[d], polled[d], madeIn[d], SyncOffset)
  BY <1>2, <1>5, <1>6, <1>7 DEF OffOrPeriod
<1> QED
  BY <1>8, <1>9 DEF HeartOK

(* Every step of the heartbeats keeps the rows.                            *)
LEMMA HeartStep == HeartOK /\ (Heart!Next \/ UNCHANGED heartVars) => HeartOK'
<1> SUFFICES ASSUME HeartOK, Heart!Next \/ UNCHANGED heartVars PROVE HeartOK'
  OBVIOUS
<1>0. HeartTypes /\ now \in 0 .. MaxTime /\ SyncOffset \in Nat
      /\ (\A d \in Heart!DeviceIds : DeviceOK(d)) /\ now \in Nat
  BY HeartDevices, HeartConstants DEF HeartOK
<1>1. ASSUME NEW new, NEW sync \in Nat, SettingsOf(new, sync), Heart!Settings(new, sync),
             SyncOffset' = sync, now' = now
      PROVE  HeartOK'
  <2>1. \A d \in Heart!DeviceIds : DeviceOK(d)'
    BY <1>0, <1>1, SettingKeeps
  <2>2. Arrays'
    <3>1. new = [d \in Heart!DeviceIds |-> new[d]]
      BY <1>1 DEF SettingsOf
    <3> QED
      BY <1>1, <3>1 DEF Arrays, Heart!Settings
  <2> QED
    BY <1>0, <1>1, <2>1, <2>2, HeartFromDevices
<1>2. CASE Heart!Open
  <2>1. SettingsOf(Heart!AfterSetting(Default, DefaultOffset, Heart!DeviceIds, now), now)
    BY <1>0, HeartConstants, AfterSettingIs
  <2> QED
    BY <1>0, <1>1, <1>2, <2>1 DEF Heart!Open
<1>3. ASSUME NEW i \in Intervals, NEW o \in Offsets, NEW ids, ids \subseteq Heart!DeviceIds,
             Heart!SetHeartbeatIntervalAndOffset(i, o, ids)
      PROVE  HeartOK'
  <2>1. i \in Nat \cup {KeepCurrent, Restore} /\ o \in Nat \cup {KeepCurrent}
    BY HeartConstants
  <2>2. PICK sync \in Nat : sync = SyncOffset
    BY <1>0
  <2>3. SettingsOf(Heart!AfterSetting(i, o, ids, sync), sync)
    BY <1>0, <1>3, <2>1, AfterSettingIs
  <2> QED
    BY <1>1, <1>3, <2>2, <2>3 DEF Heart!SetHeartbeatIntervalAndOffset
<1>4. ASSUME NEW force \in BOOLEAN, Heart!SendHeartbeat(force) PROVE HeartOK'
  <2>1. UNCHANGED <<now, SyncOffset, tame>>
    BY <1>4 DEF Heart!SendHeartbeat
  <2>2. \A d \in Heart!DeviceIds : DeviceOK(d)'
    <3> SUFFICES ASSUME NEW d \in Heart!DeviceIds PROVE DeviceOK(d)'
      OBVIOUS
    <3>1. Looks(d) \/ ForcedTo(d) \/ BeatsNow(d)
      BY <1>0, <1>4, SendDoes
    <3> QED
      BY <1>0, <2>1, <3>1, LooksKeeps, ForcedKeeps, BeatKeeps
  <2>3. Arrays'
    <3>1. tame = [d \in Heart!DeviceIds |-> tame[d]]
      BY <1>0 DEF HeartTypes
    <3> QED
      BY <1>4, <2>1, <3>1 DEF Arrays, Heart!SendHeartbeat
  <2> QED
    BY <1>0, <2>1, <2>2, <2>3, HeartFromDevices
<1>5. ASSUME NEW e \in Heart!DeviceIds, Heart!Claim(e) PROVE HeartOK'
  <2>1. PICK t : t = [dev[e] EXCEPT !.claiming = ~@]
    OBVIOUS
  <2>2. dev[e] \in Sched
    BY <1>0 DEF HeartTypes
  <2>3. /\ t \in Sched /\ t.Period = dev[e].Period /\ t.Offset = dev[e].Offset
        /\ t.NextTime = dev[e].NextTime /\ t.sequence = dev[e].sequence
    BY <2>1, <2>2 DEF Sched
  <2>4. dev' = [dev EXCEPT ![e] = t]
        /\ UNCHANGED <<now, SyncOffset, beats, polled, madeIn, tame>>
    BY <1>5, <2>1 DEF Heart!Claim
  <2>5. \A d \in Heart!DeviceIds : DeviceOK(d)'
    <3> SUFFICES ASSUME NEW d \in Heart!DeviceIds PROVE DeviceOK(d)'
      OBVIOUS
    <3>1. DeviceOK(d)
      BY <1>0
    <3>2. CASE d = e
      <4>1. dev'[d] = t
        BY <1>0, <2>4, <3>2 DEF HeartTypes
      <4>2. OffOrPeriod(t)
        BY <2>3, <3>1, <3>2 DEF DeviceOK, OffOrPeriod
      <4>3. ASSUME tame[d] PROVE RowOK(t, beats[d], polled[d], madeIn[d], SyncOffset)
        <5>1. RowOK(dev[e], beats[d], polled[d], madeIn[d], SyncOffset)
          BY <3>1, <3>2, <4>3 DEF DeviceOK
        <5> QED
          BY <2>3, <5>1 DEF RowOK, OnTime
      <4> QED
        BY <2>3, <2>4, <3>1, <4>1, <4>2, <4>3 DEF DeviceOK
    <3>3. CASE d # e
      <4>1. dev'[d] = dev[d]
        BY <1>0, <2>4, <3>3 DEF HeartTypes
      <4> QED
        BY <2>4, <3>1, <4>1 DEF DeviceOK
    <3> QED
      BY <3>2, <3>3
  <2>6. Arrays'
    BY <1>0, <2>4 DEF Arrays, HeartTypes
  <2> QED
    BY <1>0, <2>4, <2>5, <2>6, HeartFromDevices
<1>6. CASE Heart!Tick
  <2>1. now' \in 0 .. MaxTime
    BY <1>0, <1>6, HeartConstants DEF Heart!Tick
  <2> QED
    BY <1>0, <1>6, <2>1 DEF Heart!Tick, HeartOK, HeartTypes
<1>7. CASE UNCHANGED heartVars
  BY <1>7 DEF heartVars, HeartOK, HeartTypes
<1>8. CASE Heart!Next
  <2>1. \A d \in Heart!DeviceIds : {d} \subseteq Heart!DeviceIds
    OBVIOUS
  <2>2. ASSUME NEW i \in Intervals, NEW o \in Offsets,
               Heart!SetHeartbeatIntervalAndOffset(i, o, Heart!DeviceIds)
        PROVE  HeartOK'
    BY <1>3, <2>2
  <2>3. ASSUME NEW i \in Intervals, NEW o \in Offsets, NEW d \in Heart!DeviceIds,
               Heart!SetHeartbeatIntervalAndOffset(i, o, {d})
        PROVE  HeartOK'
    BY <1>3, <2>1, <2>3
  <2> QED
    BY <1>2, <1>4, <1>5, <1>6, <1>8, <2>2, <2>3 DEF Heart!Next
<1> QED
  BY <1>7, <1>8

(* A device that was left on its grid has a beat in every period in which  *)
(* the program looked, no two in one, and their numbers have no gap: for   *)
(* any number of devices, any settings, however irregularly it looks.      *)
THEOREM PeriodsBeat == SupportSpec => []EachPeriodBeats
<1>1. SupportInit => HeartOK
  BY HeartStart DEF SupportInit
<1>2. HeartOK /\ [SupportNext]_SupportVars => HeartOK'
  <2> SUFFICES ASSUME HeartOK, [SupportNext]_SupportVars PROVE HeartOK'
    OBVIOUS
  <2>1. Heart!Next \/ UNCHANGED heartVars
    BY DEF SupportNext, SupportVars
  <2> QED
    BY <2>1, HeartStep
<1>3. HeartOK => EachPeriodBeats
  <2> SUFFICES ASSUME HeartOK, NEW d \in Heart!DeviceIds, tame[d]
      PROVE /\ polled[d] > madeIn[d] =>
                 beats[d] # <<>> /\ beats[d][Len(beats[d])].slot >= polled[d]
            /\ \A k \in DOMAIN beats[d] : beats[d][k].slot > madeIn[d]
            /\ \A k \in 2 .. Len(beats[d]) :
                 /\ beats[d][k - 1].slot < beats[d][k].slot
                 /\ beats[d][k].sequence =
                      (beats[d][k - 1].sequence + 1) % (MaxSequence + 1)
    BY DEF EachPeriodBeats, Heart!EachPeriodBeats
  <2>1. DeviceOK(d)
    BY HeartDevices
  <2>2. PICK b \in Seq(Beat) : b = beats[d]
    BY <2>1 DEF DeviceOK
  <2>3. PICK since \in Int : since = madeIn[d]
    BY <2>1 DEF DeviceOK
  <2>4. PICK p \in Int : p = polled[d]
    BY <2>1 DEF DeviceOK
  <2>5. RowOK(dev[d], b, p, since, SyncOffset)
    BY <2>1, <2>2, <2>3, <2>4 DEF DeviceOK
  <2>6. p > since => b # <<>> /\ b[Len(b)].slot >= p
    <3>1. PICK l : l = LastSlot(b, since)
      OBVIOUS
    <3>2. b # <<>> => b[Len(b)] \in Beat
      OBVIOUS
    <3>3. l \in Int
      BY <3>1, <3>2 DEF LastSlot, Beat
    <3>4. p <= l
      BY <2>5, <3>1 DEF RowOK
    <3> QED
      BY <3>1, <3>3, <3>4 DEF LastSlot
  <2>7. \A k \in DOMAIN b : b[k].slot > since
    <3>1. DOMAIN b = 1 .. Len(b)
      OBVIOUS
    <3> QED
      BY <2>5, <3>1 DEF RowOK
  <2>8. ASSUME NEW k \in 2 .. Len(b)
        PROVE  /\ b[k - 1].slot < b[k].slot
               /\ b[k].sequence = (b[k - 1].sequence + 1) % (MaxSequence + 1)
    <3>1. k - 1 \in 1 .. Len(b)
      OBVIOUS
    <3>2. b[k - 1] \in Beat
      BY <3>1
    <3>3. b[k - 1].sequence \in 0 .. MaxSequence
      BY <3>2 DEF Beat
    <3>4. /\ b[k - 1].slot < b[k].slot
          /\ b[k].sequence = Succeeding(b[k - 1].sequence)
      BY <2>5 DEF RowOK
    <3> QED
      BY <3>3, <3>4, SucceedingIs
  <2> QED
    BY <2>2, <2>3, <2>4, <2>6, <2>7, <2>8
<1> QED
  BY <1>1, <1>2, <1>3, PTL DEF SupportSpec
=============================================================================
