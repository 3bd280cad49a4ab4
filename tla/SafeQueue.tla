----------------------------- MODULE SafeQueue -----------------------------
(***************************************************************************)
(* SafeQueue<T> (SafeQueue.h): a std::queue guarded by a mutex m, with a   *)
(* condition variable c on which dequeue() waits for an element.           *)
(*                                                                         *)
(* Producers call enqueue(), as NMEA0183Converter::HandleMessage does on   *)
(* the UDP thread.  Consumers run the loop of NMEA0183Converter::Thread:   *)
(* ask isEmpty(), then call dequeue(), or sleep and ask again.  One step   *)
(* is what a thread does between two points where another may run: the     *)
(* acquisition of m, the body under m, its release.                        *)
(*                                                                         *)
(* An operator named X_bug_... is X with a defect seeded in it.  The       *)
(* specification does not use it; it is there to show that a property      *)
(* notices the defect.                                                     *)
(***************************************************************************)
EXTENDS Naturals, Sequences, FiniteSets

CONSTANTS
  Producers,   \* threads that enqueue
  Consumers,   \* threads that run the isEmpty/dequeue loop
  NoThread,    \* the owner of a free mutex
  MaxPuts      \* bound: enqueues of each producer

Threads == Producers \cup Consumers

ASSUME QueueAssumption ==
  /\ Producers \cap Consumers = {}
  /\ IsFiniteSet(Consumers)
  /\ NoThread \notin Threads
  /\ MaxPuts \in Nat

VARIABLES
  q,      \* the std::queue
  m,      \* owner of the mutex
  cw,     \* threads blocked in c.wait
  pc,     \* where each thread is
  made,   \* enqueues each producer has performed
  put,    \* history: the values pushed, in order
  got     \* history: the values popped, in order

vars == <<q, m, cw, pc, made, put, got>>

Values == Producers \X (1 .. MaxPuts)

Init ==
  /\ q = <<>>
  /\ m = NoThread
  /\ cw = {}
  /\ pc = [t \in Threads |-> "idle"]
  /\ made = [p \in Producers |-> 0]
  /\ put = <<>>
  /\ got = <<>>

(* t takes the mutex, which must be free. *)
Acquire(t, from, to) ==
  /\ pc[t] = from
  /\ m = NoThread
  /\ m' = t
  /\ pc' = [pc EXCEPT ![t] = to]
  /\ UNCHANGED <<q, cw, made, put, got>>

-----------------------------------------------------------------------------
(* enqueue: lock; push, notify_one; unlock. *)

EnqueueLock(p) == made[p] < MaxPuts /\ Acquire(p, "idle", "push")

(* the element is pushed but c.notify_one is not called *)
EnqueuePush_bug_no_notify(p) ==
  LET v == <<p, made[p] + 1>> IN
  /\ pc[p] = "push"
  /\ q' = Append(q, v)
  /\ put' = Append(put, v)
  /\ made' = [made EXCEPT ![p] = @ + 1]
  /\ pc' = [pc EXCEPT ![p] = "unlock"]
  /\ UNCHANGED <<m, cw, got>>

EnqueuePush(p) ==
  LET v == <<p, made[p] + 1>> IN
  /\ pc[p] = "push"
  /\ q' = Append(q, v)
  /\ put' = Append(put, v)
  /\ made' = [made EXCEPT ![p] = @ + 1]
  /\ \/ cw = {} /\ UNCHANGED cw /\ pc' = [pc EXCEPT ![p] = "unlock"]
     \/ \E c \in cw :
          /\ cw' = cw \ {c}
          /\ pc' = [pc EXCEPT ![p] = "unlock", ![c] = "relock"]
  /\ UNCHANGED <<m, got>>

EnqueueUnlock(p) ==
  /\ pc[p] = "unlock"
  /\ m' = NoThread
  /\ pc' = [pc EXCEPT ![p] = "idle"]
  /\ UNCHANGED <<q, cw, made, put, got>>

-----------------------------------------------------------------------------
(* The consumer's loop: isEmpty, then dequeue when it returned false. *)

IsEmptyLock(c) == Acquire(c, "idle", "isEmpty")

(* the answer is taken the wrong way round *)
IsEmptyReturn_bug_inverted(c) ==
  /\ pc[c] = "isEmpty"
  /\ m' = NoThread
  /\ pc' = [pc EXCEPT ![c] = IF q = <<>> THEN "dequeue" ELSE "idle"]
  /\ UNCHANGED <<q, cw, made, put, got>>

IsEmptyReturn(c) ==
  /\ pc[c] = "isEmpty"
  /\ m' = NoThread
  /\ pc' = [pc EXCEPT ![c] = IF q = <<>> THEN "idle" ELSE "dequeue"]
  /\ UNCHANGED <<q, cw, made, put, got>>

DequeueLock(c) == Acquire(c, "dequeue", "test")

(* while (q.empty()) c.wait(lock): the wait releases m. *)
DequeueWait(c) ==
  /\ pc[c] = "test"
  /\ q = <<>>
  /\ m' = NoThread
  /\ cw' = cw \cup {c}
  /\ pc' = [pc EXCEPT ![c] = "waiting"]
  /\ UNCHANGED <<q, made, put, got>>

(* A condition variable may wake a waiter that nobody notified. *)
SpuriousWakeup(c) ==
  /\ c \in cw
  /\ cw' = cw \ {c}
  /\ pc' = [pc EXCEPT ![c] = "relock"]
  /\ UNCHANGED <<q, m, made, put, got>>

(* wait returns only once it owns m again; the loop then tests again. *)
WaitRelock(c) == Acquire(c, "relock", "test")

DequeueTake(c) ==
  /\ pc[c] = "test"
  /\ q # <<>>
  /\ got' = Append(got, Head(q))
  /\ q' = Tail(q)
  /\ m' = NoThread
  /\ pc' = [pc EXCEPT ![c] = "idle"]
  /\ UNCHANGED <<cw, made, put>>

-----------------------------------------------------------------------------
ProducerStep(p) == EnqueuePush(p) \/ EnqueueUnlock(p)

ConsumerStep(c) ==
  \/ IsEmptyLock(c) \/ IsEmptyReturn(c)
  \/ DequeueLock(c) \/ DequeueWait(c) \/ WaitRelock(c) \/ DequeueTake(c)

Next ==
  \/ \E p \in Producers : EnqueueLock(p) \/ ProducerStep(p)
  \/ \E c \in Consumers : ConsumerStep(c) \/ SpuriousWakeup(c)

Spec == Init /\ [][Next]_vars

(* Every thread that has begun an operation keeps running; nobody has to   *)
(* begin an enqueue, and no spurious wakeup has to happen.                 *)
FairSpec ==
  /\ Spec
  /\ \A p \in Producers : WF_vars(ProducerStep(p))
  /\ \A c \in Consumers : WF_vars(ConsumerStep(c))

-----------------------------------------------------------------------------
(* Consumers that will look at the queue again without being notified. *)
Awake == {c \in Consumers : pc[c] \in {"dequeue", "relock", "test"}}

(* Types, with the bookkeeping that the wait set is exactly the threads    *)
(* standing in c.wait (SafeQueue.h:38).                                    *)
TypeOK ==
  /\ q \in Seq(Values)
  /\ m \in Threads \cup {NoThread}
  /\ pc \in [Threads -> {"idle", "push", "unlock", "isEmpty", "dequeue",
                         "test", "waiting", "relock"}]
  /\ \A p \in Producers : pc[p] \in {"idle", "push", "unlock"}
  /\ \A c \in Consumers : pc[c] \notin {"push", "unlock"}
  /\ cw = {c \in Consumers : pc[c] = "waiting"}
  /\ made \in [Producers -> 0 .. MaxPuts]
  /\ \A p \in Producers : pc[p] = "push" => made[p] < MaxPuts
  /\ put \in Seq(Values)
  /\ got \in Seq(Values)

(* A thread is between lock and unlock exactly when it owns the mutex, so  *)
(* no two threads touch the std::queue together (lock_guard, unique_lock). *)
MutexInv ==
  \A t \in Threads : pc[t] \in {"push", "unlock", "isEmpty", "test"} <=> m = t

(* What was pushed is what was popped followed by what is still queued:    *)
(* no element lost, duplicated or overtaken by enqueue/dequeue.            *)
Conservation == put = got \o q

(* enqueue's notify_one loses no wakeup: while someone sleeps in c.wait,   *)
(* there are at least as many awake consumers as queued elements, so no    *)
(* element is left to a thread that nobody will wake.                      *)
NoLostWakeup == cw # {} => Len(q) <= Cardinality(Awake)

(* The types, the lock, the elements and the wakeups. *)
QueueInv == TypeOK /\ MutexInv /\ Conservation /\ NoLostWakeup

(* The converter asks isEmpty() and only later calls dequeue(), which is   *)
(* safe because it is the only consumer: dequeue then never blocks, and    *)
(* the thread always returns to its loop test, so StopThread can join it.  *)
SoleConsumerNeverWaits == Cardinality(Consumers) = 1 => cw = {}

(* Every element pushed is eventually popped.                              *)
Delivered == \A n \in 1 .. MaxPuts * Cardinality(Producers) :
                Len(put) >= n ~> Len(got) >= n

(* The queue, seen through its histories, is a FIFO.                       *)
Abstract == INSTANCE Fifo
FifoQueue == Abstract!Spec

(* A FIFO that hands over, in the end, what it was given.                  *)
QueueDelivers == FifoQueue /\ Delivered
=============================================================================
