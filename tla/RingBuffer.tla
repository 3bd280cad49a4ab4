----------------------------- MODULE RingBuffer -----------------------------
(***************************************************************************)
(* tRingBuffer<T> (RingBuffer.h, RingBuffer.tpp): values in a circle of    *)
(* slots.  head is the next slot to write, tail the next to read; the      *)
(* slot before tail stays free, so that full and empty differ.             *)
(*                                                                         *)
(* read() copies a value out; getReadRef() hands out a reference into the  *)
(* circle, which its caller may look at until it reads again.              *)
(***************************************************************************)
EXTENDS Integers, Sequences

CONSTANTS
  RequestedSize,    \* the _size of the constructor
  Values,           \* what is stored
  Nothing           \* neither a value nor a slot

\* Assumed of the constants.
RingAssumption == RequestedSize \in 0 .. 65535 /\ Nothing \notin Values

\* The constructor makes every buffer at least 3 slots large.
Size == IF RequestedSize < 3 THEN 3 ELSE RequestedSize

VARIABLES
  buffer, head, tail,
  ref,              \* the slot getReadRef() handed out last
  taken             \* history: the last value read, see PriorityFifo

vars == <<buffer, head, tail, ref, taken>>

Next1(slot) == (slot + 1) % Size

\* new T[size]: nobody has written the slots yet.
Init ==
  /\ buffer \in {[slot \in 0 .. Size - 1 |-> v] : v \in Values}
  /\ head = 0 /\ tail = 0
  /\ ref = Nothing
  /\ taken = Nothing

isEmpty == head = tail

\* head - tail is an int32_t; a negative difference is one round too little.
count == IF head - tail < 0 THEN head - tail + Size ELSE head - tail

Full == Next1(head) = tail

\* add, and getAddRef with the value its caller then stores.
add(v) ==
  /\ ~Full
  /\ buffer' = [buffer EXCEPT ![head] = v]
  /\ head' = Next1(head)
  /\ UNCHANGED <<tail, ref, taken>>

Taken(how) == taken' = [value |-> buffer[tail], from |-> how]

read ==
  /\ ~isEmpty
  /\ Taken("any")
  /\ tail' = Next1(tail)
  /\ ref' = Nothing
  /\ UNCHANGED <<buffer, head>>

getReadRef ==
  /\ ~isEmpty
  /\ Taken("any")
  /\ ref' = tail
  /\ tail' = Next1(tail)
  /\ UNCHANGED <<buffer, head>>

clear ==
  /\ head' = 0 /\ tail' = 0
  /\ ref' = Nothing
  /\ UNCHANGED <<buffer, taken>>

Next == (\E v \in Values : add(v)) \/ read \/ getReadRef \/ clear

Spec == Init /\ [][Next]_vars

-----------------------------------------------------------------------------
\* The values not read yet, oldest first; the first is what peek() shows.
Held == [k \in 1 .. count |-> buffer[(tail + k - 1) % Size]]

Abstract == INSTANCE PriorityFifo WITH
  Levels <- 1, held <- [p \in {0} |-> Held]

\* The circle is a queue: nothing is lost, repeated or overtaken by add and
\* read, round after round.
IsQueue == Abstract!Spec

\* The reference handed out by getReadRef keeps its value until the next
\* read, however much is added meanwhile: add never fills the slot before
\* tail.
ReferenceKept == ref # Nothing => buffer[ref] = taken.value
=============================================================================
