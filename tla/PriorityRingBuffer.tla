------------------------- MODULE PriorityRingBuffer -------------------------
(***************************************************************************)
(* tPriorityRingBuffer<T> (RingBuffer.h, RingBuffer.tpp): one circle of    *)
(* slots for all priorities.  The slots of a priority are chained from     *)
(* refs[p].next to refs[p].last.  A slot that is read out of turn stays    *)
(* between tail and head, marked as released, until tail passes it.        *)
(***************************************************************************)
EXTENDS Integers, Sequences, FiniteSets

CONSTANTS
  RequestedSize, RequestedPriorities,   \* of the constructor
  Values,
  Nothing

\* Assumed of the constants.
PriorityRingAssumption ==
  /\ RequestedSize \in 0 .. 65534
  /\ RequestedPriorities \in 0 .. 255

Size == IF RequestedSize < 3 THEN 3 ELSE RequestedSize
maxPriorities ==
  CASE RequestedPriorities < 1   -> 1
    [] RequestedPriorities = 255 -> 254
    [] OTHER -> RequestedPriorities

Priorities == 0 .. maxPriorities - 1
Slots == 0 .. Size - 1
InvalidRef == 65535
InvalidPriority == 255
NoRef == [next |-> InvalidRef, last |-> InvalidRef]

VARIABLES
  buffer,       \* the slots: [Value, next, priority]
  refs,         \* priorityReferencies
  head, tail,
  taken         \* history: the last value read, see PriorityFifo

vars == <<buffer, refs, head, tail, taken>>

Next1(slot) == (slot + 1) % Size

\* The slots have no constructor: their first contents do not matter, and
\* one of the many stands for them.
Init ==
  /\ buffer \in {[s \in Slots |-> [Value |-> v, next |-> 0, priority |-> 0]]
                  : v \in Values}
  /\ refs = [p \in Priorities |-> NoRef]
  /\ head = 0 /\ tail = 0
  /\ taken = Nothing

Clipped(p) == IF p >= maxPriorities THEN maxPriorities - 1 ELSE p

isEmpty(p) ==
  IF p >= maxPriorities THEN head = tail ELSE refs[p].next = InvalidRef

count == IF head - tail < 0 THEN head - tail + Size ELSE head - tail

-----------------------------------------------------------------------------
(* add, and getAddRef with the value its caller then stores.  clean(),     *)
(* which a full buffer calls to make room, does nothing.                   *)
add(v, asked) ==
  LET p == Clipped(asked)
      first == refs[p].next = InvalidRef
      slot == [Value |-> v, next |-> InvalidRef, priority |-> p]
      filled == [buffer EXCEPT ![head] = slot]
  IN /\ Next1(head) # tail
     /\ buffer' = IF first THEN filled
                  ELSE [filled EXCEPT ![refs[p].last].next = head]
     /\ refs' = [refs EXCEPT ![p].next = IF first THEN head ELSE @,
                             ![p].last = head]
     /\ head' = Next1(head)
     /\ UNCHANGED <<tail, taken>>

\* The next slot that is in use, or head.
TailAfter(t) ==
  LET ahead(k) == (t + k) % Size
      stops(k) == \/ ahead(k) = head
                  \/ buffer[ahead(k)].priority # InvalidPriority
  IN ahead(CHOOSE k \in 1 .. Size :
             stops(k) /\ \A j \in 1 .. k - 1 : ~stops(j))

Unlinked(p) ==
  LET after == buffer[refs[p].next].next
  IN [refs EXCEPT ![p] = IF after = InvalidRef THEN NoRef
                         ELSE [@ EXCEPT !.next = after]]

Release(p, how) ==
  LET slot == refs[p].next
  IN /\ slot # InvalidRef
     /\ taken' = [value |-> buffer[slot].Value, from |-> how]
     /\ refs' = Unlinked(p)
     /\ tail' = IF slot = tail THEN TailAfter(tail) ELSE tail
     /\ buffer' = [buffer EXCEPT ![slot].next = InvalidRef,
                                 ![slot].priority = InvalidPriority]
     /\ UNCHANGED head

getReadRef(asked) == Release(Clipped(asked), "named")

\* Seeded error: the priorities are searched from the wrong end.
Urgent_bug_reversed(p) == \A other \in p + 1 .. maxPriorities - 1 : isEmpty(other)

Urgent(p) == \A other \in 0 .. p - 1 : isEmpty(other)

\* read, and getReadRef without a priority.
read == \E p \in Priorities : ~isEmpty(p) /\ Urgent(p) /\ Release(p, "any")

clear ==
  /\ head' = 0 /\ tail' = 0
  /\ refs' = [p \in Priorities |-> NoRef]
  /\ UNCHANGED <<buffer, taken>>

Next ==
  \/ \E v \in Values, p \in 0 .. maxPriorities : add(v, p)
  \/ \E p \in 0 .. maxPriorities : getReadRef(p)
  \/ read
  \/ clear

Spec == Init /\ [][Next]_vars

-----------------------------------------------------------------------------
\* The slots between tail and head, and those of them in use.
Between == {(tail + k) % Size : k \in 0 .. count - 1}
InUse == {s \in Between : buffer[s].priority # InvalidPriority}

\* The slots of a priority, from the oldest.
Chain(p) ==
  LET next[s \in Slots \cup {InvalidRef}, n \in 0 .. Size] ==
        IF s = InvalidRef \/ n = 0 THEN <<>>
        ELSE <<s>> \o next[buffer[s].next, n - 1]
  IN next[refs[p].next, Size]

\* The chains hold every slot in use once, under its own priority, in the
\* order of the circle; the slot at tail is in use unless nothing is, so the
\* room of released slots comes back and isEmpty() without a priority agrees
\* with the priorities.
SlotsAccounted ==
  /\ \A p \in Priorities :
       LET chain == Chain(p)
           mine == {s \in InUse : buffer[s].priority = p}
       IN /\ {chain[k] : k \in DOMAIN chain} = mine
          /\ Len(chain) = Cardinality(mine)
          /\ chain # <<>> => refs[p].last = chain[Len(chain)]
          /\ \A k \in 2 .. Len(chain) :
               (chain[k - 1] - tail) % Size < (chain[k] - tail) % Size
  /\ \A s \in InUse : buffer[s].priority \in Priorities
  /\ head # tail => tail \in InUse
  /\ isEmpty(maxPriorities) <=> \A p \in Priorities : isEmpty(p)

Abstract == INSTANCE PriorityFifo WITH
  Levels <- maxPriorities,
  held <- [p \in Priorities |->
             LET chain == Chain(p)
             IN [k \in DOMAIN chain |-> buffer[chain[k]].Value]]

\* Each priority is a queue, and a read without a priority takes from the
\* most urgent one that is not empty.
IsPriorityQueue == Abstract!Spec
=============================================================================
