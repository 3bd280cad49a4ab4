---------------------------- MODULE PriorityFifo ----------------------------
(***************************************************************************)
(* What the ring buffers of RingBuffer.h promise: values are held in a     *)
(* queue for each priority, 0 the most urgent.  A reader takes the oldest  *)
(* value of a priority it names, or of the most urgent priority that holds *)
(* any.  How much room there is, is not said here.                         *)
(***************************************************************************)
EXTENDS Naturals, Sequences

CONSTANTS
  Values,       \* what is held
  Levels,       \* how many priorities there are
  Nothing       \* what was taken before anything was

VARIABLES
  held,         \* the queue of each priority
  taken         \* the last value handed over

vars == <<held, taken>>

Priorities == 0 .. Levels - 1

Init ==
  /\ held = [p \in Priorities |-> <<>>]
  /\ taken = Nothing

Put(p, v) ==
  /\ held' = [held EXCEPT ![p] = Append(@, v)]
  /\ UNCHANGED taken

TakeFrom(p) ==
  /\ held[p] # <<>>
  /\ taken' = [value |-> Head(held[p]), from |-> "named"]
  /\ held' = [held EXCEPT ![p] = Tail(@)]

TakeMostUrgent ==
  \E p \in Priorities :
    /\ held[p] # <<>>
    /\ \A urgent \in 0 .. p - 1 : held[urgent] = <<>>
    /\ taken' = [value |-> Head(held[p]), from |-> "any"]
    /\ held' = [held EXCEPT ![p] = Tail(@)]

Clear ==
  /\ held' = [p \in Priorities |-> <<>>]
  /\ UNCHANGED taken

Next ==
  \/ \E p \in Priorities, v \in Values : Put(p, v)
  \/ \E p \in Priorities : TakeFrom(p)
  \/ TakeMostUrgent
  \/ Clear

Spec == Init /\ [][Next]_vars
=============================================================================
