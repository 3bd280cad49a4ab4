-------------------------------- MODULE Fifo --------------------------------
(***************************************************************************)
(* What every queue of the gateway promises, whatever it is built from:    *)
(* the values taken out are the values put in, in the same order, none     *)
(* lost, none repeated.  The state is the two histories.                   *)
(***************************************************************************)
EXTENDS Naturals, Sequences

CONSTANT Values

VARIABLES
  put,    \* every value the queue has accepted, oldest first
  got     \* every value it has handed over, oldest first

vars == <<put, got>>

Init == put = <<>> /\ got = <<>>

(* put grows by one value; said without naming it, Values may be infinite. *)
OneMorePut ==
  /\ put' \in Seq(Values)
  /\ Len(put') = Len(put) + 1
  /\ SubSeq(put', 1, Len(put)) = put

(* The queue accepts a value and keeps it. *)
Put == OneMorePut /\ UNCHANGED got

(* The same for a value that is known. *)
PutValue(v) == put' = Append(put, v) /\ UNCHANGED got

(* The queue hands over the oldest value it still holds. *)
Get ==
  /\ Len(got) < Len(put)
  /\ got' = Append(got, put[Len(got) + 1])
  /\ UNCHANGED put

(* A value accepted while nothing is held may be handed over at once. *)
PassThrough == got = put /\ OneMorePut /\ got' = put'

Next == Put \/ Get \/ PassThrough

Spec == Init /\ [][Next]_vars
=============================================================================
