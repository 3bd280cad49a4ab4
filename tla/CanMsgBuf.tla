----------------------------- MODULE CanMsgBuf -----------------------------
(***************************************************************************)
(* N2kCANMsgBuf of tNMEA2000: the slots in which a receiver puts together  *)
(* messages of several frames (N2kCANMsg.h, NMEA2000.cpp).  A slot is      *)
(* found by the PGN, the source, the destination and the kind of transfer  *)
(* of a message.  Lines stands for the pairs of a PGN and a source: one    *)
(* line carries one message at a time.                                     *)
(*                                                                         *)
(* Bytes are abstracted to frames: a slot holds the parts copied so far    *)
(* and the number of parts its message needs.                              *)
(***************************************************************************)
EXTENDS Integers, Sequences

CONSTANTS
  MaxN2kCANMsgs,     \* slots, 5 in the library
  MaxN2kMsgBufTime   \* Max_N2kMsgBuf_Time: age at which a slot may be taken over

ASSUME BufAssumption ==
  /\ MaxN2kCANMsgs \in Nat \ {0}
  /\ MaxN2kMsgBufTime \in Nat

Slots == 0 .. MaxN2kCANMsgs - 1
NoSlot == MaxN2kCANMsgs
NoLine == "no PGN"      \* FreeMessage() clears PGN and source

(* A slot after FreeMessage(); Clear() sets PGN, length and time to 0. *)
Free == [free |-> TRUE, line |-> NoLine, dst |-> 0, tp |-> FALSE, time |-> 0,
         tag |-> 0, last |-> 0, total |-> 0, got |-> <<>>]

EmptyBuf == [i \in Slots |-> Free]

Lowest(S) == CHOOSE i \in S : \A j \in S : i <= j

(* The loop keeps the last of the slots with the smallest time, since      *)
(* N2kIsTimeBefore() holds of equal times.                                 *)
Oldest(buf) ==
  CHOOSE i \in Slots : \A j \in Slots :
    buf[i].time < buf[j].time \/ (buf[i].time = buf[j].time /\ j <= i)

Usable(buf, line, dst, tp) ==
  {i \in Slots : \/ buf[i].free
                 \/ buf[i].line = line /\ buf[i].dst = dst /\ buf[i].tp = tp}

(* only a slot of the same message is looked for, and the oldest is taken  *)
(* over whatever its age                                                   *)
FindFreeCANMsgIndex_bug_no_age(buf, line, dst, tp, now) ==
  IF Usable(buf, line, dst, tp) # {} THEN Lowest(Usable(buf, line, dst, tp))
  ELSE Oldest(buf)

(* FindFreeCANMsgIndex(): the first slot that is free or of this message,  *)
(* or else the oldest if it has timed out.                                 *)
FindFreeCANMsgIndex(buf, line, dst, tp, now) ==
  IF Usable(buf, line, dst, tp) # {} THEN Lowest(Usable(buf, line, dst, tp))
  ELSE IF buf[Oldest(buf)].time + MaxN2kMsgBufTime <= now THEN Oldest(buf)
  ELSE NoSlot

(* The first of the slots that satisfy a search, NoSlot if there is none. *)
FirstOf(S) == IF S = {} THEN NoSlot ELSE Lowest(S)
=============================================================================
