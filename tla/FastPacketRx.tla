---------------------------- MODULE FastPacketRx ----------------------------
(***************************************************************************)
(* The receiving side of tNMEA2000: SetN2kCANBufMsg() puts the frames of   *)
(* several senders together, ParseMessages() hands a complete message on   *)
(* and frees its slot.                                                     *)
(*                                                                         *)
(* Each line, a PGN of a source, sends its messages one after the other    *)
(* as CanSend shows (consecutive frames, sequence counter modulo           *)
(* SeqModulus); frames of different lines interleave on the bus in any     *)
(* order, a frame may be lost or seen twice, and time passes.  CAN does    *)
(* not reorder, so a frame is received in the step that sends it.          *)
(***************************************************************************)
EXTENDS CanMsgBuf

CONSTANTS
  Lines,       \* pairs of a PGN and a source
  FastLines,   \* those whose PGN is a fast packet; the others send single frames
  Lengths,     \* frames a message of a line may have
  Dests,       \* destinations a line sends to
  SeqModulus,  \* 8: the sequence counter has three bits
  MaxMsgs,     \* bound: messages of each line
  MaxFaults,   \* bound: frames lost or repeated
  MaxTime      \* bound: the clock

ASSUME RxAssumption ==
  /\ NoLine \notin Lines
  /\ FastLines \subseteq Lines
  /\ Lengths \in [Lines -> SUBSET (Nat \ {0})]
  /\ \A l \in Lines \ FastLines : Lengths[l] = {1}
  /\ Dests \in [Lines -> SUBSET Nat]
  /\ SeqModulus \in Nat \ {0}
  /\ MaxMsgs \in [Lines -> Nat] /\ MaxFaults \in Nat /\ MaxTime \in Nat

VARIABLES
  buf,        \* N2kCANMsgBuf
  now,        \* N2kMillis()
  out,        \* per line: number, destination, length of the message being
              \* sent and the index of its next frame (0: none begun)
  intact,     \* history: all frames of the line's last message were received
              \* once, the first got a slot, and the slot was not timed out
  delivered,  \* history: messages handed to the application
  faults      \* frames lost or repeated (bounded by MaxFaults)

vars == <<buf, now, out, intact, delivered, faults>>

Parts == [msg : Nat, idx : Nat]   \* a frame in a slot: its message and number
Out == [msg : Nat, dst : Nat, len : Nat, idx : Nat]

Init ==
  /\ buf = EmptyBuf
  /\ now = 0
  /\ out = [l \in Lines |-> [msg |-> 0, dst |-> 0, len |-> 0, idx |-> 0]]
  /\ intact = [l \in Lines |-> FALSE]
  /\ delivered = {}
  /\ faults = 0

-----------------------------------------------------------------------------
(* SetN2kCANBufMsg() on a frame f of a line.  A later frame of a fast      *)
(* packet goes to the first slot of its line, whatever the destination, if *)
(* it is the one expected; otherwise the slot is freed.  LastFrame is the  *)
(* pair of sequence counter (tag) and frame number (last).                 *)
SlotOfLine(b, line) == FirstOf({i \in Slots : b[i].line = line /\ ~b[i].tp})

(* the sequence counter of a later frame is not compared *)
AddFrame_bug_no_sequence(b, f) ==
  LET i == SlotOfLine(b, f.line) IN
  IF i = NoSlot THEN b
  ELSE IF b[i].last + 1 = f.idx
  THEN [b EXCEPT ![i].last = f.idx,
                 ![i].got = Append(@, [msg |-> f.msg, idx |-> f.idx])]
  ELSE [b EXCEPT ![i] = Free]

AddFrame(b, f) ==
  LET i == SlotOfLine(b, f.line) IN
  IF i = NoSlot THEN b
  ELSE IF b[i].tag = f.msg % SeqModulus /\ b[i].last + 1 = f.idx
  THEN [b EXCEPT ![i].last = f.idx,
                 ![i].got = Append(@, [msg |-> f.msg, idx |-> f.idx])]
  ELSE [b EXCEPT ![i] = Free]

(* the last free slot is taken, behind an unfinished message of the line *)
StartMessage_bug_last_slot(b, f) ==
  LET i == FindFreeCANMsgIndex(b, f.line, f.dst, FALSE, now)
      top == {j \in Slots : b[j].free /\ \A k \in Slots : b[k].free => k <= j}
  IN IF i = NoSlot THEN b
     ELSE [b EXCEPT ![IF top = {} THEN i ELSE Lowest(top)] =
             [free |-> FALSE, line |-> f.line, dst |-> f.dst, tp |-> FALSE,
              time |-> now, tag |-> f.msg % SeqModulus, last |-> 0,
              total |-> f.len, got |-> <<[msg |-> f.msg, idx |-> 0]>>]]

StartMessage(b, f) ==
  LET i == FindFreeCANMsgIndex(b, f.line, f.dst, FALSE, now) IN
  IF i = NoSlot THEN b
  ELSE [b EXCEPT ![i] =
          [free |-> FALSE, line |-> f.line, dst |-> f.dst, tp |-> FALSE,
           time |-> now, tag |-> f.msg % SeqModulus, last |-> 0,
           total |-> f.len, got |-> <<[msg |-> f.msg, idx |-> 0]>>]]

SetN2kCANBufMsg(b, f) ==
  IF f.line \in FastLines /\ f.idx # 0 THEN AddFrame(b, f) ELSE StartMessage(b, f)

(* The slots whose message is complete.  SetN2kCANBufMsg() returns the one *)
(* it changed; NothingHeldBack shows that there is never another.          *)
Ready(b) == {i \in Slots : ~b[i].free /\ Len(b[i].got) >= b[i].total}

(* ParseMessages() on a complete message: the handlers run, then           *)
(* FreeMessage().                                                          *)
Handed(b) == {[line |-> b[i].line, dst |-> b[i].dst, got |-> b[i].got] : i \in Ready(b)}
Freed(b) == [i \in Slots |-> IF i \in Ready(b) THEN Free ELSE b[i]]

-----------------------------------------------------------------------------
(* The next frame of a line; its first one chooses length and destination. *)
NextFrames(l) ==
  LET o == out[l] IN
  IF o.idx > 0
  THEN {[line |-> l, msg |-> o.msg, dst |-> o.dst, len |-> o.len, idx |-> o.idx]}
  ELSE {[line |-> l, msg |-> o.msg + 1, dst |-> d, len |-> n, idx |-> 0] :
          n \in IF o.msg < MaxMsgs[l] THEN Lengths[l] ELSE {}, d \in Dests[l]}

Advance(f) ==
  out' = [out EXCEPT ![f.line] =
            [msg |-> f.msg, dst |-> f.dst, len |-> f.len,
             idx |-> IF f.idx + 1 < f.len THEN f.idx + 1 ELSE 0]]

(* A slot that has reached the time-out may be taken over by another line. *)
StillIntact(k) ==
  /\ intact[k]
  /\ out[k].idx > 0 =>
       \A i \in Slots : buf[i].line = k => now < buf[i].time + MaxN2kMsgBufTime

(* The frame arrives n times in a row, each time one SetN2kCANBufMsg(). *)
Arrive(f, n) ==
  LET b1 == SetN2kCANBufMsg(buf, f)
      b2 == SetN2kCANBufMsg(Freed(b1), f)
  IN /\ buf' = IF n = 2 THEN Freed(b2) ELSE Freed(b1)
     /\ delivered' = delivered \cup Handed(b1)
                      \cup (IF n = 2 THEN Handed(b2) ELSE {})
     /\ intact' = [k \in Lines |->
          IF k # f.line THEN StillIntact(k)
          ELSE n = 1 /\ IF f.idx = 0 THEN b1 # buf ELSE StillIntact(k)]

Receive(l) ==
  \E f \in NextFrames(l) :
    Advance(f) /\ Arrive(f, 1) /\ UNCHANGED <<now, faults>>

(* A receiver may see a frame twice when its acknowledgement is lost. *)
Repeated(l) ==
  \E f \in NextFrames(l) :
    /\ faults < MaxFaults /\ faults' = faults + 1
    /\ Advance(f) /\ Arrive(f, 2) /\ UNCHANGED now

Lost(l) ==
  \E f \in NextFrames(l) :
    /\ faults < MaxFaults /\ faults' = faults + 1
    /\ Advance(f)
    /\ intact' = [intact EXCEPT ![l] = FALSE]
    /\ UNCHANGED <<buf, now, delivered>>

Tick ==
  /\ now < MaxTime /\ now' = now + 1
  /\ UNCHANGED <<buf, out, intact, delivered, faults>>

Next == Tick \/ \E l \in Lines : Receive(l) \/ Repeated(l) \/ Lost(l)

Spec == Init /\ [][Next]_vars

-----------------------------------------------------------------------------
(* The types.  A slot in use has begun with the first frame of a message. *)
SlotTypes ==
  [free : BOOLEAN, line : Lines \cup {NoLine}, dst : Nat, tp : {FALSE},
   time : 0 .. MaxTime, tag : 0 .. SeqModulus - 1, last : Nat, total : Nat,
   got : Seq(Parts)]
SlotType(s) ==
  IF s.free THEN s.line = NoLine /\ s.got = <<>>
  ELSE s.line \in Lines /\ Len(s.got) = s.last + 1

FastPacketTypeOK ==
  /\ buf \in [Slots -> SlotTypes] /\ \A i \in Slots : SlotType(buf[i])
  /\ now \in 0 .. MaxTime
  /\ out \in [Lines -> Out]
  /\ intact \in [Lines -> BOOLEAN]
  /\ delivered \subseteq [line : Lines, dst : Nat, got : Seq(Parts)]
  /\ faults \in 0 .. MaxFaults

(* A message handed on consists of the frames 0, 1, ... in their order, of *)
(* one line, whose messages have the same sequence counter: whatever is    *)
(* lost or repeated, frames of two messages are mixed only when a multiple *)
(* of SeqModulus messages lies between them (SetN2kCANBufMsg, LastFrame).  *)
InOrder(got) ==
  \A i \in DOMAIN got :
    got[i].idx = i - 1 /\ got[i].msg % SeqModulus = got[1].msg % SeqModulus
NoMixture == \A d \in delivered : InOrder(d.got)

(* No complete message stays in a slot: ParseMessages() handles the one    *)
(* slot SetN2kCANBufMsg() returned, and there is no other.                 *)
NothingHeldBack ==
  \A i \in Slots : ~buf[i].free => Len(buf[i].got) < buf[i].total

(* A line that sends to one destination loses no message by itself or by   *)
(* the frames of others: if its first frame got a slot, every frame came   *)
(* once and its slot was not timed out, the frames so far are found where  *)
(* the next one is looked for, and after the last one the message has been *)
(* handed on, even when an unfinished message of the line is still in      *)
(* another slot.                                                           *)
Whole(m, n) == [i \in 1 .. n |-> [msg |-> m, idx |-> i - 1]]
IntactDelivered ==
  \A l \in Lines, d \in UNION {Dests[k] : k \in Lines} :
    Dests[l] = {d} /\ intact[l] =>
      IF out[l].idx > 0
      THEN LET i == SlotOfLine(buf, l) IN
           i # NoSlot /\ buf[i].got = Whole(out[l].msg, out[l].idx)
      ELSE [line |-> l, dst |-> d, got |-> Whole(out[l].msg, out[l].len)] \in delivered

(* Slots of messages that were never completed do not block the receiver:  *)
(* as soon as one is as old as the time-out, a first frame gets a slot.    *)
StaleSlotReusable ==
  (\E i \in Slots : buf[i].time + MaxN2kMsgBufTime <= now)
    => \A l \in Lines : \A d \in Dests[l] :
         FindFreeCANMsgIndex(buf, l, d, FALSE, now) # NoSlot

(* A message being put together is given up only for its own line's sake,  *)
(* or after the time-out: no other line takes its slot before.             *)
NoEarlyTakeover ==
  [][\A i \in Slots :
       ~buf[i].free /\ buf'[i].line # buf[i].line
         => \/ out'[buf[i].line] # out[buf[i].line]
            \/ buf[i].time + MaxN2kMsgBufTime <= now]_vars

(* The types and what the slots hold: no mixture, and nothing complete.    *)
ReassemblyInv == FastPacketTypeOK /\ NoMixture /\ NothingHeldBack

(* A slot changes hands neither before the time-out nor much after it.     *)
TakeoverInTime == []StaleSlotReusable /\ NoEarlyTakeover
=============================================================================
