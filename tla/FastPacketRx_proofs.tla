------------------------ MODULE FastPacketRx_proofs ------------------------
(***************************************************************************)
(* FastPacketRx for any number of slots and lines, messages of any length, *)
(* any sequence modulus and any number of faults.                          *)
(*                                                                         *)
(* Everything follows from what a slot in use holds (SlotKept): the frames *)
(* 0, 1, ... of its line under one sequence counter.  One call of          *)
(* SetN2kCANBufMsg() changes at most one slot, of the frame's line, free,  *)
(* or timed out (SetEffect).  IntactKept follows the message of one line   *)
(* from slot to slot until it is handed on.                                *)
(***************************************************************************)
EXTENDS FastPacketRx, SequenceTheorems, WellFoundedInduction, TLAPS

Frames == [line : Lines, msg : Nat, dst : Nat, len : Nat, idx : Nat]
FrameOK(f) ==
  /\ f \in Frames
  /\ f.dst \in Dests[f.line] /\ f.len \in Lengths[f.line] /\ f.idx < f.len

(* What a slot in use holds. *)
SlotKept(s) ==
  ~s.free => /\ InOrder(s.got) /\ s.got[1].msg % SeqModulus = s.tag
             /\ s.dst \in Dests[s.line]

BufOK(b) ==
  /\ b \in [Slots -> SlotTypes]
  /\ \A i \in Slots : SlotType(b[i]) /\ SlotKept(b[i])

Stale(s) == s.time + MaxN2kMsgBufTime <= now

-----------------------------------------------------------------------------
(* The searches through the slots. *)

(* The least element, from the well-foundedness of < on Nat. *)
LEMMA LeastExists ==
  ASSUME NEW S \in SUBSET Nat, S # {}
  PROVE  \E i \in S : \A j \in S : i <= j
<1>1. PICK i \in S : \A j \in S : <<j, i>> \notin OpToRel(<, Nat)
  BY NatLessThanWellFounded, WFMin
<1>2. ASSUME NEW j \in S PROVE i <= j
  <2>1. ~(j < i)
    BY <1>1 DEF OpToRel
  <2> QED
    BY <2>1
<1> QED
  BY <1>2

LEMMA LowestIsLeast ==
  ASSUME NEW S \in SUBSET Slots, S # {}
  PROVE  Lowest(S) \in S /\ \A j \in S : Lowest(S) <= j
<1>1. S \in SUBSET Nat
  BY BufAssumption DEF Slots
<1>2. \E i \in S : \A j \in S : i <= j
  BY <1>1, LeastExists
<1> QED
  BY <1>2 DEF Lowest

(* FindFreeCANMsgIndex() finds the last of the slots with the least time. *)
LEMMA OldestIsOldest ==
  ASSUME NEW b, BufOK(b)
  PROVE  Oldest(b) \in Slots /\ \A j \in Slots : b[Oldest(b)].time <= b[j].time
<1>t. /\ \A j \in Slots : b[j].time \in Nat /\ j \in Nat
      /\ 0 \in Slots /\ MaxN2kCANMsgs \in Nat
  <2>1. \A j \in Slots : b[j].time \in 0 .. MaxTime
    BY DEF BufOK, SlotTypes
  <2>2. 0 .. MaxTime \subseteq Nat /\ Slots \subseteq Nat /\ 0 \in Slots
    BY RxAssumption, BufAssumption DEF Slots
  <2> QED
    BY <2>1, <2>2, BufAssumption
<1> DEFINE T == {b[j].time : j \in Slots}
<1>1. PICK t \in T : \A u \in T : t <= u
  BY <1>t, LeastExists
<1> DEFINE D == {MaxN2kCANMsgs - 1 - j : j \in {k \in Slots : b[k].time = t}}
<1>2. PICK d \in D : \A e \in D : d <= e
  <2>1. D \in SUBSET Nat
    BY <1>t DEF Slots
  <2>2. D # {}
    BY <1>1
  <2> QED
    BY <2>1, <2>2, LeastExists
<1>3. PICK i \in Slots : b[i].time = t /\ d = MaxN2kCANMsgs - 1 - i
  OBVIOUS
<1>4. ASSUME NEW j \in Slots
      PROVE  b[i].time < b[j].time \/ (b[i].time = b[j].time /\ j <= i)
  <2>1. t <= b[j].time
    BY <1>1
  <2>2. CASE b[j].time = t
    <3>1. d <= MaxN2kCANMsgs - 1 - j
      BY <1>2, <2>2
    <3>2. j <= i
      BY <3>1, <1>3, <1>t
    <3> QED
      BY <3>2, <2>2, <1>3
  <2>3. CASE b[j].time # t
    BY <2>1, <2>3, <1>3, <1>t
  <2> QED
    BY <2>2, <2>3
<1>5. \E k \in Slots : \A j \in Slots :
         b[k].time < b[j].time \/ (b[k].time = b[j].time /\ j <= k)
  BY <1>4
<1>6. /\ Oldest(b) \in Slots
      /\ \A j \in Slots : \/ b[Oldest(b)].time < b[j].time
                          \/ b[Oldest(b)].time = b[j].time /\ j <= Oldest(b)
  BY <1>5 DEF Oldest
<1> QED
  BY <1>6, <1>t

(* A slot found is free, of this message or timed out, and no later than   *)
(* any slot of this message.                                               *)
LEMMA FoundSlot ==
  ASSUME NEW b, BufOK(b), NEW l, NEW d, NEW i,
         i = FindFreeCANMsgIndex(b, l, d, FALSE, now), i # NoSlot
  PROVE  /\ i \in Slots
         /\ b[i].free \/ b[i].line = l \/ Stale(b[i])
         /\ \A j \in Slots : b[j].line = l /\ b[j].dst = d => i <= j
<1>t. \A j \in Slots : b[j].tp = FALSE
  BY DEF BufOK, SlotTypes
<1>1. CASE Usable(b, l, d, FALSE) # {}
  <2>1. i = Lowest(Usable(b, l, d, FALSE))
    BY <1>1 DEF FindFreeCANMsgIndex
  <2>2. Usable(b, l, d, FALSE) \in SUBSET Slots
    BY DEF Usable
  <2>3. /\ i \in Usable(b, l, d, FALSE)
        /\ \A j \in Usable(b, l, d, FALSE) : i <= j
    BY <1>1, <2>1, <2>2, LowestIsLeast
  <2> QED
    BY <2>3, <1>t DEF Usable
<1>2. CASE Usable(b, l, d, FALSE) = {}
  <2>1. i = Oldest(b) /\ Stale(b[i])
    BY <1>2 DEF FindFreeCANMsgIndex, Stale
  <2>2. i \in Slots
    BY <2>1, OldestIsOldest
  <2>3. \A j \in Slots : ~(b[j].line = l /\ b[j].dst = d)
    BY <1>2, <1>t DEF Usable
  <2> QED
    BY <2>1, <2>2, <2>3
<1> QED
  BY <1>1, <1>2

LEMMA FirstOfLine ==
  ASSUME NEW b, BufOK(b), NEW l, NEW i, i = SlotOfLine(b, l), i # NoSlot
  PROVE  /\ i \in Slots /\ b[i].line = l
         /\ \A j \in Slots : b[j].line = l => i <= j
<1> DEFINE S == {j \in Slots : b[j].line = l /\ ~b[j].tp}
<1>1. S # {} /\ i = Lowest(S)
  BY DEF SlotOfLine, FirstOf
<1>2. S \in SUBSET Slots
  OBVIOUS
<1>3. i \in S /\ \A j \in S : i <= j
  BY <1>1, <1>2, LowestIsLeast
<1>4. \A j \in Slots : b[j].line = l => j \in S
  BY DEF BufOK, SlotTypes
<1> QED
  BY <1>3, <1>4

(* The least slot of a line is the one found. *)
LEMMA FirstOfLineIs ==
  ASSUME NEW b, BufOK(b), NEW l, NEW i \in Slots, b[i].line = l,
         \A j \in Slots : b[j].line = l => i <= j
  PROVE  SlotOfLine(b, l) = i
<1> DEFINE S == {j \in Slots : b[j].line = l /\ ~b[j].tp}
<1>1. S \in SUBSET Slots /\ i \in S
  BY DEF BufOK, SlotTypes
<1>2. Lowest(S) \in S /\ \A j \in S : Lowest(S) <= j
  BY <1>1, LowestIsLeast
<1>3. \A j \in S : j \in Slots /\ b[j].line = l
  OBVIOUS
<1> HIDE DEF S
<1>4. Lowest(S) <= i /\ i <= Lowest(S)
  BY <1>1, <1>2, <1>3
<1>5. Lowest(S) \in Nat /\ i \in Nat
  BY <1>2, <1>3, BufAssumption DEF Slots
<1>6. Lowest(S) = i
  BY <1>4, <1>5
<1> QED
  BY <1>1, <1>6 DEF SlotOfLine, FirstOf, S

-----------------------------------------------------------------------------
(* SetN2kCANBufMsg() and FreeMessage(). *)

LEMMA FreeOK ==
  Free \in SlotTypes /\ SlotType(Free) /\ SlotKept(Free) /\ Free.free /\ Free.line = NoLine
<1>1. 0 \in 0 .. MaxTime /\ 0 \in 0 .. SeqModulus - 1 /\ 0 \in Nat /\ <<>> \in Seq(Parts)
  BY RxAssumption
<1>2. Free \in SlotTypes
  BY <1>1 DEF Free, SlotTypes
<1> QED
  BY <1>2 DEF Free, SlotType, SlotKept

(* The next part of a message in order. *)
LEMMA PartAdded ==
  ASSUME NEW got \in Seq(Parts), InOrder(got), got # <<>>, NEW m \in Nat, NEW k \in Nat,
         Len(got) = k, m % SeqModulus = got[1].msg % SeqModulus
  PROVE  LET g == Append(got, [msg |-> m, idx |-> k])
         IN g \in Seq(Parts) /\ Len(g) = k + 1 /\ InOrder(g) /\ g[1] = got[1]
<1> DEFINE p == [msg |-> m, idx |-> k]
           g == Append(got, p)
<1>1. p \in Parts
  BY DEF Parts
<1>2. /\ g \in Seq(Parts) /\ Len(g) = k + 1 /\ g[k + 1] = p
      /\ \A i \in 1 .. k : g[i] = got[i]
  BY <1>1
<1>3. 1 \in 1 .. k
  BY <1>1
<1>4. ASSUME NEW i \in DOMAIN g
      PROVE  g[i].idx = i - 1 /\ g[i].msg % SeqModulus = g[1].msg % SeqModulus
  <2>1. i \in 1 .. k \/ i = k + 1
    BY <1>2
  <2>2. CASE i \in 1 .. k
    <3>1. i \in DOMAIN got
      BY <2>2
    <3> QED
      BY <3>1, <1>2, <1>3, <2>2 DEF InOrder
  <2>3. CASE i = k + 1
    BY <2>3, <1>2, <1>3
  <2> QED
    BY <2>1, <2>2, <2>3
<1> QED
  BY <1>2, <1>3, <1>4 DEF InOrder

LEMMA AddFrameOK ==
  ASSUME NEW b, BufOK(b), NEW f, FrameOK(f)
  PROVE  /\ BufOK(AddFrame(b, f))
         /\ \A j \in Slots : AddFrame(b, f)[j] # b[j] =>
              b[j].line = f.line /\ AddFrame(b, f)[j].line \in {f.line, NoLine}
<1> DEFINE i == SlotOfLine(b, f.line)
           b1 == AddFrame(b, f)
<1>1. CASE i = NoSlot
  BY <1>1 DEF AddFrame
<1>2. CASE i # NoSlot
  <2>1. i \in Slots /\ b[i].line = f.line
    BY <1>2, FirstOfLine
  <2>2. /\ f.line \in Lines /\ f.line # NoLine /\ f.msg \in Nat /\ f.idx \in Nat
        /\ b[i] \in SlotTypes /\ SlotType(b[i]) /\ SlotKept(b[i]) /\ b \in [Slots -> SlotTypes]
    BY <2>1, RxAssumption DEF FrameOK, Frames, BufOK
  <2>3. /\ ~b[i].free /\ Len(b[i].got) = b[i].last + 1
        /\ InOrder(b[i].got) /\ b[i].got[1].msg % SeqModulus = b[i].tag
        /\ b[i].got \in Seq(Parts) /\ b[i].last \in Nat /\ b[i].dst \in Dests[b[i].line]
    BY <2>1, <2>2 DEF SlotType, SlotKept, SlotTypes
  <2>4. CASE b[i].tag = f.msg % SeqModulus /\ b[i].last + 1 = f.idx
    <3> DEFINE g == Append(b[i].got, [msg |-> f.msg, idx |-> f.idx])
               s == [b[i] EXCEPT !.last = f.idx, !.got = g]
    <3>1. b1 = [b EXCEPT ![i] = s]
      BY <1>2, <2>1, <2>2, <2>4 DEF AddFrame, SlotTypes
    <3>2. g \in Seq(Parts) /\ Len(g) = f.idx + 1 /\ InOrder(g) /\ g[1] = b[i].got[1]
      <4>1. b[i].got # <<>> /\ Len(b[i].got) = f.idx
        BY <2>3, <2>4
      <4> QED
        BY <4>1, <2>2, <2>3, <2>4, PartAdded
    <3>3. /\ s \in SlotTypes /\ s.free = b[i].free /\ s.line = b[i].line
          /\ s.got = g /\ s.last = f.idx /\ s.tag = b[i].tag /\ s.dst = b[i].dst
      <4> HIDE DEF g
      <4> QED
        BY <2>2, <3>2 DEF SlotTypes
    <3> HIDE DEF g, s
    <3>4. SlotType(s) /\ SlotKept(s)
      BY <2>1, <2>2, <2>3, <3>2, <3>3 DEF SlotType, SlotKept
    <3> QED
      BY <2>1, <2>2, <3>1, <3>3, <3>4 DEF BufOK
  <2>5. CASE ~(b[i].tag = f.msg % SeqModulus /\ b[i].last + 1 = f.idx)
    <3>1. b1 = [b EXCEPT ![i] = Free]
      BY <1>2, <2>5 DEF AddFrame
    <3> QED
      BY <2>1, <2>2, <3>1, FreeOK DEF BufOK
  <2> QED
    BY <2>4, <2>5
<1> QED
  BY <1>1, <1>2

(* The slot a first frame gets. *)
FirstSlot(f) ==
  [free |-> FALSE, line |-> f.line, dst |-> f.dst, tp |-> FALSE,
   time |-> now, tag |-> f.msg % SeqModulus, last |-> 0,
   total |-> f.len, got |-> <<[msg |-> f.msg, idx |-> 0]>>]

LEMMA FirstSlotOK ==
  ASSUME NEW f, FrameOK(f), now \in 0 .. MaxTime
  PROVE  FirstSlot(f) \in SlotTypes /\ SlotType(FirstSlot(f)) /\ SlotKept(FirstSlot(f))
<1>1. /\ f.line \in Lines /\ f.msg \in Nat /\ f.dst \in Nat /\ f.len \in Nat
      /\ f.dst \in Dests[f.line] /\ SeqModulus \in Nat \ {0}
  BY RxAssumption DEF FrameOK, Frames
<1>2. f.msg % SeqModulus \in 0 .. SeqModulus - 1
  BY <1>1
<1> DEFINE p == [msg |-> f.msg, idx |-> 0]
<1>3. p \in Parts /\ p.msg = f.msg /\ p.idx = 0
  BY <1>1 DEF Parts
<1> HIDE DEF p
<1>4. <<p>> \in Seq(Parts) /\ Len(<<p>>) = 1 /\ <<p>>[1] = p /\ DOMAIN <<p>> = {1}
  BY <1>3
<1>5. InOrder(<<p>>)
  BY <1>3, <1>4 DEF InOrder
<1>6. FirstSlot(f).got = <<p>>
  BY DEF FirstSlot, p
<1>7. FirstSlot(f) \in SlotTypes
  <2>1. FirstSlot(f).got \in Seq(Parts)
    BY <1>4, <1>6
  <2> QED
    BY <1>1, <1>2, <2>1 DEF FirstSlot, SlotTypes
<1>8. SlotType(FirstSlot(f)) /\ SlotKept(FirstSlot(f))
  BY <1>1, <1>3, <1>4, <1>5, <1>6 DEF FirstSlot, SlotType, SlotKept
<1> QED
  BY <1>7, <1>8

LEMMA StartMessageOK ==
  ASSUME NEW b, BufOK(b), NEW f, FrameOK(f), now \in 0 .. MaxTime
  PROVE  /\ BufOK(StartMessage(b, f))
         /\ \A j \in Slots : StartMessage(b, f)[j] # b[j] =>
              /\ b[j].free \/ b[j].line = f.line \/ Stale(b[j])
              /\ StartMessage(b, f)[j].line = f.line
<1> DEFINE i == FindFreeCANMsgIndex(b, f.line, f.dst, FALSE, now)
<1>1. CASE i = NoSlot
  BY <1>1 DEF StartMessage
<1>2. CASE i # NoSlot
  <2>1. i \in Slots /\ (b[i].free \/ b[i].line = f.line \/ Stale(b[i]))
    BY <1>2, FoundSlot
  <2>2. StartMessage(b, f) = [b EXCEPT ![i] = FirstSlot(f)]
    BY <1>2 DEF StartMessage, FirstSlot
  <2>3. FirstSlot(f).line = f.line
    BY DEF FirstSlot
  <2> QED
    BY <2>1, <2>2, <2>3, FirstSlotOK DEF BufOK
<1> QED
  BY <1>1, <1>2

(* One frame: the slots stay in order, and a slot it changes was free, of  *)
(* the frame's line, or timed out.                                         *)
LEMMA SetEffect ==
  ASSUME NEW b, BufOK(b), NEW f, FrameOK(f), now \in 0 .. MaxTime
  PROVE  /\ BufOK(SetN2kCANBufMsg(b, f))
         /\ \A j \in Slots : SetN2kCANBufMsg(b, f)[j] # b[j] =>
              /\ b[j].free \/ b[j].line = f.line \/ Stale(b[j])
              /\ SetN2kCANBufMsg(b, f)[j].line \in {f.line, NoLine}
BY AddFrameOK, StartMessageOK DEF SetN2kCANBufMsg

(* No message stays complete. *)
Incomplete(b) == \A i \in Slots : ~b[i].free => Len(b[i].got) < b[i].total

LEMMA FreedOK ==
  ASSUME NEW b, BufOK(b)
  PROVE  /\ BufOK(Freed(b)) /\ Incomplete(Freed(b))
         /\ \A j \in Slots : Freed(b)[j] # b[j] => j \in Ready(b) /\ Freed(b)[j] = Free
<1>1. BufOK(Freed(b))
  BY FreeOK DEF BufOK, Freed
<1>2. ASSUME NEW j \in Slots PROVE Len(b[j].got) \in Nat /\ b[j].total \in Nat
  <2>1. b[j].got \in Seq(Parts) /\ b[j].total \in Nat
    BY DEF BufOK, SlotTypes
  <2> QED
    BY <2>1
<1>3. Incomplete(Freed(b))
  BY <1>2, FreeOK DEF Freed, Ready, Incomplete
<1> QED
  BY <1>1, <1>3 DEF Freed, Ready

LEMMA HandedOK ==
  ASSUME NEW b, BufOK(b)
  PROVE  \A d \in Handed(b) : /\ d \in [line : Lines, dst : Nat, got : Seq(Parts)]
                              /\ InOrder(d.got)
<1> SUFFICES ASSUME NEW i \in Ready(b)
             PROVE  LET d == [line |-> b[i].line, dst |-> b[i].dst, got |-> b[i].got]
                    IN  /\ d \in [line : Lines, dst : Nat, got : Seq(Parts)]
                        /\ InOrder(d.got)
  BY DEF Handed
<1>1. i \in Slots /\ ~b[i].free
  BY DEF Ready
<1>2. b[i].line \in Lines /\ b[i].dst \in Nat /\ b[i].got \in Seq(Parts) /\ InOrder(b[i].got)
  BY <1>1 DEF BufOK, SlotTypes, SlotType, SlotKept
<1> QED
  BY <1>2

(* A frame with what ParseMessages() then does: a slot that changed was    *)
(* free, of the frame's line, or timed out, and is now the line's or free. *)
LEMMA FrameEffect ==
  ASSUME NEW b, BufOK(b), Incomplete(b), NEW f, FrameOK(f), now \in 0 .. MaxTime
  PROVE  LET b2 == Freed(SetN2kCANBufMsg(b, f)) IN
         /\ BufOK(b2) /\ Incomplete(b2)
         /\ \A j \in Slots : b2[j] # b[j] =>
              /\ b[j].free \/ b[j].line = f.line \/ Stale(b[j])
              /\ b2[j].line \in {f.line, NoLine}
<1> DEFINE b1 == SetN2kCANBufMsg(b, f)
           b2 == Freed(b1)
<1>1. BufOK(b1) /\ \A j \in Slots : b1[j] # b[j] =>
         /\ b[j].free \/ b[j].line = f.line \/ Stale(b[j])
         /\ b1[j].line \in {f.line, NoLine}
  BY SetEffect
<1> HIDE DEF b1
<1>2. /\ BufOK(b2) /\ Incomplete(b2)
      /\ \A j \in Slots : b2[j] # b1[j] => j \in Ready(b1) /\ b2[j] = Free
  BY <1>1, FreedOK
<1> HIDE DEF b2
<1>3. ASSUME NEW j \in Slots, b2[j] # b[j]
      PROVE  /\ b[j].free \/ b[j].line = f.line \/ Stale(b[j])
             /\ b2[j].line \in {f.line, NoLine}
  <2>1. CASE b1[j] # b[j]
    BY <2>1, <1>1, <1>2, FreeOK
  <2>2. CASE b1[j] = b[j]
    <3>1. j \in Ready(b1) /\ b2[j] = Free
      BY <2>2, <1>2, <1>3
    <3>2. ~b[j].free /\ Len(b[j].got) >= b[j].total /\ Len(b[j].got) < b[j].total
      BY <2>2, <3>1 DEF Ready, Incomplete
    <3>3. Len(b[j].got) \in Nat /\ b[j].total \in Nat
      <4>1. b[j].got \in Seq(Parts) /\ b[j].total \in Nat
        BY DEF BufOK, SlotTypes
      <4> QED
        BY <4>1
    <3> QED
      BY <3>2, <3>3
  <2> QED
    BY <2>1, <2>2
<1> QED
  BY <1>2, <1>3 DEF b1, b2

-----------------------------------------------------------------------------
(* The messages being sent. *)
OutOK ==
  \A l \in Lines : out[l].idx > 0 =>
    /\ out[l].idx < out[l].len
    /\ out[l].dst \in Dests[l] /\ out[l].len \in Lengths[l]

RxInv == ReassemblyInv /\ BufOK(buf) /\ OutOK

LEMMA FrameIs ==
  ASSUME FastPacketTypeOK, OutOK, NEW l \in Lines, NEW f \in NextFrames(l)
  PROVE  /\ FrameOK(f) /\ f.line = l /\ f.idx = out[l].idx
         /\ IF f.idx > 0
            THEN f.msg = out[l].msg /\ f.dst = out[l].dst /\ f.len = out[l].len
            ELSE f.msg = out[l].msg + 1
<1>t. /\ out[l] \in Out /\ Lengths[l] \in SUBSET (Nat \ {0}) /\ Dests[l] \in SUBSET Nat
  BY RxAssumption DEF FastPacketTypeOK
<1>1. CASE out[l].idx > 0
  <2>1. f = [line |-> l, msg |-> out[l].msg, dst |-> out[l].dst,
             len |-> out[l].len, idx |-> out[l].idx]
    BY <1>1 DEF NextFrames
  <2> QED
    BY <2>1, <1>1, <1>t DEF OutOK, FrameOK, Frames, Out
<1>2. CASE ~(out[l].idx > 0)
  <2>1. PICK n \in Lengths[l], d \in Dests[l] :
          f = [line |-> l, msg |-> out[l].msg + 1, dst |-> d, len |-> n, idx |-> 0]
    BY <1>2 DEF NextFrames
  <2>2. out[l].idx = 0 /\ n \in Nat /\ n > 0 /\ d \in Nat
    BY <1>2, <1>t DEF Out
  <2> QED
    BY <2>1, <2>2, <1>t DEF FrameOK, Frames, Out
<1> QED
  BY <1>1, <1>2

LEMMA AdvanceOK ==
  ASSUME FastPacketTypeOK, OutOK, NEW l \in Lines, NEW f \in NextFrames(l), Advance(f)
  PROVE  /\ out' \in [Lines -> Out] /\ OutOK'
         /\ out'[l] # out[l] /\ \A k \in Lines : k # l => out'[k] = out[k]
         /\ out'[l].msg = f.msg /\ out'[l].dst = f.dst /\ out'[l].len = f.len
         /\ out'[l].idx = IF f.idx + 1 < f.len THEN f.idx + 1 ELSE 0
<1>1. /\ FrameOK(f) /\ f.line = l /\ f.idx = out[l].idx
      /\ f.idx = 0 => f.msg = out[l].msg + 1
  BY FrameIs
<1> DEFINE o == [msg |-> f.msg, dst |-> f.dst, len |-> f.len,
                 idx |-> IF f.idx + 1 < f.len THEN f.idx + 1 ELSE 0]
<1>2. /\ f.msg \in Nat /\ f.dst \in Nat /\ f.len \in Nat /\ f.idx \in Nat
      /\ out \in [Lines -> Out] /\ out[l] \in Out
  BY <1>1 DEF FrameOK, Frames, FastPacketTypeOK
<1>3. out' = [out EXCEPT ![l] = o] /\ o \in Out
  BY <1>1, <1>2 DEF Advance, Out
<1>4. /\ o.msg = f.msg /\ o.dst = f.dst /\ o.len = f.len
      /\ o.idx = IF f.idx + 1 < f.len THEN f.idx + 1 ELSE 0
  OBVIOUS
<1> HIDE DEF o
<1>5. o # out[l]
  <2>1. o.idx # out[l].idx \/ o.msg # out[l].msg
    BY <1>1, <1>2, <1>4 DEF Out
  <2> QED
    BY <2>1
<1>6. o.idx > 0 => o.idx < o.len /\ o.dst \in Dests[l] /\ o.len \in Lengths[l]
  BY <1>1, <1>2, <1>4 DEF FrameOK
<1>7. OutOK'
  BY <1>2, <1>3, <1>6 DEF OutOK
<1> QED
  BY <1>2, <1>3, <1>4, <1>5, <1>7

-----------------------------------------------------------------------------
(* What a frame that arrives does to the receiver. *)
LEMMA ArriveOK ==
  ASSUME RxInv, NEW f, FrameOK(f), NEW n \in {1, 2}, Arrive(f, n)
  PROVE  /\ BufOK(buf') /\ Incomplete(buf')
         /\ intact' \in [Lines -> BOOLEAN]
         /\ delivered \subseteq delivered'
         /\ delivered' \subseteq [line : Lines, dst : Nat, got : Seq(Parts)]
         /\ NoMixture'
         /\ \A j \in Slots : buf'[j] # buf[j] =>
              /\ buf[j].free \/ buf[j].line = f.line \/ Stale(buf[j])
              /\ buf'[j].line \in {f.line, NoLine}
<1> DEFINE b1 == SetN2kCANBufMsg(buf, f)
           b2 == SetN2kCANBufMsg(Freed(b1), f)
<1>t. /\ BufOK(buf) /\ Incomplete(buf) /\ now \in 0 .. MaxTime
      /\ delivered \subseteq [line : Lines, dst : Nat, got : Seq(Parts)]
      /\ \A d \in delivered : InOrder(d.got)
  BY DEF RxInv, ReassemblyInv, FastPacketTypeOK, NothingHeldBack, NoMixture, Incomplete
<1>1. /\ BufOK(Freed(b1)) /\ Incomplete(Freed(b1))
      /\ \A j \in Slots : Freed(b1)[j] # buf[j] =>
           /\ buf[j].free \/ buf[j].line = f.line \/ Stale(buf[j])
           /\ Freed(b1)[j].line \in {f.line, NoLine}
  BY <1>t, FrameEffect
<1>2. /\ BufOK(Freed(b2)) /\ Incomplete(Freed(b2))
      /\ \A j \in Slots : Freed(b2)[j] # Freed(b1)[j] =>
           /\ Freed(b1)[j].free \/ Freed(b1)[j].line = f.line \/ Stale(Freed(b1)[j])
           /\ Freed(b2)[j].line \in {f.line, NoLine}
  BY <1>t, <1>1, FrameEffect
<1>3. BufOK(b1) /\ BufOK(b2)
  BY <1>t, <1>1, SetEffect
<1>4. /\ buf' = IF n = 2 THEN Freed(b2) ELSE Freed(b1)
      /\ delivered' = delivered \cup Handed(b1) \cup (IF n = 2 THEN Handed(b2) ELSE {})
  BY DEF Arrive
<1>5. intact' \in [Lines -> BOOLEAN]
  <2>1. \A k \in Lines : StillIntact(k) \in BOOLEAN
    BY DEF StillIntact
  <2> QED
    BY <2>1 DEF Arrive
<1> HIDE DEF b1, b2
<1>6. \A d \in Handed(b1) \cup Handed(b2) :
        d \in [line : Lines, dst : Nat, got : Seq(Parts)] /\ InOrder(d.got)
  BY <1>3, HandedOK
<1>7. /\ delivered \subseteq delivered' /\ delivered' \subseteq delivered \cup Handed(b1) \cup Handed(b2)
  BY <1>4
<1>8. NoMixture' /\ delivered' \subseteq [line : Lines, dst : Nat, got : Seq(Parts)]
  BY <1>t, <1>6, <1>7 DEF NoMixture
<1>9. BufOK(buf') /\ Incomplete(buf')
  BY <1>1, <1>2, <1>4
<1>10. ASSUME NEW j \in Slots, buf'[j] # buf[j]
       PROVE  /\ buf[j].free \/ buf[j].line = f.line \/ Stale(buf[j])
              /\ buf'[j].line \in {f.line, NoLine}
  BY <1>1, <1>2, <1>4, <1>10
<1> QED
  BY <1>5, <1>7, <1>8, <1>9, <1>10

(* Receive(l) and Repeated(l) are an arrival, once or twice. *)
LEMMA Arrivals ==
  ASSUME NEW l \in Lines, Receive(l) \/ Repeated(l)
  PROVE  \E f \in NextFrames(l), n \in {1, 2} :
           /\ Advance(f) /\ Arrive(f, n) /\ UNCHANGED now
           /\ faults' = faults \/ (faults < MaxFaults /\ faults' = faults + 1)
BY DEF Receive, Repeated

LEMMA RxInvariant == Spec => []RxInv
<1>1. Init => RxInv
  <2> SUFFICES ASSUME Init PROVE RxInv
    OBVIOUS
  <2>1. buf = [i \in Slots |-> Free] /\ BufOK(buf)
    BY FreeOK DEF Init, EmptyBuf, BufOK
  <2>2. FastPacketTypeOK
    <3>1. /\ now \in 0 .. MaxTime /\ faults \in 0 .. MaxFaults
          /\ intact \in [Lines -> BOOLEAN]
      BY RxAssumption DEF Init
    <3>2. out \in [Lines -> Out]
      BY DEF Init, Out
    <3> QED
      BY <2>1, <3>1, <3>2 DEF Init, FastPacketTypeOK, BufOK
  <2>3. NothingHeldBack /\ NoMixture /\ OutOK
    BY <2>1, FreeOK DEF Init, NothingHeldBack, NoMixture, OutOK
  <2> QED
    BY <2>1, <2>2, <2>3 DEF RxInv, ReassemblyInv
<1>2. RxInv /\ [Next]_vars => RxInv'
  <2> SUFFICES ASSUME RxInv, [Next]_vars PROVE RxInv'
    OBVIOUS
  <2>t. FastPacketTypeOK /\ OutOK
    BY DEF RxInv, ReassemblyInv
  <2>1. ASSUME NEW l \in Lines, Receive(l) \/ Repeated(l) PROVE RxInv'
    <3>1. PICK f \in NextFrames(l), n \in {1, 2} :
            /\ Advance(f) /\ Arrive(f, n) /\ UNCHANGED now
            /\ faults' = faults \/ (faults < MaxFaults /\ faults' = faults + 1)
      BY <2>1, Arrivals
    <3>2. out' \in [Lines -> Out] /\ OutOK'
      BY <3>1, <2>t, AdvanceOK
    <3>3. FrameOK(f)
      BY <2>t, FrameIs
    <3>4. /\ BufOK(buf') /\ Incomplete(buf') /\ intact' \in [Lines -> BOOLEAN] /\ NoMixture'
          /\ delivered' \subseteq [line : Lines, dst : Nat, got : Seq(Parts)]
      BY <3>1, <3>3, ArriveOK
    <3>5. now' \in 0 .. MaxTime /\ faults' \in 0 .. MaxFaults
      BY <3>1, <2>t, RxAssumption DEF FastPacketTypeOK
    <3>6. FastPacketTypeOK'
      BY <3>2, <3>4, <3>5 DEF FastPacketTypeOK, BufOK
    <3> QED
      BY <3>2, <3>4, <3>6 DEF RxInv, ReassemblyInv, NothingHeldBack, Incomplete
  <2>2. ASSUME NEW l \in Lines, Lost(l) PROVE RxInv'
    <3>1. PICK f \in NextFrames(l) :
            /\ faults < MaxFaults /\ faults' = faults + 1
            /\ Advance(f)
            /\ intact' = [intact EXCEPT ![l] = FALSE]
            /\ UNCHANGED <<buf, now, delivered>>
      BY <2>2 DEF Lost
    <3>2. out' \in [Lines -> Out] /\ OutOK'
      BY <3>1, <2>t, AdvanceOK
    <3>3. faults' \in 0 .. MaxFaults /\ intact' \in [Lines -> BOOLEAN]
      BY <3>1, <2>t, RxAssumption DEF FastPacketTypeOK
    <3>4. FastPacketTypeOK'
      BY <3>1, <3>2, <3>3, <2>t DEF FastPacketTypeOK
    <3> QED
      BY <3>1, <3>2, <3>4 DEF RxInv, ReassemblyInv, NothingHeldBack, NoMixture
  <2>3. CASE Tick
    <3>1. now' \in 0 .. MaxTime
      BY <2>3, <2>t, RxAssumption DEF Tick, FastPacketTypeOK
    <3> QED
      BY <2>3, <2>t, <3>1 DEF Tick, RxInv, ReassemblyInv, FastPacketTypeOK,
         NothingHeldBack, NoMixture, OutOK
  <2>4. CASE UNCHANGED vars
    BY <2>4 DEF vars, RxInv, ReassemblyInv, FastPacketTypeOK, NothingHeldBack, NoMixture,
       OutOK
  <2> QED
    BY <2>1, <2>2, <2>3, <2>4 DEF Next
<1> QED
  BY <1>1, <1>2, PTL DEF Spec

(* The types, no message mixed of two but a multiple of SeqModulus         *)
(* messages apart, and no complete message left in a slot.                 *)
THEOREM ReassemblyKept == Spec => []ReassemblyInv
<1>1. RxInv => ReassemblyInv
  BY DEF RxInv
<1> QED
  BY <1>1, RxInvariant, PTL

(* A slot changes hands neither before the time-out nor much after it.     *)
THEOREM TakenOverInTime == Spec => TakeoverInTime
<1>1. RxInv => StaleSlotReusable
  <2> SUFFICES ASSUME RxInv, NEW i \in Slots, buf[i].time + MaxN2kMsgBufTime <= now,
                      NEW l \in Lines, NEW d \in Dests[l]
               PROVE  FindFreeCANMsgIndex(buf, l, d, FALSE, now) # NoSlot
    BY DEF StaleSlotReusable
  <2>1. BufOK(buf)
    BY DEF RxInv
  <2>2. NoSlot \notin Slots
    BY BufAssumption DEF NoSlot, Slots
  <2>3. CASE Usable(buf, l, d, FALSE) # {}
    <3>1. Usable(buf, l, d, FALSE) \in SUBSET Slots
      BY DEF Usable
    <3>2. Lowest(Usable(buf, l, d, FALSE)) \in Slots
      BY <2>3, <3>1, LowestIsLeast
    <3> QED
      BY <2>2, <2>3, <3>2 DEF FindFreeCANMsgIndex
  <2>4. CASE Usable(buf, l, d, FALSE) = {}
    <3>1. /\ Oldest(buf) \in Slots
          /\ buf[Oldest(buf)].time <= buf[i].time
      BY <2>1, OldestIsOldest
    <3>2. /\ buf[Oldest(buf)].time \in Nat /\ buf[i].time \in Nat /\ now \in Nat
          /\ MaxN2kMsgBufTime \in Nat
      <4>1. \A j \in Slots : buf[j].time \in 0 .. MaxTime
        BY <2>1 DEF BufOK, SlotTypes
      <4>2. now \in 0 .. MaxTime
        BY DEF RxInv, ReassemblyInv, FastPacketTypeOK
      <4>3. 0 .. MaxTime \subseteq Nat
        BY RxAssumption
      <4> QED
        BY <3>1, <4>1, <4>2, <4>3, BufAssumption
    <3>3. buf[Oldest(buf)].time + MaxN2kMsgBufTime <= now
      BY <3>1, <3>2
    <3> QED
      BY <2>2, <2>4, <3>1, <3>3 DEF FindFreeCANMsgIndex
  <2> QED
    BY <2>3, <2>4
<1> DEFINE A == \A i \in Slots :
                  ~buf[i].free /\ buf'[i].line # buf[i].line
                    => \/ out'[buf[i].line] # out[buf[i].line]
                       \/ buf[i].time + MaxN2kMsgBufTime <= now
<1>2. RxInv /\ [Next]_vars => [A]_vars
  <2> SUFFICES ASSUME RxInv, [Next]_vars, NEW i \in Slots,
                      ~buf[i].free, buf'[i].line # buf[i].line
               PROVE  \/ out'[buf[i].line] # out[buf[i].line]
                      \/ buf[i].time + MaxN2kMsgBufTime <= now
    OBVIOUS
  <2>1. PICK l \in Lines : Receive(l) \/ Repeated(l)
    BY DEF Next, Tick, Lost, vars
  <2>2. PICK f \in NextFrames(l), n \in {1, 2} : Advance(f) /\ Arrive(f, n)
    BY <2>1, Arrivals
  <2>3. FrameOK(f) /\ f.line = l /\ out'[l] # out[l]
    BY <2>2, FrameIs, AdvanceOK DEF RxInv, ReassemblyInv
  <2>4. buf[i].line = f.line \/ Stale(buf[i])
    BY <2>2, <2>3, ArriveOK
  <2> QED
    BY <2>3, <2>4 DEF Stale
<1> QED
  BY <1>1, <1>2, RxInvariant, PTL DEF Spec, TakeoverInTime, NoEarlyTakeover

-----------------------------------------------------------------------------
(* No message lost by itself or by the frames of others. *)

(* The first n frames of message m are in the line's first slot, where the *)
(* next one is looked for.                                                 *)
Placed(b, l, m, n, len) ==
  LET i == SlotOfLine(b, l) IN
  i # NoSlot /\ b[i].got = Whole(m, n) /\ b[i].total = len

(* What IntactDelivered says, with the length the slot waits for.          *)
IntactKept ==
  \A l \in Lines, d \in Nat :
    Dests[l] = {d} /\ intact[l] =>
      IF out[l].idx > 0
      THEN Placed(buf, l, out[l].msg, out[l].idx, out[l].len)
      ELSE [line |-> l, dst |-> d, got |-> Whole(out[l].msg, out[l].len)] \in delivered

LEMMA WholeIs ==
  ASSUME NEW m \in Nat, NEW n \in Nat
  PROVE  /\ Whole(m, n) \in Seq(Parts)
         /\ Len(Whole(m, n)) = n
         /\ n > 0 => Whole(m, n)[1].msg = m
<1>1. Whole(m, n) \in [1 .. n -> Parts]
  BY DEF Whole, Parts
<1>2. n > 0 => Whole(m, n)[1].msg = m
  BY DEF Whole
<1> QED
  BY <1>1, <1>2

LEMMA WholeStarts ==
  ASSUME NEW m \in Nat
  PROVE  <<[msg |-> m, idx |-> 0]>> = Whole(m, 1)
<1>1. PICK q : q = [msg |-> m, idx |-> 0]
  OBVIOUS
<1>2. q \in Parts
  BY <1>1 DEF Parts
<1>3. Whole(m, 1)[1] = q
  BY <1>1 DEF Whole
<1>4. Whole(m, 1) \in Seq(Parts) /\ Len(Whole(m, 1)) = 1
  BY WholeIs
<1>5. <<q>> \in Seq(Parts) /\ Len(<<q>>) = 1 /\ <<q>>[1] = q
  BY <1>2
<1>6. <<q>> = Whole(m, 1)
  BY <1>3, <1>4, <1>5, SeqEqual
<1> QED
  BY <1>1, <1>6

LEMMA WholeGrows ==
  ASSUME NEW m \in Nat, NEW n \in Nat
  PROVE  Append(Whole(m, n), [msg |-> m, idx |-> n]) = Whole(m, n + 1)
<1>1. PICK p : p = [msg |-> m, idx |-> n]
  OBVIOUS
<1>2. p \in Parts
  BY <1>1 DEF Parts
<1>3. PICK s : s = Append(Whole(m, n), p)
  OBVIOUS
<1>4. Whole(m, n) \in Seq(Parts) /\ Len(Whole(m, n)) = n
  BY WholeIs
<1>5. /\ s \in Seq(Parts) /\ Len(s) = n + 1 /\ s[n + 1] = p
      /\ \A i \in 1 .. n : s[i] = Whole(m, n)[i]
  BY <1>2, <1>3, <1>4
<1>6. n + 1 \in Nat /\ Whole(m, n + 1)[n + 1] = p
  BY <1>1 DEF Whole
<1>7. Whole(m, n + 1) \in Seq(Parts) /\ Len(Whole(m, n + 1)) = n + 1
  BY <1>6, WholeIs
<1>8. \A i \in 1 .. n : s[i] = Whole(m, n + 1)[i]
  BY <1>5 DEF Whole
<1>9. \A i \in 1 .. n + 1 : s[i] = Whole(m, n + 1)[i]
  BY <1>5, <1>6, <1>8
<1>10. s = Whole(m, n + 1)
  BY <1>5, <1>7, <1>9, SeqEqual
<1> QED
  BY <1>1, <1>3, <1>10

(* A frame of another line leaves the slots of a line as they are, unless  *)
(* one of them has timed out.                                              *)
LEMMA OthersLeaveAlone ==
  ASSUME RxInv, NEW f, FrameOK(f), NEW n \in {1, 2}, Arrive(f, n),
         NEW l \in Lines, l # f.line, \A j \in Slots : buf[j].line = l => ~Stale(buf[j]),
         NEW m, NEW k, NEW len, Placed(buf, l, m, k, len)
  PROVE  Placed(buf', l, m, k, len)
<1>t. l # NoLine /\ BufOK(buf) /\ BufOK(buf') /\ NoSlot \notin Slots
  BY RxAssumption, BufAssumption, ArriveOK DEF RxInv, NoSlot, Slots
<1>1. ASSUME NEW j \in Slots, buf[j].line = l \/ buf'[j].line = l
      PROVE  buf'[j] = buf[j]
  <2>1. buf[j].line = l => ~buf[j].free
    BY <1>t DEF BufOK, SlotType
  <2> QED
    BY <1>1, <1>t, <2>1, ArriveOK
<1>2. PICK i : i = SlotOfLine(buf, l)
  OBVIOUS
<1>3. i \in Slots /\ buf[i].line = l /\ \A j \in Slots : buf[j].line = l => i <= j
  BY <1>t, <1>2, FirstOfLine DEF Placed
<1>4. /\ buf'[i] = buf[i]
      /\ \A j \in Slots : buf'[j].line = l => i <= j
  BY <1>1, <1>3
<1>5. SlotOfLine(buf', l) = i
  BY <1>t, <1>3, <1>4, FirstOfLineIs
<1> QED
  BY <1>2, <1>3, <1>4, <1>5, <1>t DEF Placed

(* The line's own frame goes to the slot of the frames before it, or is    *)
(* the first in the line's first slot.                                     *)
LEMMA OwnFramePlaced ==
  ASSUME RxInv, NEW f, FrameOK(f), Dests[f.line] = {f.dst},
         IF f.idx = 0 THEN SetN2kCANBufMsg(buf, f) # buf
                      ELSE Placed(buf, f.line, f.msg, f.idx, f.len)
  PROVE  \E i \in Slots :
           LET b1 == SetN2kCANBufMsg(buf, f) IN
           /\ ~b1[i].free /\ b1[i].line = f.line /\ b1[i].dst = f.dst
           /\ b1[i].got = Whole(f.msg, f.idx + 1) /\ b1[i].total = f.len
           /\ \A j \in Slots : b1[j].line = f.line => i <= j
<1> DEFINE b1 == SetN2kCANBufMsg(buf, f)
<1>t. /\ f.line \in Lines /\ f.line # NoLine /\ f.msg \in Nat /\ f.idx \in Nat /\ f.len \in Nat
      /\ f.idx < f.len /\ f.len \in Lengths[f.line] /\ f.dst \in Nat
      /\ BufOK(buf) /\ buf \in [Slots -> SlotTypes]
  BY RxAssumption DEF FrameOK, Frames, RxInv, BufOK
<1>d. \A j \in Slots : buf[j].line = f.line => buf[j].dst = f.dst /\ ~buf[j].free
  BY <1>t DEF BufOK, SlotType, SlotKept
<1>1. CASE f.idx = 0
  <2> DEFINE i == FindFreeCANMsgIndex(buf, f.line, f.dst, FALSE, now)
  <2>1. b1 = StartMessage(buf, f) /\ b1 # buf
    BY <1>1 DEF SetN2kCANBufMsg
  <2>2. i # NoSlot
    BY <2>1 DEF StartMessage
  <2>3. i \in Slots /\ \A j \in Slots : buf[j].line = f.line => i <= j
    BY <1>t, <1>d, <2>2, FoundSlot
  <2>4. b1 = [buf EXCEPT ![i] = FirstSlot(f)]
    BY <2>1, <2>2 DEF StartMessage, FirstSlot
  <2> HIDE DEF i, b1
  <2>5. b1[i] = FirstSlot(f) /\ \A j \in Slots : j # i => b1[j] = buf[j]
    BY <1>t, <2>3, <2>4
  <2>6. /\ ~FirstSlot(f).free /\ FirstSlot(f).line = f.line /\ FirstSlot(f).dst = f.dst
        /\ FirstSlot(f).got = Whole(f.msg, f.idx + 1) /\ FirstSlot(f).total = f.len
    <3>1. f.idx + 1 = 1 /\ <<[msg |-> f.msg, idx |-> 0]>> = Whole(f.msg, 1)
      BY <1>1, <1>t, WholeStarts
    <3> QED
      BY <3>1 DEF FirstSlot
  <2>7. i <= i
    BY <2>3, BufAssumption DEF Slots
  <2>8. \A j \in Slots : b1[j].line = f.line => i <= j
    BY <2>3, <2>5, <2>7
  <2> QED
    BY <2>3, <2>5, <2>6, <2>8 DEF b1
<1>2. CASE f.idx # 0
  <2>1. f.line \in FastLines
    BY <1>2, <1>t, RxAssumption
  <2> DEFINE i == SlotOfLine(buf, f.line)
             g == Append(buf[i].got, [msg |-> f.msg, idx |-> f.idx])
             s == [buf[i] EXCEPT !.last = f.idx, !.got = g]
  <2>2. i # NoSlot /\ buf[i].got = Whole(f.msg, f.idx) /\ buf[i].total = f.len
    BY <1>2 DEF Placed
  <2>3. i \in Slots /\ buf[i].line = f.line /\ \A j \in Slots : buf[j].line = f.line => i <= j
    BY <1>t, <2>2, FirstOfLine
  <2>4. buf[i] \in SlotTypes /\ SlotType(buf[i]) /\ SlotKept(buf[i]) /\ ~buf[i].free
    BY <1>t, <1>d, <2>3 DEF BufOK
  <2>5. buf[i].tag = f.msg % SeqModulus /\ buf[i].last + 1 = f.idx
    <3>1. Len(buf[i].got) = f.idx /\ buf[i].got[1].msg = f.msg
      <4>1. f.idx > 0 /\ Len(Whole(f.msg, f.idx)) = f.idx /\ Whole(f.msg, f.idx)[1].msg = f.msg
        <5>1. f.msg \in Nat /\ f.idx \in Nat /\ f.idx > 0
          BY <1>2, <1>t
        <5> QED
          BY <5>1, WholeIs
      <4> HIDE DEF i
      <4> QED
        BY <2>2, <4>1
    <3> QED
      BY <2>4, <3>1 DEF SlotType, SlotKept
  <2>6. b1 = [buf EXCEPT ![i] = s]
    <3>1. b1 = AddFrame(buf, f)
      BY <1>2, <2>1 DEF SetN2kCANBufMsg
    <3> QED
      BY <1>t, <2>2, <2>3, <2>4, <2>5, <3>1 DEF AddFrame, SlotTypes
  <2>7. g = Whole(f.msg, f.idx + 1)
    BY <1>t, <2>2, WholeGrows
  <2>8. /\ s.free = buf[i].free /\ s.line = buf[i].line /\ s.dst = buf[i].dst
        /\ s.total = buf[i].total /\ s.got = g
    <3> HIDE DEF g
    <3> QED
      BY <2>4 DEF SlotTypes
  <2> HIDE DEF s, g, b1, i
  <2>9. b1[i] = s /\ \A j \in Slots : j # i => b1[j] = buf[j]
    BY <1>t, <2>3, <2>6
  <2>10. \A j \in Slots : b1[j].line = f.line => i <= j
    BY <2>3, <2>8, <2>9
  <2> QED
    BY <1>d, <2>2, <2>3, <2>4, <2>7, <2>8, <2>9, <2>10 DEF b1
<1> QED
  BY <1>1, <1>2

(* It stays there, or is the last and the message is handed on.            *)
LEMMA OwnFrameKept ==
  ASSUME RxInv, NEW f, FrameOK(f), Dests[f.line] = {f.dst}, Arrive(f, 1),
         IF f.idx = 0 THEN SetN2kCANBufMsg(buf, f) # buf
                      ELSE Placed(buf, f.line, f.msg, f.idx, f.len)
  PROVE  IF f.idx + 1 < f.len
         THEN Placed(buf', f.line, f.msg, f.idx + 1, f.len)
         ELSE [line |-> f.line, dst |-> f.dst, got |-> Whole(f.msg, f.len)] \in delivered'
<1> DEFINE b1 == SetN2kCANBufMsg(buf, f)
<1>1. PICK i \in Slots :
        /\ ~b1[i].free /\ b1[i].line = f.line /\ b1[i].dst = f.dst
        /\ b1[i].got = Whole(f.msg, f.idx + 1) /\ b1[i].total = f.len
        /\ \A j \in Slots : b1[j].line = f.line => i <= j
  BY OwnFramePlaced
<1>t. /\ f.line \in Lines /\ f.line # NoLine /\ f.msg \in Nat /\ f.idx \in Nat /\ f.len \in Nat
      /\ f.idx < f.len /\ NoSlot \notin Slots
  BY RxAssumption, BufAssumption DEF FrameOK, Frames, NoSlot, Slots
<1>2. Len(b1[i].got) = f.idx + 1
  <2>1. b1[i].got = Whole(f.msg, f.idx + 1)
    BY <1>1
  <2>2. PICK m \in Nat, n \in Nat : m = f.msg /\ n = f.idx + 1
    BY <1>t
  <2>3. Len(Whole(m, n)) = n
    BY WholeIs
  <2> HIDE DEF b1
  <2> QED
    BY <2>1, <2>2, <2>3
<1>3. buf' = Freed(b1) /\ Handed(b1) \subseteq delivered' /\ BufOK(buf') /\ BufOK(b1)
  <2>1. buf' = Freed(b1) /\ Handed(b1) \subseteq delivered'
    BY DEF Arrive
  <2>2. BufOK(b1)
    BY SetEffect DEF RxInv, ReassemblyInv, FastPacketTypeOK
  <2> QED
    BY <2>1, <2>2, FreedOK
<1> HIDE DEF b1
<1>4. CASE f.idx + 1 < f.len
  <2>1. i \notin Ready(b1)
    BY <1>1, <1>2, <1>4, <1>t DEF Ready
  <2>2. buf'[i] = b1[i] /\ \A j \in Slots : buf'[j].line = f.line => buf'[j] = b1[j]
    BY <1>1, <1>3, <1>t, <2>1, FreedOK, FreeOK
  <2>3. SlotOfLine(buf', f.line) = i
    BY <1>1, <1>3, <2>2, FirstOfLineIs
  <2> QED
    BY <1>1, <1>4, <1>t, <2>2, <2>3 DEF Placed
<1>5. CASE ~(f.idx + 1 < f.len)
  <2>1. f.idx + 1 = f.len /\ i \in Ready(b1)
    BY <1>1, <1>2, <1>5, <1>t DEF Ready
  <2>2. [line |-> f.line, dst |-> f.dst, got |-> Whole(f.msg, f.len)] \in Handed(b1)
    BY <1>1, <2>1 DEF Handed
  <2> QED
    BY <1>3, <1>5, <2>2
<1> QED
  BY <1>4, <1>5

LEMMA IntactStep ==
  ASSUME RxInv, IntactKept, [Next]_vars
  PROVE  IntactKept'
<1>t. FastPacketTypeOK /\ OutOK
  BY DEF RxInv, ReassemblyInv
<1>1. ASSUME NEW l \in Lines, Receive(l) \/ Repeated(l) PROVE IntactKept'
  <2>1. PICK f \in NextFrames(l), n \in {1, 2} : Advance(f) /\ Arrive(f, n)
    BY <1>1, Arrivals
  <2>2. /\ FrameOK(f) /\ f.line = l /\ f.idx = out[l].idx
        /\ f.idx > 0 => f.msg = out[l].msg /\ f.dst = out[l].dst /\ f.len = out[l].len
    BY <1>t, FrameIs
  <2>3. /\ \A k \in Lines : k # l => out'[k] = out[k]
        /\ out'[l].msg = f.msg /\ out'[l].dst = f.dst /\ out'[l].len = f.len
        /\ out'[l].idx = IF f.idx + 1 < f.len THEN f.idx + 1 ELSE 0
    BY <1>t, <2>1, AdvanceOK
  <2>4. delivered \subseteq delivered'
    BY <2>1, <2>2, ArriveOK
  <2>5. \A k \in Lines :
          intact'[k] = IF k # l THEN StillIntact(k)
                       ELSE n = 1 /\ IF f.idx = 0 THEN SetN2kCANBufMsg(buf, f) # buf
                                     ELSE StillIntact(k)
    BY <2>1, <2>2 DEF Arrive
  <2> SUFFICES ASSUME NEW k \in Lines, NEW d \in Nat, Dests[k] = {d}, intact'[k]
               PROVE  IF out'[k].idx > 0
                      THEN Placed(buf', k, out'[k].msg, out'[k].idx, out'[k].len)
                      ELSE [line |-> k, dst |-> d, got |-> Whole(out'[k].msg, out'[k].len)]
                             \in delivered'
    BY DEF IntactKept
  <2>6. CASE k # l
    <3>1. StillIntact(k) /\ intact[k] /\ out'[k] = out[k]
      BY <2>3, <2>5, <2>6 DEF StillIntact
    <3>2. CASE out[k].idx > 0
      <4>1. Placed(buf, k, out[k].msg, out[k].idx, out[k].len)
        BY <3>1, <3>2 DEF IntactKept
      <4>2. \A j \in Slots : buf[j].line = k => ~Stale(buf[j])
        <5>1. \A j \in Slots : buf[j].line = k => now < buf[j].time + MaxN2kMsgBufTime
          BY <3>1, <3>2 DEF StillIntact
        <5>2. ASSUME NEW j \in Slots, now < buf[j].time + MaxN2kMsgBufTime
              PROVE  ~Stale(buf[j])
          <6>1. buf[j].time \in 0 .. MaxTime /\ now \in 0 .. MaxTime
            BY DEF RxInv, ReassemblyInv, FastPacketTypeOK, BufOK, SlotTypes
          <6>2. 0 .. MaxTime \subseteq Nat
            BY RxAssumption
          <6> QED
            BY <5>2, <6>1, <6>2, BufAssumption DEF Stale
        <5> QED
          BY <5>1, <5>2
      <4>3. Placed(buf', k, out[k].msg, out[k].idx, out[k].len)
        BY <2>1, <2>2, <2>6, <4>1, <4>2, OthersLeaveAlone
      <4> QED
        BY <3>1, <3>2, <4>3
    <3>3. CASE ~(out[k].idx > 0)
      BY <2>4, <3>1, <3>3 DEF IntactKept
    <3> QED
      BY <3>2, <3>3
  <2>7. CASE k = l
    <3>1. /\ n = 1
          /\ IF f.idx = 0 THEN SetN2kCANBufMsg(buf, f) # buf ELSE intact[l]
      BY <2>5, <2>7 DEF StillIntact
    <3>2. f.idx \in Nat /\ f.len \in Nat /\ f.dst = d /\ Dests[f.line] = {f.dst}
      BY <2>2, <2>7 DEF FrameOK, Frames
    <3>3. f.idx # 0 => Placed(buf, l, f.msg, f.idx, f.len)
      <4> SUFFICES ASSUME f.idx # 0 PROVE Placed(buf, l, f.msg, f.idx, f.len)
        OBVIOUS
      <4>1. f.idx > 0
        BY <3>2
      <4> QED
        BY <2>2, <2>7, <3>1, <4>1 DEF IntactKept
    <3>4. IF f.idx + 1 < f.len
          THEN Placed(buf', l, f.msg, f.idx + 1, f.len)
          ELSE [line |-> l, dst |-> d, got |-> Whole(f.msg, f.len)] \in delivered'
      BY <2>1, <2>2, <3>1, <3>2, <3>3, OwnFrameKept
    <3>5. f.idx + 1 > 0
      BY <3>2
    <3> QED
      BY <2>3, <2>7, <3>4, <3>5
  <2> QED
    BY <2>6, <2>7
<1>2. ASSUME NEW l \in Lines, Lost(l) PROVE IntactKept'
  <2>1. PICK f \in NextFrames(l) :
          /\ Advance(f)
          /\ intact' = [intact EXCEPT ![l] = FALSE]
          /\ UNCHANGED <<buf, now, delivered>>
    BY <1>2 DEF Lost
  <2>2. \A k \in Lines : k # l => out'[k] = out[k]
    BY <1>t, <2>1, AdvanceOK
  <2>3. \A k \in Lines : intact'[k] => k # l /\ intact[k]
    BY <1>t, <2>1 DEF FastPacketTypeOK
  <2> QED
    BY <2>1, <2>2, <2>3 DEF IntactKept, Placed
<1>3. CASE Tick \/ UNCHANGED vars
  BY <1>3 DEF Tick, vars, IntactKept, Placed
<1> QED
  BY <1>1, <1>2, <1>3 DEF Next

(* A line that sends to one destination loses no message by itself or by   *)
(* the frames of the others, however many there are and however they       *)
(* interleave, as long as its slot does not time out.                      *)
THEOREM IntactMeansDelivered == Spec => []IntactDelivered
<1>1. Init => IntactKept
  BY DEF Init, IntactKept
<1>2. RxInv /\ IntactKept /\ [Next]_vars => IntactKept'
  BY IntactStep
<1>3. RxInv /\ IntactKept => IntactDelivered
  <2>1. UNION {Dests[k] : k \in Lines} \subseteq Nat
    BY RxAssumption
  <2> QED
    BY <2>1 DEF IntactKept, IntactDelivered, Placed
<1> QED
  BY <1>1, <1>2, <1>3, RxInvariant, PTL DEF Spec
=============================================================================
