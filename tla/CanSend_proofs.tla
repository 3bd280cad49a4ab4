--------------------------- MODULE CanSend_proofs ---------------------------
(***************************************************************************)
(* CanSend for a ring of any size, any set of PGNs and any table of        *)
(* sequence counters.                                                      *)
(*                                                                         *)
(* The heart is RingIsFifo, which is inductive by itself once the types    *)
(* are known: a step moves the head of the backlog to the bus, appends to  *)
(* the backlog, or, with nothing in the ring, appends to the bus.          *)
(* InProgress adds where the message being sent stands among the frames,   *)
(* and TableHoldsLast what the table of counters knows of the PGNs.        *)
(***************************************************************************)
EXTENDS CanSend, SequenceTheorems, TLAPS

SeqNos == 0 .. SeqModulus - 1
Messages == [pgn : AllPgns, seq : SeqNos, result : {"sending", "sent", "failed"}]
Counters == [pgn : FastPgns, sc : SeqNos]

(* What TypeOK says of a message being sent. *)
Sending == /\ log # <<>>
           /\ log[Len(log)].result = "sending"
           /\ next < FrameCount[log[Len(log)].pgn]

-----------------------------------------------------------------------------
(* Types, one lemma for each part that several actions share. *)

LEMMA OpenTypes ==
  ASSUME TypeOK, Open
  PROVE  /\ openState' \in {"os_None", "os_OpenCAN", "os_WaitOpen", "os_Open"}
         /\ openDue' \in BOOLEAN
BY DEF TypeOK, Open, openVars

LEMMA SequenceTypes ==
  ASSUME TypeOK, NEW pgn \in FastPgns, NEW sc \in SeqNos, SequenceCounter(pgn, sc)
  PROVE  slots' \in Seq(Counters) /\ common' \in SeqNos
<1>t. slots \in Seq(Counters) /\ common \in SeqNos
  BY DEF TypeOK, Counters, SeqNos
<1>1. ASSUME NEW i \in SlotOf(pgn), slots' = [slots EXCEPT ![i].sc = sc],
             UNCHANGED common
      PROVE  slots' \in Seq(Counters) /\ common' \in SeqNos
  <2>1. i \in 1 .. Len(slots)
    BY <1>1 DEF SlotOf
  <2>2. slots[i] \in Counters
    BY <2>1, <1>t
  <2>3. [slots[i] EXCEPT !.sc = sc] \in Counters
    BY <2>2 DEF Counters
  <2>4. slots' = [slots EXCEPT ![i] = [slots[i] EXCEPT !.sc = sc]]
    BY <1>1, <2>1, <1>t
  <2>5. slots' \in Seq(Counters)
    BY <2>1, <2>3, <2>4, <1>t
  <2> QED
    BY <1>1, <1>t, <2>5
<1>2. ASSUME slots' = Append(slots, [pgn |-> pgn, sc |-> 0]), UNCHANGED common
      PROVE  slots' \in Seq(Counters) /\ common' \in SeqNos
  <2>1. [pgn |-> pgn, sc |-> 0] \in Counters
    BY SendAssumption DEF Counters, SeqNos
  <2> QED
    BY <1>2, <1>t, <2>1
<1>3. CASE common' = sc /\ UNCHANGED slots
  BY <1>3, <1>t
<1> QED
  BY <1>1, <1>2, <1>3 DEF SequenceCounter, seqVars

LEMMA BeginTypes ==
  ASSUME TypeOK, NEW pgn \in AllPgns, BeginFrames(pgn)
  PROVE  /\ slots' \in Seq(Counters) /\ common' \in SeqNos
         /\ log' \in Seq(Messages)
         /\ next' \in Nat
         /\ pc' = "sending"
         /\ Sending'
<1>t. log \in Seq(Messages) /\ slots \in Seq(Counters) /\ common \in SeqNos
  BY DEF TypeOK, Counters, SeqNos, Messages
<1>1. PICK sc \in SeqNos :
        /\ IF pgn \in FastPgns THEN SequenceCounter(pgn, sc)
                               ELSE sc = 0 /\ UNCHANGED seqVars
        /\ log' = Append(log, [pgn |-> pgn, seq |-> sc, result |-> "sending"])
  BY DEF BeginFrames, SeqNos
<1>2. slots' \in Seq(Counters) /\ common' \in SeqNos
  <2>1. CASE pgn \in FastPgns
    BY <1>1, <2>1, SequenceTypes
  <2>2. CASE pgn \notin FastPgns
    BY <1>1, <2>2, <1>t DEF seqVars
  <2> QED
    BY <2>1, <2>2
<1> DEFINE r == [pgn |-> pgn, seq |-> sc, result |-> "sending"]
<1>3. r \in Messages
  BY DEF Messages
<1>4. /\ log' \in Seq(Messages) /\ Len(log') = Len(log) + 1
      /\ log' # <<>> /\ log'[Len(log')] = r
  BY <1>1, <1>3, <1>t
<1>5. next' = 0 /\ pc' = "sending"
  BY DEF BeginFrames
<1>6. 0 < FrameCount[pgn]
  BY SendAssumption
<1>7. Sending'
  BY <1>4, <1>5, <1>6 DEF Sending
<1> QED
  BY <1>2, <1>4, <1>5, <1>7

LEMMA ReturnTypes ==
  ASSUME TypeOK, pc = "sending", NEW ok \in BOOLEAN, Return(ok)
  PROVE  /\ log' \in Seq(Messages)
         /\ product' \in {"disabled", "running", "expired"}
         /\ pc' = "idle"
         /\ next' = next
<1> DEFINE m == Len(log)
           res == IF ok THEN "sent" ELSE "failed"
<1>t. log \in Seq(Messages) /\ log # <<>> /\ product \in {"disabled", "running", "expired"}
  BY DEF TypeOK, Messages, SeqNos
<1>1. m \in 1 .. Len(log) /\ log[m] \in Messages
  BY <1>t
<1>2. [log[m] EXCEPT !.result = res] \in Messages
  BY <1>1 DEF Messages
<1>3. log' = [log EXCEPT ![m] = [log[m] EXCEPT !.result = res]]
  BY <1>1, <1>t DEF Return
<1>4. log' \in Seq(Messages)
  BY <1>1, <1>2, <1>3, <1>t
<1> QED
  BY <1>4, <1>t DEF Return

LEMMA AcceptedTypes ==
  ASSUME TypeOK, pc = "sending", FrameAccepted
  PROVE  /\ log' \in Seq(Messages)
         /\ product' \in {"disabled", "running", "expired"}
         /\ pc' \in {"idle", "sending", "parsing"}
         /\ next' \in Nat
         /\ pc' = "sending" => Sending'
<1>t. /\ log \in Seq(Messages) /\ log # <<>> /\ next \in Nat
      /\ product \in {"disabled", "running", "expired"}
      /\ Sending
  BY DEF TypeOK, Messages, SeqNos, Sending
<1>1. CASE next + 1 < FrameCount[log[Len(log)].pgn]
  BY <1>1, <1>t DEF FrameAccepted, Sending
<1>2. CASE ~(next + 1 < FrameCount[log[Len(log)].pgn])
  BY <1>2, <1>t, ReturnTypes DEF FrameAccepted
<1> QED
  BY <1>1, <1>2

LEMMA CurrentFrameType ==
  ASSUME TypeOK, pc = "sending"
  PROVE  CurrentFrame \in Frames
<1>1. log \in Seq(Messages) /\ log # <<>> /\ next \in Nat
  BY DEF TypeOK, Messages, SeqNos
<1>2. Len(log) \in 1 .. Len(log) /\ log[Len(log)] \in Messages
  BY <1>1
<1> QED
  BY <1>1, <1>2 DEF CurrentFrame, Frames, Messages, SeqNos

LEMMA SuccType == ASSUME NEW s \in Slot PROVE Succ(s) \in Slot
BY SendAssumption DEF Succ, Slot


-----------------------------------------------------------------------------
(* The ring. *)

(* One lap around the ring. *)
LEMMA Wrap ==
  ASSUME NEW N \in Nat \ {0}, NEW a \in Nat, a < N + N
  PROVE  a % N = IF a < N THEN a ELSE a - N
OBVIOUS

LEMMA BacklogLength ==
  ASSUME TypeOK
  PROVE  /\ Used \in 0 .. RingSize - 1
         /\ Len(Backlog) = Used
         /\ RingEmpty <=> Used = 0
         /\ RingFull <=> Used = RingSize - 1
<1>t. rd \in Slot /\ wr \in Slot /\ RingSize \in Nat \ {0}
  BY SendAssumption DEF TypeOK
<1>1. Used \in 0 .. RingSize - 1 /\ (RingEmpty <=> Used = 0)
  BY <1>t DEF Used, Slot, RingEmpty
<1>2. RingFull <=> Used = RingSize - 1
  BY <1>t DEF Used, Slot, RingFull, Succ
<1>3. Len(Backlog) = Used
  BY <1>1 DEF Backlog
<1> QED
  BY <1>1, <1>2, <1>3

(* Reading a slot takes the head off the backlog. *)
LEMMA BacklogPop ==
  ASSUME TypeOK, ~RingEmpty, rd' = Succ(rd), UNCHANGED <<ring, wr>>
  PROVE  /\ Backlog # <<>>
         /\ Head(Backlog) = ring[Succ(rd)]
         /\ Backlog' = Tail(Backlog)
<1>t. rd \in Slot /\ wr \in Slot /\ RingSize \in Nat \ {0} /\ Succ(rd) \in Slot
  BY SendAssumption, SuccType DEF TypeOK
<1>1. Used \in 1 .. RingSize - 1 /\ Len(Backlog) = Used /\ Backlog \in Seq(Frames)
  BY BacklogLength DEF TypeOK
<1>2. Used' = Used - 1
  BY <1>t DEF Used, Slot, RingEmpty, Succ
<1>3. Head(Backlog) = ring[Succ(rd)]
  BY <1>1 DEF Backlog, Succ
<1>4. ASSUME NEW k \in 1 .. Used - 1
      PROVE  (Succ(rd) + k) % RingSize = (rd + (k + 1)) % RingSize
  BY <1>t, <1>1 DEF Succ, Slot
<1>5. /\ Backlog' = [k \in 1 .. Used - 1 |-> ring[(Succ(rd) + k) % RingSize]]
      /\ \A k \in 1 .. Used - 1 : Backlog'[k] = Backlog[k + 1]
  <2>1. Backlog' = [k \in 1 .. Used - 1 |-> ring[(Succ(rd) + k) % RingSize]]
    BY <1>2 DEF Backlog
  <2>2. \A k \in 1 .. Used - 1 : k + 1 \in 1 .. Used
    BY <1>1
  <2> QED
    BY <2>1, <2>2, <1>4 DEF Backlog
<1>6. /\ Tail(Backlog) \in Seq(Frames) /\ Len(Tail(Backlog)) = Used - 1
      /\ \A k \in 1 .. Used - 1 : Tail(Backlog)[k] = Backlog[k + 1]
  BY <1>1
<1>7. Backlog' \in Seq(Frames) /\ Len(Backlog') = Used - 1
  <2>1. \A k \in 1 .. Used - 1 : Backlog'[k] \in Frames
    BY <1>1, <1>5
  <2>2. Backlog' \in [1 .. Used - 1 -> Frames]
    BY <1>5, <2>1
  <2> QED
    BY <2>2, <1>1
<1>8. Backlog' = Tail(Backlog)
  BY <1>5, <1>6, <1>7, SeqEqual
<1> QED
  BY <1>1, <1>3, <1>8

(* Writing the next free slot appends to the backlog. *)
LEMMA BacklogPush ==
  ASSUME TypeOK, ~RingFull, NEW f \in Frames,
         wr' = Succ(wr), ring' = [ring EXCEPT ![Succ(wr)] = f], UNCHANGED rd
  PROVE  Backlog' = Append(Backlog, f)
<1>t. /\ rd \in Slot /\ wr \in Slot /\ RingSize \in Nat \ {0} /\ Succ(wr) \in Slot
      /\ ring \in [Slot -> Frames \cup {<<>>}]
  BY SendAssumption, SuccType DEF TypeOK
<1>1. /\ Used \in 0 .. RingSize - 2 /\ Len(Backlog) = Used
      /\ Backlog \in Seq(Frames)
  <2>1. /\ Used \in 0 .. RingSize - 1 /\ Len(Backlog) = Used
        /\ Used # RingSize - 1
    BY BacklogLength
  <2> QED
    BY <2>1, <1>t DEF TypeOK
<1>2. Used' = Used + 1
  BY <1>t DEF Used, Slot, RingFull, Succ
<1>3. (rd + (Used + 1)) % RingSize = Succ(wr)
  BY <1>t DEF Used, Slot, Succ
<1>4. ASSUME NEW k \in 1 .. Used
      PROVE  (rd + k) % RingSize # Succ(wr) /\ (rd + k) % RingSize \in Slot
  <2>1. (rd + k) % RingSize = IF rd + k < RingSize THEN rd + k ELSE rd + k - RingSize
    <3>1. k \in Nat /\ k < RingSize /\ rd \in Nat /\ rd < RingSize
      BY <1>t, <1>1 DEF Slot
    <3>2. rd + k \in Nat /\ rd + k < RingSize + RingSize
      BY <3>1, <1>t
    <3> DEFINE a == rd + k
    <3>3. a \in Nat /\ a < RingSize + RingSize
      BY <3>2
    <3> HIDE DEF a
    <3>4. a % RingSize = IF a < RingSize THEN a ELSE a - RingSize
      BY <3>3, SendAssumption, Wrap
    <3> QED
      BY <3>1, <3>2, <3>4, SendAssumption DEF a
  <2>2. Succ(wr) = IF wr + 1 < RingSize THEN wr + 1 ELSE 0
    BY <1>t DEF Slot, Succ
  <2>3. /\ k \in Nat /\ 1 <= k /\ k <= Used /\ Used <= RingSize - 2
        /\ rd \in Nat /\ rd < RingSize /\ wr \in Nat /\ wr < RingSize
    BY <1>t, <1>1 DEF Slot
  <2>4. CASE rd <= wr
    <3>1. Used = wr - rd
      BY <2>4 DEF Used
    <3> QED
      BY <3>1, <2>1, <2>2, <2>3, <2>4, <1>t DEF Slot
  <2>5. CASE ~(rd <= wr)
    <3>1. Used = wr + RingSize - rd
      BY <2>5 DEF Used
    <3> QED
      BY <3>1, <2>1, <2>2, <2>3, <2>5, <1>t DEF Slot
  <2> QED
    BY <2>4, <2>5
<1>5. Backlog' = [k \in 1 .. Used + 1 |-> ring'[(rd + k) % RingSize]]
  BY <1>2 DEF Backlog
<1>6. ring'[Succ(wr)] = f
  BY <1>t
<1>7. \A s \in Slot : s # Succ(wr) => ring'[s] = ring[s]
  BY <1>t
<1>8. ASSUME NEW k \in 1 .. Used + 1
      PROVE  Backlog'[k] = Append(Backlog, f)[k]
  <2>1. CASE k = Used + 1
    BY <2>1, <1>1, <1>3, <1>5, <1>6
  <2>2. CASE k \in 1 .. Used
    <3>1. Backlog'[k] = ring[(rd + k) % RingSize]
      BY <2>2, <1>1, <1>4, <1>5, <1>7
    <3>2. Append(Backlog, f)[k] = Backlog[k]
      BY <2>2, <1>1
    <3> QED
      BY <3>1, <3>2, <2>2 DEF Backlog
  <2> QED
    BY <2>1, <2>2, <1>1
<1>9. /\ Append(Backlog, f) \in Seq(Frames)
      /\ Len(Append(Backlog, f)) = Used + 1
  BY <1>1
<1>10. Backlog' \in Seq(Frames) /\ Len(Backlog') = Used + 1
  <2>1. \A k \in 1 .. Used + 1 : Backlog'[k] \in Frames
    BY <1>8, <1>9
  <2>2. Backlog' \in [1 .. Used + 1 -> Frames]
    BY <1>5, <2>1
  <2> QED
    BY <2>2, <1>1
<1> QED
  BY <1>8, <1>9, <1>10, SeqEqual

-----------------------------------------------------------------------------
(* The variables that most actions leave alone, with their types. *)
LibraryTypes ==
  /\ openState \in {"os_None", "os_OpenCAN", "os_WaitOpen", "os_Open"}
  /\ openDue \in BOOLEAN
  /\ app \in {"start", "announce", "running", "gone"}
  /\ slots \in Seq(Counters) /\ common \in SeqNos
  /\ msgs \in 0 .. MaxMsgs
  /\ refusals \in 0 .. MaxRefusals

MessageTypes ==
  /\ pc \in {"idle", "sending", "parsing"}
  /\ next \in Nat
  /\ product \in {"disabled", "running", "expired"}
  /\ log \in Seq(Messages)
  /\ pc = "sending" => Sending

RingTypes ==
  /\ ring \in [Slot -> Frames \cup {<<>>}]
  /\ rd \in Slot /\ wr \in Slot
  /\ Backlog \in Seq(Frames)
  /\ accepted \in Seq(Frames)
  /\ bus \in Seq(Frames)

LEMMA TypeParts == TypeOK <=> LibraryTypes /\ MessageTypes /\ RingTypes
BY DEF TypeOK, LibraryTypes, MessageTypes, RingTypes, Counters, Messages, SeqNos,
   Sending

LEMMA TypePartsNext == TypeOK' <=> LibraryTypes' /\ MessageTypes' /\ RingTypes'
BY DEF TypeOK, LibraryTypes, MessageTypes, RingTypes, Counters, Messages, SeqNos,
   Sending

LEMMA RingUntouched ==
  ASSUME RingTypes, UNCHANGED <<ringVars, accepted, bus>>
  PROVE  RingTypes' /\ Backlog' = Backlog
<1>1. Backlog' = Backlog
  BY DEF ringVars, Backlog, Used
<1> QED
  BY <1>1 DEF RingTypes, ringVars

LEMMA SendMsgTypes ==
  ASSUME TypeOK, NEW pgn \in AllPgns, SendMsg(pgn)
  PROVE  /\ openState' \in {"os_None", "os_OpenCAN", "os_WaitOpen", "os_Open"}
         /\ openDue' \in BOOLEAN
         /\ slots' \in Seq(Counters) /\ common' \in SeqNos
         /\ pc' \in {"idle", "sending", "parsing"}
         /\ next' \in Nat
         /\ log' \in Seq(Messages)
         /\ pc' = "sending" => Sending'
<1>t. LibraryTypes /\ MessageTypes
  BY TypeParts
<1>1. CASE openState' = "os_Open"
  BY <1>1, OpenTypes, BeginTypes DEF SendMsg
<1>2. CASE openState' # "os_Open"
  BY <1>2, <1>t, OpenTypes DEF SendMsg, LibraryTypes, MessageTypes, seqVars
<1> QED
  BY <1>1, <1>2

(* Types, with the ring's read and write positions in range (Slot).        *)
THEOREM TypeCorrect == Spec => []TypeOK
<1>1. Init => TypeOK
  <2> SUFFICES ASSUME Init PROVE TypeOK
    OBVIOUS
  <2>1. LibraryTypes /\ MessageTypes
    BY SendAssumption DEF Init, LibraryTypes, MessageTypes, Counters, Messages, SeqNos
  <2>2. Backlog = <<>>
    BY DEF Init, Backlog, Used
  <2>3. RingTypes
    BY <2>2, SendAssumption DEF Init, RingTypes, Slot
  <2> QED
    BY <2>1, <2>3, TypeParts
<1>2. TypeOK /\ [Next]_vars => TypeOK'
  <2> SUFFICES ASSUME TypeOK, [Next]_vars PROVE TypeOK'
    OBVIOUS
  <2>t. LibraryTypes /\ MessageTypes /\ RingTypes
    BY TypeParts
  <2>1. CASE Tick
    <3>1. LibraryTypes' /\ MessageTypes'
      BY <2>1, <2>t DEF Tick, LibraryTypes, MessageTypes, Sending, seqVars
    <3> QED
      BY <2>1, <2>t, <3>1, TypePartsNext, RingUntouched DEF Tick
  <2>2. CASE MainOpen
    <3>1. LibraryTypes' /\ MessageTypes'
      BY <2>2, <2>t, OpenTypes DEF MainOpen, LibraryTypes, MessageTypes, Sending, seqVars
    <3> QED
      BY <2>2, <2>t, <3>1, TypePartsNext, RingUntouched DEF MainOpen
  <2>3. CASE MainSendProductInformation
    <3>1. LibraryTypes' /\ MessageTypes'
      BY <2>3, <2>t, SendMsgTypes DEF MainSendProductInformation, AllPgns, SendMsg,
         LibraryTypes, MessageTypes
    <3> QED
      BY <2>3, <2>t, <3>1, TypePartsNext, RingUntouched
      DEF MainSendProductInformation, SendMsg
  <2>4. ASSUME NEW pgn \in Pgns, ConverterSend(pgn) PROVE TypeOK'
    <3>1. msgs' \in 0 .. MaxMsgs
      BY <2>4, <2>t, SendAssumption DEF ConverterSend, LibraryTypes
    <3>2. LibraryTypes' /\ MessageTypes'
      BY <2>4, <2>t, <3>1, SendMsgTypes DEF ConverterSend, AllPgns, SendMsg,
         LibraryTypes, MessageTypes
    <3> QED
      BY <2>4, <2>t, <3>2, TypePartsNext, RingUntouched DEF ConverterSend, SendMsg
  <2>5. CASE BeginParse
    <3>1. LibraryTypes' /\ MessageTypes'
      BY <2>5, <2>t, OpenTypes DEF BeginParse, LibraryTypes, MessageTypes, seqVars
    <3> QED
      BY <2>5, <2>t, <3>1, TypePartsNext, RingUntouched DEF BeginParse
  <2>6. CASE FlushFrame
    <3>1. LibraryTypes' /\ MessageTypes'
      BY <2>6, <2>t DEF FlushFrame, LibraryTypes, MessageTypes, Sending, seqVars, openVars
    <3>2. /\ Backlog # <<>> /\ Head(Backlog) = ring[Succ(rd)]
          /\ Backlog' = Tail(Backlog)
      BY <2>6, BacklogPop DEF FlushFrame
    <3>3. ring[Succ(rd)] \in Frames /\ Backlog' \in Seq(Frames)
      <4>1. Backlog \in Seq(Frames)
        BY <2>t DEF RingTypes
      <4> QED
        BY <3>2, <4>1
    <3>4. RingTypes'
      BY <2>6, <2>t, <3>3, SuccType DEF FlushFrame, RingTypes
    <3> QED
      BY <3>1, <3>4, TypePartsNext
  <2>7. CASE SendDirect
    <3>1. LibraryTypes' /\ MessageTypes'
      BY <2>7, <2>t, AcceptedTypes DEF SendDirect, LibraryTypes, MessageTypes, seqVars,
         openVars
    <3>2. Backlog' = Backlog
      BY <2>7 DEF SendDirect, ringVars, Backlog, Used
    <3>3. RingTypes'
      BY <2>7, <2>t, <3>2, CurrentFrameType DEF SendDirect, RingTypes, ringVars
    <3> QED
      BY <3>1, <3>3, TypePartsNext
  <2>8. CASE BufferFrame
    <3>1. refusals' \in 0 .. MaxRefusals
      BY <2>8, <2>t, SendAssumption DEF BufferFrame, LibraryTypes
    <3>2. LibraryTypes' /\ MessageTypes'
      BY <2>8, <2>t, <3>1, AcceptedTypes DEF BufferFrame, LibraryTypes, MessageTypes,
         seqVars, openVars
    <3>3. CurrentFrame \in Frames
      BY <2>8, CurrentFrameType DEF BufferFrame
    <3>4. Backlog' = Append(Backlog, CurrentFrame)
      BY <2>8, <3>3, BacklogPush DEF BufferFrame
    <3>5. RingTypes'
      BY <2>8, <2>t, <3>3, <3>4, SuccType DEF BufferFrame, RingTypes
    <3> QED
      BY <3>2, <3>5, TypePartsNext
  <2>9. CASE FrameLost
    <3>1. refusals' \in 0 .. MaxRefusals
      BY <2>9, <2>t, SendAssumption DEF FrameLost, LibraryTypes
    <3>2. LibraryTypes' /\ MessageTypes'
      BY <2>9, <2>t, <3>1, ReturnTypes DEF FrameLost, LibraryTypes, MessageTypes,
         seqVars, openVars
    <3> QED
      BY <2>9, <2>t, <3>2, TypePartsNext, RingUntouched DEF FrameLost
  <2>10. ASSUME NEW refused \in BOOLEAN, EndFlush(refused) PROVE TypeOK'
    <3>1. refusals' \in 0 .. MaxRefusals
      BY <2>10, <2>t, SendAssumption DEF EndFlush, LibraryTypes
    <3>2. CASE product = "expired"
      <4>1. LibraryTypes' /\ MessageTypes'
        BY <2>10, <2>t, <3>1, <3>2, BeginTypes DEF EndFlush, LibraryTypes, MessageTypes,
           openVars, AllPgns
      <4> QED
        BY <2>10, <2>t, <4>1, TypePartsNext, RingUntouched DEF EndFlush
    <3>3. CASE product # "expired"
      <4>1. LibraryTypes' /\ MessageTypes'
        BY <2>10, <2>t, <3>1, <3>3 DEF EndFlush, LibraryTypes, MessageTypes,
           openVars, seqVars
      <4> QED
        BY <2>10, <2>t, <4>1, TypePartsNext, RingUntouched DEF EndFlush
    <3> QED
      BY <3>2, <3>3
  <2>11. CASE UNCHANGED vars
    <3>1. LibraryTypes' /\ MessageTypes'
      BY <2>11, <2>t DEF vars, LibraryTypes, MessageTypes, Sending, seqVars, openVars
    <3> QED
      BY <2>11, <2>t, <3>1, TypePartsNext, RingUntouched DEF vars
  <2> QED
    BY <2>1, <2>2, <2>3, <2>4, <2>5, <2>6, <2>7, <2>8, <2>9, <2>10, <2>11
    DEF Next, LibraryStep
<1> QED
  BY <1>1, <1>2, PTL DEF Spec

-----------------------------------------------------------------------------
(* What a step does to the histories and the ring. *)
FifoStep ==
  \/ UNCHANGED <<bus, accepted>> /\ Backlog' = Backlog
  \/ /\ UNCHANGED accepted
     /\ Backlog # <<>>
     /\ bus' = Append(bus, Head(Backlog)) /\ Backlog' = Tail(Backlog)
  \/ \E f \in Frames :
       /\ accepted' = Append(accepted, f)
       /\ \/ UNCHANGED bus /\ Backlog' = Append(Backlog, f)
          \/ Backlog = <<>> /\ Backlog' = <<>> /\ bus' = Append(bus, f)

LEMMA FifoSteps ==
  ASSUME TypeOK, [Next]_vars
  PROVE  FifoStep
<1>0. CASE UNCHANGED <<ringVars, bus, accepted>>
  BY <1>0, TypeParts, RingUntouched DEF FifoStep
<1>1. CASE FlushFrame
  BY <1>1, BacklogPop DEF FlushFrame, FifoStep
<1>2. CASE SendDirect
  <2>1. CurrentFrame \in Frames
    BY <1>2, CurrentFrameType DEF SendDirect
  <2>2. Backlog' = Backlog
    BY <1>2 DEF SendDirect, ringVars, Backlog, Used
  <2>3. Backlog = <<>>
    <3>1. Len(Backlog) = 0 /\ Backlog \in Seq(Frames)
      BY <1>2, BacklogLength DEF SendDirect, TypeOK
    <3> QED
      BY <3>1
  <2> QED
    BY <1>2, <2>1, <2>2, <2>3 DEF SendDirect, FifoStep
<1>3. CASE BufferFrame
  <2>1. CurrentFrame \in Frames
    BY <1>3, CurrentFrameType DEF BufferFrame
  <2>2. Backlog' = Append(Backlog, CurrentFrame)
    BY <1>3, <2>1, BacklogPush DEF BufferFrame
  <2> QED
    BY <1>3, <2>1, <2>2 DEF BufferFrame, FifoStep
<1>4. CASE FrameLost \/ \E refused \in BOOLEAN : EndFlush(refused)
  BY <1>4, <1>0 DEF FrameLost, EndFlush
<1>5. CASE Tick \/ MainOpen \/ BeginParse
  BY <1>5, <1>0 DEF Tick, MainOpen, BeginParse
<1>6. CASE MainSendProductInformation \/ \E pgn \in Pgns : ConverterSend(pgn)
  BY <1>6, <1>0 DEF MainSendProductInformation, ConverterSend, SendMsg
<1>7. CASE UNCHANGED vars
  BY <1>7, <1>0 DEF vars
<1> QED
  BY <1>1, <1>2, <1>3, <1>4, <1>5, <1>6, <1>7 DEF Next, LibraryStep

(* Frames reach the driver in the order in which they were accepted,       *)
(* through the ring or past it.                                            *)
THEOREM InOrder == Spec => []RingIsFifo
<1>1. Init => RingIsFifo
  <2> SUFFICES ASSUME Init PROVE RingIsFifo
    OBVIOUS
  <2>1. Backlog = <<>>
    BY DEF Init, Backlog, Used
  <2> QED
    BY <2>1 DEF Init, RingIsFifo
<1>2. TypeOK /\ RingIsFifo /\ [Next]_vars => RingIsFifo'
  <2> SUFFICES ASSUME TypeOK, RingIsFifo, [Next]_vars PROVE RingIsFifo'
    OBVIOUS
  <2>t. bus \in Seq(Frames) /\ accepted \in Seq(Frames) /\ Backlog \in Seq(Frames)
    BY DEF TypeOK
  <2>1. CASE UNCHANGED <<bus, accepted>> /\ Backlog' = Backlog
    BY <2>1 DEF RingIsFifo
  <2>2. CASE /\ UNCHANGED accepted
             /\ Backlog # <<>>
             /\ bus' = Append(bus, Head(Backlog)) /\ Backlog' = Tail(Backlog)
    <3>1. Append(bus, Head(Backlog)) \o Tail(Backlog) = bus \o Backlog
      BY <2>2, <2>t
    <3> QED
      BY <2>2, <3>1 DEF RingIsFifo
  <2>3. ASSUME NEW f \in Frames, accepted' = Append(accepted, f),
               UNCHANGED bus, Backlog' = Append(Backlog, f)
        PROVE  RingIsFifo'
    <3>1. bus \o Append(Backlog, f) = Append(bus \o Backlog, f)
      BY <2>t
    <3> QED
      BY <2>3, <3>1 DEF RingIsFifo
  <2>4. ASSUME NEW f \in Frames, accepted' = Append(accepted, f),
               Backlog = <<>>, Backlog' = <<>>, bus' = Append(bus, f)
        PROVE  RingIsFifo'
    BY <2>4, <2>t DEF RingIsFifo
  <2> QED
    BY <2>1, <2>2, <2>3, <2>4, FifoSteps DEF FifoStep
<1> QED
  BY <1>1, <1>2, TypeCorrect, PTL DEF Spec

(* Appending keeps what was there. *)
LEMMA AppendExtends ==
  ASSUME NEW S, NEW s \in Seq(S), NEW v \in S
  PROVE  /\ Append(s, v) \in Seq(S)
         /\ Len(Append(s, v)) = Len(s) + 1
         /\ SubSeq(Append(s, v), 1, Len(s)) = s
<1>1. /\ Append(s, v) \in Seq(S)
      /\ Len(Append(s, v)) = Len(s) + 1
  OBVIOUS
<1>2. SubSeq(Append(s, v), 1, Len(s)) = s
  OBVIOUS
<1> QED
  BY <1>1, <1>2

(* The send path implements the queue every part of the gateway relies on. *)
THEOREM ImplementsFifo == Spec => CanFifo
<1>1. Init => Abstract!Init
  BY DEF Init, Abstract!Init
<1>2. TypeOK /\ RingIsFifo /\ [Next]_vars => [Abstract!Next]_(Abstract!vars)
  <2> SUFFICES ASSUME TypeOK, RingIsFifo, [Next]_vars
               PROVE  [Abstract!Next]_(Abstract!vars)
    OBVIOUS
  <2> USE DEF Abstract!Next, Abstract!vars
  <2>t. bus \in Seq(Frames) /\ accepted \in Seq(Frames) /\ Backlog \in Seq(Frames)
    BY DEF TypeOK
  <2>1. CASE UNCHANGED <<bus, accepted>>
    BY <2>1
  <2>2. CASE /\ UNCHANGED accepted
             /\ Backlog # <<>>
             /\ bus' = Append(bus, Head(Backlog))
    <3>1. Len(bus) < Len(bus \o Backlog) /\ (bus \o Backlog)[Len(bus) + 1] = Head(Backlog)
      BY <2>2, <2>t
    <3> QED
      BY <2>2, <3>1 DEF Abstract!Get, RingIsFifo
  <2>3. ASSUME NEW f \in Frames, accepted' = Append(accepted, f), UNCHANGED bus
        PROVE  Abstract!Put
    BY <2>3, <2>t, AppendExtends DEF Abstract!Put, Abstract!OneMorePut
  <2>4. ASSUME NEW f \in Frames, accepted' = Append(accepted, f),
               Backlog = <<>>, bus' = Append(bus, f)
        PROVE  Abstract!PassThrough
    <3>1. bus = accepted
      BY <2>4, <2>t DEF RingIsFifo
    <3> QED
      BY <2>4, <2>t, <3>1, AppendExtends DEF Abstract!PassThrough, Abstract!OneMorePut
  <2> QED
    BY <2>1, <2>2, <2>3, <2>4, FifoSteps DEF FifoStep
<1> QED
  BY <1>1, <1>2, TypeCorrect, InOrder, PTL DEF Spec, CanFifo, Abstract!Spec

-----------------------------------------------------------------------------
(* What a step does to the messages and their frames. *)
MessageStep ==
  \/ UNCHANGED <<next, log, accepted>> /\ (pc' = "sending" => pc = "sending")
  \/ /\ UNCHANGED accepted
     /\ next' = 0 /\ pc' = "sending"
     /\ \E r \in Messages : r.result = "sending" /\ log' = Append(log, r)
  \/ /\ pc = "sending"
     /\ accepted' = Append(accepted, CurrentFrame)
     /\ FrameAccepted
  \/ pc = "sending" /\ UNCHANGED accepted /\ Return(FALSE)

LEMMA Begins ==
  ASSUME TypeOK, NEW pgn \in AllPgns, BeginFrames(pgn), UNCHANGED accepted
  PROVE  MessageStep
<1>1. PICK sc \in SeqNos :
         log' = Append(log, [pgn |-> pgn, seq |-> sc, result |-> "sending"])
  BY DEF BeginFrames, SeqNos
<1> DEFINE r == [pgn |-> pgn, seq |-> sc, result |-> "sending"]
<1>2. r \in Messages /\ r.result = "sending" /\ log' = Append(log, r)
  BY <1>1 DEF Messages
<1> HIDE DEF r
<1>3. \E x \in Messages : x.result = "sending" /\ log' = Append(log, x)
  BY <1>2
<1> QED
  BY <1>3 DEF BeginFrames, MessageStep

LEMMA MessageSteps ==
  ASSUME TypeOK, [Next]_vars
  PROVE  MessageStep
<1>1. CASE SendDirect
  BY <1>1 DEF SendDirect, MessageStep
<1>2. CASE BufferFrame
  BY <1>2 DEF BufferFrame, MessageStep
<1>3. CASE FrameLost
  BY <1>3 DEF FrameLost, MessageStep
<1>4. ASSUME NEW refused \in BOOLEAN, EndFlush(refused) PROVE MessageStep
  <2>1. CASE product = "expired"
    BY <1>4, <2>1, Begins DEF EndFlush, AllPgns
  <2>2. CASE product # "expired"
    BY <1>4, <2>2 DEF EndFlush, MessageStep
  <2> QED
    BY <2>1, <2>2
<1>5. ASSUME NEW pgn \in AllPgns, SendMsg(pgn) PROVE MessageStep
  <2>1. CASE openState' = "os_Open"
    BY <1>5, <2>1, Begins DEF SendMsg
  <2>2. CASE openState' # "os_Open"
    BY <1>5, <2>2 DEF SendMsg, MessageStep
  <2> QED
    BY <2>1, <2>2
<1>6. CASE MainSendProductInformation \/ \E pgn \in Pgns : ConverterSend(pgn)
  BY <1>5, <1>6 DEF MainSendProductInformation, ConverterSend, AllPgns
<1>7. CASE Tick \/ MainOpen \/ BeginParse \/ FlushFrame
  BY <1>7 DEF Tick, MainOpen, BeginParse, FlushFrame, MessageStep
<1>8. CASE UNCHANGED vars
  BY <1>8 DEF vars, MessageStep
<1> QED
  BY <1>1, <1>2, <1>3, <1>4, <1>6, <1>7, <1>8 DEF Next, LibraryStep

(* Frame k of message m is among the frames s. *)
Has(s, m, k) == \E j \in 1 .. Len(s) : s[j].msg = m /\ s[j].idx = k

(* While a message is being sent, its frames before next were accepted,    *)
(* and next - 1 is the last frame accepted of all.                         *)
InProgress ==
  pc = "sending" =>
    /\ next > 0 => /\ Len(accepted) > 0
                   /\ accepted[Len(accepted)].msg = Len(log)
                   /\ accepted[Len(accepted)].idx = next - 1
    /\ \A k \in 0 .. next - 1 : Has(accepted, Len(log), k)

LEMMA CurrentAccepted ==
  ASSUME TypeOK, pc = "sending", accepted' = Append(accepted, CurrentFrame)
  PROVE  /\ Len(accepted') = Len(accepted) + 1
         /\ \A j \in 1 .. Len(accepted) : accepted'[j] = accepted[j]
         /\ accepted'[Len(accepted')].msg = Len(log)
         /\ accepted'[Len(accepted')].idx = next
<1>1. accepted \in Seq(Frames) /\ CurrentFrame \in Frames
  BY CurrentFrameType DEF TypeOK
<1>2. /\ Len(accepted') = Len(accepted) + 1
      /\ \A j \in 1 .. Len(accepted) : accepted'[j] = accepted[j]
      /\ accepted'[Len(accepted')] = CurrentFrame
  BY <1>1
<1>3. CurrentFrame.msg = Len(log) /\ CurrentFrame.idx = next
  BY DEF CurrentFrame
<1> QED
  BY <1>2, <1>3

LEMMA HasStays ==
  ASSUME TypeOK, MessageStep, NEW m, NEW k, Has(accepted, m, k)
  PROVE  Has(accepted', m, k)
<1>1. PICK j \in 1 .. Len(accepted) : accepted[j].msg = m /\ accepted[j].idx = k
  BY DEF Has
<1>2. CASE UNCHANGED accepted
  BY <1>1, <1>2 DEF Has
<1>3. CASE pc = "sending" /\ accepted' = Append(accepted, CurrentFrame)
  <2>1. Len(accepted') = Len(accepted) + 1 /\ accepted'[j] = accepted[j]
    BY <1>3, CurrentAccepted
  <2>2. j \in 1 .. Len(accepted')
    <3>1. Len(accepted) \in Nat
      BY DEF TypeOK
    <3> QED
      BY <2>1, <3>1
  <2> QED
    BY <1>1, <2>1, <2>2 DEF Has
<1> QED
  BY <1>2, <1>3 DEF MessageStep

LEMMA ProgressKept ==
  ASSUME TypeOK, InProgress, MessageStep
  PROVE  InProgress'
<1>t. log \in Seq(Messages) /\ next \in Nat /\ accepted \in Seq(Frames)
  BY TypeParts DEF MessageTypes, RingTypes
<1>1. CASE UNCHANGED <<next, log, accepted>> /\ (pc' = "sending" => pc = "sending")
  BY <1>1 DEF InProgress, Has
<1>2. CASE next' = 0
  BY <1>2 DEF InProgress
<1>3. CASE /\ pc = "sending"
           /\ accepted' = Append(accepted, CurrentFrame)
           /\ FrameAccepted
  <2>1. CASE next' = next + 1 /\ UNCHANGED <<pc, log, product>>
    <3>1. /\ Len(accepted') = Len(accepted) + 1
          /\ accepted'[Len(accepted')].msg = Len(log)
          /\ accepted'[Len(accepted')].idx = next
      BY <1>3, CurrentAccepted
    <3>2. Len(accepted') > 0 /\ Len(accepted') \in 1 .. Len(accepted')
      BY <3>1, <1>t
    <3>3. Has(accepted', Len(log), next)
      BY <3>1, <3>2, <2>1 DEF Has
    <3>4. ASSUME NEW k \in 0 .. next - 1 PROVE Has(accepted', Len(log), k)
      <4>1. Has(accepted, Len(log), k)
        BY <1>3 DEF InProgress
      <4>2. \A m, n : Has(accepted, m, n) => Has(accepted', m, n)
        BY HasStays
      <4> QED
        BY <4>1, <4>2, <2>1 DEF Has
    <3>5. \A k \in 0 .. next' - 1 : k = next \/ k \in 0 .. next - 1
      BY <2>1, <1>t
    <3>6. next' - 1 = next
      BY <2>1, <1>t
    <3>7. \A k \in 0 .. next' - 1 : Has(accepted', Len(log), k)
      BY <3>3, <3>4, <3>5
    <3> QED
      BY <2>1, <3>1, <3>2, <3>6, <3>7 DEF InProgress
  <2>2. CASE Return(TRUE)
    BY <2>2 DEF Return, InProgress
  <2> QED
    BY <1>3, <2>1, <2>2 DEF FrameAccepted
<1>4. CASE Return(FALSE)
  BY <1>4 DEF Return, InProgress
<1> QED
  BY <1>1, <1>2, <1>3, <1>4 DEF MessageStep

LEMMA ProgressInvariant == Spec => [](InProgress /\ FastPacketContiguous)
<1>1. Init => InProgress /\ FastPacketContiguous
  BY DEF Init, InProgress, FastPacketContiguous
<1>2. TypeOK /\ InProgress /\ FastPacketContiguous /\ [Next]_vars
        => InProgress' /\ FastPacketContiguous'
  <2> SUFFICES ASSUME TypeOK, InProgress, FastPacketContiguous, [Next]_vars
               PROVE  InProgress' /\ FastPacketContiguous'
    OBVIOUS
  <2>t. next \in Nat /\ accepted \in Seq(Frames)
    BY DEF TypeOK
  <2>1. MessageStep /\ InProgress'
    BY MessageSteps, ProgressKept
  <2>2. CASE UNCHANGED accepted
    BY <2>1, <2>2 DEF FastPacketContiguous
  <2>3. CASE pc = "sending" /\ accepted' = Append(accepted, CurrentFrame)
    <3>1. /\ Len(accepted') = Len(accepted) + 1
          /\ \A j \in 1 .. Len(accepted) : accepted'[j] = accepted[j]
          /\ accepted'[Len(accepted')].msg = Len(log)
          /\ accepted'[Len(accepted')].idx = next
      BY <2>3, CurrentAccepted
    <3> SUFFICES ASSUME NEW j \in 1 .. Len(accepted'), accepted'[j].idx > 0
                 PROVE  /\ j > 1
                        /\ accepted'[j - 1].msg = accepted'[j].msg
                        /\ accepted'[j - 1].idx = accepted'[j].idx - 1
      BY <2>1 DEF FastPacketContiguous
    <3>2. CASE j = Len(accepted')
      <4>1. /\ Len(accepted) > 0
            /\ accepted[Len(accepted)].msg = Len(log)
            /\ accepted[Len(accepted)].idx = next - 1
        BY <2>3, <3>1, <3>2 DEF InProgress
      <4>2. j - 1 = Len(accepted) /\ j > 1 /\ j - 1 \in 1 .. Len(accepted)
        BY <3>1, <3>2, <4>1, <2>t
      <4> QED
        BY <3>1, <3>2, <4>1, <4>2
    <3>3. CASE j # Len(accepted')
      <4>1. j \in 1 .. Len(accepted) /\ accepted'[j] = accepted[j]
        BY <3>1, <3>3, <2>t
      <4>2. /\ j > 1
            /\ accepted[j - 1].msg = accepted[j].msg
            /\ accepted[j - 1].idx = accepted[j].idx - 1
        BY <4>1 DEF FastPacketContiguous
      <4>3. j - 1 \in 1 .. Len(accepted)
        BY <4>1, <4>2, <2>t
      <4> QED
        BY <3>1, <4>1, <4>2, <4>3
    <3> QED
      BY <3>2, <3>3
  <2> QED
    BY <2>1, <2>2, <2>3 DEF MessageStep
<1> QED
  BY <1>1, <1>2, TypeCorrect, PTL DEF Spec

(* The frames of a message follow each other without a hole.               *)
THEOREM NoHoles == Spec => []FastPacketContiguous
BY ProgressInvariant, PTL

(* SendMsg() does not report success for a message cut short.              *)
THEOREM NoFalseSuccess == Spec => []SentMeansComplete
<1>1. Init => SentMeansComplete
  BY DEF Init, SentMeansComplete
<1>2. TypeOK /\ InProgress /\ SentMeansComplete /\ [Next]_vars => SentMeansComplete'
  <2> SUFFICES ASSUME TypeOK, InProgress, SentMeansComplete, [Next]_vars
               PROVE  SentMeansComplete'
    OBVIOUS
  <2>t. log \in Seq(Messages) /\ next \in Nat /\ SendAssumption
    BY TypeParts, SendAssumption DEF MessageTypes, SendAssumption
  <2>1. MessageStep
    BY MessageSteps
  <2>2. \A m, k : Has(accepted, m, k) => Has(accepted', m, k)
    BY <2>1, HasStays
  (* It is enough that a message newly sent had all its frames accepted.   *)
  <2>3. ASSUME NEW m \in 1 .. Len(log), m \in 1 .. Len(log'),
               log'[m] = log[m], log'[m].result = "sent",
               NEW k \in 0 .. FrameCount[log'[m].pgn] - 1
        PROVE  Has(accepted', m, k)
    <3>1. Has(accepted, m, k)
      BY <2>3 DEF SentMeansComplete, Has
    <3> QED
      BY <3>1, <2>2
  <2> SUFFICES ASSUME NEW m \in 1 .. Len(log'), log'[m].result = "sent",
                      NEW k \in 0 .. FrameCount[log'[m].pgn] - 1
               PROVE  Has(accepted', m, k)
    BY DEF SentMeansComplete, Has
  <2>4. CASE UNCHANGED log
    BY <2>3, <2>4
  <2>5. ASSUME NEW r \in Messages, r.result = "sending", log' = Append(log, r)
        PROVE  Has(accepted', m, k)
    <3>1. m \in 1 .. Len(log) /\ log'[m] = log[m]
      BY <2>5, <2>t
    <3> QED
      BY <2>3, <3>1
  <2>6. ASSUME NEW ok \in BOOLEAN, pc = "sending", Return(ok),
               ok => /\ accepted' = Append(accepted, CurrentFrame)
                     /\ ~(next + 1 < FrameCount[log[Len(log)].pgn])
        PROVE  Has(accepted', m, k)
    <3>1. /\ log # <<>> /\ Len(log) \in 1 .. Len(log)
          /\ next < FrameCount[log[Len(log)].pgn]
          /\ log[Len(log)] \in Messages
      BY <2>6, <2>t DEF TypeOK
    <3>2. log' = [log EXCEPT ![Len(log)].result = IF ok THEN "sent" ELSE "failed"]
      BY <2>6 DEF Return
    <3>3. CASE m # Len(log)
      <4>1. m \in 1 .. Len(log) /\ log'[m] = log[m]
        BY <3>1, <3>2, <3>3, <2>t
      <4> QED
        BY <2>3, <4>1
    <3>4. CASE m = Len(log)
      <4>1. /\ log'[m].result = IF ok THEN "sent" ELSE "failed"
            /\ log'[m].pgn = log[m].pgn
        BY <3>1, <3>2, <3>4, <2>t DEF Messages
      <4>2. ok
        BY <4>1
      <4>3. FrameCount[log[m].pgn] \in Nat
        BY <3>1, <3>4, <2>t DEF SendAssumption, Messages
      <4>4. k = next \/ k \in 0 .. next - 1
        BY <2>6, <3>1, <3>4, <4>1, <4>2, <4>3, <2>t
      <4>5. CASE k \in 0 .. next - 1
        <5>1. Has(accepted, m, k)
          BY <2>6, <3>4, <4>5 DEF InProgress
        <5> QED
          BY <5>1, <2>2
      <4>6. CASE k = next
        <5>1. /\ Len(accepted') = Len(accepted) + 1
              /\ accepted'[Len(accepted')].msg = m
              /\ accepted'[Len(accepted')].idx = k
          BY <2>6, <3>4, <4>2, <4>6, CurrentAccepted
        <5>2. Len(accepted') \in 1 .. Len(accepted')
          BY <5>1 DEF TypeOK
        <5> QED
          BY <5>1, <5>2 DEF Has
      <4> QED
        BY <4>4, <4>5, <4>6
    <3> QED
      BY <3>3, <3>4
  <2>7. CASE pc = "sending" /\ accepted' = Append(accepted, CurrentFrame) /\ FrameAccepted
    BY <2>4, <2>6, <2>7 DEF FrameAccepted
  <2> QED
    BY <2>1, <2>4, <2>5, <2>6, <2>7 DEF MessageStep
<1> QED
  BY <1>1, <1>2, TypeCorrect, ProgressInvariant, PTL DEF Spec

-----------------------------------------------------------------------------
(* The sequence counters. *)

(* Message m is the last of its PGN, the PGN of slot i, and the slot holds *)
(* the sequence counter it was sent with.                                  *)
LastOf(i, m) ==
  /\ log[m].pgn = slots[i].pgn /\ log[m].seq = slots[i].sc
  /\ \A k \in m + 1 .. Len(log) : log[k].pgn # slots[i].pgn

(* Why the counters advance: the table has one slot for a PGN, the slot    *)
(* holds the counter of the PGN's last message, and the PGN of an earlier  *)
(* fast packet without a slot will never get one, as the table is full.    *)
TableHoldsLast ==
  /\ \A i, j \in 1 .. Len(slots) : slots[i].pgn = slots[j].pgn => i = j
  /\ \A i \in 1 .. Len(slots) : \E m \in 1 .. Len(log) : LastOf(i, m)
  /\ \A m \in 1 .. Len(log) :
       log[m].pgn \in FastPgns =>
         \/ \E i \in 1 .. Len(slots) : slots[i].pgn = log[m].pgn
         \/ Len(slots) >= CounterSlots

(* What a step does to the counters and the messages begun: nothing that   *)
(* matters to the counters, or it begins a message.                        *)
CounterStep ==
  \/ /\ UNCHANGED seqVars
     /\ Len(log') = Len(log)
     /\ \A m \in 1 .. Len(log) : log'[m].pgn = log[m].pgn /\ log'[m].seq = log[m].seq
  \/ \E pgn \in AllPgns : BeginFrames(pgn)

LEMMA CounterSteps ==
  ASSUME TypeOK, [Next]_vars
  PROVE  CounterStep
<1>t. log \in Seq(Messages)
  BY DEF TypeOK, Messages, SeqNos
<1>0. CASE UNCHANGED <<seqVars, log>>
  BY <1>0 DEF CounterStep
<1>1. ASSUME NEW ok \in BOOLEAN, Return(ok), log # <<>>, UNCHANGED seqVars
      PROVE  CounterStep
  <2>1. Len(log) \in 1 .. Len(log) /\ log[Len(log)] \in Messages
    BY <1>1, <1>t
  <2>2. log' = [log EXCEPT ![Len(log)] =
                  [log[Len(log)] EXCEPT !.result = IF ok THEN "sent" ELSE "failed"]]
    BY <1>1 DEF Return
  <2>3. /\ Len(log') = Len(log)
        /\ \A m \in 1 .. Len(log) : log'[m].pgn = log[m].pgn /\ log'[m].seq = log[m].seq
    BY <2>1, <2>2, <1>t DEF Messages
  <2> QED
    BY <2>3, <1>1 DEF CounterStep
<1>2. CASE SendDirect \/ BufferFrame
  <2>1. FrameAccepted /\ UNCHANGED seqVars /\ log # <<>>
    BY <1>2 DEF SendDirect, BufferFrame, seqVars, TypeOK
  <2> QED
    BY <2>1, <1>0, <1>1 DEF FrameAccepted
<1>3. CASE FrameLost
  <2>1. Return(FALSE) /\ UNCHANGED seqVars /\ log # <<>>
    BY <1>3 DEF FrameLost, seqVars, TypeOK
  <2> QED
    BY <2>1, <1>1
<1>4. ASSUME NEW pgn \in AllPgns, SendMsg(pgn) PROVE CounterStep
  BY <1>4, <1>0 DEF SendMsg, CounterStep, seqVars
<1>5. CASE MainSendProductInformation \/ \E pgn \in Pgns : ConverterSend(pgn)
  BY <1>4, <1>5 DEF MainSendProductInformation, ConverterSend, AllPgns
<1>6. CASE \E refused \in BOOLEAN : EndFlush(refused)
  <2>1. BeginFrames(ProductPgn) \/ UNCHANGED <<seqVars, log>>
    BY <1>6 DEF EndFlush, seqVars
  <2> QED
    BY <2>1, <1>0 DEF CounterStep, AllPgns
<1>7. CASE Tick \/ MainOpen \/ BeginParse \/ FlushFrame
  BY <1>7, <1>0 DEF Tick, MainOpen, BeginParse, FlushFrame, seqVars
<1>8. CASE UNCHANGED vars
  BY <1>8, <1>0 DEF vars, seqVars
<1> QED
  BY <1>2, <1>3, <1>5, <1>6, <1>7, <1>8 DEF Next, LibraryStep

(* A message begun goes to the end of the log.                             *)
LEMMA LogGrows ==
  ASSUME TypeOK, NEW pgn \in AllPgns, NEW sc \in SeqNos,
         log' = Append(log, [pgn |-> pgn, seq |-> sc, result |-> "sending"])
  PROVE  /\ Len(log) \in Nat /\ Len(log') = Len(log) + 1
         /\ \A m \in 1 .. Len(log) : log'[m] = log[m]
         /\ log'[Len(log) + 1].pgn = pgn /\ log'[Len(log) + 1].seq = sc
<1>1. log \in Seq(Messages)
  BY DEF TypeOK, Messages, SeqNos
<1> QED
  BY <1>1

(* The slot of a PGN holds the counter of its last message, and no message *)
(* of another PGN, nor one that uses the common counter, disturbs it.      *)
LEMMA TableKept ==
  ASSUME TypeOK, TableHoldsLast, CounterStep
  PROVE  TableHoldsLast'
<1>t. /\ log \in Seq(Messages) /\ slots \in Seq(Counters)
      /\ Len(slots) \in Nat /\ Len(log) \in Nat
  BY DEF TypeOK, Messages, Counters, SeqNos
<1>1. CASE /\ UNCHANGED <<slots, common>>
           /\ Len(log') = Len(log)
           /\ \A m \in 1 .. Len(log) :
                log'[m].pgn = log[m].pgn /\ log'[m].seq = log[m].seq
  <2>1. ASSUME NEW i \in 1 .. Len(slots), NEW m \in 1 .. Len(log), LastOf(i, m)
        PROVE  LastOf(i, m)'
    <3>1. \A k \in m + 1 .. Len(log) : k \in 1 .. Len(log)
      BY <1>t
    <3> QED
      BY <1>1, <2>1, <3>1 DEF LastOf
  <2>2. \A i \in 1 .. Len(slots') : \E m \in 1 .. Len(log') : LastOf(i, m)'
    BY <1>1, <2>1 DEF TableHoldsLast
  <2>3. \A m \in 1 .. Len(log') :
          log'[m].pgn \in FastPgns =>
            \/ \E i \in 1 .. Len(slots') : slots'[i].pgn = log'[m].pgn
            \/ Len(slots') >= CounterSlots
    BY <1>1 DEF TableHoldsLast
  <2> QED
    BY <1>1, <2>2, <2>3 DEF TableHoldsLast
<1>2. ASSUME NEW pgn \in AllPgns, BeginFrames(pgn) PROVE TableHoldsLast'
  <2>1. PICK sc \in SeqNos :
          /\ IF pgn \in FastPgns THEN SequenceCounter(pgn, sc)
                                 ELSE sc = 0 /\ UNCHANGED seqVars
          /\ log' = Append(log, [pgn |-> pgn, seq |-> sc, result |-> "sending"])
    BY <1>2 DEF BeginFrames, SeqNos
  <2>2. /\ Len(log') = Len(log) + 1
        /\ \A m \in 1 .. Len(log) : log'[m] = log[m]
        /\ log'[Len(log) + 1].pgn = pgn /\ log'[Len(log) + 1].seq = sc
    BY <2>1, LogGrows
  (* A slot of another PGN is left as it was. *)
  <2>3. ASSUME NEW i \in 1 .. Len(slots), i \in 1 .. Len(slots'),
               slots'[i] = slots[i], slots[i].pgn # pgn
        PROVE  \E m \in 1 .. Len(log') : LastOf(i, m)'
    <3>1. PICK m \in 1 .. Len(log) : LastOf(i, m)
      BY DEF TableHoldsLast
    <3>2. ASSUME NEW k \in m + 1 .. Len(log') PROVE log'[k].pgn # slots[i].pgn
      <4>1. k = Len(log) + 1 \/ k \in m + 1 .. Len(log)
        BY <2>2, <1>t
      <4>2. k \in m + 1 .. Len(log) => k \in 1 .. Len(log)
        BY <1>t
      <4> QED
        BY <4>1, <4>2, <3>1, <2>2, <2>3 DEF LastOf
    <3>3. m \in 1 .. Len(log')
      BY <2>2, <1>t
    <3> QED
      BY <3>1, <3>2, <3>3, <2>2, <2>3 DEF LastOf
  (* The slot of this PGN, if it has one, holds the counter just drawn.    *)
  <2>4. ASSUME NEW i \in 1 .. Len(slots'), slots'[i].pgn = pgn, slots'[i].sc = sc
        PROVE  \E m \in 1 .. Len(log') : LastOf(i, m)'
    <3>1. Len(log) + 1 \in 1 .. Len(log')
      BY <2>2, <1>t
    <3>2. \A k \in (Len(log) + 1) + 1 .. Len(log') : FALSE
      BY <2>2, <1>t
    <3> QED
      BY <2>2, <2>4, <3>1, <3>2 DEF LastOf
  (* What was sent before has a slot, or found the table full. *)
  <2>5. ASSUME NEW m \in 1 .. Len(log), Len(slots') >= Len(slots),
               \A i \in 1 .. Len(slots) : slots'[i].pgn = slots[i].pgn,
               log'[m].pgn \in FastPgns
        PROVE  \/ \E i \in 1 .. Len(slots') : slots'[i].pgn = log'[m].pgn
               \/ Len(slots') >= CounterSlots
    <3>1. \A i \in 1 .. Len(slots) : i \in 1 .. Len(slots')
      BY <2>5, <1>t
    <3>2. Len(slots') \in Nat /\ CounterSlots \in Nat
      BY <2>1, <1>t, SendAssumption DEF SequenceCounter, seqVars
    <3>3. log'[m] = log[m]
      BY <2>2
    <3>4. \/ \E i \in 1 .. Len(slots) : slots[i].pgn = log[m].pgn
          \/ Len(slots) >= CounterSlots
      BY <2>5, <3>3 DEF TableHoldsLast
    <3> QED
      BY <3>1, <3>2, <3>3, <3>4, <2>5, <1>t
  <2>6. \A m \in 1 .. Len(log') : m \in 1 .. Len(log) \/ m = Len(log) + 1
    BY <2>2, <1>t
  (* A single frame draws no counter. *)
  <2>7. CASE pgn \notin FastPgns
    <3>1. UNCHANGED slots
      BY <2>1, <2>7 DEF seqVars
    <3>2. \A i \in 1 .. Len(slots) : slots[i].pgn # pgn
      <4>1. \A i \in 1 .. Len(slots) : slots[i] \in Counters
        BY <1>t
      <4> QED
        BY <2>7, <4>1 DEF Counters
    <3>3. \A i \in 1 .. Len(slots') : \E m \in 1 .. Len(log') : LastOf(i, m)'
      BY <2>3, <3>1, <3>2
    <3>4. \A m \in 1 .. Len(log') :
            log'[m].pgn \in FastPgns =>
              \/ \E i \in 1 .. Len(slots') : slots'[i].pgn = log'[m].pgn
              \/ Len(slots') >= CounterSlots
      BY <2>2, <2>5, <2>6, <2>7, <3>1, <1>t
    <3> QED
      BY <3>1, <3>3, <3>4 DEF TableHoldsLast
  (* The counter of the PGN's own slot. *)
  <2>8. ASSUME NEW s \in SlotOf(pgn), slots' = [slots EXCEPT ![s].sc = sc]
        PROVE  TableHoldsLast'
    <3>1. s \in 1 .. Len(slots) /\ slots[s].pgn = pgn
      BY DEF SlotOf
    <3>2. slots' = [slots EXCEPT ![s] = [slots[s] EXCEPT !.sc = sc]]
      BY <2>8
    <3>3. /\ Len(slots') = Len(slots)
          /\ \A i \in 1 .. Len(slots) : i # s => slots'[i] = slots[i]
          /\ slots'[s].pgn = pgn /\ slots'[s].sc = sc
      BY <3>1, <3>2, <1>t DEF Counters
    <3>4. \A i \in 1 .. Len(slots) : slots'[i].pgn = slots[i].pgn
      BY <3>1, <3>3
    <3>5. \A i, j \in 1 .. Len(slots') : slots'[i].pgn = slots'[j].pgn => i = j
      BY <3>3, <3>4 DEF TableHoldsLast
    <3>6. ASSUME NEW i \in 1 .. Len(slots')
          PROVE  \E m \in 1 .. Len(log') : LastOf(i, m)'
      <4>1. CASE i = s
        BY <4>1, <2>4, <3>1, <3>3
      <4>2. CASE i # s
        <5>1. slots[i].pgn # pgn /\ slots'[i] = slots[i] /\ i \in 1 .. Len(slots)
          BY <4>2, <3>1, <3>3 DEF TableHoldsLast
        <5> QED
          BY <5>1, <2>3
      <4> QED
        BY <4>1, <4>2
    <3>7. \A m \in 1 .. Len(log') :
            log'[m].pgn \in FastPgns =>
              \/ \E i \in 1 .. Len(slots') : slots'[i].pgn = log'[m].pgn
              \/ Len(slots') >= CounterSlots
      BY <2>2, <2>5, <2>6, <3>1, <3>3, <3>4, <1>t
    <3> QED
      BY <3>5, <3>6, <3>7 DEF TableHoldsLast
  (* A slot of its own for a PGN that had none. *)
  <2>9. CASE /\ SlotOf(pgn) = {} /\ sc = 0 /\ pgn \in FastPgns
             /\ slots' = Append(slots, [pgn |-> pgn, sc |-> 0])
    <3>1. /\ Len(slots') = Len(slots) + 1
          /\ \A i \in 1 .. Len(slots) : slots'[i] = slots[i]
          /\ slots'[Len(slots) + 1].pgn = pgn /\ slots'[Len(slots) + 1].sc = sc
      <4>1. [pgn |-> pgn, sc |-> 0] \in Counters
        BY <2>1, <2>9 DEF Counters
      <4> QED
        BY <2>9, <4>1, <1>t
    <3>2. \A i \in 1 .. Len(slots) : slots[i].pgn # pgn
      BY <2>9 DEF SlotOf
    <3>3. \A i \in 1 .. Len(slots') : i \in 1 .. Len(slots) \/ i = Len(slots) + 1
      BY <3>1, <1>t
    <3>4. Len(slots) + 1 \in 1 .. Len(slots')
          /\ \A i \in 1 .. Len(slots) : i \in 1 .. Len(slots')
      BY <3>1, <1>t
    <3>5. \A i, j \in 1 .. Len(slots') : slots'[i].pgn = slots'[j].pgn => i = j
      BY <3>1, <3>2, <3>3 DEF TableHoldsLast
    <3>6. \A i \in 1 .. Len(slots') : \E m \in 1 .. Len(log') : LastOf(i, m)'
      BY <2>3, <2>4, <3>1, <3>2, <3>3, <3>4
    <3>7. \A m \in 1 .. Len(log') :
            log'[m].pgn \in FastPgns =>
              \/ \E i \in 1 .. Len(slots') : slots'[i].pgn = log'[m].pgn
              \/ Len(slots') >= CounterSlots
      BY <2>2, <2>5, <2>6, <3>1, <3>4, <1>t
    <3> QED
      BY <3>5, <3>6, <3>7 DEF TableHoldsLast
  (* The counter shared by the PGNs without a slot. *)
  <2>10. CASE SlotOf(pgn) = {} /\ Len(slots) >= CounterSlots /\ UNCHANGED slots
    <3>1. \A i \in 1 .. Len(slots) : slots[i].pgn # pgn
      BY <2>10 DEF SlotOf
    <3>2. \A i \in 1 .. Len(slots') : \E m \in 1 .. Len(log') : LastOf(i, m)'
      BY <2>3, <2>10, <3>1
    <3> QED
      BY <2>10, <3>2 DEF TableHoldsLast
  <2> QED
    BY <2>1, <2>7, <2>8, <2>9, <2>10 DEF SequenceCounter
<1> QED
  BY <1>1, <1>2 DEF CounterStep, seqVars

(* A PGN that found no slot when it was first sent never gets one.         *)
LEMMA SlotWasThere ==
  ASSUME TypeOK, TableHoldsLast, NEW pgn \in AllPgns, BeginFrames(pgn),
         NEW m \in 1 .. Len(log), (SlotOf(log[m].pgn))' # {},
         log'[m].pgn = log[m].pgn
  PROVE  SlotOf(log[m].pgn) # {}
<1>t. slots \in Seq(Counters) /\ Len(slots) \in Nat /\ CounterSlots \in Nat
  BY SendAssumption DEF TypeOK, Counters, SeqNos
<1>1. PICK sc \in SeqNos :
        IF pgn \in FastPgns THEN SequenceCounter(pgn, sc)
                            ELSE sc = 0 /\ UNCHANGED seqVars
  BY DEF BeginFrames, SeqNos
<1>2. PICK i \in 1 .. Len(slots') : slots'[i].pgn = log[m].pgn
  BY DEF SlotOf
<1>3. CASE UNCHANGED slots
  BY <1>2, <1>3 DEF SlotOf
<1>4. ASSUME NEW s \in SlotOf(pgn), slots' = [slots EXCEPT ![s].sc = sc]
      PROVE  SlotOf(log[m].pgn) # {}
  <2>1. Len(slots') = Len(slots) /\ slots'[i].pgn = slots[i].pgn
    <3>1. s \in 1 .. Len(slots) /\ slots[s] \in Counters /\ slots[i] \in Counters
      BY <1>2, <1>4, <1>t DEF SlotOf
    <3> QED
      BY <1>4, <1>t, <3>1 DEF Counters
  <2> QED
    BY <1>2, <2>1 DEF SlotOf
<1>5. CASE /\ pgn \in FastPgns /\ Len(slots) < CounterSlots
           /\ slots' = Append(slots, [pgn |-> pgn, sc |-> 0])
  <2>1. [pgn |-> pgn, sc |-> 0] \in Counters
    BY <1>5, SendAssumption DEF Counters, SeqNos
  <2>2. CASE i \in 1 .. Len(slots)
    <3>1. slots'[i] = slots[i]
      BY <1>5, <1>t, <2>1, <2>2
    <3> QED
      BY <1>2, <2>2, <3>1 DEF SlotOf
  <2>3. CASE i = Len(slots) + 1
    <3>1. log[m].pgn = pgn
      BY <1>2, <1>5, <1>t, <2>1, <2>3
    <3>2. \E j \in 1 .. Len(slots) : slots[j].pgn = log[m].pgn
      <4>1. ~(Len(slots) >= CounterSlots)
        BY <1>5, <1>t, SendAssumption
      <4>2. log[m].pgn \in FastPgns
        BY <1>5, <3>1
      <4> QED
        BY <4>1, <4>2 DEF TableHoldsLast
    <3> QED
      BY <3>2 DEF SlotOf
  <2> QED
    BY <1>2, <1>5, <1>t, <2>1, <2>2, <2>3
<1> QED
  BY <1>1, <1>3, <1>4, <1>5 DEF SequenceCounter, seqVars

LEMMA AdvancesKept ==
  ASSUME TypeOK, TableHoldsLast, SequenceAdvances, CounterStep
  PROVE  SequenceAdvances'
<1>t. /\ log \in Seq(Messages) /\ slots \in Seq(Counters)
      /\ Len(slots) \in Nat /\ Len(log) \in Nat
  BY DEF TypeOK, Messages, Counters, SeqNos
<1>1. CASE /\ UNCHANGED <<slots, common>>
           /\ Len(log') = Len(log)
           /\ \A m \in 1 .. Len(log) :
                log'[m].pgn = log[m].pgn /\ log'[m].seq = log[m].seq
  <2> SUFFICES ASSUME NEW m \in 1 .. Len(log), NEW n \in 1 .. Len(log), m < n,
                      log'[m].pgn = log'[n].pgn, (SlotOf(log[m].pgn))' # {},
                      \A k \in m + 1 .. n - 1 : log'[k].pgn # log'[m].pgn
               PROVE  log'[n].seq = (log'[m].seq + 1) % SeqModulus
    BY <1>1 DEF SequenceAdvances
  <2>1. \A k \in m + 1 .. n - 1 : k \in 1 .. Len(log)
    BY <1>t
  <2>2. \A k \in m + 1 .. n - 1 : log[k].pgn # log[m].pgn
    BY <1>1, <2>1
  <2>3. SlotOf(log[m].pgn) # {}
    BY <1>1 DEF SlotOf
  <2> QED
    BY <1>1, <2>2, <2>3 DEF SequenceAdvances
<1>2. ASSUME NEW pgn \in AllPgns, BeginFrames(pgn) PROVE SequenceAdvances'
  <2>1. PICK sc \in SeqNos :
          /\ IF pgn \in FastPgns THEN SequenceCounter(pgn, sc)
                                 ELSE sc = 0 /\ UNCHANGED seqVars
          /\ log' = Append(log, [pgn |-> pgn, seq |-> sc, result |-> "sending"])
    BY <1>2 DEF BeginFrames, SeqNos
  <2>2. /\ Len(log') = Len(log) + 1
        /\ \A m \in 1 .. Len(log) : log'[m] = log[m]
        /\ log'[Len(log) + 1].pgn = pgn /\ log'[Len(log) + 1].seq = sc
    BY <2>1, LogGrows
  <2> SUFFICES ASSUME NEW m \in 1 .. Len(log'), NEW n \in 1 .. Len(log'), m < n,
                      log'[m].pgn = log'[n].pgn, (SlotOf(log[m].pgn))' # {},
                      \A k \in m + 1 .. n - 1 : log'[k].pgn # log'[m].pgn
               PROVE  log'[n].seq = (log'[m].seq + 1) % SeqModulus
    BY DEF SequenceAdvances
  <2>3. m \in 1 .. Len(log) /\ log'[m] = log[m]
    BY <2>2, <1>t
  <2>4. \A k \in m + 1 .. n - 1 : k \in 1 .. Len(log) /\ log[k].pgn # log[m].pgn
    BY <2>2, <2>3, <1>t
  <2>5. SlotOf(log[m].pgn) # {}
    BY <1>2, <2>3, SlotWasThere
  <2>6. CASE n \in 1 .. Len(log)
    <3>1. log'[n] = log[n]
      BY <2>2, <2>6
    <3> QED
      BY <2>3, <2>4, <2>5, <2>6, <3>1 DEF SequenceAdvances
  <2>7. CASE n = Len(log) + 1
    <3>1. log[m].pgn = pgn /\ SlotOf(pgn) # {}
      BY <2>2, <2>3, <2>5, <2>7
    <3>2. pgn \in FastPgns
      <4>1. \A i \in 1 .. Len(slots) : slots[i] \in Counters
        BY <1>t
      <4> QED
        BY <3>1, <4>1 DEF SlotOf, Counters
    <3>3. PICK i \in SlotOf(pgn) : sc = (slots[i].sc + 1) % SeqModulus
      BY <2>1, <3>1, <3>2 DEF SequenceCounter
    <3>4. i \in 1 .. Len(slots) /\ slots[i].pgn = pgn
      BY DEF SlotOf
    <3>5. PICK p \in 1 .. Len(log) : LastOf(i, p)
      BY <3>4 DEF TableHoldsLast
    <3>6. p = m
      <4>1. \A k \in m + 1 .. Len(log) : log[k].pgn # log[m].pgn
        BY <2>4, <2>7, <1>t
      <4>2. ~(m < p)
        BY <4>1, <3>1, <3>4, <3>5 DEF LastOf
      <4>3. ~(p < m)
        BY <2>3, <3>1, <3>4, <3>5 DEF LastOf
      <4> QED
        BY <4>2, <4>3, <2>3
    <3> QED
      BY <2>2, <2>3, <2>7, <3>3, <3>5, <3>6 DEF LastOf
  <2> QED
    BY <2>2, <2>6, <2>7, <1>t
<1> QED
  BY <1>1, <1>2 DEF CounterStep, seqVars

(* The counter shared holds the sequence of the last message that used it. *)
SharedHoldsLast ==
  \A m \in 1 .. Len(log) :
     Shares(m) /\ (\A k \in m + 1 .. Len(log) : ~Shares(k)) => common = log[m].seq

(* A PGN with a slot keeps it.                                             *)
LEMMA SlotStays ==
  ASSUME TypeOK, NEW pgn \in AllPgns, BeginFrames(pgn), NEW q, SlotOf(q) # {}
  PROVE  SlotOf(q)' # {}
<1>t. slots \in Seq(Counters) /\ Len(slots) \in Nat
  BY DEF TypeOK, Counters, SeqNos
<1>1. PICK sc \in SeqNos :
        IF pgn \in FastPgns THEN SequenceCounter(pgn, sc)
                            ELSE sc = 0 /\ UNCHANGED seqVars
  BY DEF BeginFrames, SeqNos
<1>2. PICK i \in 1 .. Len(slots) : slots[i].pgn = q
  BY DEF SlotOf
<1>3. CASE UNCHANGED slots
  BY <1>2, <1>3 DEF SlotOf
<1>4. ASSUME NEW s \in SlotOf(pgn), slots' = [slots EXCEPT ![s].sc = sc]
      PROVE  SlotOf(q)' # {}
  <2>1. Len(slots') = Len(slots) /\ slots'[i].pgn = slots[i].pgn
    <3>1. s \in 1 .. Len(slots) /\ slots[s] \in Counters /\ slots[i] \in Counters
      BY <1>2, <1>4, <1>t DEF SlotOf
    <3> QED
      BY <1>4, <1>t, <3>1 DEF Counters
  <2> QED
    BY <1>2, <2>1 DEF SlotOf
<1>5. CASE pgn \in FastPgns /\ slots' = Append(slots, [pgn |-> pgn, sc |-> 0])
  <2>1. [pgn |-> pgn, sc |-> 0] \in Counters
    BY <1>5, SendAssumption DEF Counters, SeqNos
  <2>2. i \in 1 .. Len(slots') /\ slots'[i] = slots[i]
    BY <1>2, <1>5, <1>t, <2>1
  <2> QED
    BY <1>2, <2>2 DEF SlotOf
<1> QED
  BY <1>1, <1>3, <1>4, <1>5 DEF SequenceCounter, seqVars

(* A fast packet is sent with the counter of its PGN's slot, or with the   *)
(* successor of the shared one, which then holds it.                       *)
LEMMA CounterDrawn ==
  ASSUME TypeOK, NEW pgn \in FastPgns, NEW sc \in SeqNos, SequenceCounter(pgn, sc)
  PROVE  \/ SlotOf(pgn)' # {} /\ common' = common
         \/ SlotOf(pgn)' = {} /\ sc = (common + 1) % SeqModulus /\ common' = sc
<1>t. slots \in Seq(Counters) /\ Len(slots) \in Nat
  BY DEF TypeOK, Counters, SeqNos
<1>1. ASSUME NEW s \in SlotOf(pgn), slots' = [slots EXCEPT ![s].sc = sc]
      PROVE  SlotOf(pgn)' # {}
  <2>1. s \in 1 .. Len(slots) /\ slots[s] \in Counters /\ slots[s].pgn = pgn
    BY <1>1, <1>t DEF SlotOf
  <2>2. Len(slots') = Len(slots) /\ slots'[s].pgn = pgn
    BY <1>1, <1>t, <2>1 DEF Counters
  <2> QED
    BY <2>1, <2>2 DEF SlotOf
<1>2. ASSUME slots' = Append(slots, [pgn |-> pgn, sc |-> 0])
      PROVE  SlotOf(pgn)' # {}
  <2>1. [pgn |-> pgn, sc |-> 0] \in Counters
    BY SendAssumption DEF Counters, SeqNos
  <2>2. Len(slots) + 1 \in 1 .. Len(slots') /\ slots'[Len(slots) + 1].pgn = pgn
    BY <1>2, <1>t, <2>1
  <2> QED
    BY <2>2 DEF SlotOf
<1>3. ASSUME SlotOf(pgn) = {}, UNCHANGED slots
      PROVE  SlotOf(pgn)' = {}
  BY <1>3 DEF SlotOf
<1> QED
  BY <1>1, <1>2, <1>3 DEF SequenceCounter

(* The shared counter moves exactly when a message without a slot begins,  *)
(* and then holds the sequence of that message.                            *)
LEMMA SharedKept ==
  ASSUME TypeOK, TableHoldsLast, SharedAdvances, SharedHoldsLast, CounterStep
  PROVE  SharedAdvances' /\ SharedHoldsLast'
<1>t. Len(log) \in Nat
  BY DEF TypeOK
<1>1. CASE /\ UNCHANGED <<slots, common>>
           /\ Len(log') = Len(log)
           /\ \A m \in 1 .. Len(log) :
                log'[m].pgn = log[m].pgn /\ log'[m].seq = log[m].seq
  <2>1. \A m \in 1 .. Len(log) : Shares(m)' <=> Shares(m)
    BY <1>1 DEF Shares, SlotOf
  <2>2. SharedHoldsLast'
    <3> SUFFICES ASSUME NEW m \in 1 .. Len(log), Shares(m)',
                        \A k \in m + 1 .. Len(log) : ~Shares(k)'
                 PROVE  common' = log'[m].seq
      BY <1>1 DEF SharedHoldsLast
    <3>1. \A k \in m + 1 .. Len(log) : k \in 1 .. Len(log)
      BY <1>t
    <3> QED
      BY <1>1, <2>1, <3>1 DEF SharedHoldsLast
  <2>3. SharedAdvances'
    <3> SUFFICES ASSUME NEW m \in 1 .. Len(log), NEW n \in 1 .. Len(log), m < n,
                        Shares(m)', Shares(n)', \A k \in m + 1 .. n - 1 : ~Shares(k)'
                 PROVE  log'[n].seq = (log'[m].seq + 1) % SeqModulus
      BY <1>1 DEF SharedAdvances
    <3>1. \A k \in m + 1 .. n - 1 : k \in 1 .. Len(log)
      BY <1>t
    <3> QED
      BY <1>1, <2>1, <3>1 DEF SharedAdvances
  <2> QED
    BY <2>2, <2>3
<1>2. ASSUME NEW pgn \in AllPgns, BeginFrames(pgn) PROVE SharedAdvances' /\ SharedHoldsLast'
  <2>1. PICK sc \in SeqNos :
          /\ IF pgn \in FastPgns THEN SequenceCounter(pgn, sc)
                                 ELSE sc = 0 /\ UNCHANGED seqVars
          /\ log' = Append(log, [pgn |-> pgn, seq |-> sc, result |-> "sending"])
    BY <1>2 DEF BeginFrames, SeqNos
  <2>n. PICK N \in Nat : N = Len(log) + 1
    BY <1>t
  <2>2. /\ Len(log') = N
        /\ \A m \in 1 .. Len(log) : log'[m] = log[m]
        /\ log'[N].pgn = pgn /\ log'[N].seq = sc
    BY <2>1, <2>n, LogGrows
  <2>3. \A m \in 1 .. Len(log) : Shares(m)' <=> Shares(m)
    <3> SUFFICES ASSUME NEW m \in 1 .. Len(log)
                 PROVE  SlotOf(log[m].pgn)' = {} <=> SlotOf(log[m].pgn) = {}
      BY <2>2 DEF Shares, SlotOf
    <3>1. (SlotOf(log[m].pgn))' # {} => SlotOf(log[m].pgn) # {}
      BY <1>2, <2>2, SlotWasThere
    <3>2. PICK q : q = log[m].pgn
      OBVIOUS
    <3>3. SlotOf(q) # {} => SlotOf(q)' # {}
      BY <1>2, SlotStays
    <3>4. SlotOf(q)' = (SlotOf(log[m].pgn))'
      BY <2>2, <3>2 DEF SlotOf
    <3> QED
      BY <3>1, <3>2, <3>3, <3>4, <2>2 DEF SlotOf
  <2>4. \/ ~Shares(N)' /\ common' = common
        \/ Shares(N)' /\ sc = (common + 1) % SeqModulus /\ common' = sc
    <3>1. Shares(N)' <=> pgn \in FastPgns /\ SlotOf(pgn)' = {}
      BY <2>2 DEF Shares, SlotOf
    <3>2. CASE pgn \in FastPgns
      BY <2>1, <3>1, <3>2, CounterDrawn
    <3>3. CASE pgn \notin FastPgns
      BY <2>1, <3>1, <3>3 DEF seqVars
    <3> QED
      BY <3>2, <3>3
  <2>5. SharedHoldsLast'
    <3> SUFFICES ASSUME NEW m \in 1 .. N, Shares(m)',
                        \A k \in m + 1 .. N : ~Shares(k)'
                 PROVE  common' = log'[m].seq
      BY <2>2 DEF SharedHoldsLast
    <3>1. CASE m = N
      BY <2>2, <2>4, <3>1
    <3>2. CASE m \in 1 .. Len(log)
      <4>1. N \in m + 1 .. N /\ \A k \in m + 1 .. Len(log) : k \in m + 1 .. N
        BY <1>t, <2>n, <3>2
      <4>2. \A k \in m + 1 .. Len(log) : ~Shares(k)
        BY <1>t, <2>3, <3>2, <4>1
      <4>3. common = log[m].seq
        BY <2>3, <3>2, <4>2 DEF SharedHoldsLast
      <4> QED
        BY <2>2, <2>4, <3>2, <4>1, <4>3
    <3> QED
      BY <1>t, <2>n, <3>1, <3>2
  <2>6. SharedAdvances'
    <3> SUFFICES ASSUME NEW m \in 1 .. N, NEW n \in 1 .. N, m < n,
                        Shares(m)', Shares(n)', \A k \in m + 1 .. n - 1 : ~Shares(k)'
                 PROVE  log'[n].seq = (log'[m].seq + 1) % SeqModulus
      BY <2>2 DEF SharedAdvances
    <3>1. m \in 1 .. Len(log) /\ \A k \in m + 1 .. n - 1 : k \in 1 .. Len(log)
      BY <1>t, <2>n
    <3>2. Shares(m) /\ \A k \in m + 1 .. n - 1 : ~Shares(k)
      BY <2>3, <3>1
    <3>3. CASE n = N
      <4>1. common = log[m].seq
        BY <1>t, <2>n, <3>1, <3>2, <3>3 DEF SharedHoldsLast
      <4> QED
        BY <2>2, <2>4, <3>1, <3>3, <4>1
    <3>4. CASE n \in 1 .. Len(log)
      <4>1. log[n].seq = (log[m].seq + 1) % SeqModulus
        BY <2>3, <3>1, <3>2, <3>4 DEF SharedAdvances
      <4> QED
        BY <2>2, <3>1, <3>4, <4>1
    <3> QED
      BY <1>t, <2>n, <3>3, <3>4
  <2> QED
    BY <2>5, <2>6
<1> QED
  BY <1>1, <1>2 DEF CounterStep, seqVars

(* The types, the order of the frames and the sequence counters: each fast *)
(* packet of a PGN that has a slot carries the successor of the counter of *)
(* the PGN's message before it, and each one of a PGN without a slot the   *)
(* successor of the counter of the last message without one, for any       *)
(* number of PGNs and any table.                                           *)
THEOREM CountersAdvance == Spec => []SendInv
<1>1. Init => /\ TableHoldsLast /\ SequenceAdvances
              /\ SharedHoldsLast /\ SharedAdvances
  BY DEF Init, TableHoldsLast, SequenceAdvances, SharedHoldsLast, SharedAdvances
<1>2. TypeOK /\ TableHoldsLast /\ SequenceAdvances /\ SharedHoldsLast
        /\ SharedAdvances /\ [Next]_vars
      => /\ TableHoldsLast' /\ SequenceAdvances'
         /\ SharedHoldsLast' /\ SharedAdvances'
  <2> SUFFICES ASSUME TypeOK, TableHoldsLast, SequenceAdvances, SharedHoldsLast,
                      SharedAdvances, [Next]_vars
               PROVE  /\ TableHoldsLast' /\ SequenceAdvances'
                      /\ SharedHoldsLast' /\ SharedAdvances'
    OBVIOUS
  <2>1. CounterStep
    BY CounterSteps
  <2>2. TableHoldsLast'
    BY <2>1, TableKept
  <2>3. SequenceAdvances'
    BY <2>1, AdvancesKept
  <2>4. SharedHoldsLast' /\ SharedAdvances'
    BY <2>1, SharedKept
  <2> QED
    BY <2>2, <2>3, <2>4
<1>3. TypeOK /\ RingIsFifo /\ SequenceAdvances /\ SharedAdvances => SendInv
  BY DEF SendInv
<1> QED
  BY <1>1, <1>2, <1>3, TypeCorrect, InOrder, PTL DEF Spec
=============================================================================
