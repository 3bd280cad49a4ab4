------------------------------ MODULE CanSend ------------------------------
(***************************************************************************)
(* The sending side of tNMEA2000 (NMEA2000/NMEA2000.cpp) over the          *)
(* SocketCAN driver, as the gateway drives it: main() opens the library in *)
(* mode N2km_ListenAndSend and sends the product information, after which  *)
(* the converter's thread is the only caller of SendMsg().                 *)
(*                                                                         *)
(* SendMsg() splits a message into frames; SendFrame() first tries to      *)
(* empty the library's ring buffer into the driver, then to hand the frame *)
(* to the driver, and buffers the frame when the driver refuses.  One step *)
(* is one attempt to write a frame, since each may be refused.             *)
(*                                                                         *)
(* In this mode StartAddressClaim() and SendHeartbeat() do nothing         *)
(* (IsReadyToSend, IsActiveNode), so the address-claim gate of SendMsg()   *)
(* is always open.  Operators named X_bug_... are X with a defect seeded;  *)
(* the specification does not use them.                                    *)
(***************************************************************************)
EXTENDS Naturals, Sequences

CONSTANTS
  RingSize,        \* MaxCANSendFrames, 40 in the library
  Pgns,            \* the PGNs the application sends
  ProductPgn,      \* PGN 126996, product information
  FastPgns,        \* the PGNs IsFastPacket() recognises
  FrameCount,      \* frames of a message of each PGN
  CounterSlots,    \* MaxPGNSequenceCounters - 1: counters kept per PGN
  SeqModulus,      \* sequence counters wrap here, at 8 in the library
  ParsesMessages,  \* does the application call ParseMessages()?
  MaxMsgs,         \* bound: data messages the application sends
  MaxRefusals      \* bound: writes the driver refuses

AllPgns == Pgns \cup {ProductPgn}

ASSUME SendAssumption ==
  /\ RingSize \in Nat \ {0}
  /\ ProductPgn \notin Pgns
  /\ FastPgns \subseteq AllPgns
  /\ FrameCount \in [AllPgns -> Nat \ {0}]
  /\ \A p \in AllPgns \ FastPgns : FrameCount[p] = 1
  /\ CounterSlots \in Nat
  /\ SeqModulus \in Nat \ {0}
  /\ ParsesMessages \in BOOLEAN
  /\ MaxMsgs \in Nat
  /\ MaxRefusals \in Nat

VARIABLES
  openState,  \* tNMEA2000::OpenState
  openDue,    \* OpenScheduler.IsTime()
  app,        \* main(): before Open(), running, or gone after a failed Open()
  pc,         \* the library call in progress
  next,       \* i in SendMsg(): the frame to be sent next
  ring,       \* CANSendFrameBuf
  rd,         \* CANSendFrameBufferRead: the slot last read
  wr,         \* CANSendFrameBufferWrite: the slot last written
  slots,      \* PGNSequenceCounters[0 .. last-1], those in use
  common,     \* PGNSequenceCounters[last], for PGNs without a slot
  product,    \* PendingProductInformation: disabled, running or expired
  log,        \* history: the messages SendMsg() began to send
  accepted,   \* history: frames written or buffered, in order
  bus,        \* history: frames the driver took, in order
  msgs,       \* data messages so far (bounded by MaxMsgs)
  refusals    \* refused writes so far (bounded by MaxRefusals)

openVars == <<openState, openDue>>
ringVars == <<ring, rd, wr>>
seqVars  == <<slots, common>>
vars == <<openVars, app, pc, next, ringVars, seqVars, product,
          log, accepted, bus, msgs, refusals>>

Slot == 0 .. RingSize - 1
Frames == [msg : Nat, pgn : AllPgns, seq : 0 .. SeqModulus - 1, idx : Nat]

Init ==
  /\ openState = "os_None" /\ openDue = TRUE
  /\ app = "start" /\ pc = "idle" /\ next = 0
  /\ ring = [s \in Slot |-> <<>>] /\ rd = 0 /\ wr = 0
  /\ slots = <<>> /\ common = 0
  /\ product = "disabled"
  /\ log = <<>> /\ accepted = <<>> /\ bus = <<>>
  /\ msgs = 0 /\ refusals = 0

-----------------------------------------------------------------------------
(* Open(), called by main() and again by SendMsg() and ParseMessages()     *)
(* until the library is open.  CANOpen() may fail; the state is kept two   *)
(* hundred milliseconds in os_WaitOpen.                                    *)
Open ==
  \/ /\ openState \in {"os_None", "os_OpenCAN"} /\ openDue
     /\ openState' \in {"os_WaitOpen", "os_OpenCAN"}    \* CANOpen() or not
     /\ openDue' = FALSE
  \/ /\ openState \in {"os_None", "os_OpenCAN"} /\ ~openDue
     /\ openState' = "os_OpenCAN"
     /\ UNCHANGED openDue
  \/ /\ openState = "os_WaitOpen"
     /\ openState' = IF openDue THEN "os_Open" ELSE "os_WaitOpen"
     /\ UNCHANGED openDue
  \/ openState = "os_Open" /\ UNCHANGED openVars

(* Schedulers run out with time. *)
Tick ==
  /\ \/ ~openDue /\ openDue' = TRUE /\ UNCHANGED product
     \/ product = "running" /\ product' = "expired" /\ UNCHANGED openDue
  /\ UNCHANGED <<openState, app, pc, next, ringVars, seqVars,
                 log, accepted, bus, msgs, refusals>>

-----------------------------------------------------------------------------
(* GetSequenceCounter(): a counter per PGN while there are slots, then one *)
(* counter shared by all others.                                           *)
SlotOf(pgn) == {i \in 1 .. Len(slots) : slots[i].pgn = pgn}

(* the counter found is returned but not stored *)
SequenceCounter_bug_not_stored(pgn, sc) ==
  \/ \E i \in SlotOf(pgn) :
       sc = (slots[i].sc + 1) % SeqModulus /\ UNCHANGED seqVars
  \/ /\ SlotOf(pgn) = {} /\ Len(slots) < CounterSlots
     /\ sc = 0
     /\ slots' = Append(slots, [pgn |-> pgn, sc |-> 0])
     /\ UNCHANGED common
  \/ /\ SlotOf(pgn) = {} /\ Len(slots) >= CounterSlots
     /\ sc = (common + 1) % SeqModulus
     /\ common' = sc
     /\ UNCHANGED slots

SequenceCounter(pgn, sc) ==
  \/ \E i \in SlotOf(pgn) :
       /\ sc = (slots[i].sc + 1) % SeqModulus
       /\ slots' = [slots EXCEPT ![i].sc = sc]
       /\ UNCHANGED common
  \/ /\ SlotOf(pgn) = {} /\ Len(slots) < CounterSlots
     /\ sc = 0
     /\ slots' = Append(slots, [pgn |-> pgn, sc |-> 0])
     /\ UNCHANGED common
  \/ /\ SlotOf(pgn) = {} /\ Len(slots) >= CounterSlots
     /\ sc = (common + 1) % SeqModulus
     /\ common' = sc
     /\ UNCHANGED slots

(* SendMsg() past its gates: the sequence counter is drawn and the loop    *)
(* over the frames begins.                                                 *)
BeginFrames(pgn) ==
  /\ \E sc \in 0 .. SeqModulus - 1 :
       /\ IF pgn \in FastPgns THEN SequenceCounter(pgn, sc)
                              ELSE sc = 0 /\ UNCHANGED seqVars
       /\ log' = Append(log, [pgn |-> pgn, seq |-> sc, result |-> "sending"])
  /\ next' = 0
  /\ pc' = "sending"

(* SendMsg(): returns false at once unless the library is open. *)
SendMsg(pgn) ==
  /\ pc = "idle"
  /\ Open
  /\ IF openState' = "os_Open"
     THEN BeginFrames(pgn)
     ELSE UNCHANGED <<pc, next, seqVars, log>>
  /\ UNCHANGED <<ringVars, accepted, bus, refusals>>

-----------------------------------------------------------------------------
(* main(): Open() and, when it succeeds, SendProductInformation().  The    *)
(* library is then still in os_WaitOpen, so SendMsg() fails and the        *)
(* product information is left pending.                                    *)
MainOpen ==
  /\ app = "start"
  /\ Open
  /\ app' = IF openState' \in {"os_WaitOpen", "os_Open"} THEN "announce" ELSE "gone"
  /\ UNCHANGED <<pc, next, ringVars, seqVars, product,
                 log, accepted, bus, msgs, refusals>>

MainSendProductInformation ==
  /\ app = "announce"
  /\ app' = "running"
  /\ SendMsg(ProductPgn)
  /\ product' = IF openState' = "os_Open" THEN product ELSE "running"
  /\ UNCHANGED msgs

(* A handler of the converter sends a message and ignores the result.      *)
ConverterSend(pgn) ==
  /\ app = "running"
  /\ msgs < MaxMsgs
  /\ msgs' = msgs + 1
  /\ SendMsg(pgn)
  /\ UNCHANGED <<app, product>>

(* ParseMessages(): Open(), SendFrames(), SendPendingInformation().  There *)
(* is nothing else to do in this mode: system messages are not handled.    *)
BeginParse ==
  /\ ParsesMessages
  /\ app = "running" /\ pc = "idle"
  /\ Open
  /\ pc' = IF openState' = "os_Open" THEN "parsing" ELSE "idle"
  /\ UNCHANGED <<app, next, ringVars, seqVars, product,
                 log, accepted, bus, msgs, refusals>>

-----------------------------------------------------------------------------
Succ(s) == (s + 1) % RingSize
RingEmpty == rd = wr
RingFull  == Succ(wr) = rd
(* The frames in the ring, oldest first: the slots after rd up to wr.      *)
Used == IF rd <= wr THEN wr - rd ELSE wr + RingSize - rd
Backlog == [k \in 1 .. Used |-> ring[(rd + k) % RingSize]]

CurrentFrame ==
  [msg |-> Len(log), pgn |-> log[Len(log)].pgn,
   seq |-> log[Len(log)].seq, idx |-> next]

(* a failed product information is not made pending again *)
Return_bug_not_rearmed(ok) ==
  LET m == Len(log) IN
  /\ log' = [log EXCEPT ![m].result = IF ok THEN "sent" ELSE "failed"]
  /\ product' = IF log[m].pgn = ProductPgn THEN "disabled" ELSE product
  /\ pc' = "idle"
  /\ UNCHANGED next

(* a message cut short is reported as sent *)
Return_bug_always_true(ok) ==
  LET m == Len(log) IN
  /\ log' = [log EXCEPT ![m].result = "sent"]
  /\ product' = IF log[m].pgn = ProductPgn THEN "disabled" ELSE product
  /\ pc' = "idle"
  /\ UNCHANGED next

(* SendMsg() ends; a product information that failed is made pending       *)
(* again, one that was sent is no longer pending.                          *)
Return(ok) ==
  LET m == Len(log) IN
  /\ log' = [log EXCEPT ![m].result = IF ok THEN "sent" ELSE "failed"]
  /\ product' = IF log[m].pgn # ProductPgn THEN product
                ELSE IF ok THEN "disabled" ELSE "running"
  /\ pc' = "idle"
  /\ UNCHANGED next

(* SendFrame() returned true: the loop goes on or SendMsg() is done. *)
FrameAccepted ==
  IF next + 1 < FrameCount[log[Len(log)].pgn]
  THEN next' = next + 1 /\ UNCHANGED <<pc, log, product>>
  ELSE Return(TRUE)

(* SendFrames(): the driver takes the oldest buffered frame. *)
FlushFrame ==
  /\ pc \in {"sending", "parsing"}
  /\ ~RingEmpty
  /\ rd' = Succ(rd)
  /\ bus' = Append(bus, ring[Succ(rd)])
  /\ UNCHANGED <<openVars, app, pc, next, ring, wr, seqVars, product,
                 log, accepted, msgs, refusals>>

(* SendFrame(): nothing buffered and the driver takes the frame.           *)
SendDirect ==
  /\ pc = "sending"
  /\ RingEmpty
  /\ bus' = Append(bus, CurrentFrame)
  /\ accepted' = Append(accepted, CurrentFrame)
  /\ FrameAccepted
  /\ UNCHANGED <<openVars, app, ringVars, seqVars, msgs, refusals>>

(* GetNextFreeCANSendFrame() takes the next slot, full or not *)
BufferFrame_bug_no_full_test ==
  /\ refusals < MaxRefusals /\ refusals' = refusals + 1
  /\ pc = "sending"
  /\ wr' = Succ(wr)
  /\ ring' = [ring EXCEPT ![Succ(wr)] = CurrentFrame]
  /\ accepted' = Append(accepted, CurrentFrame)
  /\ FrameAccepted
  /\ UNCHANGED <<openVars, app, rd, seqVars, bus, msgs>>

(* SendFrame(): the driver refuses a write, be it of a buffered frame or   *)
(* of this one, and the frame goes into the ring.                          *)
BufferFrame ==
  /\ refusals < MaxRefusals /\ refusals' = refusals + 1
  /\ pc = "sending"
  /\ ~RingFull
  /\ wr' = Succ(wr)
  /\ ring' = [ring EXCEPT ![Succ(wr)] = CurrentFrame]
  /\ accepted' = Append(accepted, CurrentFrame)
  /\ FrameAccepted
  /\ UNCHANGED <<openVars, app, rd, seqVars, bus, msgs>>

(* the loop over the frames goes on after one failed *)
FrameLost_bug_continue ==
  /\ refusals < MaxRefusals /\ refusals' = refusals + 1
  /\ pc = "sending"
  /\ RingFull
  /\ FrameAccepted
  /\ UNCHANGED <<openVars, app, ringVars, seqVars, accepted, bus, msgs>>

(* SendFrame(): refused and no room left; SendMsg() gives the message up,  *)
(* whatever of it was already accepted.                                    *)
FrameLost ==
  /\ refusals < MaxRefusals /\ refusals' = refusals + 1
  /\ pc = "sending"
  /\ RingFull
  /\ Return(FALSE)
  /\ UNCHANGED <<openVars, app, ringVars, seqVars, accepted, bus, msgs>>

(* ParseMessages() when SendFrames() is done, the ring being empty or a    *)
(* write refused: an expired product information is sent.                  *)
EndFlush(refused) ==
  /\ pc = "parsing"
  /\ IF refused
     THEN ~RingEmpty /\ refusals < MaxRefusals /\ refusals' = refusals + 1
     ELSE RingEmpty /\ UNCHANGED refusals
  /\ IF product = "expired" THEN BeginFrames(ProductPgn)
                            ELSE pc' = "idle" /\ UNCHANGED <<next, seqVars, log>>
  /\ UNCHANGED <<openVars, app, ringVars, product, accepted, bus, msgs>>

-----------------------------------------------------------------------------
(* Steps inside a call; the thread takes them without being asked. *)
LibraryStep ==
  \/ FlushFrame \/ SendDirect \/ BufferFrame \/ FrameLost
  \/ \E refused \in BOOLEAN : EndFlush(refused)

Next ==
  \/ Tick
  \/ MainOpen \/ MainSendProductInformation
  \/ \E pgn \in Pgns : ConverterSend(pgn)
  \/ BeginParse
  \/ LibraryStep

Spec == Init /\ [][Next]_vars

(* Time passes, a call once begun runs to its end, main() gets to its      *)
(* announcement, and an application that calls ParseMessages() does so     *)
(* again and again.  No message has to arrive.                             *)
FairSpec ==
  /\ Spec
  /\ WF_vars(Tick)
  /\ WF_vars(MainOpen \/ MainSendProductInformation)
  /\ WF_vars(LibraryStep)
  /\ WF_vars(BeginParse)

-----------------------------------------------------------------------------
TypeOK ==
  /\ openState \in {"os_None", "os_OpenCAN", "os_WaitOpen", "os_Open"}
  /\ openDue \in BOOLEAN
  /\ app \in {"start", "announce", "running", "gone"}
  /\ pc \in {"idle", "sending", "parsing"}
  /\ next \in Nat
  /\ ring \in [Slot -> Frames \cup {<<>>}]
  /\ rd \in Slot /\ wr \in Slot
  /\ Backlog \in Seq(Frames)
  /\ slots \in Seq([pgn : FastPgns, sc : 0 .. SeqModulus - 1])
  /\ common \in 0 .. SeqModulus - 1
  /\ product \in {"disabled", "running", "expired"}
  /\ log \in Seq([pgn : AllPgns, seq : 0 .. SeqModulus - 1,
                  result : {"sending", "sent", "failed"}])
  /\ accepted \in Seq(Frames)
  /\ bus \in Seq(Frames)
  /\ msgs \in 0 .. MaxMsgs
  /\ refusals \in 0 .. MaxRefusals
  /\ pc = "sending" => /\ log # <<>>
                       /\ log[Len(log)].result = "sending"
                       /\ next < FrameCount[log[Len(log)].pgn]

(* Frames reach the driver in the order SendFrame() accepted them, each    *)
(* once, although some go straight to the driver and others through the    *)
(* ring: SendFrame() never lets a frame overtake the buffered ones.        *)
RingIsFifo == accepted = bus \o Backlog

(* A frame of a message with index k > 0 directly follows frame k-1 of the *)
(* same message, so a receiver never sees a fast packet with a hole: the   *)
(* loop of SendMsg() stops at the first frame that is lost.                *)
FastPacketContiguous ==
  \A j \in 1 .. Len(accepted) :
     accepted[j].idx > 0 =>
       /\ j > 1
       /\ accepted[j - 1].msg = accepted[j].msg
       /\ accepted[j - 1].idx = accepted[j].idx - 1

(* SendMsg() returns true only for a message all of whose frames were sent *)
(* or buffered (the doc comment of SendMsg, NMEA2000.h:2658).              *)
SentMeansComplete ==
  \A m \in 1 .. Len(log) :
     log[m].result = "sent" =>
       \A k \in 0 .. FrameCount[log[m].pgn] - 1 :
          \E j \in 1 .. Len(accepted) : accepted[j].msg = m /\ accepted[j].idx = k

(* Successive fast packets of one PGN carry successive sequence counters,  *)
(* so a receiver can tell a truncated one from its successor, if the PGN   *)
(* found a slot of its own in GetSequenceCounter()'s table.                *)
SequenceAdvances ==
  \A m, n \in 1 .. Len(log) :
     ( /\ m < n
       /\ log[m].pgn = log[n].pgn /\ SlotOf(log[m].pgn) # {}
       /\ \A k \in m + 1 .. n - 1 : log[k].pgn # log[m].pgn )
     => log[n].seq = (log[m].seq + 1) % SeqModulus

(* a fast packet of a PGN that found no slot in the table                  *)
Shares(m) == log[m].pgn \in FastPgns /\ SlotOf(log[m].pgn) = {}

(* The PGNs that found no slot share one counter, which advances with each *)
(* of their fast packets: two of them carry the same sequence only with a  *)
(* whole round of the counter between them.                                *)
SharedAdvances ==
  \A m, n \in 1 .. Len(log) :
     m < n /\ Shares(m) /\ Shares(n) /\ (\A k \in m + 1 .. n - 1 : ~Shares(k))
     => log[n].seq = (log[m].seq + 1) % SeqModulus

(* The ring, the sequence counters and their types. *)
SendInv == TypeOK /\ RingIsFifo /\ SequenceAdvances /\ SharedAdvances

(* Frames the driver refused do not stay in the ring for good: when the    *)
(* application calls ParseMessages(), the ring is emptied again although   *)
(* no further message is sent (NMEA2000.h:2667-2669).                      *)
BufferedFramesSent == ~RingEmpty ~> RingEmpty

(* The product information main() announces is eventually sent completely. *)
ProductInformationSent ==
  app = "running" ~>
    \E m \in 1 .. Len(log) : log[m].pgn = ProductPgn /\ log[m].result = "sent"

(* What waits is sent: frames in the ring, and the product information     *)
(* that was refused, for an application that calls ParseMessages().        *)
NothingStaysPending == BufferedFramesSent /\ ProductInformationSent

(* The send path, seen through its histories, is a FIFO.                   *)
Abstract == INSTANCE Fifo WITH Values <- Frames, put <- accepted, got <- bus
CanFifo == Abstract!Spec
=============================================================================
