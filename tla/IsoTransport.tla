---------------------------- MODULE IsoTransport ----------------------------
(***************************************************************************)
(* The ISO transport protocol of tNMEA2000: a node sends messages of       *)
(* several packets to another node or to all, and the other puts them      *)
(* together in N2kCANMsgBuf.  Both run this library.                       *)
(*                                                                         *)
(* The two directions of the bus are queues, so that an answer may be on   *)
(* its way while the sender's timer runs out.  A frame may be lost on the  *)
(* bus, or refused by SendMsg(), which the sender notices.  The receiver's *)
(* slots are shared with fast packets of other nodes.                      *)
(***************************************************************************)
EXTENDS CanMsgBuf, FiniteSets

CONSTANTS
  Pgns,        \* PGNs the application sends by the transport protocol
  Sizes,       \* packets of a message: its bytes divided by 7, rounded up
  TooLong,     \* those of at least MaxDataLen bytes, which a receiver refuses
  TpMaxFrames, \* TP_MAX_FRAMES, 5: packets a receiver asks for at a time
  MaxMsgs,     \* bound: messages sent
  MaxFaults,   \* bound: frames lost or refused, and fast packets of other nodes
  MaxTime      \* bound: the clock

ASSUME TransportAssumption ==
  /\ NoLine \notin Pgns /\ "fast packet" \notin Pgns
  /\ Sizes \subseteq Nat \ {0} /\ TooLong \subseteq Sizes
  /\ TpMaxFrames \in Nat \ {0}
  /\ MaxN2kCANMsgs > 1 /\ MaxN2kMsgBufTime > 0   \* 5 and 100 in the library
  /\ MaxMsgs \in Nat /\ MaxFaults \in Nat /\ MaxTime \in Nat

VARIABLES
  pending,    \* PendingTPMsg of the sender's device; msg is 0 when it is clear
  nextSeq,    \* NextDTSequence
  timer,      \* NextDTSendTime.IsEnabled()
  toRcv,      \* frames on their way to the receiver
  toSnd,      \* frames on their way to the sender
  buf,        \* N2kCANMsgBuf of the receiver
  now,        \* N2kMillis() at the receiver
  started,    \* history: the messages started, in order
  ended,      \* history: how the transfer of each message ended for the
              \* sender, and the message whose answer ended it
  misled,     \* history: messages sent because of an answer to another one
  delivered,  \* history: messages the receiver handed on
  overlap,    \* history: two transfers were open from this sender to one
              \* destination
  faults, others   \* counts (their sum is bounded by MaxFaults)

sender == <<pending, nextSeq, timer, started, ended, misled>>
receiver == <<buf, delivered, overlap>>
vars == <<sender, toRcv, toSnd, receiver, now, faults, others>>

Me == 1             \* the receiver's address
Broadcast == 255
None == [msg |-> 0, pgn |-> NoLine, total |-> 0, dst |-> 0]
Going == [how |-> "going", by |-> 0]

Init ==
  /\ pending = None /\ nextSeq = 0 /\ timer = FALSE /\ started = <<>>
  /\ ended = [m \in 1 .. MaxMsgs |-> Going] /\ misled = {}
  /\ toRcv = <<>> /\ toSnd = <<>>
  /\ buf = EmptyBuf /\ now = 0
  /\ delivered = {} /\ overlap = FALSE /\ faults = 0 /\ others = 0

(* One more fault or fast packet may come. *)
Disturbed == faults + others < MaxFaults

-----------------------------------------------------------------------------
(* The sender.  EndSendTPMessage() clears the message and its timer; the   *)
(* history says why and which message's answer was the reason.             *)
EndSendTPMessage(how, by) ==
  /\ pending' = None
  /\ timer' = FALSE
  /\ ended' = IF pending.msg = 0 THEN ended
              ELSE [ended EXCEPT ![pending.msg] = [how |-> how, by |-> by]]

HasAllTPDTSent(n) == n >= pending.total
Data(n) == [kind |-> "DT", dst |-> pending.dst, seq |-> n + 1, msg |-> pending.msg]
DataFrom(a, b) == [i \in 1 .. b - a |-> Data(a + i - 1)]

(* StartSendTPMessage(): refused while another message is pending; else    *)
(* BAM or RTS goes out, or the message is given up at once.                *)
StartSendTPMessage ==
  \E p \in Pgns, n \in Sizes, d \in {Me, Broadcast} :
    LET m == Len(started) + 1
        open == [kind |-> IF d = Broadcast THEN "BAM" ELSE "RTS",
                 dst |-> d, pgn |-> p, total |-> n, msg |-> m]
    IN /\ pending.msg = 0 /\ m <= MaxMsgs
       /\ started' = Append(started, [pgn |-> p, total |-> n, dst |-> d])
       /\ nextSeq' = 0
       /\ \/ /\ pending' = [msg |-> m, pgn |-> p, total |-> n, dst |-> d]
             /\ timer' = TRUE
             /\ toRcv' = Append(toRcv, open)
             /\ UNCHANGED <<ended, faults>>
          \/ /\ Disturbed /\ faults' = faults + 1
             /\ pending' = None /\ timer' = FALSE
             /\ ended' = [ended EXCEPT ![m] = [how |-> "failed", by |-> 0]]
             /\ UNCHANGED toRcv
       /\ UNCHANGED <<toSnd, receiver, misled, now, others>>

(* a transfer nobody answers is left alone *)
SendPendingTPMessage_bug_no_timeout ==
  /\ pending.msg # 0 /\ timer /\ pending.dst = Broadcast
  /\ nextSeq' = nextSeq + 1
  /\ toRcv' = Append(toRcv, Data(nextSeq))
  /\ IF HasAllTPDTSent(nextSeq + 1) THEN EndSendTPMessage("sent", 0)
     ELSE UNCHANGED <<pending, timer, ended>>
  /\ UNCHANGED <<toSnd, receiver, now, started, misled, faults, others>>

(* SendPendingTPMessage(), called by ParseMessages(), once the timer has   *)
(* run out: the next packet of a broadcast, whose result is not looked at, *)
(* or the end of a transfer nobody answered.                               *)
SendPendingTPMessage ==
  /\ pending.msg # 0 /\ timer
  /\ IF pending.dst = Broadcast
     THEN /\ nextSeq' = nextSeq + 1
          /\ \/ toRcv' = Append(toRcv, Data(nextSeq)) /\ UNCHANGED faults
             \/ Disturbed /\ faults' = faults + 1 /\ UNCHANGED toRcv
          /\ IF HasAllTPDTSent(nextSeq + 1) THEN EndSendTPMessage("sent", 0)
             ELSE UNCHANGED <<pending, timer, ended>>
     ELSE EndSendTPMessage("timeout", 0) /\ UNCHANGED <<nextSeq, toRcv, faults>>
  /\ UNCHANGED <<toSnd, receiver, now, started, misled, others>>

(* Packets a CTS asks for: up to the number it allows, until all are sent. *)
(* A packet SendMsg() refuses counts in NextDTSequence and ends it.        *)
LastAllowed(c) ==
  IF nextSeq + c.packets < pending.total THEN nextSeq + c.packets ELSE pending.total

SendPackets(c) ==
  /\ misled' = IF c.msg = pending.msg THEN misled ELSE misled \cup {pending.msg}
  /\ \/ /\ nextSeq' = IF nextSeq < LastAllowed(c) THEN LastAllowed(c) ELSE nextSeq
        /\ toRcv' = toRcv \o DataFrom(nextSeq, nextSeq')
        /\ timer' = TRUE
        /\ UNCHANGED <<pending, ended, faults>>
     \/ \E n \in nextSeq + 1 .. LastAllowed(c) :
          /\ Disturbed /\ faults' = faults + 1
          /\ nextSeq' = n
          /\ toRcv' = toRcv \o DataFrom(nextSeq, n - 1)
          /\ pending' = None /\ timer' = TRUE
          /\ ended' = [ended EXCEPT ![pending.msg] = [how |-> "failed", by |-> 0]]

(* TestHandleTPMessage() on an answer to the sender.  Neither the node it  *)
(* comes from nor, for an end or an abort, its PGN is compared.            *)
HandleAnswer ==
  /\ toSnd # <<>>
  /\ toSnd' = Tail(toSnd)
  /\ LET c == Head(toSnd) IN
     IF pending.dst = Broadcast
     THEN UNCHANGED <<pending, nextSeq, timer, ended, misled, toRcv, faults>>
     ELSE \/ /\ c.kind = "CTS" /\ c.pgn = pending.pgn /\ c.next - 1 = nextSeq
             /\ SendPackets(c)
          \/ /\ c.kind = "CTS" /\ (c.pgn # pending.pgn \/ c.next - 1 # nextSeq)
             /\ EndSendTPMessage("mismatch", c.msg)
             /\ UNCHANGED <<nextSeq, misled, toRcv, faults>>
          \/ /\ c.kind \in {"ACK", "Abort"}
             /\ EndSendTPMessage(c.kind, c.msg)
             /\ UNCHANGED <<nextSeq, misled, toRcv, faults>>
  /\ UNCHANGED <<receiver, now, started, others>>

-----------------------------------------------------------------------------
(* The receiver.  An answer goes to the queue towards the sender. *)
Answer(c) == toSnd' = Append(toSnd, c)

TPCtsPackets(n) == IF n < 1 THEN 1 ELSE IF n < TpMaxFrames THEN n ELSE TpMaxFrames

Cts(pgn, n, next, m) ==
  [kind |-> "CTS", pgn |-> pgn, packets |-> TPCtsPackets(n), next |-> next, msg |-> m]
Short(kind, pgn, m) == [kind |-> kind, pgn |-> pgn, packets |-> 0, next |-> 0, msg |-> m]

OpenFrom(b, dst) == {i \in Slots : ~b[i].free /\ b[i].tp /\ b[i].dst = dst}

(* BAM or RTS: a slot is taken and an RTS is answered by CTS, or by an     *)
(* abort when there is no slot or the message is too long.  tag is         *)
(* TPRequireCTS, 0 for a broadcast.                                        *)
HandleOpen(f) ==
  LET i == FindFreeCANMsgIndex(buf, f.pgn, f.dst, TRUE, now)
      taken == i # NoSlot /\ Usable(buf, f.pgn, f.dst, TRUE) = {}
      rts == f.kind = "RTS"
  IN IF i = NoSlot
     THEN /\ IF rts THEN Answer(Short("Abort", f.pgn, f.msg)) ELSE UNCHANGED toSnd
          /\ UNCHANGED receiver
     ELSE IF f.total \in TooLong
     THEN /\ buf' = IF taken THEN [buf EXCEPT ![i] = Free] ELSE buf
          /\ IF rts THEN Answer(Short("Abort", f.pgn, f.msg)) ELSE UNCHANGED toSnd
          /\ UNCHANGED <<delivered, overlap>>
     ELSE /\ buf' = [buf EXCEPT ![i] =
               [free |-> FALSE, line |-> f.pgn, dst |-> f.dst, tp |-> TRUE,
                time |-> now, tag |-> IF rts THEN TPCtsPackets(f.total) ELSE 0,
                last |-> 0, total |-> f.total, got |-> <<>>]]
          /\ IF rts THEN Answer(Cts(f.pgn, f.total, 1, f.msg)) ELSE UNCHANGED toSnd
          /\ overlap' = (overlap \/ Cardinality(OpenFrom(buf', f.dst)) > 1)
          /\ UNCHANGED delivered

Expected(s, f) == s.last + 1 = f.seq

(* the message is acknowledged one packet early *)
Complete_bug_early(s) == Len(s.got) >= s.total - 1
Complete(s) == Len(s.got) >= s.total

(* every packet is answered by CTS, not the last of a window alone *)
MoreWanted_bug_each_packet(s) == ~Complete(s) /\ s.tag > 0
MoreWanted(s) == ~Complete(s) /\ s.tag > 0 /\ s.last % s.tag = 0

Answers(s, m) ==
  (IF Complete(s) /\ s.tag > 0 THEN <<Short("ACK", s.line, m)>> ELSE <<>>)
    \o (IF MoreWanted(s) THEN <<Cts(s.line, s.total, s.last + 1, m)>> ELSE <<>>)

(* A data packet goes to the first transfer open from its source to its    *)
(* destination.  The last packet is answered by EndAck, the last of each   *)
(* window by CTS, a wrong one by an abort; ParseMessages() hands the       *)
(* complete message on and frees the slot.                                 *)
HandleData(f) ==
  LET i == FirstOf(OpenFrom(buf, f.dst)) IN
  IF i = NoSlot THEN UNCHANGED <<receiver, toSnd>>
  ELSE IF ~Expected(buf[i], f)
  THEN /\ buf' = [buf EXCEPT ![i] = Free]
       /\ IF buf[i].tag > 0 THEN Answer(Short("Abort", buf[i].line, f.msg))
          ELSE UNCHANGED toSnd
       /\ UNCHANGED <<delivered, overlap>>
  ELSE LET s == [buf[i] EXCEPT !.last = f.seq, !.time = now,
                               !.got = Append(@, [msg |-> f.msg, idx |-> f.seq])]
       IN /\ IF Complete(s)
             THEN /\ buf' = [buf EXCEPT ![i] = Free]
                  /\ delivered' = delivered \cup
                       {[pgn |-> s.line, dst |-> s.dst, total |-> s.total, got |-> s.got]}
             ELSE buf' = [buf EXCEPT ![i] = s] /\ UNCHANGED delivered
          /\ toSnd' = toSnd \o Answers(s, f.msg)
          /\ UNCHANGED overlap

TestHandleTPMessage ==
  /\ toRcv # <<>>
  /\ toRcv' = Tail(toRcv)
  /\ IF Head(toRcv).kind = "DT" THEN HandleData(Head(toRcv)) ELSE HandleOpen(Head(toRcv))
  /\ UNCHANGED <<sender, now, faults, others>>

-----------------------------------------------------------------------------
(* Fast packets of another node take and leave slots, as in FastPacketRx. *)
OtherMessage ==
  /\ \/ /\ Disturbed /\ others' = others + 1
        /\ LET i == FindFreeCANMsgIndex(buf, "fast packet", Broadcast, FALSE, now) IN
           /\ i # NoSlot
           /\ buf' = [buf EXCEPT ![i] =
                [Free EXCEPT !.free = FALSE, !.line = "fast packet",
                             !.dst = Broadcast, !.time = now]]
     \/ \E i \in Slots :
          /\ buf[i].line = "fast packet" /\ buf' = [buf EXCEPT ![i] = Free]
          /\ UNCHANGED others
  /\ UNCHANGED <<sender, toRcv, toSnd, now, delivered, overlap, faults>>

LoseFrame ==
  /\ Disturbed /\ faults' = faults + 1
  /\ \/ toRcv # <<>> /\ toRcv' = Tail(toRcv) /\ UNCHANGED toSnd
     \/ toSnd # <<>> /\ toSnd' = Tail(toSnd) /\ UNCHANGED toRcv
  /\ UNCHANGED <<sender, receiver, now, others>>

Tick ==
  /\ now < MaxTime /\ now' = now + 1
  /\ UNCHANGED <<sender, toRcv, toSnd, receiver, faults, others>>

Next ==
  \/ StartSendTPMessage \/ SendPendingTPMessage \/ HandleAnswer
  \/ TestHandleTPMessage \/ OtherMessage \/ LoseFrame \/ Tick

Spec == Init /\ [][Next]_vars

(* The sender calls ParseMessages() again and again. *)
FairSpec == Spec /\ WF_vars(SendPendingTPMessage)

-----------------------------------------------------------------------------
(* The types; the timer of a pending message always runs. *)
TransportTypeOK ==
  /\ pending.msg \in 0 .. MaxMsgs /\ pending.pgn \in Pgns \cup {NoLine}
  /\ pending.total \in Sizes \cup {0} /\ pending.dst \in {0, Me, Broadcast}
  /\ nextSeq \in Nat /\ timer \in BOOLEAN /\ (pending.msg # 0 => timer)
  /\ nextSeq <= pending.total \/ pending.msg = 0
  /\ \A i \in DOMAIN toRcv : toRcv[i].kind \in {"BAM", "RTS", "DT"}
  /\ \A i \in DOMAIN toSnd : toSnd[i].kind \in {"CTS", "ACK", "Abort"}
  /\ \A i \in Slots : buf[i].free \/ buf[i].line \in Pgns \cup {"fast packet"}
  /\ misled \subseteq 1 .. Len(started)
  /\ now \in 0 .. MaxTime /\ Len(started) <= MaxMsgs
  /\ faults \in Nat /\ others \in Nat /\ faults + others <= MaxFaults

(* What the receiver hands on has every packet once and in order, whatever *)
(* was lost, refused, answered late or given up.  An addressed message is  *)
(* one message of the sender, unless two transfers from one source to one  *)
(* destination are open (data packets carry no PGN and go to the first of  *)
(* them), or its end was sent because of a late answer to an earlier one.  *)
(* (A broadcast need not be: when its BAM and first packets are lost, the  *)
(* rest may complete an earlier one.)                                      *)
WholeMessage(d) ==
  \E m \in 1 .. MaxMsgs : d.got = [k \in 1 .. d.total |-> [msg |-> m, idx |-> k]]
DeliveredWhole ==
  \A d \in delivered :
    /\ Len(d.got) = d.total /\ \A k \in 1 .. d.total : d.got[k].idx = k
    /\ d.dst = Me /\ ~overlap /\ d.got[d.total].msg \notin misled => WholeMessage(d)

(* When the sender's transfer ends with the receiver's EndAck for that     *)
(* message, the receiver has handed the whole message on.                  *)
AckedWasDelivered ==
  \A m \in 1 .. MaxMsgs :
    ended[m] = [how |-> "ACK", by |-> m] /\ ~overlap /\ m \notin misled
      => \E d \in delivered :
           WholeMessage(d) /\ d.dst = Me /\ d.got[1].msg = m

(* An answer to another message ends a transfer, or makes it send, only    *)
(* after the sender itself had given up that message or one before it (the *)
(* source and, for an end or an abort, the PGN are not compared).          *)
GivenUp(m) == ended[m].how \in {"timeout", "failed"}
OnlyLateAnswersHarm ==
  \A m \in 1 .. MaxMsgs :
    /\ LET b == ended[m].by IN
       b # 0 /\ b # m => b < m /\ \E g \in 1 .. b : GivenUp(g)
    /\ m \in misled => \E g \in 1 .. m - 1 : GivenUp(g)

(* The sender is never more than a window of packets ahead of the          *)
(* receiver: at most TP_MAX_FRAMES packets of an addressed message are on  *)
(* their way, unless a late answer asked for more.                         *)
WindowKept ==
  \A m \in (1 .. MaxMsgs) \ misled :
    Cardinality({i \in DOMAIN toRcv : toRcv[i].kind = "DT" /\ toRcv[i].msg = m
                                      /\ toRcv[i].dst # Broadcast}) <= TpMaxFrames

(* Without a fault, a fast packet in the way or a time-out at the          *)
(* receiver, a broadcast that is not too long reaches the application once *)
(* its packets have arrived, however late SendPendingTPMessage() is called.*)
BroadcastDelivered ==
  faults = 0 /\ others = 0 /\ now = 0 /\ toRcv = <<>> /\ ~overlap =>
    \A m \in 1 .. MaxMsgs :
      ended[m].how = "sent" /\ started[m].total \notin TooLong =>
        \E d \in delivered : WholeMessage(d) /\ d.got[1].msg = m

(* A transfer ends: by the last packet of a broadcast, by an answer, or by *)
(* the timer when no answer comes.  The device can then send the next one. *)
TransferEnds == []<>(pending.msg = 0)

(* The types and what a transfer promises to both sides. *)
TransportInv ==
  /\ TransportTypeOK
  /\ DeliveredWhole /\ AckedWasDelivered /\ BroadcastDelivered
  /\ WindowKept
=============================================================================
