------------------------ MODULE IsoTransport_proofs ------------------------
(***************************************************************************)
(* IsoTransport for any number of slots, messages and faults, any sizes,   *)
(* windows and PGNs.                                                       *)
(*                                                                         *)
(* The frames on their way to the receiver are in the order of their       *)
(* messages and packets (Ordered), so whatever is received comes before    *)
(* all that is left.  From there: what a slot holds (SlotsKept), what a    *)
(* CTS on its way asks for (AnswersKept), whose packets a message the      *)
(* receiver was asked for may meet (AskedKept), where a broadcast is when  *)
(* nothing disturbs it (BroadcastsKept), what is on its way as long as no  *)
(* transfer was given up (CleanKept), and that the packets on their way    *)
(* are those of one window (SpreadKept).                                   *)
(***************************************************************************)
EXTENDS IsoTransport, FiniteSetTheorems, SequenceTheorems, WellFoundedInduction, TLAPS

-----------------------------------------------------------------------------
(* The inductive invariant. *)

Elems(s) == {s[i] : i \in DOMAIN s}
Rcv == Elems(toRcv)
Snd == Elems(toSnd)

Endings == {"going", "sent", "failed", "timeout", "mismatch", "ACK", "Abort"}
Requests == [pgn : Pgns, total : Sizes, dst : {Me, Broadcast}]
Transfers == [msg : Nat, pgn : Pgns \cup {NoLine}, total : Sizes \cup {0},
              dst : {0, Me, Broadcast}]
OpenFrames == [kind : {"BAM", "RTS"}, dst : {Me, Broadcast}, pgn : Pgns, total : Sizes,
               msg : Nat]
DataFrames == [kind : {"DT"}, dst : {Me, Broadcast}, seq : Nat, msg : Nat]
Frames == OpenFrames \cup DataFrames
AnswerFrames == [kind : {"CTS", "ACK", "Abort"}, pgn : Pgns, packets : Nat, next : Nat,
                 msg : Nat]
Packets == [msg : Nat, idx : Nat]
SlotTypes ==
  [free : BOOLEAN, line : Pgns \cup {NoLine, "fast packet"}, dst : {0, Me, Broadcast},
   tp : BOOLEAN, time : Nat, tag : Nat, last : Nat, total : Nat, got : Seq(Packets)]

Types ==
  /\ pending \in Transfers /\ nextSeq \in Nat /\ timer \in BOOLEAN
  /\ toRcv \in Seq(Frames) /\ toSnd \in Seq(AnswerFrames)
  /\ buf \in [Slots -> SlotTypes] /\ now \in 0 .. MaxTime
  /\ started \in Seq(Requests) /\ Len(started) <= MaxMsgs
  /\ ended \in [1 .. MaxMsgs -> [how : Endings, by : Nat]]
  /\ misled \subseteq 1 .. Len(started)
  /\ overlap \in BOOLEAN
  /\ faults \in Nat /\ others \in Nat /\ faults + others <= MaxFaults

DataIs(f) == f.kind = "DT"
OpenTo(d) == OpenFrom(buf, d)

(* The message being sent is the last one started.                         *)
SenderKept ==
  /\ pending.msg \in {0, Len(started)}
  /\ pending.msg = 0 => pending = None
  /\ pending.msg # 0 =>
       /\ pending.pgn \in Pgns /\ pending.total \in Sizes /\ pending.dst \in {Me, Broadcast}
       /\ started[pending.msg] =
            [pgn |-> pending.pgn, total |-> pending.total, dst |-> pending.dst]
       /\ ended[pending.msg] = Going /\ timer
       /\ nextSeq <= pending.total
       /\ pending.dst = Broadcast => nextSeq < pending.total /\ pending.msg \notin misled
  /\ \A m \in 1 .. MaxMsgs :
       /\ m > Len(started) => ended[m] = Going
       /\ m <= Len(started) /\ m # pending.msg => ended[m].how # "going"
       /\ ended[m].how = "sent" => m <= Len(started) /\ started[m].dst = Broadcast

(* Frames are those of messages started, packets those sent so far.        *)
FrameKept(f) ==
  /\ f.msg \in 1 .. Len(started) /\ f.dst = started[f.msg].dst
  /\ ~DataIs(f) => /\ f.pgn = started[f.msg].pgn /\ f.total = started[f.msg].total
                   /\ f.kind = "BAM" <=> f.dst = Broadcast
  /\ DataIs(f) => /\ f.seq \in 1 .. started[f.msg].total
                  /\ f.msg = pending.msg => f.seq <= nextSeq
FramesKept == \A f \in Rcv : FrameKept(f)

Before(f, g) ==
  \/ f.msg < g.msg
  \/ f.msg = g.msg /\ DataIs(g) /\ (DataIs(f) => f.seq < g.seq)
Ordered(s) == \A i, j \in DOMAIN s : i < j => Before(s[i], s[j])

(* A CTS asks for packets behind those that were received, and the packets *)
(* on their way are behind those.                                          *)
AnswerKept(c) ==
  /\ c.msg \in 1 .. Len(started) /\ started[c.msg].dst = Me
  /\ c.kind = "CTS" =>
       /\ c.packets \in 1 .. TpMaxFrames /\ c.next >= 1
       /\ c.msg = pending.msg => c.next <= nextSeq + 1
       /\ \A f \in Rcv : DataIs(f) /\ f.msg = c.msg => f.seq >= c.next
AnswersKept == \A c \in Snd : AnswerKept(c)

(* A transfer open in a slot holds the packets 1, 2, ... of messages that  *)
(* are not younger than those on their way.                                *)
GotKept(s) ==
  \A k \in 1 .. s.last :
    /\ s.got[k].idx = k /\ s.got[k].msg \in 1 .. Len(started)
    /\ started[s.got[k].msg].dst = s.dst
    /\ \A f \in Rcv : s.got[k].msg <= f.msg
SlotKept(s) ==
  /\ s.free => s.line = NoLine /\ ~s.tp
  /\ ~s.free =>
       \/ s.line = "fast packet" /\ ~s.tp
       \/ /\ s.tp /\ s.line \in Pgns /\ s.dst \in {Me, Broadcast} /\ s.total \in Sizes
          /\ s.tag = (IF s.dst = Me THEN TPCtsPackets(s.total) ELSE 0)
          /\ Len(s.got) = s.last /\ s.last < s.total
          /\ GotKept(s)
SlotsKept == \A i \in Slots : SlotKept(buf[i])

OverlapKept == ~overlap => \A d \in {Me, Broadcast} : \A i, j \in OpenTo(d) : i = j

(* Once the receiver has asked for packets of a message, only packets of   *)
(* this message and later ones are on their way or in the slot.            *)
Asked(m) ==
  \/ \E f \in Rcv : DataIs(f) /\ f.dst = Me /\ f.msg = m
  \/ \E c \in Snd : c.kind = "CTS" /\ c.msg = m
  \/ pending.msg = m /\ pending.dst = Me /\ nextSeq > 0
OwnFramesOnly(m) == \A f \in Rcv : f.dst = Me => f.msg >= m /\ (f.msg = m => DataIs(f))
OwnPacketsOnly(m) == \A i \in OpenTo(Me) : \A k \in 1 .. buf[i].last : buf[i].got[k].msg >= m
AskedKept ==
  ~overlap => \A m \in (1 .. Len(started)) \ misled :
                Asked(m) => OwnFramesOnly(m) /\ OwnPacketsOnly(m)

(* What was acknowledged was handed on.                                    *)
Handed(m) == \E d \in delivered : WholeMessage(d) /\ d.dst = Me /\ d.got[1].msg = m
AcksKept ==
  ~overlap => \A m \in (1 .. MaxMsgs) \ misled :
    (\E c \in Snd : c.kind = "ACK" /\ c.msg = m) \/ ended[m] = [how |-> "ACK", by |-> m]
      => Handed(m)

(* While nothing disturbs it, a broadcast is on its way as a whole, or its *)
(* packets are in the slot or on their way, or it was handed on.           *)
Quiet == faults = 0 /\ others = 0 /\ now = 0 /\ ~overlap
SentOf(m) == IF m = pending.msg THEN nextSeq ELSE started[m].total
Dt(m, q) == [kind |-> "DT", dst |-> Broadcast, seq |-> q, msg |-> m]
Bam(m) == [kind |-> "BAM", dst |-> Broadcast, pgn |-> started[m].pgn,
           total |-> started[m].total, msg |-> m]
Filling(i, m) ==
  /\ buf[i].total = started[m].total
  /\ \A k \in 1 .. buf[i].last : buf[i].got[k].msg = m
  /\ Bam(m) \notin Rcv
  /\ \A f \in Rcv : f.msg >= m /\ (f.msg = m => f.seq > buf[i].last)
  /\ \A q \in buf[i].last + 1 .. SentOf(m) : Dt(m, q) \in Rcv
  /\ buf[i].last <= SentOf(m)
HandedOn(m) == \E d \in delivered : WholeMessage(d) /\ d.got[1].msg = m
BroadcastKept(m) ==
  /\ m # pending.msg => ended[m].how = "sent"
  /\ Bam(m) \in Rcv => \A q \in 1 .. SentOf(m) : Dt(m, q) \in Rcv
  /\ started[m].total \notin TooLong =>
       HandedOn(m) \/ Bam(m) \in Rcv \/ \E i \in OpenTo(Broadcast) : Filling(i, m)
BroadcastsKept ==
  Quiet =>
    /\ \A i \in Slots : buf[i].line # "fast packet"
    /\ \A i \in OpenTo(Broadcast) :
         \E m \in 1 .. Len(started) : started[m].dst = Broadcast /\ Filling(i, m)
    /\ \A m \in 1 .. Len(started) : started[m].dst = Broadcast => BroadcastKept(m)

(* As long as no transfer was given up, an answer is one to the message    *)
(* being sent.  n packets of it were sent, of which l are in the slot: up  *)
(* to the end of the window that begins behind base, or of the message.    *)
NoneGivenUp(b) == \A g \in 1 .. b : ~GivenUp(g)
Window(n, l, t, total) ==
  \E base \in 0 .. n : /\ base % t = 0 /\ base <= l /\ l <= n
                       /\ n = base \/ n = base + t \/ (n = total /\ n <= base + t)
Over(b) ==
  /\ \A c \in Snd : c.msg # b
  /\ \A f \in Rcv : f.msg = b /\ f.dst = Me => DataIs(f) /\ OpenTo(Me) = {}
Alone(b) ==
  LET t == TPCtsPackets(pending.total) IN
  /\ Len(toSnd) <= 1
  /\ \A f \in Rcv : f.msg = b /\ ~DataIs(f) => nextSeq = 0 /\ toSnd = <<>> /\ OpenTo(Me) = {}
  /\ \A i, j \in OpenTo(Me) : i = j
  /\ \A i \in OpenTo(Me) :
       /\ buf[i].line = pending.pgn /\ buf[i].total = pending.total
       /\ \A f \in Rcv : f.dst = Me => f.msg = b /\ DataIs(f) /\ f.seq > buf[i].last
       /\ Window(nextSeq, buf[i].last, t, pending.total)
  /\ \A c \in Snd :
       /\ c.kind = "CTS" =>
            /\ c.pgn = pending.pgn /\ c.next = nextSeq + 1 /\ c.packets = t
            /\ nextSeq % t = 0
            /\ \A i \in OpenTo(Me) : buf[i].last = nextSeq
            /\ \A f \in Rcv : f.msg # b
       /\ c.kind # "CTS" => OpenTo(Me) = {}
CleanKept ==
  /\ \A b \in 1 .. Len(started) :
       NoneGivenUp(b) =>
         /\ b # pending.msg => Over(b)
         /\ b = pending.msg /\ pending.dst = Me => Alone(b)
  /\ NoneGivenUp(Len(started)) /\ (pending.msg = 0 \/ pending.dst = Broadcast)
       => OpenTo(Me) = {} /\ toSnd = <<>>

(* The packets of a message on their way are those of one window.          *)
Spread(m) ==
  \A f, g \in Rcv :
    DataIs(f) /\ DataIs(g) /\ f.dst = Me /\ g.dst = Me /\ f.msg = m /\ g.msg = m
      => f.seq < g.seq + TpMaxFrames
SpreadKept == \A m \in (1 .. Len(started)) \ misled : Spread(m)

IsoInv ==
  /\ Types /\ SenderKept /\ FramesKept /\ Ordered(toRcv) /\ AnswersKept /\ SlotsKept
  /\ OverlapKept /\ AskedKept /\ AcksKept /\ BroadcastsKept /\ CleanKept /\ SpreadKept
  /\ DeliveredWhole /\ OnlyLateAnswersHarm

-----------------------------------------------------------------------------
(* Sequences as sets of their elements. *)

LEMMA ElemsOfAppend ==
  ASSUME NEW S, NEW s \in Seq(S), NEW e \in S
  PROVE  /\ Append(s, e) \in Seq(S) /\ Len(Append(s, e)) = Len(s) + 1
         /\ Elems(Append(s, e)) = Elems(s) \cup {e}
<1>1. /\ Append(s, e) \in Seq(S) /\ Len(Append(s, e)) = Len(s) + 1
      /\ \A i \in 1 .. Len(s) : Append(s, e)[i] = s[i]
      /\ Append(s, e)[Len(s) + 1] = e /\ Len(s) \in Nat
  OBVIOUS
<1>2. DOMAIN s = 1 .. Len(s) /\ DOMAIN Append(s, e) = 1 .. Len(s) + 1
  BY <1>1
<1> HIDE DEF Elems
<1>3. ASSUME NEW x \in Elems(Append(s, e)) PROVE x \in Elems(s) \cup {e}
  <2>1. PICK i \in 1 .. Len(s) + 1 : x = Append(s, e)[i]
    BY <1>2, <1>3 DEF Elems
  <2>2. CASE i = Len(s) + 1
    BY <1>1, <2>1, <2>2
  <2>3. CASE i \in 1 .. Len(s)
    BY <1>1, <1>2, <2>1, <2>3 DEF Elems
  <2> QED
    BY <2>1, <2>2, <2>3, <1>1
<1>4. ASSUME NEW x \in Elems(s) PROVE x \in Elems(Append(s, e))
  <2>1. PICK i \in 1 .. Len(s) : x = s[i]
    BY <1>2, <1>4 DEF Elems
  <2>2. i \in 1 .. Len(s) + 1 /\ x = Append(s, e)[i]
    BY <1>1, <2>1
  <2> QED
    BY <1>2, <2>2 DEF Elems
<1>5. e \in Elems(Append(s, e))
  <2>1. Len(s) + 1 \in 1 .. Len(s) + 1
    BY <1>1
  <2> QED
    BY <1>1, <1>2, <2>1 DEF Elems
<1> QED
  BY <1>1, <1>3, <1>4, <1>5

LEMMA ElemsOfConcat ==
  ASSUME NEW S, NEW s \in Seq(S), NEW t \in Seq(S)
  PROVE  /\ s \o t \in Seq(S) /\ Len(s \o t) = Len(s) + Len(t)
         /\ Elems(s \o t) = Elems(s) \cup Elems(t)
<1>1. /\ s \o t \in Seq(S) /\ Len(s \o t) = Len(s) + Len(t)
      /\ \A i \in 1 .. Len(s) + Len(t) :
           (s \o t)[i] = IF i <= Len(s) THEN s[i] ELSE t[i - Len(s)]
      /\ Len(s) \in Nat /\ Len(t) \in Nat
  BY ConcatProperties
<1>2. /\ DOMAIN s = 1 .. Len(s) /\ DOMAIN t = 1 .. Len(t)
      /\ DOMAIN (s \o t) = 1 .. Len(s) + Len(t)
  BY <1>1
<1> HIDE DEF Elems
<1>3. ASSUME NEW x \in Elems(s \o t) PROVE x \in Elems(s) \cup Elems(t)
  <2>1. PICK i \in 1 .. Len(s) + Len(t) : x = (s \o t)[i]
    BY <1>2, <1>3 DEF Elems
  <2>2. CASE i <= Len(s)
    <3>1. i \in 1 .. Len(s) /\ x = s[i]
      BY <1>1, <2>1, <2>2
    <3> QED
      BY <1>2, <3>1 DEF Elems
  <2>3. CASE ~(i <= Len(s))
    <3>1. i - Len(s) \in 1 .. Len(t) /\ x = t[i - Len(s)]
      BY <1>1, <2>1, <2>3
    <3> QED
      BY <1>2, <3>1 DEF Elems
  <2> QED
    BY <2>2, <2>3
<1>4. ASSUME NEW x \in Elems(s) PROVE x \in Elems(s \o t)
  <2>1. PICK i \in 1 .. Len(s) : x = s[i]
    BY <1>2, <1>4 DEF Elems
  <2>2. i \in 1 .. Len(s) + Len(t) /\ i <= Len(s)
    BY <1>1, <2>1
  <2> QED
    BY <1>1, <1>2, <2>1, <2>2 DEF Elems
<1>5. ASSUME NEW x \in Elems(t) PROVE x \in Elems(s \o t)
  <2>1. PICK i \in 1 .. Len(t) : x = t[i]
    BY <1>2, <1>5 DEF Elems
  <2>2. PICK j \in 1 .. Len(s) + Len(t) : j = Len(s) + i
    BY <1>1, <2>1
  <2>3. ~(j <= Len(s)) /\ j - Len(s) = i
    BY <1>1, <2>1, <2>2
  <2> QED
    BY <1>1, <1>2, <2>1, <2>2, <2>3 DEF Elems
<1> QED
  BY <1>1, <1>3, <1>4, <1>5

LEMMA TailIs ==
  ASSUME NEW S, NEW s \in Seq(S), s # <<>>
  PROVE  /\ Tail(s) \in Seq(S) /\ Len(s) \in Nat \ {0} /\ Len(Tail(s)) = Len(s) - 1
         /\ Head(s) = s[1] /\ Head(s) \in S
         /\ \A i \in 1 .. Len(s) - 1 : Tail(s)[i] = s[i + 1]
  OBVIOUS

LEMMA ElemsOfTail ==
  ASSUME NEW S, NEW s \in Seq(S), s # <<>>
  PROVE  /\ Tail(s) \in Seq(S) /\ Len(Tail(s)) = Len(s) - 1 /\ Len(s) \in Nat
         /\ Head(s) \in S /\ Elems(s) = {Head(s)} \cup Elems(Tail(s))
<1>1. /\ Tail(s) \in Seq(S) /\ Len(s) \in Nat \ {0} /\ Len(Tail(s)) = Len(s) - 1
      /\ Head(s) = s[1] /\ Head(s) \in S
      /\ \A i \in 1 .. Len(s) - 1 : Tail(s)[i] = s[i + 1]
  BY TailIs
<1>2. DOMAIN s = 1 .. Len(s) /\ DOMAIN Tail(s) = 1 .. Len(s) - 1
  BY <1>1
<1> HIDE DEF Elems
<1>3. ASSUME NEW x \in Elems(s) PROVE x = Head(s) \/ x \in Elems(Tail(s))
  <2>1. PICK i \in 1 .. Len(s) : x = s[i]
    BY <1>2, <1>3 DEF Elems
  <2>2. CASE i = 1
    BY <1>1, <2>1, <2>2
  <2>3. CASE i # 1
    <3>1. PICK j \in 1 .. Len(s) - 1 : i = j + 1
      BY <1>1, <2>1, <2>3
    <3> QED
      BY <1>1, <1>2, <2>1, <3>1 DEF Elems
  <2> QED
    BY <2>2, <2>3
<1>4. ASSUME NEW x \in Elems(Tail(s)) PROVE x \in Elems(s)
  <2>1. PICK i \in 1 .. Len(s) - 1 : x = Tail(s)[i]
    BY <1>2, <1>4 DEF Elems
  <2>2. i + 1 \in 1 .. Len(s) /\ x = s[i + 1]
    BY <1>1, <2>1
  <2> QED
    BY <1>2, <2>2 DEF Elems
<1>5. Head(s) \in Elems(s)
  <2>1. 1 \in 1 .. Len(s)
    BY <1>1
  <2> QED
    BY <1>1, <1>2, <2>1 DEF Elems
<1> QED
  BY <1>1, <1>3, <1>4, <1>5

LEMMA OrderedTail ==
  ASSUME NEW S, NEW s \in Seq(S), s # <<>>, Ordered(s)
  PROVE  Ordered(Tail(s)) /\ \A g \in Elems(Tail(s)) : Before(Head(s), g)
<1>1. /\ Tail(s) \in Seq(S) /\ Len(s) \in Nat \ {0} /\ Len(Tail(s)) = Len(s) - 1
      /\ Head(s) = s[1]
      /\ \A i \in 1 .. Len(s) - 1 : Tail(s)[i] = s[i + 1]
  BY TailIs
<1>2. DOMAIN s = 1 .. Len(s) /\ DOMAIN Tail(s) = 1 .. Len(s) - 1
  BY <1>1
<1>3. \A i, j \in 1 .. Len(s) : i < j => Before(s[i], s[j])
  BY <1>2 DEF Ordered
<1>4. ASSUME NEW i \in 1 .. Len(s) - 1, NEW j \in 1 .. Len(s) - 1, i < j
      PROVE  Before(Tail(s)[i], Tail(s)[j])
  <2>1. /\ i + 1 \in 1 .. Len(s) /\ j + 1 \in 1 .. Len(s) /\ i + 1 < j + 1
    BY <1>1, <1>4
  <2>2. Before(s[i + 1], s[j + 1])
    BY <1>3, <2>1
  <2> QED
    BY <1>1, <2>2
<1>5. ASSUME NEW g \in Elems(Tail(s)) PROVE Before(Head(s), g)
  <2>1. PICK i \in 1 .. Len(s) - 1 : g = Tail(s)[i]
    BY <1>2 DEF Elems
  <2>2. i + 1 \in 1 .. Len(s) /\ 1 \in 1 .. Len(s) /\ 1 < i + 1
    BY <1>1, <2>1
  <2>3. Before(s[1], s[i + 1])
    BY <1>3, <2>2
  <2> QED
    BY <1>1, <2>1, <2>3
<1> QED
  BY <1>2, <1>4, <1>5 DEF Ordered

LEMMA OrderedConcat ==
  ASSUME NEW S, NEW s \in Seq(S), NEW t \in Seq(S), Ordered(s), Ordered(t),
         \A f \in Elems(s), g \in Elems(t) : Before(f, g)
  PROVE  Ordered(s \o t)
<1>1. /\ s \o t \in Seq(S) /\ Len(s \o t) = Len(s) + Len(t)
      /\ \A i \in 1 .. Len(s) + Len(t) :
           (s \o t)[i] = IF i <= Len(s) THEN s[i] ELSE t[i - Len(s)]
      /\ Len(s) \in Nat /\ Len(t) \in Nat
  BY ConcatProperties
<1>2. /\ DOMAIN s = 1 .. Len(s) /\ DOMAIN t = 1 .. Len(t)
      /\ DOMAIN (s \o t) = 1 .. Len(s) + Len(t)
  BY <1>1
<1>3. ASSUME NEW i \in 1 .. Len(s) + Len(t), NEW j \in 1 .. Len(s) + Len(t), i < j
      PROVE  Before((s \o t)[i], (s \o t)[j])
  <2>1. CASE j <= Len(s)
    <3>1. i \in 1 .. Len(s) /\ j \in 1 .. Len(s) /\ i <= Len(s)
      BY <1>1, <1>3, <2>1
    <3> QED
      BY <1>1, <1>2, <1>3, <3>1 DEF Ordered
  <2>2. CASE ~(j <= Len(s)) /\ i <= Len(s)
    <3>1. i \in 1 .. Len(s) /\ j - Len(s) \in 1 .. Len(t)
      BY <1>1, <1>3, <2>2
    <3>2. s[i] \in Elems(s) /\ t[j - Len(s)] \in Elems(t)
      BY <1>2, <3>1 DEF Elems
    <3> QED
      BY <1>1, <2>2, <3>2
  <2>3. CASE ~(j <= Len(s)) /\ ~(i <= Len(s))
    <3>1. /\ i - Len(s) \in 1 .. Len(t) /\ j - Len(s) \in 1 .. Len(t)
          /\ i - Len(s) < j - Len(s)
      BY <1>1, <1>3, <2>3
    <3>2. Before(t[i - Len(s)], t[j - Len(s)])
      BY <1>2, <3>1 DEF Ordered
    <3> QED
      BY <1>1, <2>3, <3>2
  <2> QED
    BY <2>1, <2>2, <2>3
<1> QED
  BY <1>2, <1>3 DEF Ordered

LEMMA OrderedAppend ==
  ASSUME NEW S, NEW s \in Seq(S), NEW e \in S, Ordered(s), \A f \in Elems(s) : Before(f, e)
  PROVE  Ordered(Append(s, e))
<1>1. Append(s, e) = s \o <<e>>
  BY AppendIsConcat
<1>2. <<e>> \in Seq(S) /\ Len(<<e>>) = 1 /\ <<e>>[1] = e /\ DOMAIN <<e>> = {1}
  OBVIOUS
<1>3. Ordered(<<e>>) /\ \A g \in Elems(<<e>>) : g = e
  BY <1>2 DEF Ordered, Elems
<1> QED
  BY <1>1, <1>2, <1>3, OrderedConcat

-----------------------------------------------------------------------------
(* The slots. *)

LEMMA Constants ==
  /\ Sizes \subseteq Nat \ {0} /\ TpMaxFrames \in Nat \ {0}
  /\ MaxMsgs \in Nat /\ MaxFaults \in Nat /\ MaxTime \in Nat
  /\ MaxN2kCANMsgs \in Nat /\ MaxN2kCANMsgs > 1 /\ MaxN2kMsgBufTime \in Nat
  /\ MaxN2kMsgBufTime > 0
  BY TransportAssumption, BufAssumption

LEMMA SizesAre == \A n \in Sizes : n \in Nat /\ n \in Int /\ n >= 1
  BY Constants

LEMMA LeastExists ==
  ASSUME NEW S \in SUBSET Nat, S # {}
  PROVE  \E i \in S : \A j \in S : i <= j
<1>1. PICK i \in S : \A j \in S : <<j, i>> \notin OpToRel(<, Nat)
  BY NatLessThanWellFounded, WFMin
<1>2. ASSUME NEW j \in S PROVE i <= j
  <2>1. ~(j < i)
    BY <1>1 DEF OpToRel
  <2> QED
    BY <2>1
<1> QED
  BY <1>2

LEMMA SlotsAre == Slots \subseteq Nat /\ NoSlot \notin Slots /\ 0 \in Slots /\ 1 \in Slots
  BY Constants DEF Slots, NoSlot

LEMMA LowestIsLeast ==
  ASSUME NEW S \in SUBSET Slots, S # {}
  PROVE  Lowest(S) \in S
<1>1. S \in SUBSET Nat
  BY SlotsAre
<1>2. \E i \in S : \A j \in S : i <= j
  BY <1>1, LeastExists
<1> QED
  BY <1>2 DEF Lowest

LEMMA OldestIsASlot ==
  ASSUME NEW b \in [Slots -> SlotTypes]
  PROVE  Oldest(b) \in Slots
<1>1. \A j \in Slots : b[j].time \in Nat /\ j \in Nat
  BY SlotsAre DEF SlotTypes
<1> DEFINE T == {b[j].time : j \in Slots}
<1>2. T \in SUBSET Nat /\ T # {}
  BY <1>1, SlotsAre
<1>3. PICK t \in T : \A u \in T : t <= u
  BY <1>2, LeastExists
<1> DEFINE D == {MaxN2kCANMsgs - 1 - j : j \in {k \in Slots : b[k].time = t}}
<1>4. PICK d \in D : \A e \in D : d <= e
  <2>1. D \in SUBSET Nat
    BY Constants DEF Slots
  <2>2. D # {}
    BY <1>3
  <2> QED
    BY <2>1, <2>2, LeastExists
<1>5. PICK i \in Slots : b[i].time = t /\ d = MaxN2kCANMsgs - 1 - i
  OBVIOUS
<1>6. ASSUME NEW j \in Slots
      PROVE  b[i].time < b[j].time \/ (b[i].time = b[j].time /\ j <= i)
  <2>1. t <= b[j].time
    BY <1>3
  <2>2. CASE b[j].time = t
    <3>1. d <= MaxN2kCANMsgs - 1 - j
      BY <1>4, <2>2
    <3> QED
      BY <1>1, <1>5, <2>2, <3>1, Constants
  <2>3. CASE b[j].time # t
    BY <1>1, <1>5, <2>1, <2>3
  <2> QED
    BY <2>2, <2>3
<1>7. \E k \in Slots : \A j \in Slots :
        b[k].time < b[j].time \/ (b[k].time = b[j].time /\ j <= k)
  BY <1>6
<1> QED
  BY <1>7 DEF Oldest

(* FindFreeCANMsgIndex() yields a slot that may be used or has timed out,  *)
(* and none only if there is none to be used.                              *)
LEMMA FoundSlot ==
  ASSUME NEW b \in [Slots -> SlotTypes], NEW l, NEW d, NEW tp, NEW i,
         i = FindFreeCANMsgIndex(b, l, d, tp, now)
  PROVE  /\ i # NoSlot => i \in Slots
         /\ i # NoSlot => \/ b[i].free
                          \/ b[i].line = l /\ b[i].dst = d /\ b[i].tp = tp
                          \/ b[i].time + MaxN2kMsgBufTime <= now
         /\ i = NoSlot => Usable(b, l, d, tp) = {}
<1>1. CASE Usable(b, l, d, tp) # {}
  <2>1. i = Lowest(Usable(b, l, d, tp))
    BY <1>1 DEF FindFreeCANMsgIndex
  <2>2. Usable(b, l, d, tp) \in SUBSET Slots
    BY DEF Usable
  <2>3. i \in Usable(b, l, d, tp)
    BY <1>1, <2>1, <2>2, LowestIsLeast
  <2> QED
    BY <2>3, SlotsAre DEF Usable
<1>2. CASE Usable(b, l, d, tp) = {}
  <2>1. i # NoSlot => i = Oldest(b) /\ b[i].time + MaxN2kMsgBufTime <= now
    BY <1>2 DEF FindFreeCANMsgIndex
  <2> QED
    BY <1>2, <2>1, OldestIsASlot
<1> QED
  BY <1>1, <1>2

LEMMA FirstIs ==
  ASSUME NEW S \in SUBSET Slots, NEW i, i = FirstOf(S)
  PROVE  IF S = {} THEN i = NoSlot ELSE i \in S /\ i \in Slots /\ i # NoSlot
  BY LowestIsLeast, SlotsAre DEF FirstOf

LEMMA CtsPackets ==
  ASSUME NEW n \in Nat
  PROVE  TPCtsPackets(n) \in 1 .. TpMaxFrames /\ TPCtsPackets(n) \in Nat \ {0}
  BY Constants DEF TPCtsPackets

LEMMA FrameIs ==
  ASSUME NEW f \in Frames
  PROVE  /\ f.msg \in Nat /\ f.dst \in {Me, Broadcast} /\ Me # Broadcast
         /\ f.kind \in {"BAM", "RTS", "DT"}
         /\ DataIs(f) => f.seq \in Nat /\ f \in DataFrames
         /\ ~DataIs(f) => f.pgn \in Pgns /\ f.total \in Sizes /\ f \in OpenFrames
  BY DEF Frames, OpenFrames, DataFrames, DataIs, Me, Broadcast

(* The packets a CTS asks for. *)
LEMMA DataFromIs ==
  ASSUME pending \in Transfers, pending.dst \in {Me, Broadcast},
         NEW a \in Nat, NEW b \in Nat, a <= b
  PROVE  /\ DataFrom(a, b) \in Seq(Frames) /\ Len(DataFrom(a, b)) = b - a
         /\ Ordered(DataFrom(a, b))
         /\ \A f \in Elems(DataFrom(a, b)) :
              DataIs(f) /\ f.dst = pending.dst /\ f.msg = pending.msg /\ f.seq \in a + 1 .. b
<1>1. \A i \in 1 .. b - a : a + i - 1 \in Nat /\ Data(a + i - 1) \in Frames
  BY DEF Data, Transfers, Frames, DataFrames
<1>2. DataFrom(a, b) \in [1 .. b - a -> Frames]
  BY <1>1 DEF DataFrom
<1>3. b - a \in Nat
  OBVIOUS
<1>4. DataFrom(a, b) \in Seq(Frames) /\ Len(DataFrom(a, b)) = b - a
  BY <1>2, <1>3
<1>5. ASSUME NEW i \in 1 .. b - a
      PROVE  /\ DataIs(DataFrom(a, b)[i]) /\ DataFrom(a, b)[i].dst = pending.dst
             /\ DataFrom(a, b)[i].msg = pending.msg /\ DataFrom(a, b)[i].seq = a + i
  <2>1. DataFrom(a, b)[i] = Data(a + i - 1)
    BY DEF DataFrom
  <2>2. (a + i - 1) + 1 = a + i
    OBVIOUS
  <2> QED
    BY <2>1, <2>2 DEF Data, DataIs
<1>6. DOMAIN DataFrom(a, b) = 1 .. b - a
  BY <1>2
<1>7. Ordered(DataFrom(a, b))
  <2> SUFFICES ASSUME NEW i \in 1 .. b - a, NEW j \in 1 .. b - a, i < j
               PROVE  Before(DataFrom(a, b)[i], DataFrom(a, b)[j])
    BY <1>6 DEF Ordered
  <2>1. a + i < a + j
    OBVIOUS
  <2> QED
    BY <1>5, <2>1 DEF Before
<1>8. ASSUME NEW f \in Elems(DataFrom(a, b))
      PROVE  DataIs(f) /\ f.dst = pending.dst /\ f.msg = pending.msg /\ f.seq \in a + 1 .. b
  <2>1. PICK i \in 1 .. b - a : f = DataFrom(a, b)[i]
    BY <1>6 DEF Elems
  <2>2. a + i \in a + 1 .. b
    OBVIOUS
  <2> QED
    BY <1>5, <2>1, <2>2
<1> QED
  BY <1>4, <1>7, <1>8

-----------------------------------------------------------------------------
(* The steps: what the sender does, ... *)

OpenFrame(p, n, d, m) ==
  [kind |-> IF d = Broadcast THEN "BAM" ELSE "RTS", dst |-> d, pgn |-> p, total |-> n, msg |-> m]

Begins(p, n, d) ==
  /\ p \in Pgns /\ n \in Sizes /\ d \in {Me, Broadcast}
  /\ pending.msg = 0 /\ Len(started) + 1 <= MaxMsgs
  /\ started' = Append(started, [pgn |-> p, total |-> n, dst |-> d]) /\ nextSeq' = 0
  /\ pending' = [msg |-> Len(started) + 1, pgn |-> p, total |-> n, dst |-> d]
  /\ timer' = TRUE /\ toRcv' = Append(toRcv, OpenFrame(p, n, d, Len(started) + 1))
  /\ UNCHANGED <<ended, misled, faults, toSnd, receiver, now, others>>

BeginFails(p, n, d) ==
  /\ p \in Pgns /\ n \in Sizes /\ d \in {Me, Broadcast}
  /\ pending.msg = 0 /\ Len(started) + 1 <= MaxMsgs
  /\ started' = Append(started, [pgn |-> p, total |-> n, dst |-> d]) /\ nextSeq' = 0
  /\ pending' = None /\ timer' = FALSE
  /\ ended' = [ended EXCEPT ![Len(started) + 1] = [how |-> "failed", by |-> 0]]
  /\ Disturbed /\ faults' = faults + 1
  /\ UNCHANGED <<misled, toRcv, toSnd, receiver, now, others>>

Ends(how, by) ==
  /\ pending' = None /\ timer' = FALSE
  /\ ended' = [ended EXCEPT ![pending.msg] = [how |-> how, by |-> by]]

Broadcasts ==
  /\ pending.msg # 0 /\ pending.dst = Broadcast /\ nextSeq' = nextSeq + 1
  /\ \/ toRcv' = Append(toRcv, Data(nextSeq)) /\ UNCHANGED faults
     \/ Disturbed /\ faults' = faults + 1 /\ UNCHANGED toRcv
  /\ IF nextSeq + 1 >= pending.total THEN Ends("sent", 0)
     ELSE UNCHANGED <<pending, timer, ended>>
  /\ UNCHANGED <<toSnd, receiver, now, started, misled, others>>

TimesOut ==
  /\ pending.msg # 0 /\ pending.dst # Broadcast /\ Ends("timeout", 0)
  /\ UNCHANGED <<nextSeq, toRcv, toSnd, receiver, now, started, misled, faults, others>>

AnswerTaken ==
  /\ toSnd # <<>> /\ toSnd' = Tail(toSnd)
  /\ UNCHANGED <<receiver, now, started, others>>

AnswerIgnored ==
  /\ AnswerTaken /\ (pending.dst = Broadcast \/ pending.msg = 0)
  /\ timer' \in BOOLEAN /\ (pending.msg # 0 => timer')
  /\ UNCHANGED <<pending, nextSeq, ended, misled, toRcv, faults>>

Fits(c) == c.kind = "CTS" /\ c.pgn = pending.pgn /\ c.next - 1 = nextSeq
Misleads(c) == misled' = IF c.msg = pending.msg THEN misled ELSE misled \cup {pending.msg}

Asks(c) ==
  /\ AnswerTaken /\ c = Head(toSnd) /\ pending.msg # 0 /\ pending.dst = Me /\ Fits(c)
  /\ nextSeq' \in Nat /\ nextSeq <= nextSeq' /\ nextSeq' <= nextSeq + c.packets
  /\ nextSeq' <= pending.total
  /\ nextSeq + c.packets <= pending.total => nextSeq' = nextSeq + c.packets
  /\ pending.total <= nextSeq + c.packets => nextSeq' = pending.total
  /\ toRcv' = toRcv \o DataFrom(nextSeq, nextSeq')
  /\ timer' = TRUE /\ Misleads(c) /\ UNCHANGED <<pending, ended, faults>>

AskFails(c) ==
  /\ AnswerTaken /\ c = Head(toSnd) /\ pending.msg # 0 /\ pending.dst = Me /\ Fits(c)
  /\ nextSeq' \in Nat /\ nextSeq < nextSeq' /\ nextSeq' <= nextSeq + c.packets
  /\ nextSeq' <= pending.total
  /\ toRcv' = toRcv \o DataFrom(nextSeq, nextSeq' - 1)
  /\ pending' = None /\ timer' = TRUE
  /\ ended' = [ended EXCEPT ![pending.msg] = [how |-> "failed", by |-> 0]]
  /\ Disturbed /\ faults' = faults + 1 /\ Misleads(c)

EndedBy(c, how) ==
  /\ AnswerTaken /\ c = Head(toSnd) /\ pending.msg # 0 /\ pending.dst = Me
  /\ IF how = "mismatch" THEN c.kind = "CTS" /\ ~Fits(c)
     ELSE c.kind \in {"ACK", "Abort"} /\ how = c.kind
  /\ Ends(how, c.msg)
  /\ UNCHANGED <<nextSeq, misled, toRcv, faults>>

SenderSteps ==
  \/ \E p, n, d : Begins(p, n, d) \/ BeginFails(p, n, d)
  \/ Broadcasts \/ TimesOut \/ AnswerIgnored
  \/ \E c : Asks(c) \/ AskFails(c) \/ EndedBy(c, "mismatch") \/ EndedBy(c, c.kind)

(* ... what the receiver does with the frame f, ... *)

Taken(f) ==
  /\ toRcv # <<>> /\ f = Head(toRcv) /\ toRcv' = Tail(toRcv)
  /\ UNCHANGED <<sender, now, faults, others>>
Replies(yes, a) == toSnd' = IF yes THEN Append(toSnd, a) ELSE toSnd

NewSlot(f) ==
  [free |-> FALSE, line |-> f.pgn, dst |-> f.dst, tp |-> TRUE, time |-> now,
   tag |-> IF f.kind = "RTS" THEN TPCtsPackets(f.total) ELSE 0,
   last |-> 0, total |-> f.total, got |-> <<>>]
Filled(s, f) ==
  [s EXCEPT !.last = f.seq, !.time = now, !.got = Append(@, [msg |-> f.msg, idx |-> f.seq])]
Stale(s) == s.time + MaxN2kMsgBufTime <= now

TurnsAway(f) ==
  /\ Taken(f) /\ ~DataIs(f)
  /\ Replies(f.kind = "RTS", Short("Abort", f.pgn, f.msg))
  /\ \/ buf' = buf /\ (f.total \in TooLong \/ Usable(buf, f.pgn, f.dst, TRUE) = {})
     \/ \E i \in Slots : Stale(buf[i]) /\ buf' = [buf EXCEPT ![i] = Free]
  /\ UNCHANGED <<delivered, overlap>>

Opens(f, i) ==
  /\ Taken(f) /\ ~DataIs(f) /\ i \in Slots /\ f.total \notin TooLong
  /\ \/ buf[i].free
     \/ buf[i].line = f.pgn /\ buf[i].dst = f.dst /\ buf[i].tp
     \/ Stale(buf[i])
  /\ buf' = [buf EXCEPT ![i] = NewSlot(f)]
  /\ Replies(f.kind = "RTS", Cts(f.pgn, f.total, 1, f.msg))
  /\ overlap' = (overlap \/ Cardinality(OpenFrom(buf', f.dst)) > 1)
  /\ UNCHANGED delivered

Ignores(f) ==
  /\ Taken(f) /\ DataIs(f) /\ OpenTo(f.dst) = {}
  /\ UNCHANGED <<toSnd, receiver>>

Breaks(f, i) ==
  /\ Taken(f) /\ DataIs(f) /\ i \in OpenTo(f.dst) /\ ~Expected(buf[i], f)
  /\ buf' = [buf EXCEPT ![i] = Free]
  /\ Replies(buf[i].tag > 0, Short("Abort", buf[i].line, f.msg))
  /\ UNCHANGED <<delivered, overlap>>

Adds(f, i) ==
  /\ Taken(f) /\ DataIs(f) /\ i \in OpenTo(f.dst) /\ Expected(buf[i], f)
  /\ LET s == Filled(buf[i], f) IN
     /\ ~Complete(s) /\ buf' = [buf EXCEPT ![i] = s]
     /\ Replies(MoreWanted(s), Cts(s.line, s.total, s.last + 1, f.msg))
  /\ UNCHANGED <<delivered, overlap>>

Completes(f, i) ==
  /\ Taken(f) /\ DataIs(f) /\ i \in OpenTo(f.dst) /\ Expected(buf[i], f)
  /\ LET s == Filled(buf[i], f) IN
     /\ Complete(s) /\ buf' = [buf EXCEPT ![i] = Free]
     /\ delivered' = delivered \cup
          {[pgn |-> s.line, dst |-> s.dst, total |-> s.total, got |-> s.got]}
     /\ Replies(s.tag > 0, Short("ACK", s.line, f.msg))
  /\ UNCHANGED overlap

ReceiverSteps ==
  \E f : \/ TurnsAway(f) \/ Ignores(f)
         \/ \E i : Opens(f, i) \/ Breaks(f, i) \/ Adds(f, i) \/ Completes(f, i)

(* ... and what happens beside. *)

FastPacket ==
  [Free EXCEPT !.free = FALSE, !.line = "fast packet", !.dst = Broadcast, !.time = now]

SlotTaken(i) ==
  /\ i \in Slots /\ Disturbed /\ others' = others + 1
  /\ buf' = [buf EXCEPT ![i] = FastPacket]
  /\ UNCHANGED <<sender, toRcv, toSnd, now, delivered, overlap, faults>>
SlotLeft(i) ==
  /\ i \in Slots /\ buf[i].line = "fast packet" /\ buf' = [buf EXCEPT ![i] = Free]
  /\ UNCHANGED <<sender, toRcv, toSnd, now, delivered, overlap, faults, others>>
FrameLost ==
  /\ Disturbed /\ faults' = faults + 1 /\ toRcv # <<>> /\ toRcv' = Tail(toRcv)
  /\ UNCHANGED <<sender, toSnd, receiver, now, others>>
AnswerLost ==
  /\ Disturbed /\ faults' = faults + 1 /\ toSnd # <<>> /\ toSnd' = Tail(toSnd)
  /\ UNCHANGED <<sender, toRcv, receiver, now, others>>

OtherSteps ==
  (\E i : SlotTaken(i) \/ SlotLeft(i)) \/ FrameLost \/ AnswerLost \/ Tick

LEMMA StartCases ==
  ASSUME Types, StartSendTPMessage
  PROVE  SenderSteps
<1>1. PICK p \in Pgns, n \in Sizes, d \in {Me, Broadcast} : Begins(p, n, d) \/ BeginFails(p, n, d)
  BY DEF StartSendTPMessage, Begins, BeginFails, OpenFrame
<1> QED
  BY <1>1 DEF SenderSteps

LEMMA PollCases ==
  ASSUME Types, SendPendingTPMessage
  PROVE  SenderSteps
  BY DEF SendPendingTPMessage, EndSendTPMessage, HasAllTPDTSent, Ends, Broadcasts, TimesOut,
         SenderSteps

LEMMA AnswerCases ==
  ASSUME Types, SenderKept, AnswersKept, HandleAnswer
  PROVE  SenderSteps
<1>1. AnswerTaken
  BY DEF HandleAnswer, AnswerTaken
<1>2. PICK c \in AnswerFrames : c = Head(toSnd) /\ c \in Snd
  BY <1>1, ElemsOfTail DEF Types, AnswerTaken, Snd
<1>3. CASE pending.dst = Broadcast
  <2>1. UNCHANGED <<pending, nextSeq, timer, ended, misled, toRcv, faults>>
    BY <1>3 DEF HandleAnswer
  <2>2. timer \in BOOLEAN /\ (pending.msg # 0 => timer)
    BY DEF Types, SenderKept
  <2> QED
    BY <1>1, <1>3, <2>1, <2>2 DEF AnswerIgnored, SenderSteps
<1>4. CASE pending.msg = 0
  <2>1. pending = None /\ pending.pgn = NoLine /\ pending.dst # Broadcast
    BY <1>4 DEF SenderKept, None, Broadcast
  <2>2. c.pgn # pending.pgn
    BY <1>2, <2>1, TransportAssumption DEF AnswerFrames
  <2>3. \E how, by : EndSendTPMessage(how, by) /\ UNCHANGED <<nextSeq, misled, toRcv, faults>>
    BY <1>2, <2>1, <2>2 DEF HandleAnswer
  <2> QED
    BY <1>1, <1>4, <2>1, <2>3 DEF EndSendTPMessage, AnswerIgnored, SenderSteps
<1>5. CASE pending.msg # 0 /\ pending.dst # Broadcast
  <2>1. pending.dst = Me
    BY <1>5 DEF SenderKept
  <2>2. CASE Fits(c)
    <3>1. SendPackets(c)
      BY <1>2, <1>5, <2>2 DEF HandleAnswer, Fits
    <3>2. c.packets \in Nat \ {0} /\ nextSeq \in Nat /\ pending.total \in Nat
          /\ nextSeq <= pending.total
      <4>1. c.packets \in 1 .. TpMaxFrames
        BY <1>2, <2>2 DEF AnswersKept, AnswerKept, Fits
      <4>2. pending.total \in Sizes /\ nextSeq <= pending.total
        BY <1>5 DEF SenderKept
      <4>3. nextSeq \in Nat
        BY DEF Types
      <4>4. pending.total \in Nat
        BY <4>2, SizesAre
      <4>5. c.packets \in Nat \ {0}
        BY <4>1, Constants
      <4> QED
        BY <4>2, <4>3, <4>4, <4>5
    <3>3. CASE /\ nextSeq' = IF nextSeq < LastAllowed(c) THEN LastAllowed(c) ELSE nextSeq
               /\ toRcv' = toRcv \o DataFrom(nextSeq, nextSeq')
               /\ timer' = TRUE /\ UNCHANGED <<pending, ended, faults>>
      <4>1. /\ nextSeq' \in Nat /\ nextSeq <= nextSeq' /\ nextSeq' <= nextSeq + c.packets
            /\ nextSeq' <= pending.total
            /\ nextSeq + c.packets <= pending.total => nextSeq' = nextSeq + c.packets
            /\ pending.total <= nextSeq + c.packets => nextSeq' = pending.total
        BY <3>2, <3>3 DEF LastAllowed
      <4>2. Asks(c)
        BY <1>1, <1>2, <1>5, <2>1, <2>2, <3>1, <3>3, <4>1 DEF Asks, SendPackets, Misleads
      <4> QED
        BY <4>2 DEF SenderSteps
    <3>4. ASSUME NEW n \in nextSeq + 1 .. LastAllowed(c), Disturbed, faults' = faults + 1,
                 nextSeq' = n, toRcv' = toRcv \o DataFrom(nextSeq, n - 1),
                 pending' = None, timer' = TRUE,
                 ended' = [ended EXCEPT ![pending.msg] = [how |-> "failed", by |-> 0]]
          PROVE  SenderSteps
      <4>1. /\ nextSeq' \in Nat /\ nextSeq < nextSeq' /\ nextSeq' <= nextSeq + c.packets
            /\ nextSeq' <= pending.total
        BY <3>2, <3>4 DEF LastAllowed
      <4>2. AskFails(c)
        BY <1>1, <1>2, <1>5, <2>1, <2>2, <3>1, <3>4, <4>1 DEF AskFails, SendPackets, Misleads
      <4> QED
        BY <4>2 DEF SenderSteps
    <3> QED
      BY <3>1, <3>3, <3>4 DEF SendPackets
  <2>3. CASE c.kind = "CTS" /\ ~Fits(c)
    <3>1. EndedBy(c, "mismatch")
      BY <1>1, <1>2, <1>5, <2>1, <2>3 DEF HandleAnswer, EndedBy, EndSendTPMessage, Ends, Fits
    <3> QED
      BY <3>1 DEF SenderSteps
  <2>4. CASE c.kind # "CTS"
    <3>1. EndedBy(c, c.kind)
      BY <1>1, <1>2, <1>5, <2>1, <2>4 DEF HandleAnswer, EndedBy, EndSendTPMessage, Ends
    <3> QED
      BY <3>1 DEF SenderSteps
  <2> QED
    BY <2>2, <2>3, <2>4 DEF Fits
<1> QED
  BY <1>3, <1>4, <1>5

LEMMA FilledIs ==
  ASSUME NEW s \in SlotTypes, NEW f
  PROVE  /\ Filled(s, f).free = s.free /\ Filled(s, f).line = s.line
         /\ Filled(s, f).dst = s.dst /\ Filled(s, f).tp = s.tp
         /\ Filled(s, f).time = now /\ Filled(s, f).tag = s.tag
         /\ Filled(s, f).last = f.seq /\ Filled(s, f).total = s.total
         /\ Filled(s, f).got = Append(s.got, [msg |-> f.msg, idx |-> f.seq])
  BY DEF Filled, SlotTypes

LEMMA Joined ==
  ASSUME NEW S, NEW s \in Seq(S), NEW a \in S
  PROVE  s \o (<<>> \o <<>>) = s /\ s \o (<<a>> \o <<>>) = Append(s, a)
         /\ s \o (<<>> \o <<a>>) = Append(s, a)
<1>1. <<>> \o <<>> = <<>> /\ <<a>> \o <<>> = <<a>> /\ <<>> \o <<a>> = <<a>>
  OBVIOUS
<1>2. s \o <<>> = s /\ s \o <<a>> = Append(s, a)
  BY AppendIsConcat, ConcatEmptySeq
<1> QED
  BY <1>1, <1>2

LEMMA ReceiveCases ==
  ASSUME Types, SlotsKept, TestHandleTPMessage
  PROVE  ReceiverSteps
<1>1. PICK f \in Frames : f = Head(toRcv)
  BY ElemsOfTail DEF Types, TestHandleTPMessage
<1>2. Taken(f)
  BY <1>1 DEF Taken, TestHandleTPMessage
<1>3. CASE ~DataIs(f)
  <2>1. HandleOpen(f)
    BY <1>1, <1>3 DEF TestHandleTPMessage, DataIs
  <2>2. PICK i : i = FindFreeCANMsgIndex(buf, f.pgn, f.dst, TRUE, now)
    OBVIOUS
  <2>3. /\ i # NoSlot => i \in Slots
        /\ i # NoSlot => \/ buf[i].free
                         \/ buf[i].line = f.pgn /\ buf[i].dst = f.dst /\ buf[i].tp = TRUE
                         \/ buf[i].time + MaxN2kMsgBufTime <= now
        /\ i = NoSlot => Usable(buf, f.pgn, f.dst, TRUE) = {}
    BY <2>2, FoundSlot DEF Types
  <2>4. CASE i = NoSlot
    <3>1. TurnsAway(f)
      BY <1>2, <1>3, <2>1, <2>2, <2>3, <2>4 DEF HandleOpen, TurnsAway, Replies, Answer, receiver
    <3> QED
      BY <3>1 DEF ReceiverSteps
  <2>5. CASE i # NoSlot /\ f.total \in TooLong
    <3>1. /\ buf' = IF Usable(buf, f.pgn, f.dst, TRUE) = {} THEN [buf EXCEPT ![i] = Free]
                    ELSE buf
          /\ Replies(f.kind = "RTS", Short("Abort", f.pgn, f.msg))
          /\ UNCHANGED <<delivered, overlap>>
      BY <2>1, <2>2, <2>5 DEF HandleOpen, Replies, Answer
    <3>2. Usable(buf, f.pgn, f.dst, TRUE) = {} => Stale(buf[i])
      BY <2>3, <2>5 DEF Usable, Stale
    <3>3. TurnsAway(f)
      BY <1>2, <1>3, <2>3, <2>5, <3>1, <3>2 DEF TurnsAway
    <3> QED
      BY <3>3 DEF ReceiverSteps
  <2>6. CASE i # NoSlot /\ f.total \notin TooLong
    <3>1. Opens(f, i)
      BY <1>2, <1>3, <2>1, <2>2, <2>3, <2>6
         DEF HandleOpen, Opens, NewSlot, Replies, Answer, Stale
    <3> QED
      BY <3>1 DEF ReceiverSteps
  <2> QED
    BY <2>4, <2>5, <2>6
<1>4. CASE DataIs(f)
  <2>1. HandleData(f)
    BY <1>1, <1>4 DEF TestHandleTPMessage, DataIs
  <2>2. PICK i : i = FirstOf(OpenTo(f.dst))
    OBVIOUS
  <2>3. OpenTo(f.dst) \in SUBSET Slots
    BY DEF OpenTo, OpenFrom
  <2>4. IF OpenTo(f.dst) = {} THEN i = NoSlot ELSE i \in OpenTo(f.dst) /\ i # NoSlot
    BY <2>2, <2>3, FirstIs
  <2>5. i = FirstOf(OpenFrom(buf, f.dst))
    BY <2>2 DEF OpenTo
  <2>6. CASE i = NoSlot
    <3>1. Ignores(f)
      BY <1>2, <1>4, <2>1, <2>4, <2>5, <2>6 DEF HandleData, Ignores
    <3> QED
      BY <3>1 DEF ReceiverSteps
  <2>7. CASE i # NoSlot /\ ~Expected(buf[i], f)
    <3>1. Breaks(f, i)
      BY <1>2, <1>4, <2>1, <2>4, <2>5, <2>7 DEF HandleData, Breaks, Replies, Answer
    <3> QED
      BY <3>1 DEF ReceiverSteps
  <2>8. CASE i # NoSlot /\ Expected(buf[i], f)
    <3>1. i \in OpenTo(f.dst) /\ i \in Slots /\ buf[i] \in SlotTypes
      BY <2>3, <2>4, <2>8 DEF Types
    <3>2. PICK s : s = Filled(buf[i], f)
      OBVIOUS
    <3>3. /\ IF Complete(s)
             THEN /\ buf' = [buf EXCEPT ![i] = Free]
                  /\ delivered' = delivered \cup
                       {[pgn |-> s.line, dst |-> s.dst, total |-> s.total, got |-> s.got]}
             ELSE buf' = [buf EXCEPT ![i] = s] /\ UNCHANGED delivered
          /\ toSnd' = toSnd \o Answers(s, f.msg)
          /\ UNCHANGED overlap
      BY <2>1, <2>5, <2>8, <3>2 DEF HandleData, Filled
    <3>4. /\ toSnd \in Seq(AnswerFrames) /\ f.msg \in Nat /\ s.line \in Pgns
          /\ s.total \in Nat /\ s.last + 1 \in Nat
      <4>1. buf[i].line \in Pgns /\ buf[i].total \in Sizes
        BY <3>1 DEF OpenTo, OpenFrom, SlotsKept, SlotKept
      <4>2. f.seq \in Nat /\ f.msg \in Nat
        BY <1>4, FrameIs
      <4>3. s.line = buf[i].line /\ s.total = buf[i].total /\ s.last = f.seq
        BY <3>1, <3>2, FilledIs
      <4>4. toSnd \in Seq(AnswerFrames)
        BY DEF Types
      <4>5. s.total \in Nat /\ s.line \in Pgns
        BY <4>1, <4>3, SizesAre
      <4>6. s.last + 1 \in Nat
        BY <4>2, <4>3
      <4> QED
        BY <4>2, <4>4, <4>5, <4>6
    <3>5. /\ Short("ACK", s.line, f.msg) \in AnswerFrames
          /\ Cts(s.line, s.total, s.last + 1, f.msg) \in AnswerFrames
      BY <3>4, CtsPackets DEF Short, Cts, AnswerFrames
    <3>6. CASE Complete(s)
      <4>1. Answers(s, f.msg) = (IF s.tag > 0 THEN <<Short("ACK", s.line, f.msg)>> ELSE <<>>)
                                  \o <<>>
        BY <3>6 DEF Answers, MoreWanted
      <4>2. Replies(s.tag > 0, Short("ACK", s.line, f.msg))
        BY <3>3, <3>4, <3>5, <4>1, Joined DEF Replies
      <4>3. Completes(f, i)
        BY <1>2, <1>4, <2>8, <3>1, <3>2, <3>3, <3>6, <4>2 DEF Completes
      <4> QED
        BY <4>3 DEF ReceiverSteps
    <3>7. CASE ~Complete(s)
      <4>1. Answers(s, f.msg) =
              <<>> \o (IF MoreWanted(s) THEN <<Cts(s.line, s.total, s.last + 1, f.msg)>>
                       ELSE <<>>)
        BY <3>7 DEF Answers
      <4>2. Replies(MoreWanted(s), Cts(s.line, s.total, s.last + 1, f.msg))
        BY <3>3, <3>4, <3>5, <4>1, Joined DEF Replies
      <4>3. Adds(f, i)
        BY <1>2, <1>4, <2>8, <3>1, <3>2, <3>3, <3>7, <4>2 DEF Adds
      <4> QED
        BY <4>3 DEF ReceiverSteps
    <3> QED
      BY <3>6, <3>7
  <2> QED
    BY <2>6, <2>7, <2>8
<1> QED
  BY <1>3, <1>4

LEMMA OtherCases ==
  ASSUME Types, OtherMessage \/ LoseFrame \/ Tick
  PROVE  OtherSteps
<1>1. CASE OtherMessage
  <2>1. CASE \E i \in Slots :
               buf[i].line = "fast packet" /\ buf' = [buf EXCEPT ![i] = Free]
               /\ UNCHANGED others
    BY <1>1, <2>1 DEF OtherMessage, SlotLeft, OtherSteps
  <2>2. CASE /\ Disturbed /\ others' = others + 1
             /\ LET i == FindFreeCANMsgIndex(buf, "fast packet", Broadcast, FALSE, now) IN
                /\ i # NoSlot
                /\ buf' = [buf EXCEPT ![i] =
                     [Free EXCEPT !.free = FALSE, !.line = "fast packet",
                                  !.dst = Broadcast, !.time = now]]
    <3>1. PICK i : i = FindFreeCANMsgIndex(buf, "fast packet", Broadcast, FALSE, now)
      OBVIOUS
    <3>2. i # NoSlot => i \in Slots
      BY <3>1, FoundSlot DEF Types
    <3>3. SlotTaken(i)
      BY <1>1, <2>2, <3>1, <3>2 DEF OtherMessage, SlotTaken, FastPacket
    <3> QED
      BY <3>3 DEF OtherSteps
  <2> QED
    BY <1>1, <2>1, <2>2 DEF OtherMessage
<1>2. CASE LoseFrame
  BY <1>2 DEF LoseFrame, FrameLost, AnswerLost, OtherSteps
<1>3. CASE Tick
  BY <1>3 DEF OtherSteps
<1> QED
  BY <1>1, <1>2, <1>3

(* Every step is one of these. *)
LEMMA StepCases ==
  ASSUME Types, SenderKept, AnswersKept, SlotsKept, [Next]_vars
  PROVE  SenderSteps \/ ReceiverSteps \/ OtherSteps \/ UNCHANGED vars
  BY StartCases, PollCases, AnswerCases, ReceiveCases, OtherCases DEF Next

-----------------------------------------------------------------------------
(* What a step does to the queues. *)

LEMMA Queued ==
  ASSUME Types
  PROVE  /\ \A f \in Rcv : f \in Frames
         /\ \A c \in Snd : c \in AnswerFrames
  BY DEF Types, Rcv, Snd, Elems

Drops(f) == toRcv # <<>> /\ f = Head(toRcv) /\ toRcv' = Tail(toRcv)

LEMMA Dropping ==
  ASSUME Types, Ordered(toRcv), NEW f, Drops(f)
  PROVE  /\ f \in Frames /\ f \in Rcv /\ toRcv' \in Seq(Frames) /\ Ordered(toRcv)'
         /\ Rcv' \subseteq Rcv /\ (\A g \in Rcv : g = f \/ g \in Rcv')
         /\ \A g \in Rcv' : Before(f, g)
<1>1. toRcv \in Seq(Frames) /\ toRcv # <<>> /\ f = Head(toRcv) /\ toRcv' = Tail(toRcv)
  BY DEF Types, Drops
<1>2. /\ toRcv' \in Seq(Frames) /\ f \in Frames
      /\ Elems(toRcv) = {f} \cup Elems(toRcv')
  BY <1>1, ElemsOfTail
<1>3. Ordered(toRcv') /\ \A g \in Elems(toRcv') : Before(f, g)
  BY <1>1, OrderedTail
<1> QED
  BY <1>2, <1>3 DEF Rcv

LEMMA AnswerDropping ==
  ASSUME Types, toSnd # <<>>, toSnd' = Tail(toSnd)
  PROVE  /\ toSnd' \in Seq(AnswerFrames) /\ Head(toSnd) \in AnswerFrames
         /\ Head(toSnd) \in Snd /\ Snd' \subseteq Snd
         /\ Len(toSnd') = Len(toSnd) - 1 /\ Len(toSnd) \in Nat
<1>1. toSnd \in Seq(AnswerFrames)
  BY DEF Types
<1> QED
  BY <1>1, ElemsOfTail DEF Snd

LEMMA Replying ==
  ASSUME Types, NEW yes, NEW a, yes => a \in AnswerFrames, Replies(yes, a)
  PROVE  /\ toSnd' \in Seq(AnswerFrames) /\ Len(toSnd) \in Nat
         /\ yes => Snd' = Snd \cup {a} /\ Len(toSnd') = Len(toSnd) + 1
         /\ ~yes => toSnd' = toSnd /\ Snd' = Snd
<1>1. toSnd \in Seq(AnswerFrames)
  BY DEF Types
<1>2. CASE yes
  BY <1>1, <1>2, ElemsOfAppend DEF Snd, Replies
<1>3. CASE ~yes
  BY <1>1, <1>3 DEF Snd, Replies
<1> QED
  BY <1>2, <1>3

LEMMA Shorts ==
  ASSUME NEW k \in {"ACK", "Abort"}, NEW p \in Pgns, NEW m \in Nat
  PROVE  /\ Short(k, p, m) \in AnswerFrames /\ Short(k, p, m).kind = k
         /\ Short(k, p, m).msg = m /\ Short(k, p, m).kind # "CTS"
  BY DEF Short, AnswerFrames

LEMMA CtsIs ==
  ASSUME NEW p \in Pgns, NEW n \in Nat, NEW q \in Nat, NEW m \in Nat
  PROVE  /\ Cts(p, n, q, m) \in AnswerFrames /\ Cts(p, n, q, m).kind = "CTS"
         /\ Cts(p, n, q, m).pgn = p /\ Cts(p, n, q, m).packets = TPCtsPackets(n)
         /\ Cts(p, n, q, m).next = q /\ Cts(p, n, q, m).msg = m
  BY CtsPackets DEF Cts, AnswerFrames

-----------------------------------------------------------------------------
(* What a step of the sender does. *)

(* Messages started stay as they are and are not taken up again.           *)
SenderGrows ==
  /\ Len(started) \in Nat /\ Len(started') \in Nat /\ Len(started) <= Len(started')
  /\ \A m \in 1 .. Len(started) :
       started'[m] = started[m] /\ (m = pending'.msg => m = pending.msg /\ nextSeq <= nextSeq')
  /\ misled \subseteq misled'
  /\ \A m \in 1 .. MaxMsgs :
       ended[m] # Going \/ m \notin {pending.msg, Len(started')} => ended'[m] = ended[m]

(* Frames it sends: packets of the message being sent, or the first frame  *)
(* of a new one.                                                           *)
NewData(f) ==
  /\ f \in Frames /\ DataIs(f) /\ f.msg = pending.msg /\ f.dst = pending.dst
  /\ pending.msg # 0 /\ nextSeq < f.seq /\ f.seq <= nextSeq' /\ f.seq <= pending.total
NewOpen(f) ==
  /\ f \in Frames /\ ~DataIs(f) /\ f.msg = Len(started) + 1 /\ f.msg = Len(started')
  /\ started'[f.msg] = [pgn |-> f.pgn, total |-> f.total, dst |-> f.dst]
  /\ f.kind = "BAM" <=> f.dst = Broadcast

LEMMA Appended ==
  ASSUME NEW S, NEW s \in Seq(S), NEW e \in S
  PROVE  /\ Append(s, e) \in Seq(S) /\ Len(Append(s, e)) = Len(s) + 1 /\ Len(s) \in Nat
         /\ \A m \in 1 .. Len(s) : Append(s, e)[m] = s[m]
         /\ Append(s, e)[Len(s) + 1] = e
  OBVIOUS

(* Types of what is being sent.                                            *)
LEMMA Sending ==
  ASSUME Types, SenderKept
  PROVE  /\ nextSeq \in Nat /\ pending.msg \in Nat /\ Len(started) \in Nat
         /\ Len(started) <= MaxMsgs /\ MaxMsgs \in Nat
         /\ pending.msg # 0 =>
              /\ pending.msg = Len(started) /\ pending.total \in Nat /\ nextSeq <= pending.total
              /\ pending.total >= 1 /\ pending.dst \in {Me, Broadcast}
              /\ pending.msg \in 1 .. MaxMsgs /\ pending.msg \in 1 .. Len(started)
              /\ ended[pending.msg] = Going
<1>1. nextSeq \in Nat /\ pending.msg \in Nat /\ Len(started) \in Nat /\ Len(started) <= MaxMsgs
  BY DEF Types, Transfers
<1>2. MaxMsgs \in Nat
  BY Constants
<1>3. ASSUME pending.msg # 0
      PROVE  /\ pending.msg = Len(started) /\ pending.total \in Sizes /\ nextSeq <= pending.total
             /\ pending.dst \in {Me, Broadcast} /\ ended[pending.msg] = Going
  BY <1>3 DEF SenderKept
<1>4. \A n \in Sizes : n \in Nat /\ n >= 1
  BY SizesAre
<1> QED
  BY <1>1, <1>2, <1>3, <1>4

LEMMA PacketsOrdered ==
  ASSUME Types, SenderKept, FramesKept, Ordered(toRcv), pending.msg # 0,
         nextSeq' \in Nat, NEW b \in Nat, nextSeq <= b, b <= nextSeq', b <= pending.total,
         toRcv' = toRcv \o DataFrom(nextSeq, b)
  PROVE  /\ toRcv' \in Seq(Frames) /\ Ordered(toRcv)' /\ Rcv \subseteq Rcv'
         /\ \A f \in Rcv' : f \in Rcv \/ (NewData(f) /\ f.seq \in nextSeq + 1 .. b)
<1>1. PICK t : t = DataFrom(nextSeq, b)
  OBVIOUS
<1>2. /\ nextSeq \in Nat /\ pending.dst \in {Me, Broadcast} /\ pending.msg = Len(started)
      /\ pending \in Transfers /\ toRcv \in Seq(Frames) /\ Len(started) \in Nat
  BY Sending DEF Types
<1>3. /\ t \in Seq(Frames) /\ Ordered(t)
      /\ \A f \in Elems(t) : DataIs(f) /\ f.dst = pending.dst /\ f.msg = pending.msg
                             /\ f.seq \in nextSeq + 1 .. b
  BY <1>1, <1>2, DataFromIs
<1>4. toRcv' = toRcv \o t
  BY <1>1
<1>5. toRcv' \in Seq(Frames) /\ Elems(toRcv') = Elems(toRcv) \cup Elems(t)
  BY <1>2, <1>3, <1>4, ElemsOfConcat
<1>6. \A f \in Elems(t) : f \in Frames
  BY <1>3 DEF Elems
<1>7. \A f \in Elems(toRcv), g \in Elems(t) : Before(f, g)
  <2> SUFFICES ASSUME NEW f \in Elems(toRcv), NEW g \in Elems(t)
               PROVE  Before(f, g)
    OBVIOUS
  <2>1. f \in Frames /\ FrameKept(f)
    BY Queued DEF FramesKept, Rcv
  <2>2. f.msg \in 1 .. Len(started) /\ (DataIs(f) /\ f.msg = pending.msg => f.seq <= nextSeq)
    BY <2>1 DEF FrameKept
  <2>3. DataIs(f) => f.seq \in Nat
    BY <2>1, FrameIs
  <2>4. DataIs(g) /\ g.msg = Len(started) /\ g.seq \in nextSeq + 1 .. b
    BY <1>2, <1>3
  <2>5. f.msg < g.msg \/ f.msg = g.msg
    BY <1>2, <2>2, <2>4
  <2>6. f.msg = g.msg /\ DataIs(f) => f.seq < g.seq
    BY <1>2, <2>2, <2>3, <2>4
  <2> QED
    BY <2>4, <2>5, <2>6 DEF Before
<1>8. Ordered(toRcv')
  BY <1>2, <1>3, <1>4, <1>7, OrderedConcat
<1>9. ASSUME NEW f \in Elems(t)
      PROVE  NewData(f)
  <2>1. nextSeq < f.seq /\ f.seq <= b /\ f.seq \in Nat
    BY <1>2, <1>3
  <2>2. f.seq <= nextSeq' /\ f.seq <= pending.total
    BY <1>2, <2>1, Sending
  <2> QED
    BY <1>3, <1>6, <2>1, <2>2 DEF NewData
<1> QED
  BY <1>3, <1>5, <1>8, <1>9 DEF Rcv

(* The types and what is known of the sender, step by step.                *)
SenderTypes ==
  /\ pending \in Transfers /\ nextSeq \in Nat /\ timer \in BOOLEAN
  /\ started \in Seq(Requests) /\ Len(started) <= MaxMsgs
  /\ ended \in [1 .. MaxMsgs -> [how : Endings, by : Nat]]
  /\ misled \subseteq 1 .. Len(started)
  /\ faults \in Nat /\ others \in Nat /\ faults + others <= MaxFaults

NewFrames ==
  /\ toRcv' \in Seq(Frames) /\ Ordered(toRcv)' /\ Rcv \subseteq Rcv'
  /\ \A f \in Rcv' : f \in Rcv \/ NewData(f) \/ NewOpen(f)

LEMMA NoneIs == None \in Transfers /\ None.msg = 0 /\ None.dst = 0 /\ None.pgn = NoLine
  BY DEF None, Transfers

LEMMA DisturbedIs ==
  ASSUME Types, Disturbed, faults' = faults + 1, UNCHANGED others
  PROVE  faults' \in Nat /\ others' \in Nat /\ faults' + others' <= MaxFaults
<1>1. /\ faults \in Nat /\ others \in Nat /\ faults + others < MaxFaults /\ MaxFaults \in Nat
      /\ faults' = faults + 1 /\ others' = others
  BY Constants DEF Types, Disturbed
<1> QED
  BY <1>1

LEMMA BeginsKeeps ==
  ASSUME Types, SenderKept, FramesKept, Ordered(toRcv), NEW p, NEW n, NEW d, Begins(p, n, d)
  PROVE  SenderTypes' /\ SenderKept' /\ SenderGrows /\ NewFrames
<1>1. PICK e : e = [pgn |-> p, total |-> n, dst |-> d]
  OBVIOUS
<1>2. /\ p \in Pgns /\ n \in Sizes /\ d \in {Me, Broadcast} /\ pending.msg = 0
      /\ Len(started) + 1 <= MaxMsgs /\ started' = Append(started, e) /\ nextSeq' = 0
      /\ pending' = [msg |-> Len(started) + 1, pgn |-> p, total |-> n, dst |-> d]
      /\ timer' = TRUE /\ toRcv' = Append(toRcv, OpenFrame(p, n, d, Len(started) + 1))
      /\ UNCHANGED <<ended, misled, faults, toSnd, receiver, now, others>>
  BY <1>1 DEF Begins
<1>3. e \in Requests /\ started \in Seq(Requests)
  BY <1>1, <1>2 DEF Requests, Types
<1>4. /\ started' \in Seq(Requests) /\ Len(started') = Len(started) + 1 /\ Len(started) \in Nat
      /\ \A m \in 1 .. Len(started) : started'[m] = started[m]
      /\ started'[Len(started) + 1] = e
  BY <1>2, <1>3, Appended
<1>5. PICK k \in Nat : k = Len(started)
  BY <1>4
<1>6. n \in Nat /\ n >= 1 /\ nextSeq \in Nat
  BY <1>2, SizesAre DEF Types
<1>7. SenderTypes'
  <2>1. pending' \in Transfers
    BY <1>2, <1>4 DEF Transfers
  <2>2. misled \subseteq 1 .. Len(started')
    BY <1>4 DEF Types
  <2>3. Len(started') <= MaxMsgs
    BY <1>2, <1>4
  <2> QED
    BY <1>2, <1>4, <2>1, <2>2, <2>3 DEF SenderTypes, Types
<1>8. /\ pending'.msg = k + 1 /\ pending'.pgn = p /\ pending'.total = n /\ pending'.dst = d
      /\ pending.msg = 0 /\ Len(started') = k + 1 /\ k + 1 \in 1 .. MaxMsgs
  BY <1>2, <1>4, <1>5, Constants
<1>9. SenderKept'
  <2>1. pending'.msg \in {0, Len(started')} /\ pending'.msg # 0
    BY <1>4, <1>5, <1>8
  <2>2. ended[k + 1] = Going
    <3>1. k + 1 > k
      OBVIOUS
    <3> QED
      BY <1>5, <1>8, <3>1 DEF SenderKept
  <2>3. /\ pending'.pgn \in Pgns /\ pending'.total \in Sizes /\ pending'.dst \in {Me, Broadcast}
        /\ started'[pending'.msg] =
             [pgn |-> pending'.pgn, total |-> pending'.total, dst |-> pending'.dst]
        /\ ended'[pending'.msg] = Going /\ timer'
        /\ nextSeq' <= pending'.total
    BY <1>1, <1>2, <1>4, <1>5, <1>6, <1>8, <2>2
  <2>4. nextSeq' < pending'.total
    BY <1>2, <1>6, <1>8
  <2>5. pending'.msg \notin misled'
    <3>1. misled' \subseteq 1 .. k
      BY <1>2, <1>5 DEF Types
    <3> QED
      BY <1>8, <3>1
  <2>6. ASSUME NEW m \in 1 .. MaxMsgs
        PROVE  /\ m > Len(started') => ended'[m] = Going
               /\ m <= Len(started') /\ m # pending'.msg => ended'[m].how # "going"
               /\ ended'[m].how = "sent" => m <= Len(started') /\ started'[m].dst = Broadcast
    <3>1. ended'[m] = ended[m] /\ m \in Nat
      BY <1>2
    <3>2. /\ m > k => ended[m] = Going
          /\ m <= k => ended[m].how # "going"
          /\ ended[m].how = "sent" => m <= k /\ started[m].dst = Broadcast
      <4>1. m # pending.msg
        BY <1>8
      <4> QED
        BY <1>5, <4>1 DEF SenderKept
    <3>3. m <= k => started'[m] = started[m]
      BY <1>4, <1>5
    <3>4. m > k + 1 => m > k
      BY <3>1
    <3>5. m <= k + 1 /\ m # k + 1 => m <= k
      BY <3>1
    <3>6. m <= k => m <= k + 1
      BY <3>1
    <3> QED
      BY <1>8, <3>1, <3>2, <3>3, <3>4, <3>5, <3>6
  <2> QED
    BY <2>1, <2>3, <2>4, <2>5, <2>6 DEF SenderKept
<1>10. SenderGrows
  <2>1. \A m \in 1 .. Len(started) : m # pending'.msg
    BY <1>5, <1>8
  <2> QED
    BY <1>2, <1>4, <2>1 DEF SenderGrows
<1>11. NewFrames
  <2>1. PICK g : g = OpenFrame(p, n, d, k + 1)
    OBVIOUS
  <2>2. /\ g \in Frames /\ ~DataIs(g) /\ g.msg = k + 1 /\ g.pgn = p /\ g.total = n /\ g.dst = d
        /\ g.kind = "BAM" <=> g.dst = Broadcast
    <3>1. g = [kind |-> IF d = Broadcast THEN "BAM" ELSE "RTS", dst |-> d, pgn |-> p,
               total |-> n, msg |-> k + 1] /\ k + 1 \in Nat
      BY <2>1, <1>5 DEF OpenFrame
    <3> QED
      BY <1>2, <3>1 DEF Frames, OpenFrames, DataIs
  <2>3. toRcv \in Seq(Frames) /\ toRcv' = Append(toRcv, g)
    BY <1>2, <1>5, <2>1 DEF Types
  <2>4. toRcv' \in Seq(Frames) /\ Elems(toRcv') = Elems(toRcv) \cup {g}
    BY <2>2, <2>3, ElemsOfAppend
  <2>5. \A f \in Elems(toRcv) : Before(f, g)
    <3> SUFFICES ASSUME NEW f \in Elems(toRcv)
                 PROVE  Before(f, g)
      OBVIOUS
    <3>1. f.msg \in 1 .. k
      BY <1>5 DEF FramesKept, FrameKept, Rcv
    <3>2. f.msg < g.msg
      BY <1>5, <2>2, <3>1
    <3> QED
      BY <3>2 DEF Before
  <2>6. Ordered(toRcv')
    BY <2>2, <2>3, <2>5, OrderedAppend
  <2>7. NewOpen(g)
    BY <1>1, <1>4, <1>5, <2>2 DEF NewOpen
  <2> QED
    BY <2>4, <2>6, <2>7 DEF NewFrames, Rcv
<1> QED
  BY <1>7, <1>9, <1>10, <1>11

CountsKept ==
  /\ nextSeq' \in Nat /\ timer' \in BOOLEAN
  /\ faults' \in Nat /\ others' \in Nat /\ faults' + others' <= MaxFaults
  /\ started' = started /\ misled \subseteq misled' /\ misled' \subseteq misled \cup {pending.msg}

(* The transfer ends. *)
LEMMA EndKeeps ==
  ASSUME Types, SenderKept, pending.msg # 0, NEW how \in Endings, how # "going", NEW by \in Nat,
         how = "sent" => pending.dst = Broadcast, CountsKept, pending' = None,
         ended' = [ended EXCEPT ![pending.msg] = [how |-> how, by |-> by]]
  PROVE  SenderTypes' /\ SenderKept' /\ SenderGrows
<1>1. PICK k \in Nat : k = Len(started)
  BY Sending
<1>2. /\ pending.msg = k /\ k >= 1 /\ k <= MaxMsgs /\ k \in 1 .. MaxMsgs /\ ended[k] = Going
      /\ started[k].dst = pending.dst /\ MaxMsgs \in Nat
  <2>1. /\ pending.msg = k /\ pending.msg \in 1 .. MaxMsgs /\ ended[pending.msg] = Going
        /\ MaxMsgs \in Nat
    BY <1>1, Sending
  <2>2. started[pending.msg].dst = pending.dst
    BY DEF SenderKept
  <2> QED
    BY <2>1, <2>2
<1>3. /\ ended' \in [1 .. MaxMsgs -> [how : Endings, by : Nat]]
      /\ ended'[k] = [how |-> how, by |-> by]
      /\ \A m \in 1 .. MaxMsgs : m # k => ended'[m] = ended[m]
  BY <1>2 DEF Types
<1>4. /\ started' = started /\ misled \subseteq misled' /\ misled' \subseteq 1 .. k
      /\ pending'.msg = 0
  <2>1. misled \subseteq 1 .. k
    BY <1>1 DEF Types
  <2>2. pending.msg \in 1 .. k
    BY <1>2
  <2> QED
    BY <2>1, <2>2, NoneIs DEF CountsKept
<1>5. SenderTypes'
  BY <1>1, <1>3, <1>4, NoneIs DEF SenderTypes, CountsKept, Types
<1>6. SenderKept'
  <2>1. ASSUME NEW m \in 1 .. MaxMsgs
        PROVE  /\ m > k => ended'[m] = Going
               /\ m <= k /\ m # 0 => ended'[m].how # "going"
               /\ ended'[m].how = "sent" => m <= k /\ started[m].dst = Broadcast
    <3>1. CASE m = k
      BY <1>2, <1>3, <3>1
    <3>2. CASE m # k
      <4>1. ended'[m] = ended[m] /\ m # pending.msg
        BY <1>2, <1>3, <3>2
      <4> QED
        BY <1>1, <4>1 DEF SenderKept
    <3> QED
      BY <3>1, <3>2
  <2>2. pending' = None /\ pending'.msg = 0
    BY <1>4
  <2>3. Len(started') = k /\ started' = started
    BY <1>1, <1>4
  <2> QED
    BY <2>1, <2>2, <2>3 DEF SenderKept
<1>7. SenderGrows
  <2>1. \A m \in 1 .. Len(started) : m # pending'.msg
    BY <1>4
  <2>2. \A m \in 1 .. MaxMsgs : ended[m] # Going \/ m # pending.msg => ended'[m] = ended[m]
    BY <1>2, <1>3
  <2> QED
    BY <1>1, <1>4, <2>1, <2>2 DEF SenderGrows
<1> QED
  BY <1>5, <1>6, <1>7

(* The transfer, or nothing, goes on. *)
LEMMA GoingOnKeeps ==
  ASSUME Types, SenderKept, CountsKept, UNCHANGED <<pending, ended>>, nextSeq <= nextSeq',
         pending.msg # 0 => /\ timer' /\ nextSeq' <= pending.total
                            /\ pending.dst = Broadcast =>
                                 nextSeq' < pending.total /\ misled' = misled,
         pending.msg = 0 => misled' = misled
  PROVE  SenderTypes' /\ SenderKept' /\ SenderGrows
<1>1. misled' \subseteq 1 .. Len(started)
  <2>1. misled \subseteq 1 .. Len(started)
    BY DEF Types
  <2>2. pending.msg # 0 => pending.msg \in 1 .. Len(started)
    BY Sending
  <2> QED
    BY <2>1, <2>2 DEF CountsKept
<1>2. SenderTypes'
  BY <1>1 DEF SenderTypes, CountsKept, Types
<1>3. SenderKept'
  BY DEF SenderKept, CountsKept
<1>4. SenderGrows
  BY Sending DEF SenderGrows, CountsKept
<1> QED
  BY <1>2, <1>3, <1>4

LEMMA BeginFailsKeeps ==
  ASSUME Types, SenderKept, NEW p, NEW n, NEW d, BeginFails(p, n, d)
  PROVE  SenderTypes' /\ SenderKept' /\ SenderGrows
<1>1. PICK e : e = [pgn |-> p, total |-> n, dst |-> d]
  OBVIOUS
<1>2. /\ p \in Pgns /\ n \in Sizes /\ d \in {Me, Broadcast} /\ pending.msg = 0
      /\ Len(started) + 1 <= MaxMsgs /\ started' = Append(started, e) /\ nextSeq' = 0
      /\ pending' = None /\ timer' = FALSE
      /\ ended' = [ended EXCEPT ![Len(started) + 1] = [how |-> "failed", by |-> 0]]
      /\ UNCHANGED <<misled, others>>
  BY <1>1 DEF BeginFails
<1>3. e \in Requests /\ started \in Seq(Requests)
  BY <1>1, <1>2 DEF Requests, Types
<1>4. /\ started' \in Seq(Requests) /\ Len(started') = Len(started) + 1 /\ Len(started) \in Nat
      /\ \A m \in 1 .. Len(started) : started'[m] = started[m]
  BY <1>2, <1>3, Appended
<1>5. PICK k \in Nat : k = Len(started)
  BY <1>4
<1>6. k + 1 \in 1 .. MaxMsgs /\ pending'.msg = 0 /\ pending' \in Transfers
  BY <1>2, <1>5, Constants, NoneIs
<1>7. /\ ended' \in [1 .. MaxMsgs -> [how : Endings, by : Nat]]
      /\ ended'[k + 1] = [how |-> "failed", by |-> 0]
      /\ \A m \in 1 .. MaxMsgs : m # k + 1 => ended'[m] = ended[m]
  <2>1. [how |-> "failed", by |-> 0] \in [how : Endings, by : Nat]
    BY DEF Endings
  <2> QED
    BY <1>2, <1>5, <1>6, <2>1 DEF Types
<1>8. faults' \in Nat /\ others' \in Nat /\ faults' + others' <= MaxFaults
  BY DisturbedIs DEF BeginFails
<1>9. SenderTypes'
  <2>1. misled \subseteq 1 .. Len(started')
    BY <1>4 DEF Types
  <2>2. Len(started') <= MaxMsgs
    BY <1>2, <1>4
  <2> QED
    BY <1>2, <1>4, <1>6, <1>7, <1>8, <2>1, <2>2 DEF SenderTypes
<1>10. SenderKept'
  <2>1. ASSUME NEW m \in 1 .. MaxMsgs
        PROVE  /\ m > k + 1 => ended'[m] = Going
               /\ m <= k + 1 => ended'[m].how # "going"
               /\ ended'[m].how = "sent" => m <= k + 1 /\ started'[m].dst = Broadcast
    <3>1. CASE m = k + 1
      BY <1>7, <3>1
    <3>2. CASE m # k + 1
      <4>1. ended'[m] = ended[m] /\ m # pending.msg /\ m \in Nat /\ m \in Int
        BY <1>2, <1>7, <3>2
      <4>2. /\ m > k => ended[m] = Going
            /\ m <= k => ended[m].how # "going"
            /\ ended[m].how = "sent" => m <= k /\ started[m].dst = Broadcast
        BY <1>5, <4>1 DEF SenderKept
      <4>3. m <= k => started'[m] = started[m]
        BY <1>4, <1>5
      <4>4. m > k + 1 => m > k
        BY <4>1
      <4>5. m <= k + 1 => m <= k
        BY <3>2, <4>1
      <4>6. m <= k => m <= k + 1
        BY <4>1
      <4> QED
        BY <4>1, <4>2, <4>3, <4>4, <4>5, <4>6
    <3> QED
      BY <3>1, <3>2
  <2>2. pending' = None /\ pending'.msg = 0 /\ Len(started') = k + 1
    BY <1>2, <1>4, <1>5, <1>6
  <2> QED
    BY <2>1, <2>2 DEF SenderKept
<1>11. SenderGrows
  <2>1. \A m \in 1 .. Len(started) : m # pending'.msg
    BY <1>6
  <2>2. ASSUME NEW m \in 1 .. MaxMsgs, ended[m] # Going \/ m \notin {pending.msg, Len(started')}
        PROVE  ended'[m] = ended[m]
    <3>1. ended[k + 1] = Going
      <4>1. k + 1 > k
        OBVIOUS
      <4> QED
        BY <1>5, <1>6, <4>1 DEF SenderKept
    <3>2. m # k + 1
      BY <1>4, <1>5, <2>2, <3>1
    <3> QED
      BY <1>7, <3>2
  <2> QED
    BY <1>2, <1>4, <2>1, <2>2 DEF SenderGrows
<1> QED
  BY <1>9, <1>10, <1>11

LEMMA NothingNew ==
  ASSUME Types, Ordered(toRcv), UNCHANGED toRcv
  PROVE  NewFrames
  BY DEF NewFrames, Rcv, Types

LEMMA BroadcastsKeeps ==
  ASSUME Types, SenderKept, FramesKept, Ordered(toRcv), Broadcasts
  PROVE  SenderTypes' /\ SenderKept' /\ SenderGrows /\ NewFrames
<1>1. /\ pending.msg # 0 /\ pending.dst = Broadcast /\ nextSeq' = nextSeq + 1
      /\ UNCHANGED <<toSnd, receiver, now, started, misled, others>>
  BY DEF Broadcasts
<1>2. /\ nextSeq \in Nat /\ pending.total \in Nat /\ nextSeq < pending.total
      /\ pending.msg = Len(started) /\ timer
  BY <1>1, Sending DEF SenderKept
<1>3. /\ faults' \in Nat /\ others' \in Nat /\ faults' + others' <= MaxFaults
  <2>1. CASE UNCHANGED faults
    BY <1>1, <2>1 DEF Types
  <2>2. CASE Disturbed /\ faults' = faults + 1
    BY <1>1, <2>2, DisturbedIs
  <2> QED
    BY <2>1, <2>2 DEF Broadcasts
<1>4. SenderTypes' /\ SenderKept' /\ SenderGrows
  <2>1. CASE nextSeq + 1 >= pending.total
    <3>1. Ends("sent", 0)
      <4>1. IF nextSeq + 1 >= pending.total THEN Ends("sent", 0)
            ELSE UNCHANGED <<pending, timer, ended>>
        BY DEF Broadcasts
      <4> QED
        BY <2>1, <4>1
    <3>2. CountsKept
      <4>1. nextSeq' \in Nat
        BY <1>1, <1>2
      <4> QED
        BY <1>1, <1>3, <3>1, <4>1 DEF CountsKept, Ends
    <3>3. "sent" \in Endings /\ 0 \in Nat /\ "sent" # "going"
      BY DEF Endings
    <3> QED
      BY <1>1, <3>1, <3>2, <3>3, EndKeeps DEF Ends
  <2>2. CASE ~(nextSeq + 1 >= pending.total)
    <3>1. UNCHANGED <<pending, timer, ended>>
      BY <2>2 DEF Broadcasts
    <3>2. CountsKept
      BY <1>1, <1>2, <1>3, <3>1 DEF CountsKept, Types
    <3>3. nextSeq <= nextSeq' /\ nextSeq' < pending.total /\ nextSeq' <= pending.total
      BY <1>1, <1>2, <2>2
    <3> QED
      BY <1>1, <1>2, <3>1, <3>2, <3>3, GoingOnKeeps
  <2> QED
    BY <2>1, <2>2
<1>5. NewFrames
  <2>1. CASE toRcv' = toRcv
    BY <2>1, NothingNew
  <2>2. CASE toRcv' = Append(toRcv, Data(nextSeq))
    <3>1. PICK g : g = Data(nextSeq)
      OBVIOUS
    <3>2. /\ g \in Frames /\ DataIs(g) /\ g.msg = pending.msg /\ g.dst = pending.dst
          /\ g.seq = nextSeq + 1
      BY <1>1, <1>2, <3>1, Sending DEF Data, Frames, DataFrames, DataIs
    <3>3. toRcv \in Seq(Frames)
      BY DEF Types
    <3>4. toRcv' \in Seq(Frames) /\ Elems(toRcv') = Elems(toRcv) \cup {g}
      BY <2>2, <3>1, <3>2, <3>3, ElemsOfAppend
    <3>5. \A f \in Elems(toRcv) : Before(f, g)
      <4> SUFFICES ASSUME NEW f \in Elems(toRcv)
                   PROVE  Before(f, g)
        OBVIOUS
      <4>1. f \in Frames /\ FrameKept(f)
        BY Queued DEF FramesKept, Rcv
      <4>2. f.msg \in 1 .. Len(started) /\ (DataIs(f) /\ f.msg = pending.msg => f.seq <= nextSeq)
        BY <4>1 DEF FrameKept
      <4>3. DataIs(f) => f.seq \in Nat
        BY <4>1, FrameIs
      <4>4. f.msg < g.msg \/ f.msg = g.msg
        BY <1>2, <3>2, <4>2, Sending
      <4>5. f.msg = g.msg /\ DataIs(f) => f.seq < g.seq
        BY <1>2, <3>2, <4>2, <4>3
      <4> QED
        BY <3>2, <4>4, <4>5 DEF Before
    <3>6. Ordered(toRcv')
      BY <2>2, <3>1, <3>2, <3>3, <3>5, OrderedAppend
    <3>7. NewData(g)
      BY <1>1, <1>2, <3>2 DEF NewData
    <3> QED
      BY <3>4, <3>6, <3>7 DEF NewFrames, Rcv
  <2> QED
    BY <2>1, <2>2 DEF Broadcasts
<1> QED
  BY <1>4, <1>5

LEMMA TimesOutKeeps ==
  ASSUME Types, SenderKept, Ordered(toRcv), TimesOut
  PROVE  SenderTypes' /\ SenderKept' /\ SenderGrows /\ NewFrames
<1>1. /\ pending.msg # 0 /\ Ends("timeout", 0)
      /\ UNCHANGED <<nextSeq, toRcv, toSnd, receiver, now, started, misled, faults, others>>
  BY DEF TimesOut
<1>2. CountsKept
  BY <1>1 DEF CountsKept, Ends, Types
<1>3. "timeout" \in Endings /\ 0 \in Nat /\ "timeout" # "going" /\ "timeout" # "sent"
  BY DEF Endings
<1>4. SenderTypes' /\ SenderKept' /\ SenderGrows
  BY <1>1, <1>2, <1>3, EndKeeps DEF Ends
<1> QED
  BY <1>1, <1>4, NothingNew

LEMMA AnswerIgnoredKeeps ==
  ASSUME Types, SenderKept, Ordered(toRcv), AnswerIgnored
  PROVE  SenderTypes' /\ SenderKept' /\ SenderGrows /\ NewFrames
<1>1. /\ UNCHANGED <<pending, nextSeq, ended, misled, toRcv, faults, started, others>>
      /\ timer' \in BOOLEAN /\ (pending.msg # 0 => timer')
  BY DEF AnswerIgnored, AnswerTaken
<1>2. CountsKept
  BY <1>1 DEF CountsKept, Types
<1>3. pending.msg # 0 =>
        nextSeq <= pending.total /\ (pending.dst = Broadcast => nextSeq < pending.total)
  BY DEF SenderKept
<1>4. nextSeq <= nextSeq'
  BY <1>1, Sending
<1>5. SenderTypes' /\ SenderKept' /\ SenderGrows
  BY <1>1, <1>2, <1>3, <1>4, GoingOnKeeps
<1> QED
  BY <1>1, <1>5, NothingNew

LEMMA AsksKeeps ==
  ASSUME Types, SenderKept, FramesKept, Ordered(toRcv), NEW c, Asks(c)
  PROVE  SenderTypes' /\ SenderKept' /\ SenderGrows /\ NewFrames
<1>1. /\ pending.msg # 0 /\ pending.dst = Me
      /\ nextSeq' \in Nat /\ nextSeq <= nextSeq' /\ nextSeq' <= pending.total
      /\ toRcv' = toRcv \o DataFrom(nextSeq, nextSeq')
      /\ timer' = TRUE /\ Misleads(c) /\ UNCHANGED <<pending, ended, faults, started, others>>
  BY DEF Asks, AnswerTaken
<1>2. CountsKept
  BY <1>1 DEF CountsKept, Misleads, Types
<1>3. SenderTypes' /\ SenderKept' /\ SenderGrows
  <2>1. pending.dst # Broadcast
    BY <1>1 DEF Me, Broadcast
  <2> QED
    BY <1>1, <1>2, <2>1, GoingOnKeeps
<1>4. NewFrames
  <2>1. PICK b \in Nat : b = nextSeq'
    BY <1>1
  <2>2. /\ nextSeq <= b /\ b <= nextSeq' /\ b <= pending.total
        /\ toRcv' = toRcv \o DataFrom(nextSeq, b)
    BY <1>1, <2>1
  <2>3. /\ toRcv' \in Seq(Frames) /\ Ordered(toRcv)' /\ Rcv \subseteq Rcv'
        /\ \A f \in Rcv' : f \in Rcv \/ (NewData(f) /\ f.seq \in nextSeq + 1 .. b)
    BY <1>1, <2>2, PacketsOrdered
  <2> QED
    BY <2>3 DEF NewFrames
<1> QED
  BY <1>3, <1>4

LEMMA AskFailsKeeps ==
  ASSUME Types, SenderKept, FramesKept, Ordered(toRcv), NEW c, AskFails(c)
  PROVE  SenderTypes' /\ SenderKept' /\ SenderGrows /\ NewFrames
<1>1. /\ pending.msg # 0
      /\ nextSeq' \in Nat /\ nextSeq < nextSeq' /\ nextSeq' <= pending.total
      /\ toRcv' = toRcv \o DataFrom(nextSeq, nextSeq' - 1)
      /\ pending' = None /\ timer' = TRUE
      /\ ended' = [ended EXCEPT ![pending.msg] = [how |-> "failed", by |-> 0]]
      /\ Disturbed /\ faults' = faults + 1 /\ Misleads(c) /\ UNCHANGED <<started, others>>
  BY DEF AskFails, AnswerTaken
<1>2. faults' \in Nat /\ others' \in Nat /\ faults' + others' <= MaxFaults
  BY <1>1, DisturbedIs
<1>3. CountsKept
  BY <1>1, <1>2 DEF CountsKept, Misleads
<1>4. "failed" \in Endings /\ 0 \in Nat /\ "failed" # "going" /\ "failed" # "sent"
  BY DEF Endings
<1>5. SenderTypes' /\ SenderKept' /\ SenderGrows
  BY <1>1, <1>3, <1>4, EndKeeps
<1>6. NewFrames
  <2>1. /\ nextSeq \in Nat /\ nextSeq' \in Nat /\ nextSeq < nextSeq'
        /\ pending.total \in Nat /\ nextSeq' <= pending.total
    BY <1>1, Sending
  <2>a. PICK y \in Nat : y = nextSeq'
    BY <2>1
  <2>b. nextSeq < y /\ y <= pending.total
    BY <2>1, <2>a
  <2>2. PICK b \in Nat : b = y - 1
    BY <2>1, <2>b
  <2>c. nextSeq <= b /\ b <= y /\ b <= pending.total
    BY <2>1, <2>2, <2>b
  <2>3. /\ nextSeq <= b /\ b <= nextSeq' /\ b <= pending.total
        /\ toRcv' = toRcv \o DataFrom(nextSeq, b)
    BY <1>1, <2>2, <2>a, <2>c
  <2>4. /\ toRcv' \in Seq(Frames) /\ Ordered(toRcv)' /\ Rcv \subseteq Rcv'
        /\ \A f \in Rcv' : f \in Rcv \/ (NewData(f) /\ f.seq \in nextSeq + 1 .. b)
    BY <1>1, <2>3, PacketsOrdered
  <2> QED
    BY <2>4 DEF NewFrames
<1> QED
  BY <1>5, <1>6

LEMMA EndedByKeeps ==
  ASSUME Types, SenderKept, Ordered(toRcv), NEW c \in AnswerFrames, NEW how, EndedBy(c, how)
  PROVE  SenderTypes' /\ SenderKept' /\ SenderGrows /\ NewFrames
<1>1. /\ pending.msg # 0 /\ Ends(how, c.msg)
      /\ UNCHANGED <<nextSeq, toRcv, receiver, now, started, misled, faults, others>>
  BY DEF EndedBy, AnswerTaken
<1>2. CountsKept
  BY <1>1 DEF CountsKept, Ends, Types
<1>3. how \in Endings /\ how # "going" /\ how # "sent" /\ c.msg \in Nat
  <2>1. how \in {"mismatch", "ACK", "Abort"}
    BY DEF EndedBy
  <2> QED
    BY <2>1 DEF Endings, AnswerFrames
<1>4. SenderTypes' /\ SenderKept' /\ SenderGrows
  BY <1>1, <1>2, <1>3, EndKeeps DEF Ends
<1> QED
  BY <1>1, <1>4, NothingNew

(* All steps of the sender together. *)
LEMMA SenderEffect ==
  ASSUME Types, SenderKept, FramesKept, Ordered(toRcv), SenderSteps
  PROVE  /\ Types' /\ SenderKept' /\ SenderGrows /\ NewFrames
         /\ UNCHANGED <<receiver, now>> /\ Snd' \subseteq Snd
<1>1. /\ SenderTypes' /\ SenderKept' /\ SenderGrows /\ NewFrames
      /\ UNCHANGED <<receiver, now>> /\ toSnd' \in Seq(AnswerFrames) /\ Snd' \subseteq Snd
  <2>1. UNCHANGED toSnd => toSnd' \in Seq(AnswerFrames) /\ Snd' \subseteq Snd
    BY DEF Types, Snd
  <2>2. AnswerTaken => /\ toSnd' \in Seq(AnswerFrames) /\ Snd' \subseteq Snd
                       /\ Head(toSnd) \in AnswerFrames /\ UNCHANGED <<receiver, now>>
    BY AnswerDropping DEF AnswerTaken
  <2>3. ASSUME NEW p, NEW n, NEW d, Begins(p, n, d)
        PROVE  /\ SenderTypes' /\ SenderKept' /\ SenderGrows /\ NewFrames
               /\ UNCHANGED <<receiver, now, toSnd>>
    BY <2>3, BeginsKeeps DEF Begins
  <2>4. ASSUME NEW p, NEW n, NEW d, BeginFails(p, n, d)
        PROVE  /\ SenderTypes' /\ SenderKept' /\ SenderGrows /\ NewFrames
               /\ UNCHANGED <<receiver, now, toSnd>>
    BY <2>4, BeginFailsKeeps, NothingNew DEF BeginFails
  <2>5. CASE Broadcasts
    BY <2>1, <2>5, BroadcastsKeeps DEF Broadcasts
  <2>6. CASE TimesOut
    BY <2>1, <2>6, TimesOutKeeps DEF TimesOut
  <2>7. CASE AnswerIgnored
    <3>1. AnswerTaken
      BY <2>7 DEF AnswerIgnored
    <3> QED
      BY <2>2, <2>7, <3>1, AnswerIgnoredKeeps
  <2>8. ASSUME NEW c, Asks(c)
        PROVE  SenderTypes' /\ SenderKept' /\ SenderGrows /\ NewFrames /\ AnswerTaken
    BY <2>8, AsksKeeps DEF Asks
  <2>9. ASSUME NEW c, AskFails(c)
        PROVE  SenderTypes' /\ SenderKept' /\ SenderGrows /\ NewFrames /\ AnswerTaken
    BY <2>9, AskFailsKeeps DEF AskFails
  <2>10. ASSUME NEW c, NEW how, EndedBy(c, how)
         PROVE  SenderTypes' /\ SenderKept' /\ SenderGrows /\ NewFrames /\ AnswerTaken
    <3>1. AnswerTaken /\ c = Head(toSnd)
      BY <2>10 DEF EndedBy
    <3> QED
      BY <2>2, <2>10, <3>1, EndedByKeeps
  <2> QED
    BY <2>1, <2>2, <2>3, <2>4, <2>5, <2>6, <2>7, <2>8, <2>9, <2>10 DEF SenderSteps
<1>2. Types'
  BY <1>1 DEF Types, SenderTypes, NewFrames, receiver
<1> QED
  BY <1>1, <1>2

-----------------------------------------------------------------------------
(* What a step of the receiver, or one beside, does. *)

LEMMA SlotTyped ==
  ASSUME NEW l \in Pgns, NEW d \in {Me, Broadcast},
         NEW t \in Nat, NEW a \in Nat, NEW n \in Nat
  PROVE  [free |-> FALSE, line |-> l, dst |-> d, tp |-> TRUE, time |-> t, tag |-> a,
          last |-> 0, total |-> n, got |-> <<>>] \in SlotTypes
<1>1. <<>> \in Seq(Packets)
  OBVIOUS
<1> QED
  BY <1>1 DEF SlotTypes

LEMMA NewSlotIs ==
  ASSUME NEW f \in OpenFrames, now \in Nat
  PROVE  /\ NewSlot(f) \in SlotTypes /\ ~NewSlot(f).free /\ NewSlot(f).tp
         /\ NewSlot(f).line = f.pgn /\ NewSlot(f).dst = f.dst
         /\ NewSlot(f).last = 0 /\ NewSlot(f).total = f.total /\ NewSlot(f).got = <<>>
         /\ NewSlot(f).tag = IF f.kind = "RTS" THEN TPCtsPackets(f.total) ELSE 0
<1>1. f.total \in Nat /\ f.pgn \in Pgns /\ f.dst \in {Me, Broadcast}
  BY SizesAre DEF OpenFrames
<1>2. TPCtsPackets(f.total) \in Nat
  BY <1>1, CtsPackets
<1>3. PICK t \in Nat : t = IF f.kind = "RTS" THEN TPCtsPackets(f.total) ELSE 0
  BY <1>2
<1>4. NewSlot(f) = [free |-> FALSE, line |-> f.pgn, dst |-> f.dst, tp |-> TRUE, time |-> now,
                    tag |-> t, last |-> 0, total |-> f.total, got |-> <<>>]
  BY <1>3 DEF NewSlot
<1>5. <<>> \in Seq(Packets) /\ 0 \in Nat
  OBVIOUS
<1>6. NewSlot(f) \in SlotTypes
  <2>1. f.pgn \in Pgns /\ f.dst \in {Me, Broadcast}
    BY <1>1
  <2>2. f.total \in Nat /\ t \in Nat
    BY <1>1, <1>3
  <2> QED
    BY <2>1, <2>2, <1>4, SlotTyped
<1>7. /\ ~NewSlot(f).free /\ NewSlot(f).tp
      /\ NewSlot(f).line = f.pgn /\ NewSlot(f).dst = f.dst
      /\ NewSlot(f).last = 0 /\ NewSlot(f).total = f.total /\ NewSlot(f).got = <<>>
      /\ NewSlot(f).tag = t
  BY <1>4
<1> QED
  BY <1>3, <1>6, <1>7

LEMMA FilledTyped ==
  ASSUME NEW s \in SlotTypes, NEW f \in DataFrames, now \in Nat
  PROVE  Filled(s, f) \in SlotTypes
<1>1. f.seq \in Nat /\ f.msg \in Nat
  BY DEF DataFrames
<1>2. PICK g : g = Append(s.got, [msg |-> f.msg, idx |-> f.seq])
  OBVIOUS
<1>3. g \in Seq(Packets)
  <2>1. s.got \in Seq(Packets) /\ [msg |-> f.msg, idx |-> f.seq] \in Packets
    BY <1>1 DEF SlotTypes, Packets
  <2> QED
    BY <1>2, <2>1, Appended
<1>4. Filled(s, f) = [s EXCEPT !.last = f.seq, !.time = now, !.got = g]
  BY <1>2 DEF Filled
<1> QED
  BY <1>1, <1>3, <1>4 DEF SlotTypes

LEMMA FreeTyped ==
  ASSUME now \in Nat
  PROVE  /\ Free \in SlotTypes /\ Free.free /\ ~Free.tp /\ Free.line = NoLine
         /\ FastPacket \in SlotTypes /\ ~FastPacket.free /\ ~FastPacket.tp
         /\ FastPacket.line = "fast packet"
<1>0. PICK g : g = Free
  OBVIOUS
<1>1. /\ g = [free |-> TRUE, line |-> NoLine, dst |-> 0, tp |-> FALSE, time |-> 0,
              tag |-> 0, last |-> 0, total |-> 0, got |-> <<>>]
      /\ FastPacket = [g EXCEPT !.free = FALSE, !.line = "fast packet", !.dst = Broadcast,
                                !.time = now]
  BY <1>0 DEF Free, FastPacket
<1>2. <<>> \in Seq(Packets) /\ 0 \in Nat
  OBVIOUS
<1>3. Free \in SlotTypes
  BY <1>0, <1>1, <1>2 DEF SlotTypes
<1>4. FastPacket \in SlotTypes
  BY <1>1, <1>2 DEF SlotTypes
<1> QED
  BY <1>0, <1>1, <1>3, <1>4

LEMMA NowIs ==
  ASSUME Types
  PROVE  now \in Nat
  BY Constants DEF Types

Sent(yes, a) ==
  /\ toSnd' \in Seq(AnswerFrames) /\ Len(toSnd) \in Nat
  /\ yes => a \in AnswerFrames /\ Snd' = Snd \cup {a} /\ Len(toSnd') = Len(toSnd) + 1
  /\ ~yes => toSnd' = toSnd /\ Snd' = Snd
SlotSet(i, s) ==
  /\ i \in Slots /\ s \in SlotTypes /\ buf' \in [Slots -> SlotTypes] /\ buf'[i] = s
  /\ \A j \in Slots : j # i => buf'[j] = buf[j]
OpenNow(i, s, d) ==
  OpenTo(d)' = (OpenTo(d) \ {i}) \cup (IF ~s.free /\ s.tp /\ s.dst = d THEN {i} ELSE {})
Received(f) ==
  /\ f \in Frames /\ f \in Rcv /\ FrameKept(f)
  /\ toRcv' \in Seq(Frames) /\ Ordered(toRcv)'
  /\ Rcv' \subseteq Rcv /\ (\A g \in Rcv : g = f \/ g \in Rcv') /\ (\A g \in Rcv' : Before(f, g))
  /\ UNCHANGED <<sender, now, faults, others>>

LEMMA TakenIs ==
  ASSUME Types, FramesKept, Ordered(toRcv), NEW f, Taken(f)
  PROVE  Received(f)
<1>1. Drops(f) /\ UNCHANGED <<sender, now, faults, others>>
  BY DEF Taken, Drops
<1> QED
  BY <1>1, Dropping DEF Received, FramesKept

LEMMA SlotIsSet ==
  ASSUME Types, NEW i \in Slots, NEW s \in SlotTypes, buf' = [buf EXCEPT ![i] = s]
  PROVE  SlotSet(i, s) /\ \A d : OpenNow(i, s, d)
<1>1. buf \in [Slots -> SlotTypes]
  BY DEF Types
<1>2. SlotSet(i, s)
  BY <1>1 DEF SlotSet
<1>3. ASSUME NEW d
      PROVE  OpenNow(i, s, d)
  <2>1. PICK b \in [Slots -> SlotTypes] : b = buf
    BY <1>1
  <2>2. OpenFrom([b EXCEPT ![i] = s], d) =
          (OpenFrom(b, d) \ {i}) \cup (IF ~s.free /\ s.tp /\ s.dst = d THEN {i} ELSE {})
    BY DEF OpenFrom
  <2>3. OpenTo(d)' = OpenFrom([b EXCEPT ![i] = s], d) /\ OpenTo(d) = OpenFrom(b, d)
    BY <2>1 DEF OpenTo
  <2> QED
    BY <2>2, <2>3 DEF OpenNow
<1> QED
  BY <1>2, <1>3

LEMMA OpenSlot ==
  ASSUME Types, SlotsKept, NEW d, NEW i \in OpenTo(d)
  PROVE  /\ i \in Slots /\ buf[i] \in SlotTypes /\ ~buf[i].free /\ buf[i].tp
         /\ buf[i].dst = d /\ d \in {Me, Broadcast} /\ buf[i].line \in Pgns
         /\ buf[i].total \in Nat /\ buf[i].total \in Sizes
         /\ buf[i].tag = (IF d = Me THEN TPCtsPackets(buf[i].total) ELSE 0)
         /\ Len(buf[i].got) = buf[i].last /\ buf[i].last < buf[i].total /\ buf[i].last \in Nat
         /\ buf[i].got \in Seq(Packets) /\ GotKept(buf[i])
<1>1. i \in Slots /\ ~buf[i].free /\ buf[i].tp /\ buf[i].dst = d
  BY DEF OpenTo, OpenFrom
<1>2. SlotKept(buf[i]) /\ buf[i] \in SlotTypes
  BY <1>1 DEF SlotsKept, Types
<1>3. /\ buf[i].line \in Pgns /\ buf[i].dst \in {Me, Broadcast} /\ buf[i].total \in Sizes
      /\ buf[i].tag = (IF buf[i].dst = Me THEN TPCtsPackets(buf[i].total) ELSE 0)
      /\ Len(buf[i].got) = buf[i].last /\ buf[i].last < buf[i].total
      /\ GotKept(buf[i])
  BY <1>1, <1>2 DEF SlotKept
<1>4. buf[i].last \in Nat /\ buf[i].got \in Seq(Packets)
  BY <1>2 DEF SlotTypes
<1>5. buf[i].total \in Nat
  BY <1>3, SizesAre
<1> QED
  BY <1>1, <1>2, <1>3, <1>4, <1>5

LEMMA TurnsAwayIs ==
  ASSUME Types, FramesKept, Ordered(toRcv), NEW f, TurnsAway(f)
  PROVE  /\ Received(f) /\ f \in OpenFrames /\ ~DataIs(f)
         /\ Sent(f.kind = "RTS", Short("Abort", f.pgn, f.msg))
         /\ \/ buf' = buf
            \/ \E i \in Slots :
                 Stale(buf[i]) /\ SlotSet(i, Free) /\ \A d : OpenNow(i, Free, d)
         /\ UNCHANGED <<delivered, overlap>>
<1>1. Received(f) /\ ~DataIs(f) /\ Replies(f.kind = "RTS", Short("Abort", f.pgn, f.msg))
      /\ UNCHANGED <<delivered, overlap>>
  BY TakenIs DEF TurnsAway
<1>2. f \in OpenFrames /\ f.pgn \in Pgns /\ f.msg \in Nat
  BY <1>1, FrameIs DEF Received
<1>3. Sent(f.kind = "RTS", Short("Abort", f.pgn, f.msg))
  BY <1>1, <1>2, Shorts, Replying DEF Sent
<1>4. buf' = buf \/ \E i \in Slots : Stale(buf[i]) /\ SlotSet(i, Free) /\ \A d : OpenNow(i, Free, d)
  <2>1. buf' = buf \/ \E i \in Slots : Stale(buf[i]) /\ buf' = [buf EXCEPT ![i] = Free]
    BY DEF TurnsAway
  <2> QED
    BY <2>1, SlotIsSet, FreeTyped, NowIs
<1> QED
  BY <1>1, <1>2, <1>3, <1>4

LEMMA OpensIs ==
  ASSUME Types, FramesKept, Ordered(toRcv), NEW f, NEW i, Opens(f, i)
  PROVE  /\ Received(f) /\ f \in OpenFrames /\ ~DataIs(f) /\ f.total \notin TooLong
         /\ SlotSet(i, NewSlot(f)) /\ \A d : OpenNow(i, NewSlot(f), d)
         /\ Sent(f.kind = "RTS", Cts(f.pgn, f.total, 1, f.msg))
         /\ overlap' = (overlap \/ Cardinality(OpenFrom(buf', f.dst)) > 1)
         /\ UNCHANGED delivered
         /\ \/ buf[i].free \/ Stale(buf[i])
            \/ buf[i].line = f.pgn /\ buf[i].dst = f.dst /\ buf[i].tp
<1>1. /\ Received(f) /\ ~DataIs(f) /\ Replies(f.kind = "RTS", Cts(f.pgn, f.total, 1, f.msg))
      /\ i \in Slots /\ buf' = [buf EXCEPT ![i] = NewSlot(f)] /\ f.total \notin TooLong
  BY TakenIs DEF Opens
<1>2. f \in OpenFrames /\ f.pgn \in Pgns /\ f.msg \in Nat /\ f.total \in Nat
  BY <1>1, FrameIs, SizesAre DEF Received
<1>3. Sent(f.kind = "RTS", Cts(f.pgn, f.total, 1, f.msg))
  <2>1. Cts(f.pgn, f.total, 1, f.msg) \in AnswerFrames
    BY <1>2, CtsIs
  <2> QED
    BY <1>1, <2>1, Replying DEF Sent
<1>4. SlotSet(i, NewSlot(f)) /\ \A d : OpenNow(i, NewSlot(f), d)
  <2>1. NewSlot(f) \in SlotTypes
    BY <1>2, NewSlotIs, NowIs
  <2> QED
    BY <1>1, <2>1, SlotIsSet
<1> QED
  BY <1>1, <1>2, <1>3, <1>4 DEF Opens

LEMMA BreaksIs ==
  ASSUME Types, FramesKept, Ordered(toRcv), SlotsKept, NEW f, NEW i, Breaks(f, i)
  PROVE  /\ Received(f) /\ f \in DataFrames /\ DataIs(f) /\ i \in OpenTo(f.dst)
         /\ f.seq # buf[i].last + 1
         /\ SlotSet(i, Free) /\ \A d : OpenNow(i, Free, d)
         /\ Sent(buf[i].tag > 0, Short("Abort", buf[i].line, f.msg))
         /\ UNCHANGED <<delivered, overlap>>
<1>1. /\ Received(f) /\ DataIs(f) /\ i \in OpenTo(f.dst) /\ f.seq # buf[i].last + 1
      /\ Replies(buf[i].tag > 0, Short("Abort", buf[i].line, f.msg))
      /\ buf' = [buf EXCEPT ![i] = Free] /\ UNCHANGED <<delivered, overlap>>
  BY TakenIs DEF Breaks, Expected
<1>2. f \in DataFrames /\ f.msg \in Nat
  BY <1>1, FrameIs DEF Received
<1>3. i \in Slots /\ buf[i].line \in Pgns
  BY <1>1, OpenSlot
<1>4. SlotSet(i, Free) /\ \A d : OpenNow(i, Free, d)
  BY <1>1, <1>3, SlotIsSet, FreeTyped, NowIs
<1>5. Sent(buf[i].tag > 0, Short("Abort", buf[i].line, f.msg))
  <2>1. Short("Abort", buf[i].line, f.msg) \in AnswerFrames
    BY <1>2, <1>3, Shorts
  <2>2. PICK y \in BOOLEAN : y <=> buf[i].tag > 0
    OBVIOUS
  <2>3. Replies(y, Short("Abort", buf[i].line, f.msg))
    BY <1>1, <2>2 DEF Replies
  <2>4. Sent(y, Short("Abort", buf[i].line, f.msg))
    BY <2>1, <2>3, Replying DEF Sent
  <2> QED
    BY <2>2, <2>4 DEF Sent
<1> QED
  BY <1>1, <1>2, <1>4, <1>5

(* A packet that fits: what the slot holds then. *)
Grown(s, f, i) ==
  /\ s \in SlotTypes /\ s.free = buf[i].free /\ s.line = buf[i].line /\ s.dst = buf[i].dst
  /\ s.tp = buf[i].tp /\ s.tag = buf[i].tag /\ s.total = buf[i].total
  /\ s.last = f.seq /\ s.last = buf[i].last + 1 /\ Len(s.got) = s.last
  /\ \A k \in 1 .. buf[i].last : s.got[k] = buf[i].got[k]
  /\ s.got[s.last] = [msg |-> f.msg, idx |-> f.seq]
  /\ Complete(s) <=> s.last = s.total

LEMMA GrownIs ==
  ASSUME Types, FramesKept, SlotsKept, NEW f \in DataFrames, NEW i \in OpenTo(f.dst),
         Expected(buf[i], f), NEW s, s = Filled(buf[i], f)
  PROVE  Grown(s, f, i) /\ s.last <= s.total
<1>1. PICK l \in Nat, t \in Nat, g \in Seq(Packets) :
        l = buf[i].last /\ t = buf[i].total /\ g = buf[i].got
  BY OpenSlot
<1>2. i \in Slots /\ buf[i] \in SlotTypes /\ Len(g) = l /\ l < t
  BY <1>1, OpenSlot
<1>3. f.seq = l + 1 /\ f.msg \in Nat
  BY <1>1 DEF Expected, DataFrames
<1>4. /\ s.free = buf[i].free /\ s.line = buf[i].line
      /\ s.dst = buf[i].dst /\ s.tp = buf[i].tp /\ s.tag = buf[i].tag
      /\ s.last = f.seq /\ s.total = t
      /\ s.got = Append(g, [msg |-> f.msg, idx |-> f.seq])
  BY <1>1, <1>2, FilledIs
<1>5. s \in SlotTypes
  BY <1>2, FilledTyped, NowIs
<1>6. PICK e : e = [msg |-> f.msg, idx |-> f.seq]
  OBVIOUS
<1>7. e \in Packets /\ s.got = Append(g, e)
  BY <1>3, <1>4, <1>6 DEF Packets
<1>8. /\ Len(s.got) = l + 1 /\ s.got[l + 1] = e
      /\ \A k \in 1 .. l : s.got[k] = g[k]
  BY <1>2, <1>7, Appended
<1>9. Complete(s) <=> s.last = s.total
  BY <1>2, <1>3, <1>4, <1>8 DEF Complete
<1>10. s.last <= s.total
  BY <1>2, <1>3, <1>4
<1> QED
  BY <1>1, <1>3, <1>4, <1>5, <1>6, <1>8, <1>9, <1>10 DEF Grown

LEMMA AddsIs ==
  ASSUME Types, FramesKept, Ordered(toRcv), SlotsKept, NEW f, NEW i, Adds(f, i)
  PROVE  /\ Received(f) /\ f \in DataFrames /\ DataIs(f) /\ i \in OpenTo(f.dst)
         /\ \E s : /\ Grown(s, f, i) /\ s.last < s.total /\ SlotSet(i, s)
                   /\ \A d : OpenNow(i, s, d)
                   /\ Sent(s.tag > 0 /\ s.last % s.tag = 0,
                           Cts(s.line, s.total, s.last + 1, f.msg))
         /\ UNCHANGED <<delivered, overlap>>
<1>1. PICK s : s = Filled(buf[i], f)
  OBVIOUS
<1>2. /\ Received(f) /\ DataIs(f) /\ i \in OpenTo(f.dst) /\ Expected(buf[i], f) /\ ~Complete(s)
      /\ buf' = [buf EXCEPT ![i] = s] /\ UNCHANGED <<delivered, overlap>>
      /\ Replies(MoreWanted(s), Cts(s.line, s.total, s.last + 1, f.msg))
  BY <1>1, TakenIs DEF Adds
<1>3. f \in DataFrames /\ f.msg \in Nat /\ f.seq \in Nat
  BY <1>2, FrameIs DEF Received
<1>4. Grown(s, f, i) /\ s.last <= s.total
  BY <1>1, <1>2, <1>3, GrownIs
<1>5. i \in Slots /\ s \in SlotTypes /\ s.line \in Pgns /\ s.total \in Nat /\ s.last \in Nat
  BY <1>2, <1>3, <1>4, OpenSlot DEF Grown
<1>6. SlotSet(i, s) /\ \A d : OpenNow(i, s, d)
  BY <1>2, <1>5, SlotIsSet
<1>7. MoreWanted(s) <=> s.tag > 0 /\ s.last % s.tag = 0
  BY <1>2 DEF MoreWanted
<1>8. Sent(s.tag > 0 /\ s.last % s.tag = 0, Cts(s.line, s.total, s.last + 1, f.msg))
  <2>1. s.last + 1 \in Nat
    BY <1>5
  <2>2. Cts(s.line, s.total, s.last + 1, f.msg) \in AnswerFrames
    BY <1>3, <1>5, <2>1, CtsIs
  <2>3. Sent(MoreWanted(s), Cts(s.line, s.total, s.last + 1, f.msg))
    BY <1>2, <2>2, Replying DEF Sent
  <2> QED
    BY <1>7, <2>3 DEF Sent
<1>9. s.last < s.total
  BY <1>2, <1>4, <1>5 DEF Grown
<1> QED
  BY <1>2, <1>3, <1>4, <1>6, <1>8, <1>9

LEMMA CompletesIs ==
  ASSUME Types, FramesKept, Ordered(toRcv), SlotsKept, NEW f, NEW i, Completes(f, i)
  PROVE  /\ Received(f) /\ f \in DataFrames /\ DataIs(f) /\ i \in OpenTo(f.dst)
         /\ \E s : /\ Grown(s, f, i) /\ s.last = s.total
                   /\ delivered' = delivered \cup
                        {[pgn |-> s.line, dst |-> s.dst, total |-> s.total, got |-> s.got]}
                   /\ Sent(s.tag > 0, Short("ACK", s.line, f.msg))
         /\ SlotSet(i, Free) /\ \A d : OpenNow(i, Free, d)
         /\ UNCHANGED overlap
<1>1. PICK s : s = Filled(buf[i], f)
  OBVIOUS
<1>2. /\ Received(f) /\ DataIs(f) /\ i \in OpenTo(f.dst) /\ Expected(buf[i], f) /\ Complete(s)
      /\ buf' = [buf EXCEPT ![i] = Free] /\ UNCHANGED overlap
      /\ delivered' = delivered \cup
           {[pgn |-> s.line, dst |-> s.dst, total |-> s.total, got |-> s.got]}
      /\ Replies(s.tag > 0, Short("ACK", s.line, f.msg))
  BY <1>1, TakenIs DEF Completes
<1>3. f \in DataFrames /\ f.msg \in Nat
  BY <1>2, FrameIs DEF Received
<1>4. Grown(s, f, i)
  BY <1>1, <1>2, <1>3, GrownIs
<1>5. i \in Slots /\ s.line \in Pgns
  BY <1>2, <1>4, OpenSlot DEF Grown
<1>6. SlotSet(i, Free) /\ \A d : OpenNow(i, Free, d)
  BY <1>2, <1>5, SlotIsSet, FreeTyped, NowIs
<1>7. Sent(s.tag > 0, Short("ACK", s.line, f.msg))
  <2>1. Short("ACK", s.line, f.msg) \in AnswerFrames
    BY <1>3, <1>5, Shorts
  <2>2. PICK y \in BOOLEAN : y <=> s.tag > 0
    OBVIOUS
  <2>3. Replies(y, Short("ACK", s.line, f.msg))
    BY <1>2, <2>2 DEF Replies
  <2>4. Sent(y, Short("ACK", s.line, f.msg))
    BY <2>1, <2>3, Replying DEF Sent
  <2> QED
    BY <2>2, <2>4 DEF Sent
<1>8. s.last = s.total
  BY <1>2, <1>4 DEF Grown
<1> QED
  BY <1>2, <1>3, <1>4, <1>6, <1>7, <1>8

LEMMA SlotTakenIs ==
  ASSUME Types, NEW i, SlotTaken(i)
  PROVE  /\ SlotSet(i, FastPacket) /\ \A d : OpenNow(i, FastPacket, d)
         /\ UNCHANGED <<sender, toRcv, toSnd, now, delivered, overlap, faults>>
         /\ others \in Nat /\ others' = others + 1 /\ faults' + others' <= MaxFaults
<1>1. SlotSet(i, FastPacket) /\ \A d : OpenNow(i, FastPacket, d)
  BY SlotIsSet, FreeTyped, NowIs DEF SlotTaken
<1>2. /\ faults \in Nat /\ others \in Nat /\ faults + others < MaxFaults /\ MaxFaults \in Nat
      /\ others' = others + 1 /\ faults' = faults
  BY Constants DEF SlotTaken, Disturbed, Types
<1>3. faults' + others' <= MaxFaults
  BY <1>2
<1> QED
  BY <1>1, <1>2, <1>3 DEF SlotTaken

LEMMA SlotLeftIs ==
  ASSUME Types, NEW i, SlotLeft(i)
  PROVE  /\ SlotSet(i, Free) /\ \A d : OpenNow(i, Free, d)
         /\ UNCHANGED <<sender, toRcv, toSnd, now, delivered, overlap, faults, others>>
  BY SlotIsSet, FreeTyped, NowIs DEF SlotLeft

LEMMA FrameLostIs ==
  ASSUME Types, Ordered(toRcv), FrameLost
  PROVE  /\ Rcv' \subseteq Rcv /\ toRcv' \in Seq(Frames) /\ Ordered(toRcv)'
         /\ UNCHANGED <<sender, toSnd, receiver, now, others>>
         /\ faults \in Nat /\ faults' = faults + 1 /\ faults' + others' <= MaxFaults
<1>1. PICK f : Drops(f)
  BY DEF FrameLost, Drops
<1>2. faults \in Nat /\ faults' = faults + 1 /\ faults' + others' <= MaxFaults
  BY DisturbedIs DEF FrameLost, Types
<1> QED
  BY <1>1, <1>2, Dropping DEF FrameLost

LEMMA AnswerLostIs ==
  ASSUME Types, AnswerLost
  PROVE  /\ Snd' \subseteq Snd /\ toSnd' \in Seq(AnswerFrames)
         /\ Len(toSnd) \in Nat /\ Len(toSnd') = Len(toSnd) - 1 /\ toSnd # <<>>
         /\ UNCHANGED <<sender, toRcv, receiver, now, others>>
         /\ faults \in Nat /\ faults' = faults + 1 /\ faults' + others' <= MaxFaults
<1>1. faults \in Nat /\ faults' = faults + 1 /\ faults' + others' <= MaxFaults
  BY DisturbedIs DEF AnswerLost, Types
<1> QED
  BY <1>1, AnswerDropping DEF AnswerLost

LEMMA RestTypes ==
  ASSUME Types, UNCHANGED sender, toRcv' \in Seq(Frames), toSnd' \in Seq(AnswerFrames),
         buf' \in [Slots -> SlotTypes], now' \in 0 .. MaxTime, overlap' \in BOOLEAN,
         faults' \in Nat, others' \in Nat, faults' + others' <= MaxFaults
  PROVE  Types'
  BY DEF Types, sender

LEMMA OverlapBoolean ==
  ASSUME NEW n, overlap \in BOOLEAN, overlap' = (overlap \/ n > 1)
  PROVE  overlap' \in BOOLEAN
  OBVIOUS

(* The receiver, and what happens beside, leave the sender alone and take  *)
(* frames away.                                                            *)
LEMMA RestEffect ==
  ASSUME Types, SenderKept, FramesKept, Ordered(toRcv), SlotsKept,
         ReceiverSteps \/ OtherSteps \/ UNCHANGED vars
  PROVE  /\ Types' /\ UNCHANGED sender /\ Rcv' \subseteq Rcv /\ Ordered(toRcv)'
         /\ SenderKept' /\ SenderGrows
<1>1. Types' /\ UNCHANGED sender /\ Rcv' \subseteq Rcv /\ Ordered(toRcv)'
  <2>1. UNCHANGED toRcv => toRcv' \in Seq(Frames) /\ Rcv' \subseteq Rcv /\ Ordered(toRcv)'
    BY DEF Types, Rcv
  <2>2. /\ UNCHANGED toSnd => toSnd' \in Seq(AnswerFrames)
        /\ UNCHANGED buf => buf' \in [Slots -> SlotTypes]
        /\ UNCHANGED now => now' \in 0 .. MaxTime
        /\ UNCHANGED overlap => overlap' \in BOOLEAN
        /\ UNCHANGED <<faults, others>> =>
             faults' \in Nat /\ others' \in Nat /\ faults' + others' <= MaxFaults
    BY DEF Types
  <2>3. ASSUME NEW f, Received(f)
        PROVE  /\ UNCHANGED <<sender, now, faults, others>> /\ Rcv' \subseteq Rcv
               /\ Ordered(toRcv)' /\ toRcv' \in Seq(Frames)
    BY <2>3 DEF Received
  <2>4. ASSUME NEW yes, NEW a, Sent(yes, a)
        PROVE  toSnd' \in Seq(AnswerFrames)
    BY <2>4 DEF Sent
  <2>5. ASSUME NEW i, NEW s, SlotSet(i, s)
        PROVE  buf' \in [Slots -> SlotTypes]
    BY <2>5 DEF SlotSet
  <2>6. ASSUME NEW f, TurnsAway(f)
        PROVE  Types' /\ UNCHANGED sender /\ Rcv' \subseteq Rcv /\ Ordered(toRcv)'
    <3>1. Received(f) /\ toSnd' \in Seq(AnswerFrames) /\ UNCHANGED <<delivered, overlap>>
      BY <2>4, <2>6, TurnsAwayIs
    <3>2. buf' \in [Slots -> SlotTypes]
      BY <2>2, <2>5, <2>6, TurnsAwayIs
    <3> QED
      BY <2>2, <2>3, <3>1, <3>2, RestTypes
  <2>7. ASSUME NEW f, Ignores(f)
        PROVE  Types' /\ UNCHANGED sender /\ Rcv' \subseteq Rcv /\ Ordered(toRcv)'
    BY <2>2, <2>3, <2>7, TakenIs, RestTypes DEF Ignores, receiver
  <2>8. ASSUME NEW f, NEW i, Opens(f, i)
        PROVE  Types' /\ UNCHANGED sender /\ Rcv' \subseteq Rcv /\ Ordered(toRcv)'
    <3>1. /\ Received(f) /\ toSnd' \in Seq(AnswerFrames) /\ buf' \in [Slots -> SlotTypes]
          /\ overlap' = (overlap \/ Cardinality(OpenFrom(buf', f.dst)) > 1)
      BY <2>4, <2>5, <2>8, OpensIs
    <3>2. overlap' \in BOOLEAN
      BY <3>1, OverlapBoolean DEF Types
    <3> QED
      BY <2>2, <2>3, <3>1, <3>2, RestTypes
  <2>9. ASSUME NEW f, NEW i, Breaks(f, i)
        PROVE  Types' /\ UNCHANGED sender /\ Rcv' \subseteq Rcv /\ Ordered(toRcv)'
    <3>1. /\ Received(f) /\ toSnd' \in Seq(AnswerFrames) /\ buf' \in [Slots -> SlotTypes]
          /\ UNCHANGED overlap
      BY <2>4, <2>5, <2>9, BreaksIs
    <3> QED
      BY <2>2, <2>3, <3>1, RestTypes
  <2>10. ASSUME NEW f, NEW i, Adds(f, i)
         PROVE  Types' /\ UNCHANGED sender /\ Rcv' \subseteq Rcv /\ Ordered(toRcv)'
    <3>1. /\ Received(f) /\ toSnd' \in Seq(AnswerFrames) /\ buf' \in [Slots -> SlotTypes]
          /\ UNCHANGED overlap
      BY <2>4, <2>5, <2>10, AddsIs
    <3> QED
      BY <2>2, <2>3, <3>1, RestTypes
  <2>11. ASSUME NEW f, NEW i, Completes(f, i)
         PROVE  Types' /\ UNCHANGED sender /\ Rcv' \subseteq Rcv /\ Ordered(toRcv)'
    <3>1. /\ Received(f) /\ toSnd' \in Seq(AnswerFrames) /\ buf' \in [Slots -> SlotTypes]
          /\ UNCHANGED overlap
      BY <2>4, <2>5, <2>11, CompletesIs
    <3> QED
      BY <2>2, <2>3, <3>1, RestTypes
  <2>12. ASSUME NEW i, SlotTaken(i)
         PROVE  Types' /\ UNCHANGED sender /\ Rcv' \subseteq Rcv /\ Ordered(toRcv)'
    <3>1. /\ buf' \in [Slots -> SlotTypes] /\ others' \in Nat /\ faults' \in Nat
          /\ faults' + others' <= MaxFaults
          /\ UNCHANGED <<sender, toRcv, toSnd, now, overlap>>
      BY <2>5, <2>12, SlotTakenIs DEF Types
    <3> QED
      BY <2>1, <2>2, <3>1, RestTypes
  <2>13. ASSUME NEW i, SlotLeft(i)
         PROVE  Types' /\ UNCHANGED sender /\ Rcv' \subseteq Rcv /\ Ordered(toRcv)'
    BY <2>1, <2>2, <2>5, <2>13, SlotLeftIs, RestTypes
  <2>14. CASE FrameLost
    <3>1. faults' \in Nat /\ others' \in Nat
      BY <2>14, FrameLostIs DEF Types
    <3> QED
      BY <2>2, <2>14, <3>1, FrameLostIs, RestTypes DEF receiver
  <2>15. CASE AnswerLost
    <3>1. faults' \in Nat /\ others' \in Nat
      BY <2>15, AnswerLostIs DEF Types
    <3> QED
      BY <2>1, <2>2, <2>15, <3>1, AnswerLostIs, RestTypes DEF receiver
  <2>16. CASE Tick
    <3>1. now' \in 0 .. MaxTime
      <4>1. now \in 0 .. MaxTime /\ MaxTime \in Nat /\ now < MaxTime /\ now' = now + 1
        BY <2>16, Constants DEF Tick, Types
      <4> QED
        BY <4>1
    <3> QED
      BY <2>1, <2>2, <2>16, <3>1, RestTypes DEF Tick, receiver
  <2>17. CASE UNCHANGED vars
    BY <2>1, <2>2, <2>17, RestTypes DEF vars, receiver
  <2> QED
    BY <2>6, <2>7, <2>8, <2>9, <2>10, <2>11, <2>12, <2>13, <2>14, <2>15, <2>16, <2>17
       DEF ReceiverSteps, OtherSteps
<1>2. SenderKept'
  BY <1>1 DEF SenderKept, sender
<1>3. SenderGrows
  <2>1. nextSeq <= nextSeq
    BY Sending
  <2> QED
    BY <1>1, <2>1, Sending DEF SenderGrows, sender
<1> QED
  BY <1>1, <1>2, <1>3

-----------------------------------------------------------------------------
(* What is on its way to the receiver. *)

LEMMA FrameStays ==
  ASSUME Types, SenderGrows, nextSeq \in Nat, nextSeq' \in Nat, NEW f \in Frames, FrameKept(f)
  PROVE  FrameKept(f)'
<1>1. f.msg \in 1 .. Len(started) /\ f.dst = started[f.msg].dst
  BY DEF FrameKept
<1>2. /\ f.msg \in 1 .. Len(started') /\ started'[f.msg] = started[f.msg]
      /\ f.msg = pending'.msg => f.msg = pending.msg /\ nextSeq <= nextSeq'
  BY <1>1 DEF SenderGrows
<1>3. DataIs(f) => f.seq \in Nat
  BY FrameIs
<1>4. DataIs(f) /\ f.msg = pending'.msg => f.seq <= nextSeq'
  BY <1>2, <1>3 DEF FrameKept
<1> QED
  BY <1>1, <1>2, <1>4 DEF FrameKept

LEMMA NewFrameKept ==
  ASSUME Types, SenderKept, SenderGrows, NEW f, NewData(f) \/ NewOpen(f)
  PROVE  FrameKept(f)'
<1>1. CASE NewData(f)
  <2>1. /\ f \in Frames /\ DataIs(f) /\ f.msg = pending.msg /\ f.dst = pending.dst
        /\ pending.msg # 0 /\ nextSeq < f.seq /\ f.seq <= nextSeq' /\ f.seq <= pending.total
    BY <1>1 DEF NewData
  <2>2. /\ pending.msg \in 1 .. Len(started) /\ pending.total \in Nat /\ nextSeq \in Nat
        /\ Len(started) \in Nat
    BY <2>1, Sending
  <2>3. started[pending.msg] = [pgn |-> pending.pgn, total |-> pending.total, dst |-> pending.dst]
    BY <2>1 DEF SenderKept
  <2>4. f.msg \in 1 .. Len(started') /\ started'[f.msg] = started[f.msg]
    BY <2>1, <2>2 DEF SenderGrows
  <2>5. f.seq \in Nat
    BY <2>1, FrameIs
  <2>6. f.seq \in 1 .. pending.total
    BY <2>1, <2>2, <2>5
  <2> QED
    BY <2>1, <2>3, <2>4, <2>6 DEF FrameKept
<1>2. CASE NewOpen(f)
  <2>1. f.msg \in 1 .. Len(started')
    BY <1>2, Sending DEF NewOpen
  <2> QED
    BY <1>2, <2>1 DEF NewOpen, FrameKept
<1> QED
  BY <1>1, <1>2

LEMMA FramesStep ==
  ASSUME Types, SenderKept, FramesKept, SenderGrows, Types',
         \A f \in Rcv' : f \in Rcv \/ NewData(f) \/ NewOpen(f)
  PROVE  FramesKept'
<1> SUFFICES ASSUME NEW f \in Rcv'
             PROVE  FrameKept(f)'
  BY DEF FramesKept
<1>1. CASE f \in Rcv
  <2>1. f \in Frames /\ FrameKept(f) /\ nextSeq \in Nat /\ nextSeq' \in Nat
    BY <1>1, Queued DEF FramesKept, Types
  <2> QED
    BY <2>1, FrameStays
<1>2. CASE NewData(f) \/ NewOpen(f)
  BY <1>2, NewFrameKept
<1> QED
  BY <1>1, <1>2

-----------------------------------------------------------------------------
(* The answers on their way. *)

LEMMA AnswerStays ==
  ASSUME Types, SenderKept, SenderGrows, Types', NEW c \in AnswerFrames, AnswerKept(c),
         \A f \in Rcv' : f \in Rcv \/ NewData(f) \/ NewOpen(f)
  PROVE  AnswerKept(c)'
<1>1. c.msg \in 1 .. Len(started) /\ started[c.msg].dst = Me
  BY DEF AnswerKept
<1>2. /\ c.msg \in 1 .. Len(started') /\ started'[c.msg].dst = Me
      /\ c.msg = pending'.msg => c.msg = pending.msg /\ nextSeq <= nextSeq'
  BY <1>1 DEF SenderGrows
<1>3. ASSUME c.kind = "CTS"
      PROVE  /\ c.packets \in 1 .. TpMaxFrames /\ c.next >= 1
             /\ c.msg = pending'.msg => c.next <= nextSeq' + 1
             /\ \A f \in Rcv' : DataIs(f) /\ f.msg = c.msg => f.seq >= c.next
  <2>1. /\ c.packets \in 1 .. TpMaxFrames /\ c.next >= 1
        /\ c.msg = pending.msg => c.next <= nextSeq + 1
        /\ \A f \in Rcv : DataIs(f) /\ f.msg = c.msg => f.seq >= c.next
    BY <1>3 DEF AnswerKept
  <2>2. c.next \in Nat /\ nextSeq \in Nat /\ nextSeq' \in Nat
    BY DEF AnswerFrames, Types
  <2>3. c.msg = pending'.msg => c.next <= nextSeq' + 1
    BY <1>2, <2>1, <2>2
  <2>4. ASSUME NEW f \in Rcv', DataIs(f), f.msg = c.msg
        PROVE  f.seq >= c.next
    <3>1. CASE f \in Rcv
      BY <2>1, <2>4, <3>1
    <3>2. CASE NewData(f)
      <4>1. f.seq \in Nat /\ nextSeq < f.seq /\ c.msg = pending.msg
        BY <2>4, <3>2, FrameIs DEF NewData
      <4> QED
        BY <2>1, <2>2, <4>1
    <3> QED
      BY <2>4, <3>1, <3>2 DEF NewOpen
  <2> QED
    BY <2>1, <2>3, <2>4
<1> QED
  BY <1>2, <1>3 DEF AnswerKept

LEMMA AnswersStay ==
  ASSUME Types, SenderKept, AnswersKept, SenderGrows, Types', Snd' \subseteq Snd,
         \A f \in Rcv' : f \in Rcv \/ NewData(f) \/ NewOpen(f)
  PROVE  AnswersKept'
<1> SUFFICES ASSUME NEW c \in Snd'
             PROVE  AnswerKept(c)'
  BY DEF AnswersKept
<1>1. c \in AnswerFrames /\ AnswerKept(c)
  BY Queued DEF AnswersKept
<1> QED
  BY <1>1, AnswerStays

(* An answer to the frame f that was just taken. *)
LEMMA NewAnswer ==
  ASSUME Types, SenderKept, FramesKept, AnswersKept, SenderGrows, Types',
         NEW f, Received(f), NEW yes, NEW a, Sent(yes, a),
         yes => a.msg = f.msg /\ f.dst = Me /\
                (a.kind = "CTS" => /\ a.packets \in 1 .. TpMaxFrames
                                   /\ a.next \in Nat /\ a.next >= 1
                                   /\ DataIs(f) => a.next = f.seq + 1
                                   /\ ~DataIs(f) => a.next = 1)
  PROVE  AnswersKept'
<1>1. \A g \in Rcv' : g \in Rcv
  BY DEF Received
<1>2. ASSUME NEW c \in Snd'
      PROVE  AnswerKept(c)'
  <2>1. CASE c \in Snd
    <3>1. c \in AnswerFrames /\ AnswerKept(c)
      BY <2>1, Queued DEF AnswersKept
    <3> QED
      BY <1>1, <3>1, AnswerStays
  <2>2. CASE c \notin Snd
    <3>1. c = a /\ yes
      BY <2>2 DEF Sent
    <3>2. /\ f.msg \in 1 .. Len(started) /\ started[f.msg].dst = Me
          /\ UNCHANGED sender /\ f \in Frames /\ nextSeq \in Nat
          /\ DataIs(f) => f.seq \in Nat /\ (f.msg = pending.msg => f.seq <= nextSeq)
      BY <3>1, FrameIs DEF Received, FrameKept, Types
    <3>3. ASSUME a.kind = "CTS"
          PROVE  /\ a.packets \in 1 .. TpMaxFrames /\ a.next >= 1
                 /\ a.msg = pending.msg => a.next <= nextSeq + 1
                 /\ \A g \in Rcv' : DataIs(g) /\ g.msg = a.msg => g.seq >= a.next
      <4>1. /\ a.packets \in 1 .. TpMaxFrames /\ a.next \in Nat /\ a.next >= 1
            /\ DataIs(f) => a.next = f.seq + 1
            /\ ~DataIs(f) => a.next = 1
        BY <3>1, <3>3
      <4>2. a.msg = f.msg
        BY <3>1
      <4>3. a.msg = pending.msg => a.next <= nextSeq + 1
        BY <3>2, <4>1, <4>2
      <4>4. ASSUME NEW g \in Rcv', DataIs(g), g.msg = a.msg
            PROVE  g.seq >= a.next
        <5>1. g.seq \in Nat /\ FrameKept(g) /\ Before(f, g) /\ f.msg \in Nat
          BY <4>4, Queued, FrameIs DEF Received, FramesKept
        <5>2. CASE DataIs(f)
          <6>1. f.seq < g.seq
            BY <3>2, <4>2, <4>4, <5>1, <5>2 DEF Before
          <6> QED
            BY <3>2, <4>1, <5>1, <5>2, <6>1
        <5>3. CASE ~DataIs(f)
          <6>1. g.seq >= 1
            BY <4>4, <5>1 DEF FrameKept
          <6> QED
            BY <4>1, <5>3, <6>1
        <5> QED
          BY <5>2, <5>3
      <4> QED
        BY <4>1, <4>3, <4>4
    <3>4. a.msg = f.msg
      BY <3>1
    <3> QED
      BY <3>1, <3>2, <3>3, <3>4 DEF AnswerKept, sender
  <2> QED
    BY <2>1, <2>2
<1> QED
  BY <1>2 DEF AnswersKept

(* Who an RTS, or the packet that a slot asks for, is for. *)
LEMMA RtsIsToMe ==
  ASSUME Types, NEW f \in OpenFrames, FrameKept(f), ~DataIs(f)
  PROVE  (f.kind = "RTS" <=> f.dst = Me) /\ (f.kind = "BAM" <=> f.dst = Broadcast)
<1>1. f.kind \in {"BAM", "RTS"} /\ f.dst \in {Me, Broadcast} /\ Me # Broadcast
  BY DEF OpenFrames, Me, Broadcast
<1>2. f.kind = "BAM" <=> f.dst = Broadcast
  BY DEF FrameKept
<1> QED
  BY <1>1, <1>2

LEMMA TagIsToMe ==
  ASSUME Types, SlotsKept, NEW d, NEW i \in OpenTo(d), NEW s, NEW f, Grown(s, f, i) \/ s = buf[i],
         s.tag > 0
  PROVE  d = Me
<1>1. buf[i].tag = IF d = Me THEN TPCtsPackets(buf[i].total) ELSE 0
  BY OpenSlot
<1>2. s.tag = buf[i].tag
  BY DEF Grown
<1> QED
  BY <1>1, <1>2

LEMMA AnswersStep ==
  ASSUME Types, SenderKept, FramesKept, Ordered(toRcv), AnswersKept, SlotsKept, SenderGrows, Types',
         \/ SenderSteps /\ NewFrames /\ Snd' \subseteq Snd
         \/ ReceiverSteps \/ OtherSteps \/ UNCHANGED vars
  PROVE  AnswersKept'
<1>1. CASE SenderSteps /\ NewFrames /\ Snd' \subseteq Snd
  BY <1>1, AnswersStay DEF NewFrames
<1>2. ASSUME Rcv' \subseteq Rcv, Snd' \subseteq Snd
      PROVE  AnswersKept'
  BY <1>2, AnswersStay
<1>3. ASSUME NEW f, TurnsAway(f)
      PROVE  AnswersKept'
  <2>1. /\ Received(f) /\ f \in OpenFrames /\ ~DataIs(f)
        /\ Sent(f.kind = "RTS", Short("Abort", f.pgn, f.msg))
    BY <1>3, TurnsAwayIs
  <2>2. f.kind = "RTS" => f.dst = Me
    BY <2>1, RtsIsToMe DEF Received
  <2>3. PICK a : a = Short("Abort", f.pgn, f.msg)
    OBVIOUS
  <2>4. a.msg = f.msg /\ a.kind # "CTS" /\ Sent(f.kind = "RTS", a)
    BY <2>1, <2>3 DEF Short
  <2> QED
    BY <2>1, <2>2, <2>4, NewAnswer
<1>4. ASSUME NEW f, NEW i, Opens(f, i)
      PROVE  AnswersKept'
  <2>1. /\ Received(f) /\ f \in OpenFrames /\ ~DataIs(f)
        /\ Sent(f.kind = "RTS", Cts(f.pgn, f.total, 1, f.msg))
    BY <1>4, OpensIs
  <2>2. f.kind = "RTS" => f.dst = Me
    BY <2>1, RtsIsToMe DEF Received
  <2>3. PICK a : a = Cts(f.pgn, f.total, 1, f.msg)
    OBVIOUS
  <2>4. a.msg = f.msg /\ a.next = 1 /\ a.packets = TPCtsPackets(f.total)
    BY <2>3 DEF Cts
  <2>5. f.total \in Nat
    BY <2>1, SizesAre DEF OpenFrames
  <2>6. a.packets \in 1 .. TpMaxFrames /\ a.next \in Nat /\ a.next >= 1
    BY <2>4, <2>5, CtsPackets
  <2>7. Sent(f.kind = "RTS", a)
    BY <2>1, <2>3
  <2> QED
    BY <2>1, <2>2, <2>4, <2>6, <2>7, NewAnswer
<1>5. ASSUME NEW f, NEW i, Breaks(f, i)
      PROVE  AnswersKept'
  <2>1. /\ Received(f) /\ i \in OpenTo(f.dst)
        /\ Sent(buf[i].tag > 0, Short("Abort", buf[i].line, f.msg))
    BY <1>5, BreaksIs
  <2>2. PICK y \in BOOLEAN : y <=> buf[i].tag > 0
    OBVIOUS
  <2>3. PICK a : a = Short("Abort", buf[i].line, f.msg)
    OBVIOUS
  <2>4. a.msg = f.msg /\ a.kind # "CTS"
    BY <2>3 DEF Short
  <2>5. y => f.dst = Me
    BY <2>1, <2>2, TagIsToMe
  <2>6. Sent(y, a)
    BY <2>1, <2>2, <2>3 DEF Sent
  <2> QED
    BY <2>1, <2>4, <2>5, <2>6, NewAnswer
<1>6. ASSUME NEW f, NEW i, Adds(f, i)
      PROVE  AnswersKept'
  <2>1. Received(f) /\ f \in DataFrames /\ DataIs(f) /\ i \in OpenTo(f.dst)
    BY <1>6, AddsIs
  <2>2. PICK s : /\ Grown(s, f, i)
                 /\ Sent(s.tag > 0 /\ s.last % s.tag = 0,
                         Cts(s.line, s.total, s.last + 1, f.msg))
    BY <1>6, AddsIs
  <2>3. PICK y \in BOOLEAN : y <=> s.tag > 0 /\ s.last % s.tag = 0
    OBVIOUS
  <2>4. PICK a : a = Cts(s.line, s.total, s.last + 1, f.msg)
    OBVIOUS
  <2>5. s.total \in Nat /\ s.last = f.seq /\ f.seq \in Nat
    BY <2>1, <2>2, OpenSlot DEF Grown, DataFrames
  <2>6. a.msg = f.msg /\ a.next = s.last + 1 /\ a.packets = TPCtsPackets(s.total)
    BY <2>4 DEF Cts
  <2>7. a.packets \in 1 .. TpMaxFrames /\ a.next \in Nat /\ a.next >= 1 /\ a.next = f.seq + 1
    BY <2>5, <2>6, CtsPackets
  <2>8. y => f.dst = Me
    BY <2>1, <2>2, <2>3, TagIsToMe
  <2>9. Sent(y, a)
    BY <2>2, <2>3, <2>4 DEF Sent
  <2> QED
    BY <2>1, <2>6, <2>7, <2>8, <2>9, NewAnswer
<1>7. ASSUME NEW f, NEW i, Completes(f, i)
      PROVE  AnswersKept'
  <2>1. Received(f) /\ i \in OpenTo(f.dst)
    BY <1>7, CompletesIs
  <2>2. PICK s : Grown(s, f, i) /\ Sent(s.tag > 0, Short("ACK", s.line, f.msg))
    BY <1>7, CompletesIs
  <2>3. PICK y \in BOOLEAN : y <=> s.tag > 0
    OBVIOUS
  <2>4. PICK a : a = Short("ACK", s.line, f.msg)
    OBVIOUS
  <2>5. a.msg = f.msg /\ a.kind # "CTS"
    BY <2>4 DEF Short
  <2>6. y => f.dst = Me
    BY <2>1, <2>2, <2>3, TagIsToMe
  <2>7. Sent(y, a)
    BY <2>2, <2>3, <2>4 DEF Sent
  <2> QED
    BY <2>1, <2>5, <2>6, <2>7, NewAnswer
<1>8. ASSUME NEW f, Ignores(f)
      PROVE  Rcv' \subseteq Rcv /\ Snd' \subseteq Snd
  BY <1>8, TakenIs DEF Ignores, Received, Snd
<1>9. ASSUME OtherSteps \/ UNCHANGED vars
      PROVE  Rcv' \subseteq Rcv /\ Snd' \subseteq Snd
  <2>1. UNCHANGED toRcv => Rcv' \subseteq Rcv
    BY DEF Rcv
  <2>2. UNCHANGED toSnd => Snd' \subseteq Snd
    BY DEF Snd
  <2> QED
    BY <1>9, <2>1, <2>2, SlotTakenIs, SlotLeftIs, FrameLostIs, AnswerLostIs
       DEF OtherSteps, Tick, vars
<1> QED
  BY <1>1, <1>2, <1>3, <1>4, <1>5, <1>6, <1>7, <1>8, <1>9 DEF ReceiverSteps

-----------------------------------------------------------------------------
(* The slots. *)

LEMMA SlotStays ==
  ASSUME Types, SenderKept, SenderGrows, NEW s \in SlotTypes, SlotKept(s),
         \A f \in Rcv' : f \in Rcv \/ NewData(f) \/ NewOpen(f)
  PROVE  SlotKept(s)'
<1>1. ASSUME GotKept(s)
      PROVE  GotKept(s)'
  <2> SUFFICES ASSUME NEW k \in 1 .. s.last
               PROVE  /\ s.got[k].idx = k /\ s.got[k].msg \in 1 .. Len(started')
                      /\ started'[s.got[k].msg].dst = s.dst
                      /\ \A f \in Rcv' : s.got[k].msg <= f.msg
    BY DEF GotKept
  <2>1. PICK m : m = s.got[k].msg
    OBVIOUS
  <2>2. /\ s.got[k].idx = k /\ m \in 1 .. Len(started) /\ started[m].dst = s.dst
        /\ \A f \in Rcv : m <= f.msg
    BY <1>1, <2>1 DEF GotKept
  <2>3. m \in 1 .. Len(started') /\ started'[m] = started[m]
    BY <2>2 DEF SenderGrows
  <2>4. ASSUME NEW f \in Rcv'
        PROVE  m <= f.msg
    <3>1. CASE f \in Rcv
      BY <2>2, <3>1
    <3>2. CASE NewData(f)
      BY <2>2, <3>2, Sending DEF NewData
    <3>3. CASE NewOpen(f)
      BY <2>2, <3>3, Sending DEF NewOpen
    <3> QED
      BY <3>1, <3>2, <3>3
  <2> QED
    BY <2>1, <2>2, <2>3, <2>4
<1> QED
  BY <1>1 DEF SlotKept

LEMMA FreeKept ==
  ASSUME now \in Nat
  PROVE  SlotKept(Free)' /\ (\A s : s = FastPacket => SlotKept(s)')
<1>1. /\ Free.free /\ ~Free.tp /\ Free.line = NoLine
      /\ ~FastPacket.free /\ ~FastPacket.tp /\ FastPacket.line = "fast packet"
  BY FreeTyped
<1> QED
  BY <1>1 DEF SlotKept

LEMMA NewSlotKept ==
  ASSUME Types, NEW f \in OpenFrames, ~DataIs(f), FrameKept(f), NEW s, s = NewSlot(f)
  PROVE  SlotKept(s)'
<1>1. /\ s \in SlotTypes /\ ~s.free /\ s.tp /\ s.line = f.pgn /\ s.dst = f.dst
      /\ s.last = 0 /\ s.total = f.total /\ s.got = <<>>
      /\ s.tag = IF f.kind = "RTS" THEN TPCtsPackets(f.total) ELSE 0
  BY NewSlotIs, NowIs
<1>2. s.tag = IF s.dst = Me THEN TPCtsPackets(s.total) ELSE 0
  BY <1>1, RtsIsToMe
<1>3. s.line \in Pgns /\ s.dst \in {Me, Broadcast} /\ s.total \in Sizes
  BY <1>1 DEF OpenFrames
<1>4. Len(s.got) = s.last /\ s.last < s.total
  BY <1>1, <1>3, SizesAre
<1>5. GotKept(s)'
  BY <1>1 DEF GotKept
<1> QED
  BY <1>1, <1>2, <1>3, <1>4, <1>5 DEF SlotKept

LEMMA GrownKept ==
  ASSUME Types, SlotsKept, NEW f \in DataFrames, Received(f), NEW i \in OpenTo(f.dst), NEW s,
         Grown(s, f, i), s.last < s.total
  PROVE  SlotKept(s)'
<1>1. PICK l \in Nat : l = buf[i].last
  BY OpenSlot
<1>2. /\ i \in Slots /\ ~buf[i].free /\ buf[i].tp /\ buf[i].dst = f.dst /\ f.dst \in {Me, Broadcast}
      /\ buf[i].line \in Pgns /\ buf[i].total \in Sizes
      /\ buf[i].tag = (IF f.dst = Me THEN TPCtsPackets(buf[i].total) ELSE 0) /\ GotKept(buf[i])
  BY OpenSlot
<1>3. /\ ~s.free /\ s.line = buf[i].line /\ s.dst = f.dst /\ s.tp /\ s.tag = buf[i].tag
      /\ s.total = buf[i].total /\ s.last = f.seq /\ s.last = l + 1 /\ Len(s.got) = s.last
      /\ \A k \in 1 .. l : s.got[k] = buf[i].got[k]
      /\ s.got[l + 1] = [msg |-> f.msg, idx |-> f.seq]
  BY <1>1, <1>2 DEF Grown
<1>4. UNCHANGED started /\ FrameKept(f) /\ Rcv' \subseteq Rcv /\ f \in Rcv
  BY DEF Received, sender
<1>5. ASSUME NEW k \in 1 .. l + 1
      PROVE  /\ s.got[k].idx = k /\ s.got[k].msg \in 1 .. Len(started)
             /\ started[s.got[k].msg].dst = s.dst
             /\ \A g \in Rcv' : s.got[k].msg <= g.msg
  <2>1. CASE k \in 1 .. l
    BY <1>1, <1>2, <1>3, <1>4, <2>1 DEF GotKept
  <2>2. CASE k = l + 1
    <3>1. s.got[k].idx = k /\ s.got[k].msg = f.msg
      BY <1>3, <2>2
    <3>2. f.msg \in 1 .. Len(started) /\ started[f.msg].dst = s.dst
      BY <1>3, <1>4 DEF FrameKept
    <3>3. ASSUME NEW g \in Rcv'
          PROVE  f.msg <= g.msg
      <4>1. Before(f, g) /\ f.msg \in Nat /\ g.msg \in Nat
        BY <1>4, Queued, FrameIs DEF Received
      <4> QED
        BY <4>1 DEF Before
    <3> QED
      BY <3>1, <3>2, <3>3
  <2> QED
    BY <2>1, <2>2
<1>6. GotKept(s)'
  BY <1>3, <1>4, <1>5 DEF GotKept
<1> QED
  BY <1>2, <1>3, <1>6 DEF SlotKept

LEMMA SlotsStep ==
  ASSUME Types, SenderKept, FramesKept, Ordered(toRcv), SlotsKept, SenderGrows,
         \/ SenderSteps /\ NewFrames /\ UNCHANGED receiver
         \/ (ReceiverSteps \/ OtherSteps \/ UNCHANGED vars) /\ Rcv' \subseteq Rcv
  PROVE  SlotsKept'
<1>1. \A f \in Rcv' : f \in Rcv \/ NewData(f) \/ NewOpen(f)
  BY DEF NewFrames
<1>2. ASSUME NEW j \in Slots, buf'[j] = buf[j]
      PROVE  SlotKept(buf[j])'
  <2>1. PICK s \in SlotTypes : s = buf[j] /\ SlotKept(s)
    BY DEF SlotsKept, Types
  <2>2. SlotKept(s)'
    BY <1>1, <2>1, SlotStays
  <2> QED
    BY <1>2, <2>1, <2>2
<1>3. ASSUME UNCHANGED buf
      PROVE  SlotsKept'
  BY <1>2, <1>3 DEF SlotsKept
<1>4. ASSUME NEW i, NEW s, SlotSet(i, s), SlotKept(s)'
      PROVE  SlotsKept'
  <2> SUFFICES ASSUME NEW j \in Slots
               PROVE  SlotKept(buf[j])'
    BY DEF SlotsKept
  <2>1. CASE j = i
    BY <1>4, <2>1 DEF SlotSet
  <2>2. CASE j # i
    BY <1>2, <1>4, <2>2 DEF SlotSet
  <2> QED
    BY <2>1, <2>2
<1>5. SlotKept(Free)' /\ (\A s : s = FastPacket => SlotKept(s)')
  BY FreeKept, NowIs
<1>6. ASSUME NEW f, TurnsAway(f)
      PROVE  SlotsKept'
  BY <1>3, <1>4, <1>5, <1>6, TurnsAwayIs
<1>7. ASSUME NEW f, NEW i, Opens(f, i)
      PROVE  SlotsKept'
  <2>1. PICK s : s = NewSlot(f)
    OBVIOUS
  <2>2. Received(f) /\ f \in OpenFrames /\ ~DataIs(f) /\ SlotSet(i, s)
    BY <1>7, <2>1, OpensIs
  <2>3. SlotKept(s)'
    BY <2>1, <2>2, NewSlotKept DEF Received
  <2> QED
    BY <1>4, <2>2, <2>3
<1>8. ASSUME NEW f, NEW i, Breaks(f, i) \/ Completes(f, i)
      PROVE  SlotsKept'
  BY <1>4, <1>5, <1>8, BreaksIs, CompletesIs
<1>9. ASSUME NEW f, NEW i, Adds(f, i)
      PROVE  SlotsKept'
  <2>1. Received(f) /\ f \in DataFrames /\ i \in OpenTo(f.dst)
    BY <1>9, AddsIs
  <2>2. PICK s : Grown(s, f, i) /\ s.last < s.total /\ SlotSet(i, s)
    BY <1>9, AddsIs
  <2>3. SlotKept(s)'
    BY <2>1, <2>2, GrownKept
  <2> QED
    BY <1>4, <2>2, <2>3
<1>10. ASSUME NEW i, SlotTaken(i) \/ SlotLeft(i)
       PROVE  SlotsKept'
  <2>1. PICK s : s = FastPacket
    OBVIOUS
  <2>2. SlotSet(i, s) \/ SlotSet(i, Free)
    BY <1>10, <2>1, SlotTakenIs, SlotLeftIs
  <2> QED
    BY <1>4, <1>5, <2>1, <2>2
<1> QED
  BY <1>3, <1>6, <1>7, <1>8, <1>9, <1>10, FrameLostIs, AnswerLostIs
     DEF ReceiverSteps, OtherSteps, Ignores, Tick, receiver, vars

(* Slots leave a destination, and those that stay are as they were. *)
OpenShrinks ==
  /\ \A d : OpenTo(d)' \subseteq OpenTo(d)
  /\ \A d : \A i \in OpenTo(d)' : buf'[i] = buf[i]

LEMMA SlotGone ==
  ASSUME NEW i, NEW s, SlotSet(i, s), \A d : OpenNow(i, s, d), s.free \/ ~s.tp
  PROVE  OpenShrinks
<1>1. ASSUME NEW d
      PROVE  OpenTo(d)' = OpenTo(d) \ {i}
  <2>1. OpenNow(i, s, d)
    OBVIOUS
  <2> QED
    BY <2>1 DEF OpenNow
<1>2. ASSUME NEW d, NEW j \in OpenTo(d)'
      PROVE  buf'[j] = buf[j]
  <2>1. j # i /\ j \in OpenTo(d)
    BY <1>1, <1>2
  <2>2. j \in Slots
    BY <2>1 DEF OpenTo, OpenFrom
  <2> QED
    BY <2>1, <2>2 DEF SlotSet
<1> QED
  BY <1>1, <1>2 DEF OpenShrinks

LEMMA SameSlots ==
  ASSUME UNCHANGED buf
  PROVE  OpenShrinks
<1>1. ASSUME NEW d
      PROVE  OpenTo(d)' = OpenTo(d)
  BY DEF OpenTo
<1> QED
  BY <1>1 DEF OpenShrinks

LEMMA FreeIsNoTransfer ==
  ASSUME now \in Nat
  PROVE  Free.free /\ ~FastPacket.tp
  BY FreeTyped

(* Only a BAM or RTS, or a packet that fits, leaves a transfer in a slot.  *)
LEMMA MostlyShrinks ==
  ASSUME Types, FramesKept, Ordered(toRcv), SlotsKept,
         \/ UNCHANGED buf
         \/ \E f : TurnsAway(f) \/ Ignores(f) \/ \E i : Breaks(f, i) \/ Completes(f, i)
         \/ OtherSteps
  PROVE  OpenShrinks
<1>1. Free.free /\ ~FastPacket.tp
  BY FreeIsNoTransfer, NowIs
<1>2. ASSUME NEW f, TurnsAway(f)
      PROVE  OpenShrinks
  BY <1>1, <1>2, TurnsAwayIs, SlotGone, SameSlots
<1>3. ASSUME NEW f, NEW i, Breaks(f, i) \/ Completes(f, i)
      PROVE  OpenShrinks
  BY <1>1, <1>3, BreaksIs, CompletesIs, SlotGone
<1>4. ASSUME NEW f, Ignores(f)
      PROVE  OpenShrinks
  BY <1>4, SameSlots DEF Ignores, receiver
<1>5. ASSUME OtherSteps
      PROVE  OpenShrinks
  <2>1. ASSUME NEW i, SlotTaken(i)
        PROVE  OpenShrinks
    BY <1>1, <2>1, SlotTakenIs, SlotGone
  <2>2. ASSUME NEW i, SlotLeft(i)
        PROVE  OpenShrinks
    BY <1>1, <2>2, SlotLeftIs, SlotGone
  <2> QED
    BY <1>5, <2>1, <2>2, SameSlots, FrameLostIs, AnswerLostIs DEF OtherSteps, Tick, receiver
<1> QED
  BY <1>2, <1>3, <1>4, <1>5, SameSlots

LEMMA AtMostOne ==
  ASSUME NEW S \in SUBSET Slots, ~(Cardinality(S) > 1), NEW i \in S, NEW j \in S
  PROVE  i = j
<1> SUFFICES ASSUME i # j
             PROVE  FALSE
  OBVIOUS
<1>1. MaxN2kCANMsgs - 1 \in Int /\ 0 \in Int
  BY Constants
<1>2. IsFiniteSet(Slots)
  BY <1>1, FS_Interval DEF Slots
<1>3. IsFiniteSet(S)
  BY <1>2, FS_Subset
<1>4. IsFiniteSet({i}) /\ Cardinality({i}) = 1
  BY FS_Singleton
<1>5. j \notin {i}
  OBVIOUS
<1>6. IsFiniteSet({i} \cup {j}) /\ Cardinality({i} \cup {j}) = 2
  BY <1>4, <1>5, FS_AddElement
<1>7. {i} \cup {j} \subseteq S
  OBVIOUS
<1>8. Cardinality({i} \cup {j}) <= Cardinality(S) /\ Cardinality(S) \in Nat
  BY <1>3, <1>7, FS_Subset, FS_CardinalityType
<1> QED
  BY <1>6, <1>8

LEMMA OpensOnly ==
  ASSUME Types, FramesKept, Ordered(toRcv), NEW f, NEW i, Opens(f, i), NEW d
  PROVE  /\ d # f.dst => OpenTo(d)' = OpenTo(d) \ {i}
         /\ d = f.dst => OpenTo(d)' = (OpenTo(d) \ {i}) \cup {i}
         /\ \A j \in Slots : j # i => buf'[j] = buf[j]
         /\ i \in Slots /\ buf'[i] = NewSlot(f)
<1>1. PICK s : s = NewSlot(f)
  OBVIOUS
<1>2. f \in OpenFrames /\ SlotSet(i, s) /\ OpenNow(i, s, d)
  BY <1>1, OpensIs
<1>3. ~s.free /\ s.tp /\ s.dst = f.dst
  BY <1>1, <1>2, NewSlotIs, NowIs
<1> QED
  BY <1>1, <1>2, <1>3 DEF SlotSet, OpenNow

LEMMA AddsOnly ==
  ASSUME Types, SlotsKept, NEW f, NEW i \in OpenTo(f.dst), NEW s, Grown(s, f, i), SlotSet(i, s),
         \A d : OpenNow(i, s, d), NEW d
  PROVE  OpenTo(d)' = OpenTo(d) /\ (\A j \in Slots : j # i => buf'[j] = buf[j]) /\ buf'[i] = s
<1>1. ~buf[i].free /\ buf[i].tp /\ buf[i].dst = f.dst /\ i \in Slots
  BY OpenSlot
<1>2. ~s.free /\ s.tp /\ s.dst = f.dst
  BY <1>1 DEF Grown
<1>3. OpenNow(i, s, d)
  OBVIOUS
<1>4. d # f.dst => i \notin OpenTo(d)
  BY <1>1 DEF OpenTo, OpenFrom
<1> QED
  BY <1>2, <1>3, <1>4 DEF OpenNow, SlotSet

(* Two transfers from the sender to one destination. *)
LEMMA OverlapGrows ==
  ASSUME Types, FramesKept, Ordered(toRcv), SlotsKept, ~overlap',
         UNCHANGED receiver \/ ReceiverSteps \/ OtherSteps
  PROVE  ~overlap
<1>1. ASSUME NEW f, NEW i, Opens(f, i)
      PROVE  ~overlap
  <2>1. overlap' = (overlap \/ Cardinality(OpenFrom(buf', f.dst)) > 1)
    BY <1>1, OpensIs
  <2> QED
    BY <2>1
<1>2. ASSUME NEW f, TurnsAway(f) \/ Ignores(f)
      PROVE  ~overlap
  BY <1>2, TurnsAwayIs DEF Ignores, receiver
<1>3. ASSUME NEW f, NEW i, Breaks(f, i) \/ Adds(f, i) \/ Completes(f, i)
      PROVE  ~overlap
  BY <1>3, BreaksIs, AddsIs, CompletesIs
<1>4. CASE OtherSteps
  BY <1>4, SlotTakenIs, SlotLeftIs, FrameLostIs, AnswerLostIs DEF OtherSteps, Tick, receiver
<1> QED
  BY <1>1, <1>2, <1>3, <1>4 DEF ReceiverSteps, receiver

LEMMA OverlapStep ==
  ASSUME Types, Types', FramesKept, Ordered(toRcv), SlotsKept, OverlapKept,
         UNCHANGED receiver \/ ReceiverSteps \/ OtherSteps
  PROVE  OverlapKept'
<1> SUFFICES ASSUME ~overlap', NEW d \in {Me, Broadcast}, NEW j \in OpenTo(d)', NEW k \in OpenTo(d)'
             PROVE  j = k
  BY DEF OverlapKept
<1>1. \A x, y \in OpenTo(d) : x = y
  BY OverlapGrows DEF OverlapKept
<1>2. ASSUME OpenShrinks
      PROVE  j = k
  BY <1>1, <1>2 DEF OpenShrinks
<1>3. ASSUME NEW f, NEW i, Opens(f, i)
      PROVE  j = k
  <2>1. CASE d = f.dst
    <3>1. ~(Cardinality(OpenTo(d)') > 1)
      <4>1. overlap' = (overlap \/ Cardinality(OpenFrom(buf', f.dst)) > 1)
        BY <1>3, OpensIs
      <4> QED
        BY <2>1, <4>1 DEF OpenTo
    <3>2. PICK S : S = OpenTo(d)'
      OBVIOUS
    <3>3. S \in SUBSET Slots
      BY <3>2 DEF OpenTo, OpenFrom
    <3> QED
      BY <3>1, <3>2, <3>3, AtMostOne
  <2>2. CASE d # f.dst
    <3>1. OpenTo(d)' = OpenTo(d) \ {i}
      BY <1>3, <2>2, OpensOnly
    <3> QED
      BY <1>1, <3>1
  <2> QED
    BY <2>1, <2>2
<1>4. ASSUME NEW f, NEW i, Adds(f, i)
      PROVE  j = k
  <2>1. i \in OpenTo(f.dst)
    BY <1>4, AddsIs
  <2>2. PICK s : Grown(s, f, i) /\ SlotSet(i, s) /\ \A e : OpenNow(i, s, e)
    BY <1>4, AddsIs
  <2>3. OpenTo(d)' = OpenTo(d)
    BY <2>1, <2>2, AddsOnly
  <2> QED
    BY <1>1, <2>3
<1> QED
  BY <1>2, <1>3, <1>4, MostlyShrinks DEF ReceiverSteps, receiver

-----------------------------------------------------------------------------
(* Whose packets a message the receiver was asked for may meet. *)

LEMMA NoMisleading ==
  ASSUME Types, NEW c, Misleads(c), pending.msg \notin misled'
  PROVE  c.msg = pending.msg /\ misled' = misled
  BY DEF Misleads

LEMMA SenderAsks ==
  ASSUME Types, SenderKept, SenderSteps, NEW m \in Nat, m # 0, m \notin misled',
         \/ \E f : NewData(f) /\ f.dst = Me /\ f.msg = m
         \/ pending'.msg = m /\ pending'.dst = Me /\ nextSeq' > 0
  PROVE  Asked(m)
<1>1. nextSeq \in Nat
  BY DEF Types
<1>2. ASSUME NEW f, NewData(f)
      PROVE  f.seq \in Nat /\ nextSeq < f.seq /\ f.seq <= nextSeq' /\ pending.msg # 0
             /\ f.msg = pending.msg /\ f.dst = pending.dst
  BY <1>2, FrameIs DEF NewData
<1>3. nextSeq' = nextSeq => \A f : ~NewData(f)
  BY <1>1, <1>2
<1>4. Me # Broadcast /\ None.msg = 0
  BY NoneIs DEF Me, Broadcast
<1>5. ASSUME NEW p, NEW n, NEW d, Begins(p, n, d) \/ BeginFails(p, n, d)
      PROVE  FALSE
  <2>1. nextSeq' = 0 /\ pending.msg = 0
    BY <1>5 DEF Begins, BeginFails
  <2> QED
    BY <1>2, <2>1
<1>6. CASE Broadcasts
  <2>1. pending.dst = Broadcast /\ (pending' = None \/ pending' = pending)
    BY <1>6 DEF Broadcasts, Ends
  <2> QED
    BY <1>2, <1>4, <2>1
<1>7. CASE TimesOut
  BY <1>3, <1>4, <1>7 DEF TimesOut, Ends
<1>8. CASE AnswerIgnored
  BY <1>3, <1>8 DEF AnswerIgnored, Asked
<1>9. ASSUME NEW c, NEW how, EndedBy(c, how)
      PROVE  FALSE
  BY <1>3, <1>4, <1>9 DEF EndedBy, Ends
<1>10. ASSUME NEW c, Asks(c) \/ AskFails(c)
       PROVE  Asked(m)
  <2>1. /\ AnswerTaken /\ c = Head(toSnd) /\ Fits(c) /\ Misleads(c)
        /\ pending' = None \/ pending' = pending
    BY <1>10 DEF Asks, AskFails
  <2>2. m = pending.msg
    BY <1>2, <1>4, <2>1
  <2>3. c.msg = m
    BY <2>1, <2>2, NoMisleading
  <2>4. c \in Snd
    BY <2>1, AnswerDropping DEF AnswerTaken
  <2> QED
    BY <2>1, <2>3, <2>4 DEF Asked, Fits
<1> QED
  BY <1>5, <1>6, <1>7, <1>8, <1>9, <1>10 DEF SenderSteps

LEMMA AskedSender ==
  ASSUME Types, SenderKept, FramesKept, AnswersKept, SlotsKept, AskedKept, SenderSteps,
         SenderGrows, NewFrames, Snd' \subseteq Snd, UNCHANGED receiver, Types', SenderKept'
  PROVE  AskedKept'
<1> SUFFICES ASSUME ~overlap', NEW m \in 1 .. Len(started'), m \notin misled', Asked(m)'
             PROVE  OwnFramesOnly(m)' /\ OwnPacketsOnly(m)'
  BY DEF AskedKept
<1>1. ~overlap /\ buf' = buf
  BY DEF receiver
<1>2. PICK k \in Nat : k = Len(started)
  BY Sending
<1>3. m \in Nat /\ m # 0 /\ misled \subseteq misled' /\ m \notin misled
  BY DEF SenderGrows
<1>4. m <= k /\ Asked(m)
  <2>1. CASE \E f \in Rcv' : DataIs(f) /\ f.dst = Me /\ f.msg = m
    <3>1. PICK f \in Rcv' : DataIs(f) /\ f.dst = Me /\ f.msg = m
      BY <2>1
    <3>2. f \in Rcv \/ NewData(f)
      BY <3>1 DEF NewFrames, NewOpen
    <3>3. CASE f \in Rcv
      <4>1. f.msg \in 1 .. k
        BY <1>2, <3>3 DEF FramesKept, FrameKept
      <4> QED
        BY <3>1, <3>3, <4>1 DEF Asked
    <3>4. CASE NewData(f)
      <4>1. m = k
        BY <1>2, <3>1, <3>4, Sending DEF NewData
      <4> QED
        BY <1>3, <3>1, <3>4, <4>1, SenderAsks
    <3> QED
      BY <3>2, <3>3, <3>4
  <2>2. CASE \E c \in Snd' : c.kind = "CTS" /\ c.msg = m
    <3>1. PICK c \in Snd : c.kind = "CTS" /\ c.msg = m
      BY <2>2
    <3>2. c.msg \in 1 .. k
      BY <1>2, <3>1 DEF AnswersKept, AnswerKept
    <3> QED
      BY <3>1, <3>2 DEF Asked
  <2>3. CASE pending'.msg = m /\ pending'.dst = Me /\ nextSeq' > 0
    <3>1. Asked(m)
      BY <1>3, <2>3, SenderAsks
    <3>2. m <= k
      <4>1. CASE \E f \in Rcv : DataIs(f) /\ f.dst = Me /\ f.msg = m
        <5>1. \A f \in Rcv : f.msg \in 1 .. k
          BY <1>2 DEF FramesKept, FrameKept
        <5> QED
          BY <4>1, <5>1
      <4>2. CASE \E c \in Snd : c.kind = "CTS" /\ c.msg = m
        <5>1. \A c \in Snd : c.msg \in 1 .. k
          BY <1>2 DEF AnswersKept, AnswerKept
        <5> QED
          BY <4>2, <5>1
      <4>3. CASE pending.msg = m
        BY <1>2, <1>3, <4>3, Sending
      <4> QED
        BY <3>1, <4>1, <4>2, <4>3 DEF Asked
    <3> QED
      BY <3>1, <3>2
  <2> QED
    BY <2>1, <2>2, <2>3 DEF Asked
<1>5. OwnFramesOnly(m) /\ OwnPacketsOnly(m)
  <2>1. m \in (1 .. Len(started)) \ misled
    BY <1>2, <1>3, <1>4
  <2> QED
    BY <1>1, <1>4, <2>1 DEF AskedKept
<1>6. ASSUME NEW f \in Rcv', f.dst = Me
      PROVE  f.msg >= m /\ (f.msg = m => DataIs(f))
  <2>1. CASE f \in Rcv
    BY <1>5, <1>6, <2>1 DEF OwnFramesOnly
  <2>2. CASE NewData(f)
    <3>1. f.msg = k /\ DataIs(f)
      BY <1>2, <2>2, Sending DEF NewData
    <3> QED
      BY <1>2, <1>3, <1>4, <3>1
  <2>3. CASE NewOpen(f)
    <3>1. f.msg = k + 1
      BY <1>2, <2>3 DEF NewOpen
    <3> QED
      BY <1>2, <1>3, <1>4, <3>1
  <2> QED
    BY <2>1, <2>2, <2>3 DEF NewFrames
<1>7. OwnPacketsOnly(m)'
  BY <1>1, <1>5 DEF OwnPacketsOnly, OpenTo
<1> QED
  BY <1>6, <1>7 DEF OwnFramesOnly

(* When frames and answers only become fewer, nobody else was asked.       *)
LEMMA AskedFewer ==
  ASSUME UNCHANGED sender, Rcv' \subseteq Rcv, NEW m, Asked(m)',
         \A c \in Snd' : c.kind = "CTS" => c \in Snd \/ c.msg # m
  PROVE  Asked(m)
  BY DEF Asked, sender

LEMMA AskedShrinks ==
  ASSUME AskedKept, OpenShrinks, UNCHANGED sender, Rcv' \subseteq Rcv, ~overlap' => ~overlap,
         \A c \in Snd' : c.kind = "CTS" => c \in Snd
  PROVE  AskedKept'
<1> SUFFICES ASSUME ~overlap', NEW m \in (1 .. Len(started)) \ misled, Asked(m)'
             PROVE  OwnFramesOnly(m)' /\ OwnPacketsOnly(m)'
  BY DEF AskedKept, sender
<1>1. Asked(m)
  BY AskedFewer
<1>2. OwnFramesOnly(m) /\ OwnPacketsOnly(m)
  BY <1>1 DEF AskedKept
<1>3. OwnFramesOnly(m)'
  BY <1>2 DEF OwnFramesOnly
<1>4. OwnPacketsOnly(m)'
  <2> SUFFICES ASSUME NEW i \in OpenTo(Me)', NEW k \in 1 .. buf'[i].last
               PROVE  buf'[i].got[k].msg >= m
    BY DEF OwnPacketsOnly
  <2>1. i \in OpenTo(Me) /\ buf'[i] = buf[i]
    BY DEF OpenShrinks
  <2> QED
    BY <1>2, <2>1 DEF OwnPacketsOnly
<1> QED
  BY <1>3, <1>4

LEMMA AskedOpens ==
  ASSUME Types, FramesKept, Ordered(toRcv), SlotsKept, AskedKept, OverlapKept',
         ~overlap' => ~overlap,
         NEW f, NEW i, Opens(f, i)
  PROVE  AskedKept'
<1>1. /\ Received(f) /\ f \in OpenFrames /\ ~DataIs(f)
      /\ Sent(f.kind = "RTS", Cts(f.pgn, f.total, 1, f.msg))
  BY OpensIs
<1>2. UNCHANGED sender /\ Rcv' \subseteq Rcv /\ f \in Rcv /\ FrameKept(f)
  BY <1>1 DEF Received
<1> SUFFICES ASSUME ~overlap', NEW m \in (1 .. Len(started)) \ misled, Asked(m)'
             PROVE  OwnFramesOnly(m)' /\ OwnPacketsOnly(m)'
  BY <1>2 DEF AskedKept, sender
<1>3. buf'[i] = NewSlot(f) /\ i \in Slots
  BY OpensOnly
<1>4. NewSlot(f).last = 0
  BY <1>1, NewSlotIs, NowIs
<1>5. CASE Asked(m)
  <2>1. OwnFramesOnly(m) /\ OwnPacketsOnly(m)
    BY <1>5 DEF AskedKept
  <2>2. OwnFramesOnly(m)'
    BY <1>2, <2>1 DEF OwnFramesOnly
  <2>3. OwnPacketsOnly(m)'
    <3> SUFFICES ASSUME NEW j \in OpenTo(Me)', NEW k \in 1 .. buf'[j].last
                 PROVE  buf'[j].got[k].msg >= m
      BY DEF OwnPacketsOnly
    <3>1. j # i
      <4>1. 1 .. 0 = {}
        OBVIOUS
      <4> QED
        BY <1>3, <1>4, <4>1
    <3>2. /\ j \in OpenTo(Me)
          /\ \A x \in Slots : x # i => buf'[x] = buf[x]
      BY <3>1, OpensOnly
    <3>3. j \in Slots
      BY <3>2 DEF OpenTo, OpenFrom
    <3> QED
      BY <2>1, <3>1, <3>2, <3>3 DEF OwnPacketsOnly
  <2> QED
    BY <2>2, <2>3
<1>6. CASE ~Asked(m)
  <2>1. f.kind = "RTS" /\ f.msg = m
    <3>1. PICK a : a = Cts(f.pgn, f.total, 1, f.msg)
      OBVIOUS
    <3>2. Sent(f.kind = "RTS", a) /\ a.msg = f.msg
      BY <1>1, <3>1 DEF Cts
    <3>3. \E c \in Snd' : c \notin Snd /\ c.msg = m
      BY <1>2, <1>6, AskedFewer
    <3> QED
      BY <3>2, <3>3 DEF Sent
  <2>2. f.dst = Me
    BY <1>1, <1>2, <2>1, RtsIsToMe
  <2>3. OwnFramesOnly(m)'
    <3> SUFFICES ASSUME NEW g \in Rcv'
                 PROVE  g.msg >= m /\ (g.msg = m => DataIs(g))
      BY DEF OwnFramesOnly
    <3>1. Before(f, g) /\ f.msg \in Nat /\ g.msg \in Nat
      BY <1>1, <1>2, Queued, FrameIs DEF Received
    <3> QED
      BY <2>1, <3>1 DEF Before
  <2>4. OwnPacketsOnly(m)'
    <3> SUFFICES ASSUME NEW j \in OpenTo(Me)', NEW k \in 1 .. buf'[j].last
                 PROVE  buf'[j].got[k].msg >= m
      BY DEF OwnPacketsOnly
    <3>1. i \in OpenTo(Me)'
      BY <2>2, OpensOnly
    <3>2. j = i
      BY <3>1 DEF OverlapKept
    <3>3. 1 .. 0 = {}
      OBVIOUS
    <3> QED
      BY <1>3, <1>4, <3>2, <3>3
  <2> QED
    BY <2>3, <2>4
<1> QED
  BY <1>5, <1>6

LEMMA AskedAdds ==
  ASSUME Types, FramesKept, Ordered(toRcv), SlotsKept, AskedKept, ~overlap' => ~overlap,
         NEW f, NEW i, Adds(f, i)
  PROVE  AskedKept'
<1>1. Received(f) /\ f \in DataFrames /\ DataIs(f) /\ i \in OpenTo(f.dst)
  BY AddsIs
<1>2. PICK s : /\ Grown(s, f, i) /\ SlotSet(i, s) /\ \A d : OpenNow(i, s, d)
               /\ Sent(s.tag > 0 /\ s.last % s.tag = 0, Cts(s.line, s.total, s.last + 1, f.msg))
  BY AddsIs
<1>3. UNCHANGED sender /\ Rcv' \subseteq Rcv /\ f \in Rcv
  BY <1>1 DEF Received
<1> SUFFICES ASSUME ~overlap', NEW m \in (1 .. Len(started)) \ misled, Asked(m)'
             PROVE  OwnFramesOnly(m)' /\ OwnPacketsOnly(m)'
  BY <1>3 DEF AskedKept, sender
<1>4. Asked(m)
  <2> SUFFICES ASSUME ~Asked(m)
               PROVE  FALSE
    OBVIOUS
  <2>1. PICK y \in BOOLEAN : y <=> s.tag > 0 /\ s.last % s.tag = 0
    OBVIOUS
  <2>2. PICK a : a = Cts(s.line, s.total, s.last + 1, f.msg)
    OBVIOUS
  <2>3. Sent(y, a) /\ a.msg = f.msg
    BY <1>2, <2>1, <2>2 DEF Sent, Cts
  <2>4. \E c \in Snd' : c \notin Snd /\ c.msg = m
    BY <1>3, AskedFewer
  <2>5. y /\ f.msg = m
    BY <2>3, <2>4 DEF Sent
  <2>6. f.dst = Me
    BY <1>1, <1>2, <2>1, <2>5, TagIsToMe
  <2> QED
    BY <1>1, <1>3, <2>5, <2>6 DEF Asked
<1>5. OwnFramesOnly(m) /\ OwnPacketsOnly(m)
  BY <1>4 DEF AskedKept
<1>6. OwnFramesOnly(m)'
  BY <1>3, <1>5 DEF OwnFramesOnly
<1>7. OwnPacketsOnly(m)'
  <2> SUFFICES ASSUME NEW j \in OpenTo(Me)', NEW k \in 1 .. buf'[j].last
               PROVE  buf'[j].got[k].msg >= m
    BY DEF OwnPacketsOnly
  <2>1. /\ OpenTo(Me)' = OpenTo(Me) /\ (\A x \in Slots : x # i => buf'[x] = buf[x])
        /\ buf'[i] = s
    BY <1>1, <1>2, AddsOnly
  <2>2. j \in OpenTo(Me) /\ j \in Slots /\ buf[j].dst = Me
    BY <2>1 DEF OpenTo, OpenFrom
  <2>3. CASE j # i
    BY <1>5, <2>1, <2>2, <2>3 DEF OwnPacketsOnly
  <2>4. CASE j = i
    <3>1. PICK l \in Nat : l = buf[i].last
      BY <1>1, OpenSlot
    <3>2. /\ s.last = l + 1 /\ s.got[l + 1].msg = f.msg
          /\ \A x \in 1 .. l : s.got[x] = buf[i].got[x]
      BY <1>2, <3>1 DEF Grown
    <3>3. k \in 1 .. l + 1
      BY <2>1, <2>4, <3>2
    <3>4. CASE k \in 1 .. l
      BY <1>5, <2>1, <2>2, <2>4, <3>1, <3>2, <3>4 DEF OwnPacketsOnly
    <3>5. CASE k = l + 1
      <4>1. f.dst = Me
        BY <1>1, <2>2, <2>4, OpenSlot
      <4>2. f.msg >= m
        BY <1>3, <1>5, <4>1 DEF OwnFramesOnly
      <4> QED
        BY <2>1, <2>4, <3>2, <3>5, <4>2
    <3> QED
      BY <3>1, <3>3, <3>4, <3>5
  <2> QED
    BY <2>3, <2>4
<1> QED
  BY <1>6, <1>7

LEMMA AskedStep ==
  ASSUME Types, SenderKept, FramesKept, Ordered(toRcv), AnswersKept, SlotsKept, OverlapKept,
         AskedKept,
         OverlapKept', UNCHANGED sender, Rcv' \subseteq Rcv,
         ReceiverSteps \/ OtherSteps \/ UNCHANGED vars
  PROVE  AskedKept'
<1>1. ~overlap' => ~overlap
  BY OverlapGrows DEF vars
<1>2. ASSUME NEW yes, NEW a, a.kind # "CTS", Sent(yes, a)
      PROVE  \A c \in Snd' : c.kind = "CTS" => c \in Snd
  BY <1>2 DEF Sent
<1>3. ASSUME Snd' \subseteq Snd
      PROVE  \A c \in Snd' : c.kind = "CTS" => c \in Snd
  BY <1>3
<1>4. ASSUME NEW f, TurnsAway(f)
      PROVE  AskedKept'
  <2>1. PICK a : a = Short("Abort", f.pgn, f.msg)
    OBVIOUS
  <2>2. Sent(f.kind = "RTS", a) /\ a.kind # "CTS"
    BY <1>4, <2>1, TurnsAwayIs DEF Short
  <2>3. OpenShrinks
    BY <1>4, MostlyShrinks
  <2> QED
    BY <1>1, <1>2, <2>2, <2>3, AskedShrinks
<1>5. ASSUME NEW f, NEW i, Breaks(f, i)
      PROVE  AskedKept'
  <2>1. PICK a : a = Short("Abort", buf[i].line, f.msg)
    OBVIOUS
  <2>2. PICK y \in BOOLEAN : y <=> buf[i].tag > 0
    OBVIOUS
  <2>3. Sent(y, a) /\ a.kind # "CTS"
    BY <1>5, <2>1, <2>2, BreaksIs DEF Short, Sent
  <2>4. OpenShrinks
    BY <1>5, MostlyShrinks
  <2> QED
    BY <1>1, <1>2, <2>3, <2>4, AskedShrinks
<1>6. ASSUME NEW f, NEW i, Completes(f, i)
      PROVE  AskedKept'
  <2>1. PICK s : Sent(s.tag > 0, Short("ACK", s.line, f.msg))
    BY <1>6, CompletesIs
  <2>2. PICK a : a = Short("ACK", s.line, f.msg)
    OBVIOUS
  <2>3. PICK y \in BOOLEAN : y <=> s.tag > 0
    OBVIOUS
  <2>4. Sent(y, a) /\ a.kind # "CTS"
    BY <2>1, <2>2, <2>3 DEF Short, Sent
  <2>5. OpenShrinks
    BY <1>6, MostlyShrinks
  <2> QED
    BY <1>1, <1>2, <2>4, <2>5, AskedShrinks
<1>7. ASSUME NEW f, Ignores(f)
      PROVE  AskedKept'
  <2>1. OpenShrinks /\ Snd' \subseteq Snd
    BY <1>7, MostlyShrinks DEF Ignores, Snd
  <2> QED
    BY <1>1, <1>3, <2>1, AskedShrinks
<1>8. CASE OtherSteps
  <2>1. OpenShrinks
    BY <1>8, MostlyShrinks
  <2>2. UNCHANGED toSnd => Snd' \subseteq Snd
    BY DEF Snd
  <2>3. Snd' \subseteq Snd
    BY <1>8, <2>2, SlotTakenIs, SlotLeftIs, FrameLostIs, AnswerLostIs DEF OtherSteps, Tick
  <2> QED
    BY <1>1, <1>3, <2>1, <2>3, AskedShrinks
<1>9. CASE UNCHANGED vars
  <2>1. OpenShrinks /\ Snd' \subseteq Snd
    BY <1>9, SameSlots DEF vars, receiver, Snd
  <2> QED
    BY <1>1, <1>3, <2>1, AskedShrinks
<1> QED
  BY <1>1, <1>4, <1>5, <1>6, <1>7, <1>8, <1>9, AskedOpens, AskedAdds DEF ReceiverSteps

-----------------------------------------------------------------------------
(* What is handed on and acknowledged. *)

Delivery(s) == [pgn |-> s.line, dst |-> s.dst, total |-> s.total, got |-> s.got]

LEMMA WholeIs ==
  ASSUME NEW s \in SlotTypes, s.total \in Nat, s.total >= 1, Len(s.got) = s.total,
         NEW m \in 1 .. MaxMsgs, \A k \in 1 .. s.total : s.got[k].msg = m /\ s.got[k].idx = k,
         NEW d, d = Delivery(s)
  PROVE  WholeMessage(d) /\ d.got[1].msg = m
<1>1. PICK g, n : g = s.got /\ n = s.total
  OBVIOUS
<1>2. g \in Seq(Packets) /\ Len(g) = n /\ n \in Nat /\ n >= 1
  BY <1>1 DEF SlotTypes
<1>3. g \in [1 .. n -> Packets]
  BY <1>2
<1>4. ASSUME NEW k \in 1 .. n
      PROVE  g[k] = [msg |-> m, idx |-> k]
  <2>1. g[k] \in Packets /\ g[k].msg = m /\ g[k].idx = k
    BY <1>1, <1>3
  <2> QED
    BY <2>1 DEF Packets
<1>5. g = [k \in 1 .. n |-> [msg |-> m, idx |-> k]]
  BY <1>3, <1>4
<1>6. d.got = g /\ d.total = n
  BY <1>1 DEF Delivery
<1>7. 1 \in 1 .. n
  BY <1>2
<1> QED
  BY <1>4, <1>5, <1>6, <1>7 DEF WholeMessage

LEMMA CompletedIsWhole ==
  ASSUME Types, SlotsKept, AskedKept, ~overlap, NEW f \in DataFrames, Received(f), DataIs(f),
         f.dst = Me, f.msg \notin misled, NEW i \in OpenTo(f.dst), NEW s, Grown(s, f, i),
         s.last = s.total, NEW d, d = Delivery(s)
  PROVE  WholeMessage(d) /\ d.got[1].msg = f.msg /\ d.dst = Me
<1>1. PICK l \in Nat : l = buf[i].last
  BY OpenSlot
<1>2. /\ buf[i].dst = Me /\ GotKept(buf[i]) /\ buf[i].total \in Nat
      /\ s \in SlotTypes /\ s.dst = Me /\ s.total = l + 1 /\ s.last = f.seq /\ f.seq = l + 1
      /\ Len(s.got) = s.total
      /\ \A k \in 1 .. l : s.got[k] = buf[i].got[k]
      /\ s.got[l + 1] = [msg |-> f.msg, idx |-> f.seq]
  BY <1>1, OpenSlot DEF Grown
<1>3. PICK m \in Nat : m = f.msg /\ m \in 1 .. Len(started) /\ m \in 1 .. MaxMsgs
  <2>1. f.msg \in 1 .. Len(started) /\ Len(started) <= MaxMsgs /\ MaxMsgs \in Nat
        /\ Len(started) \in Nat
    BY Constants DEF Received, FrameKept, Types
  <2> QED
    BY <2>1
<1>4. OwnPacketsOnly(m)
  <2>1. Asked(m)
    BY <1>3 DEF Asked, Received
  <2> QED
    BY <1>3, <2>1 DEF AskedKept
<1>5. ASSUME NEW k \in 1 .. l + 1
      PROVE  s.got[k].msg = m /\ s.got[k].idx = k
  <2>1. CASE k \in 1 .. l
    <3>1. /\ buf[i].got[k].idx = k /\ buf[i].got[k].msg \in 1 .. Len(started)
          /\ buf[i].got[k].msg <= f.msg
      BY <1>1, <1>2, <2>1 DEF GotKept, Received
    <3>2. buf[i].got[k].msg >= m
      BY <1>1, <1>4, <2>1 DEF OwnPacketsOnly
    <3>3. s.got[k] = buf[i].got[k]
      BY <1>2, <2>1
    <3>4. buf[i].got[k].msg = m
      BY <1>3, <3>1, <3>2
    <3> QED
      BY <3>1, <3>3, <3>4
  <2>2. CASE k = l + 1
    BY <1>2, <1>3, <2>2
  <2> QED
    BY <2>1, <2>2
<1>6. /\ s.total \in Nat /\ s.total >= 1
      /\ \A k \in 1 .. s.total : s.got[k].msg = m /\ s.got[k].idx = k
  BY <1>2, <1>5
<1>7. d.dst = Me
  BY <1>2 DEF Delivery
<1> QED
  BY <1>2, <1>3, <1>6, <1>7, WholeIs

LEMMA DeliveredStep ==
  ASSUME Types, FramesKept, Ordered(toRcv), SlotsKept, AskedKept, DeliveredWhole, SenderGrows,
         UNCHANGED receiver \/ ((ReceiverSteps \/ OtherSteps) /\ UNCHANGED misled)
  PROVE  DeliveredWhole'
<1>1. (~overlap' => ~overlap) /\ misled \subseteq misled'
  BY OverlapGrows DEF SenderGrows
<1>2. ASSUME NEW d \in delivered
      PROVE  /\ Len(d.got) = d.total /\ \A k \in 1 .. d.total : d.got[k].idx = k
             /\ d.dst = Me /\ ~overlap' /\ d.got[d.total].msg \notin misled' => WholeMessage(d)
  BY <1>1 DEF DeliveredWhole
<1>3. ASSUME delivered' \subseteq delivered
      PROVE  DeliveredWhole'
  BY <1>2, <1>3 DEF DeliveredWhole, WholeMessage
<1>4. ASSUME NEW f, NEW i, Completes(f, i)
      PROVE  DeliveredWhole'
  <2>1. Received(f) /\ f \in DataFrames /\ DataIs(f) /\ i \in OpenTo(f.dst)
    BY <1>4, CompletesIs
  <2>2. PICK s : /\ Grown(s, f, i) /\ s.last = s.total
                 /\ delivered' = delivered \cup
                      {[pgn |-> s.line, dst |-> s.dst, total |-> s.total, got |-> s.got]}
    BY <1>4, CompletesIs
  <2>3. PICK e : e = Delivery(s)
    OBVIOUS
  <2>4. PICK l \in Nat : l = buf[i].last
    BY <2>1, OpenSlot
  <2>5. /\ s.dst = f.dst /\ s.total = l + 1 /\ f.seq = l + 1 /\ Len(s.got) = s.total
        /\ \A k \in 1 .. l : s.got[k] = buf[i].got[k]
        /\ s.got[l + 1] = [msg |-> f.msg, idx |-> f.seq] /\ GotKept(buf[i])
    BY <2>1, <2>2, <2>4, OpenSlot DEF Grown
  <2>6. e.got = s.got /\ e.total = l + 1 /\ e.dst = f.dst
    BY <2>3, <2>5 DEF Delivery
  <2>7. Len(e.got) = e.total
    BY <2>5, <2>6
  <2>8. ASSUME NEW k \in 1 .. e.total
        PROVE  e.got[k].idx = k
    <3>1. CASE k \in 1 .. l
      BY <2>4, <2>5, <2>6, <3>1 DEF GotKept
    <3>2. CASE k = l + 1
      BY <2>5, <2>6, <3>2
    <3> QED
      BY <2>6, <3>1, <3>2
  <2>9. ASSUME e.dst = Me, ~overlap', e.got[e.total].msg \notin misled'
        PROVE  WholeMessage(e)
    <3>1. f.dst = Me /\ f.msg \notin misled /\ ~overlap
      BY <1>1, <2>5, <2>6, <2>9
    <3> QED
      BY <2>1, <2>2, <2>3, <3>1, CompletedIsWhole
  <2>10. \A d \in delivered' : d \in delivered \/ d = e
    BY <2>2, <2>3 DEF Delivery
  <2> QED
    BY <1>2, <2>7, <2>8, <2>9, <2>10 DEF DeliveredWhole, WholeMessage
<1>5. ASSUME NEW f, TurnsAway(f) \/ Ignores(f) \/ \E i : Opens(f, i) \/ Breaks(f, i) \/ Adds(f, i)
      PROVE  delivered' \subseteq delivered
  BY <1>5, TurnsAwayIs, OpensIs, BreaksIs, AddsIs DEF Ignores, receiver
<1>6. ASSUME OtherSteps \/ UNCHANGED receiver
      PROVE  delivered' \subseteq delivered
  BY <1>6, SlotTakenIs, SlotLeftIs, FrameLostIs, AnswerLostIs DEF OtherSteps, Tick, receiver
<1> QED
  BY <1>3, <1>4, <1>5, <1>6 DEF ReceiverSteps

(* How the sender's transfers end.                                         *)
LEMMA SenderEnds ==
  ASSUME Types, SenderKept, SenderSteps, NEW m \in 1 .. MaxMsgs, ended'[m] # ended[m]
  PROVE  \/ ended'[m].how # "ACK" /\ ended'[m].by = 0
         \/ \E c \in Snd : \E how : /\ EndedBy(c, how) /\ m = pending.msg
                                    /\ ended'[m] = [how |-> how, by |-> c.msg]
<1>1. ended \in [1 .. MaxMsgs -> [how : Endings, by : Nat]]
  BY DEF Types
<1>2. ASSUME NEW p, NEW how, NEW by,
             ended' = [ended EXCEPT ![p] = [how |-> how, by |-> by]]
      PROVE  m = p /\ ended'[m] = [how |-> how, by |-> by]
  BY <1>1, <1>2
<1>3. ASSUME NEW p, NEW n, NEW d, Begins(p, n, d) \/ BeginFails(p, n, d)
      PROVE  ended'[m].how # "ACK" /\ ended'[m].by = 0
  <2>1. ended' = [ended EXCEPT ![Len(started) + 1] = [how |-> "failed", by |-> 0]]
    BY <1>3 DEF Begins, BeginFails
  <2>2. ended'[m] = [how |-> "failed", by |-> 0]
    BY <1>2, <2>1
  <2> QED
    BY <2>2
<1>4. CASE Broadcasts
  <2>1. ended' = [ended EXCEPT ![pending.msg] = [how |-> "sent", by |-> 0]]
    BY <1>4 DEF Broadcasts, Ends
  <2>2. ended'[m] = [how |-> "sent", by |-> 0]
    BY <1>2, <2>1
  <2> QED
    BY <2>2
<1>5. CASE TimesOut
  <2>1. ended' = [ended EXCEPT ![pending.msg] = [how |-> "timeout", by |-> 0]]
    BY <1>5 DEF TimesOut, Ends
  <2>2. ended'[m] = [how |-> "timeout", by |-> 0]
    BY <1>2, <2>1
  <2> QED
    BY <2>2
<1>6. CASE AnswerIgnored
  BY <1>6 DEF AnswerIgnored
<1>7. ASSUME NEW c, Asks(c) \/ AskFails(c)
      PROVE  ended'[m].how # "ACK" /\ ended'[m].by = 0
  <2>1. ended' = [ended EXCEPT ![pending.msg] = [how |-> "failed", by |-> 0]]
    BY <1>7 DEF Asks, AskFails
  <2>2. ended'[m] = [how |-> "failed", by |-> 0]
    BY <1>2, <2>1
  <2> QED
    BY <2>2
<1>8. ASSUME NEW c, NEW how, EndedBy(c, how)
      PROVE  \E a \in Snd : \E h : /\ EndedBy(a, h) /\ m = pending.msg
                                   /\ ended'[m] = [how |-> h, by |-> a.msg]
  <2>1. /\ AnswerTaken /\ c = Head(toSnd)
        /\ ended' = [ended EXCEPT ![pending.msg] = [how |-> how, by |-> c.msg]]
    BY <1>8 DEF EndedBy, Ends
  <2>2. c \in Snd
    BY <2>1, AnswerDropping DEF AnswerTaken
  <2>3. m = pending.msg /\ ended'[m] = [how |-> how, by |-> c.msg]
    BY <1>2, <2>1
  <2> QED
    BY <1>8, <2>2, <2>3
<1> QED
  BY <1>3, <1>4, <1>5, <1>6, <1>7, <1>8 DEF SenderSteps

LEMMA HandedStays ==
  ASSUME delivered \subseteq delivered', NEW m, Handed(m)
  PROVE  Handed(m)'
  BY DEF Handed, WholeMessage

LEMMA AcksSender ==
  ASSUME Types, SenderKept, AcksKept, SenderSteps, SenderGrows, Snd' \subseteq Snd,
         UNCHANGED receiver
  PROVE  AcksKept'
<1> SUFFICES ASSUME ~overlap', NEW m \in (1 .. MaxMsgs) \ misled',
                    \/ \E c \in Snd' : c.kind = "ACK" /\ c.msg = m
                    \/ ended'[m] = [how |-> "ACK", by |-> m]
             PROVE  Handed(m)'
  BY DEF AcksKept
<1>1. m \in (1 .. MaxMsgs) \ misled /\ ~overlap /\ delivered \subseteq delivered'
  BY DEF SenderGrows, receiver
<1>2. \/ \E c \in Snd : c.kind = "ACK" /\ c.msg = m
      \/ ended[m] = [how |-> "ACK", by |-> m]
  <2>1. CASE \E c \in Snd' : c.kind = "ACK" /\ c.msg = m
    BY <2>1
  <2>2. CASE ended'[m] = [how |-> "ACK", by |-> m] /\ ended'[m] # ended[m]
    <3>1. ended'[m].how = "ACK" /\ ended'[m].by = m
      BY <2>2
    <3>2. PICK c \in Snd :
             \E how : EndedBy(c, how) /\ ended'[m] = [how |-> how, by |-> c.msg]
      BY <2>2, <3>1, SenderEnds
    <3>3. PICK how : EndedBy(c, how) /\ ended'[m] = [how |-> how, by |-> c.msg]
      BY <3>2
    <3>4. how = "ACK" /\ c.msg = m
      BY <3>1, <3>3
    <3>5. c.kind = "ACK"
      BY <3>3, <3>4 DEF EndedBy
    <3> QED
      BY <3>4, <3>5
  <2>3. CASE ended'[m] = [how |-> "ACK", by |-> m] /\ ended'[m] = ended[m]
    BY <2>3
  <2> QED
    BY <2>1, <2>2, <2>3
<1>3. Handed(m)
  BY <1>1, <1>2 DEF AcksKept
<1> QED
  BY <1>1, <1>3, HandedStays

LEMMA AcksStep ==
  ASSUME Types, SenderKept, FramesKept, Ordered(toRcv), SlotsKept, AskedKept, AcksKept,
         UNCHANGED sender, ReceiverSteps \/ OtherSteps \/ UNCHANGED vars
  PROVE  AcksKept'
<1>1. ~overlap' => ~overlap
  BY OverlapGrows DEF vars
<1>2. ASSUME delivered \subseteq delivered', \A c \in Snd' : c.kind = "ACK" => c \in Snd
      PROVE  AcksKept'
  <2> SUFFICES ASSUME ~overlap', NEW m \in (1 .. MaxMsgs) \ misled',
                      \/ \E c \in Snd' : c.kind = "ACK" /\ c.msg = m
                      \/ ended'[m] = [how |-> "ACK", by |-> m]
               PROVE  Handed(m)'
    BY DEF AcksKept
  <2>1. Handed(m)
    BY <1>1, <1>2 DEF AcksKept, sender
  <2> QED
    BY <1>2, <2>1, HandedStays
<1>3. ASSUME NEW yes, NEW a, a.kind # "ACK", Sent(yes, a)
      PROVE  \A c \in Snd' : c.kind = "ACK" => c \in Snd
  BY <1>3 DEF Sent
<1>4. ASSUME NEW f, TurnsAway(f)
      PROVE  AcksKept'
  <2>1. PICK a : a = Short("Abort", f.pgn, f.msg)
    OBVIOUS
  <2>2. Sent(f.kind = "RTS", a) /\ a.kind # "ACK" /\ delivered' = delivered
    BY <1>4, <2>1, TurnsAwayIs DEF Short
  <2> QED
    BY <1>2, <1>3, <2>2
<1>5. ASSUME NEW f, NEW i, Opens(f, i)
      PROVE  AcksKept'
  <2>1. PICK a : a = Cts(f.pgn, f.total, 1, f.msg)
    OBVIOUS
  <2>2. Sent(f.kind = "RTS", a) /\ a.kind # "ACK" /\ delivered' = delivered
    BY <1>5, <2>1, OpensIs DEF Cts
  <2> QED
    BY <1>2, <1>3, <2>2
<1>6. ASSUME NEW f, NEW i, Breaks(f, i)
      PROVE  AcksKept'
  <2>1. PICK a : a = Short("Abort", buf[i].line, f.msg)
    OBVIOUS
  <2>2. PICK y \in BOOLEAN : y <=> buf[i].tag > 0
    OBVIOUS
  <2>3. Sent(y, a) /\ a.kind # "ACK" /\ delivered' = delivered
    BY <1>6, <2>1, <2>2, BreaksIs DEF Short, Sent
  <2> QED
    BY <1>2, <1>3, <2>3
<1>7. ASSUME NEW f, NEW i, Adds(f, i)
      PROVE  AcksKept'
  <2>1. PICK s : Sent(s.tag > 0 /\ s.last % s.tag = 0, Cts(s.line, s.total, s.last + 1, f.msg))
    BY <1>7, AddsIs
  <2>2. PICK a : a = Cts(s.line, s.total, s.last + 1, f.msg)
    OBVIOUS
  <2>3. PICK y \in BOOLEAN : y <=> s.tag > 0 /\ s.last % s.tag = 0
    OBVIOUS
  <2>4. Sent(y, a) /\ a.kind # "ACK"
    BY <2>1, <2>2, <2>3 DEF Cts, Sent
  <2>5. delivered' = delivered
    BY <1>7, AddsIs
  <2> QED
    BY <1>2, <1>3, <2>4, <2>5
<1>8. ASSUME NEW f, NEW i, Completes(f, i)
      PROVE  AcksKept'
  <2>1. Received(f) /\ f \in DataFrames /\ DataIs(f) /\ i \in OpenTo(f.dst)
    BY <1>8, CompletesIs
  <2>2. PICK s : /\ Grown(s, f, i) /\ s.last = s.total
                 /\ delivered' = delivered \cup
                      {[pgn |-> s.line, dst |-> s.dst, total |-> s.total, got |-> s.got]}
                 /\ Sent(s.tag > 0, Short("ACK", s.line, f.msg))
    BY <1>8, CompletesIs
  <2>3. PICK a : a = Short("ACK", s.line, f.msg)
    OBVIOUS
  <2>4. PICK y \in BOOLEAN : y <=> s.tag > 0
    OBVIOUS
  <2>5. Sent(y, a) /\ a.msg = f.msg
    BY <2>2, <2>3, <2>4 DEF Short, Sent
  <2>6. PICK d : d = Delivery(s)
    OBVIOUS
  <2>7. d \in delivered' /\ delivered \subseteq delivered'
    BY <2>2, <2>6 DEF Delivery
  <2> SUFFICES ASSUME ~overlap', NEW m \in (1 .. MaxMsgs) \ misled',
                      \/ \E c \in Snd' : c.kind = "ACK" /\ c.msg = m
                      \/ ended'[m] = [how |-> "ACK", by |-> m]
               PROVE  Handed(m)'
    BY DEF AcksKept
  <2>8. m \in (1 .. MaxMsgs) \ misled /\ ended' = ended /\ ~overlap
    BY <1>1 DEF sender
  <2>9. CASE (\E c \in Snd : c.kind = "ACK" /\ c.msg = m) \/ ended[m] = [how |-> "ACK", by |-> m]
    <3>1. Handed(m)
      BY <2>8, <2>9 DEF AcksKept
    <3> QED
      BY <2>7, <3>1, HandedStays
  <2>10. CASE \E c \in Snd' : c \notin Snd /\ c.msg = m
    <3>1. y /\ f.msg = m
      BY <2>5, <2>10 DEF Sent
    <3>2. f.dst = Me
      BY <2>1, <2>2, <2>4, <3>1, TagIsToMe
    <3>3. WholeMessage(d) /\ d.got[1].msg = m /\ d.dst = Me
      BY <2>1, <2>2, <2>6, <2>8, <3>1, <3>2, CompletedIsWhole
    <3> QED
      BY <2>7, <3>3 DEF Handed, WholeMessage
  <2> QED
    BY <2>8, <2>9, <2>10
<1>9. ASSUME (\E f : Ignores(f)) \/ OtherSteps \/ UNCHANGED vars
      PROVE  AcksKept'
  <2>1. UNCHANGED toSnd => Snd' \subseteq Snd
    BY DEF Snd
  <2>2. Snd' \subseteq Snd /\ delivered' = delivered
    BY <1>9, <2>1, SlotTakenIs, SlotLeftIs, FrameLostIs, AnswerLostIs
       DEF Ignores, OtherSteps, Tick, receiver, vars
  <2> QED
    BY <1>2, <2>2
<1> QED
  BY <1>4, <1>5, <1>6, <1>7, <1>8, <1>9 DEF ReceiverSteps

-----------------------------------------------------------------------------
(* What a late answer does. *)

HarmOf(m) ==
  /\ ended[m].by # 0 /\ ended[m].by # m =>
       ended[m].by < m /\ \E g \in 1 .. ended[m].by : GivenUp(g)
  /\ m \in misled => \E g \in 1 .. m - 1 : GivenUp(g)

LEMMA HarmIs == OnlyLateAnswersHarm <=> \A m \in 1 .. MaxMsgs : HarmOf(m)
  BY DEF OnlyLateAnswersHarm, HarmOf

LEMMA GivenUpStays ==
  ASSUME SenderGrows, NEW g \in 1 .. MaxMsgs, GivenUp(g)
  PROVE  GivenUp(g)'
<1>1. ended[g] # Going
  BY DEF GivenUp, Going
<1> QED
  BY <1>1 DEF SenderGrows, GivenUp

LEMMA LateIs ==
  ASSUME Types, SenderKept, AnswersKept, CleanKept, NEW c \in Snd, pending.msg # 0,
         c.msg # pending.msg
  PROVE  /\ c.msg \in Nat /\ c.msg < pending.msg /\ c.msg \in 1 .. MaxMsgs
         /\ \E g \in 1 .. c.msg : GivenUp(g)
<1>1. PICK k \in Nat : k = Len(started) /\ k = pending.msg /\ k <= MaxMsgs /\ MaxMsgs \in Nat
  BY Sending
<1>2. c.msg \in 1 .. k
  BY <1>1 DEF AnswersKept, AnswerKept
<1>3. ~NoneGivenUp(c.msg)
  <2>1. NoneGivenUp(c.msg) => Over(c.msg)
    BY <1>1, <1>2 DEF CleanKept
  <2> QED
    BY <2>1 DEF Over
<1>4. c.msg \in Nat /\ c.msg < k /\ c.msg \in 1 .. MaxMsgs
  BY <1>1, <1>2
<1> QED
  BY <1>1, <1>3, <1>4 DEF NoneGivenUp

LEMMA MisledBy ==
  ASSUME Types, SenderSteps, NEW m \in misled', m \notin misled
  PROVE  pending.msg # 0 /\ m = pending.msg /\ \E c \in Snd : c.msg # pending.msg
<1>1. ASSUME NEW c, Asks(c) \/ AskFails(c)
      PROVE  pending.msg # 0 /\ m = pending.msg /\ \E a \in Snd : a.msg # pending.msg
  <2>1. AnswerTaken /\ c = Head(toSnd) /\ Misleads(c) /\ pending.msg # 0
    BY <1>1 DEF Asks, AskFails
  <2>2. c \in Snd
    BY <2>1, AnswerDropping DEF AnswerTaken
  <2>3. c.msg # pending.msg /\ m = pending.msg
    BY <2>1 DEF Misleads
  <2> QED
    BY <2>1, <2>2, <2>3
<1>2. ASSUME NEW p, NEW n, NEW d, Begins(p, n, d) \/ BeginFails(p, n, d)
      PROVE  FALSE
  BY <1>2 DEF Begins, BeginFails
<1>3. ASSUME NEW c, NEW how, EndedBy(c, how)
      PROVE  FALSE
  BY <1>3 DEF EndedBy
<1>4. ASSUME Broadcasts \/ TimesOut \/ AnswerIgnored
      PROVE  FALSE
  BY <1>4 DEF Broadcasts, TimesOut, AnswerIgnored
<1> QED
  BY <1>1, <1>2, <1>3, <1>4 DEF SenderSteps

LEMMA HarmSender ==
  ASSUME Types, SenderKept, AnswersKept, CleanKept, OnlyLateAnswersHarm, SenderSteps, SenderGrows
  PROVE  OnlyLateAnswersHarm'
<1> SUFFICES ASSUME NEW m \in 1 .. MaxMsgs
             PROVE  HarmOf(m)'
  BY DEF OnlyLateAnswersHarm, HarmOf
<1>1. HarmOf(m) /\ ended[m].by \in Nat /\ m \in Nat /\ MaxMsgs \in Nat
  BY HarmIs, Constants DEF Types
<1>2. ASSUME ended'[m].by # 0, ended'[m].by # m
      PROVE  ended'[m].by < m /\ \E g \in 1 .. ended'[m].by : GivenUp(g)'
  <2>1. CASE ended'[m] = ended[m]
    <3>1. PICK b \in Nat : b = ended[m].by
      BY <1>1
    <3>2. b < m /\ \E g \in 1 .. b : GivenUp(g)
      BY <1>1, <1>2, <2>1, <3>1 DEF HarmOf
    <3>3. PICK g \in 1 .. b : GivenUp(g)
      BY <3>2
    <3>4. g \in 1 .. MaxMsgs
      BY <1>1, <3>2, <3>3
    <3>5. GivenUp(g)'
      BY <3>3, <3>4, GivenUpStays
    <3> QED
      BY <2>1, <3>1, <3>2, <3>5
  <2>2. CASE ended'[m] # ended[m]
    <3>1. PICK c \in Snd : \E how : /\ EndedBy(c, how) /\ m = pending.msg
                                    /\ ended'[m] = [how |-> how, by |-> c.msg]
      BY <1>2, <2>2, SenderEnds
    <3>2. m = pending.msg /\ ended'[m].by = c.msg /\ pending.msg # 0
      BY <1>1, <3>1
    <3>3. /\ c.msg \in Nat /\ c.msg < m /\ c.msg \in 1 .. MaxMsgs
          /\ \E g \in 1 .. c.msg : GivenUp(g)
      BY <1>2, <3>2, LateIs
    <3>4. PICK g \in 1 .. c.msg : GivenUp(g)
      BY <3>3
    <3>5. g \in 1 .. MaxMsgs
      BY <1>1, <3>3, <3>4
    <3>6. GivenUp(g)'
      BY <3>4, <3>5, GivenUpStays
    <3> QED
      BY <3>2, <3>3, <3>6
  <2> QED
    BY <2>1, <2>2
<1>3. ASSUME m \in misled'
      PROVE  \E g \in 1 .. m - 1 : GivenUp(g)'
  <2>1. \E g \in 1 .. m - 1 : GivenUp(g)
    <3>1. CASE m \in misled
      BY <1>1, <3>1 DEF HarmOf
    <3>2. CASE m \notin misled
      <4>1. PICK c \in Snd : c.msg # pending.msg /\ m = pending.msg /\ pending.msg # 0
        BY <1>3, <3>2, MisledBy
      <4>2. c.msg \in Nat /\ c.msg < m /\ \E g \in 1 .. c.msg : GivenUp(g)
        BY <4>1, LateIs
      <4> QED
        BY <1>1, <4>2
    <3> QED
      BY <3>1, <3>2
  <2>2. PICK g \in 1 .. m - 1 : GivenUp(g)
    BY <2>1
  <2>3. g \in 1 .. MaxMsgs
    BY <1>1, <2>2
  <2> QED
    BY <2>2, <2>3, GivenUpStays
<1> QED
  BY <1>2, <1>3 DEF HarmOf

LEMMA HarmStep ==
  ASSUME Types, SenderKept, AnswersKept, CleanKept, OnlyLateAnswersHarm, SenderGrows,
         SenderSteps \/ UNCHANGED sender
  PROVE  OnlyLateAnswersHarm'
<1>1. CASE UNCHANGED sender
  BY <1>1 DEF OnlyLateAnswersHarm, GivenUp, sender
<1> QED
  BY <1>1, HarmSender

-----------------------------------------------------------------------------
(* What is on its way as long as no transfer was given up. *)

CleanOf(b) ==
  NoneGivenUp(b) => /\ b # pending.msg => Over(b)
                    /\ b = pending.msg /\ pending.dst = Me => Alone(b)
Still ==
  NoneGivenUp(Len(started)) /\ (pending.msg = 0 \/ pending.dst = Broadcast)
    => OpenTo(Me) = {} /\ toSnd = <<>>

LEMMA CleanIs ==
  ASSUME CleanKept
  PROVE  (\A b \in 1 .. Len(started) : CleanOf(b)) /\ Still
  BY DEF CleanKept, CleanOf, Still

LEMMA CleanFrom ==
  ASSUME \A b \in 1 .. Len(started') : CleanOf(b)', Still'
  PROVE  CleanKept'
  BY DEF CleanKept, CleanOf, Still

LEMMA NoAnswers ==
  ASSUME Types
  PROVE  (Snd = {} <=> toSnd = <<>>) /\ (toSnd = <<>> => Len(toSnd) = 0) /\ Len(toSnd) \in Nat
<1>1. PICK s \in Seq(AnswerFrames) : s = toSnd
  BY DEF Types
<1>2. DOMAIN s = 1 .. Len(s) /\ Len(s) \in Nat /\ (Len(s) = 0 <=> s = <<>>)
  OBVIOUS
<1>3. Elems(s) = {} <=> s = <<>>
  <2>1. CASE s = <<>>
    BY <1>2, <2>1 DEF Elems
  <2>2. CASE s # <<>>
    <3>1. 1 \in DOMAIN s
      BY <1>2, <2>2
    <3>2. s[1] \in Elems(s)
      BY <3>1 DEF Elems
    <3> QED
      BY <2>2, <3>2
  <2> QED
    BY <2>1, <2>2
<1> QED
  BY <1>1, <1>2, <1>3 DEF Snd

(* Fewer frames, answers and slots.                                        *)
MineShrinks ==
  /\ OpenTo(Me)' \subseteq OpenTo(Me)
  /\ \A i \in OpenTo(Me)' : buf'[i] = buf[i]

LEMMA AloneShrinks ==
  ASSUME UNCHANGED <<pending, nextSeq>>, Rcv' \subseteq Rcv, Snd' \subseteq Snd,
         Len(toSnd) \in Nat, Len(toSnd') \in Nat, Len(toSnd') <= Len(toSnd),
         toSnd = <<>> => toSnd' = <<>>, MineShrinks, NEW b, Alone(b)
  PROVE  Alone(b)'
<1>1. PICK t : t = TPCtsPackets(pending.total)
  OBVIOUS
<1>2. TPCtsPackets(pending.total)' = t
  BY <1>1
<1>3. Len(toSnd') <= 1
  <2>1. Len(toSnd) <= 1
    BY DEF Alone
  <2> QED
    BY <2>1
<1>4. \A f \in Rcv' : f.msg = b /\ ~DataIs(f) => nextSeq' = 0 /\ toSnd' = <<>> /\ OpenTo(Me)' = {}
  <2>1. \A f \in Rcv : f.msg = b /\ ~DataIs(f) => nextSeq = 0 /\ toSnd = <<>> /\ OpenTo(Me) = {}
    BY DEF Alone
  <2> QED
    BY <2>1 DEF MineShrinks
<1>5. \A i, j \in OpenTo(Me)' : i = j
  <2>1. \A i, j \in OpenTo(Me) : i = j
    BY DEF Alone
  <2> QED
    BY <2>1 DEF MineShrinks
<1>6. ASSUME NEW i \in OpenTo(Me)'
      PROVE  /\ buf'[i].line = pending'.pgn /\ buf'[i].total = pending'.total
             /\ \A f \in Rcv' : f.dst = Me => f.msg = b /\ DataIs(f) /\ f.seq > buf'[i].last
             /\ Window(nextSeq', buf'[i].last, t, pending'.total)
  <2>1. i \in OpenTo(Me) /\ buf'[i] = buf[i]
    BY DEF MineShrinks
  <2>2. /\ buf[i].line = pending.pgn /\ buf[i].total = pending.total
        /\ \A f \in Rcv : f.dst = Me => f.msg = b /\ DataIs(f) /\ f.seq > buf[i].last
        /\ Window(nextSeq, buf[i].last, t, pending.total)
    BY <1>1, <2>1 DEF Alone
  <2> QED
    BY <2>1, <2>2
<1>7. ASSUME NEW c \in Snd'
      PROVE  /\ c.kind = "CTS" =>
                  /\ c.pgn = pending'.pgn /\ c.next = nextSeq' + 1 /\ c.packets = t
                  /\ nextSeq' % t = 0
                  /\ \A i \in OpenTo(Me)' : buf'[i].last = nextSeq'
                  /\ \A f \in Rcv' : f.msg # b
             /\ c.kind # "CTS" => OpenTo(Me)' = {}
  <2>1. c \in Snd
    OBVIOUS
  <2>2. /\ c.kind = "CTS" =>
             /\ c.pgn = pending.pgn /\ c.next = nextSeq + 1 /\ c.packets = t
             /\ nextSeq % t = 0
             /\ \A i \in OpenTo(Me) : buf[i].last = nextSeq
             /\ \A f \in Rcv : f.msg # b
        /\ c.kind # "CTS" => OpenTo(Me) = {}
    BY <1>1, <2>1 DEF Alone
  <2>3. PICK p, n : p = pending /\ n = nextSeq
    OBVIOUS
  <2>4. pending' = p /\ nextSeq' = n
    BY <2>3
  <2> QED
    BY <2>2, <2>3, <2>4 DEF MineShrinks
<1> QED
  BY <1>2, <1>3, <1>4, <1>5, <1>6, <1>7 DEF Alone

LEMMA CleanShrinks ==
  ASSUME CleanKept, UNCHANGED <<pending, nextSeq, started, ended>>, Rcv' \subseteq Rcv,
         Snd' \subseteq Snd, Len(toSnd) \in Nat, Len(toSnd') \in Nat,
         Len(toSnd') <= Len(toSnd), toSnd = <<>> => toSnd' = <<>>, MineShrinks
  PROVE  CleanKept'
<1>1. ASSUME NEW b, NoneGivenUp(b)'
      PROVE  NoneGivenUp(b)
  BY <1>1 DEF NoneGivenUp, GivenUp
<1>2. ASSUME NEW b, Over(b)
      PROVE  Over(b)'
  BY <1>2 DEF Over, MineShrinks
<1>3. ASSUME NEW b \in 1 .. Len(started')
      PROVE  CleanOf(b)'
  <2>1. CleanOf(b)
    BY CleanIs
  <2> QED
    BY <1>1, <1>2, <2>1, AloneShrinks DEF CleanOf
<1>4. Still'
  <2>1. Still
    BY CleanIs
  <2>2. NoneGivenUp(Len(started))' => NoneGivenUp(Len(started))
    BY DEF NoneGivenUp, GivenUp
  <2> QED
    BY <2>1, <2>2 DEF Still, MineShrinks
<1> QED
  BY <1>3, <1>4, CleanFrom

(* A frame for the receiver and the answer to it.                          *)
LEMMA CleanReceived ==
  ASSUME Types, SenderKept, FramesKept, CleanKept, NEW f, Received(f), f.dst = Me,
         NEW yes, NEW a, Sent(yes, a), yes => a.msg = f.msg,
         ~DataIs(f) \/ OpenTo(Me) # {},
         f.msg = pending.msg /\ Alone(f.msg) => Alone(f.msg)'
  PROVE  CleanKept'
<1>1. PICK k \in Nat : k = Len(started)
  BY Sending
<1>2. PICK m \in 1 .. k : m = f.msg /\ started[m].dst = Me
  BY <1>1 DEF Received, FrameKept
<1>3. UNCHANGED <<pending, nextSeq, started, ended>>
  BY DEF Received, sender
<1>4. \A g \in Rcv' : g.msg \in Nat /\ g.msg >= m
  <2> SUFFICES ASSUME NEW g \in Rcv'
               PROVE  g.msg \in Nat /\ g.msg >= m
    OBVIOUS
  <2>1. Before(f, g) /\ g.msg \in Nat
    BY Queued, FrameIs DEF Received
  <2> QED
    BY <1>2, <2>1 DEF Before
<1>5. ASSUME NEW b, NoneGivenUp(b)'
      PROVE  NoneGivenUp(b)
  BY <1>3, <1>5 DEF NoneGivenUp, GivenUp
<1>6. ASSUME NEW b \in 1 .. k, NoneGivenUp(b), b >= m
      PROVE  m = k /\ pending.msg = k /\ pending.dst = Me /\ Alone(k)
  <2>1. NoneGivenUp(m)
    BY <1>6 DEF NoneGivenUp
  <2>2. CleanOf(m)
    BY <1>1, <1>2, CleanIs
  <2>3. ~Over(m)
    BY <1>2 DEF Over, Received
  <2>4. m = pending.msg
    BY <2>1, <2>2, <2>3 DEF CleanOf
  <2>5. m # 0 /\ m = k
    BY <1>1, <1>2, <2>4, Sending
  <2>6. pending.dst = Me
    <3>1. started[m] = [pgn |-> pending.pgn, total |-> pending.total, dst |-> pending.dst]
      BY <2>4, <2>5 DEF SenderKept
    <3> QED
      BY <1>2, <3>1
  <2> QED
    BY <2>1, <2>2, <2>4, <2>5, <2>6 DEF CleanOf
<1>7. ASSUME NEW b \in 1 .. k, NoneGivenUp(b), b < m
      PROVE  b # pending.msg /\ Over(b)'
  <2>1. b # pending.msg
    BY <1>1, <1>2, <1>7, Sending DEF SenderKept
  <2>2. Over(b)
    BY <1>1, <1>7, <2>1, CleanIs DEF CleanOf
  <2>3. \A c \in Snd' : c.msg # b
    BY <1>2, <1>7, <2>2 DEF Over, Sent
  <2>4. \A g \in Rcv' : g.msg # b
    BY <1>4, <1>7
  <2> QED
    BY <2>1, <2>3, <2>4 DEF Over
<1>8. ASSUME NEW b \in 1 .. Len(started')
      PROVE  CleanOf(b)'
  <2> SUFFICES ASSUME NoneGivenUp(b)'
               PROVE  /\ b # pending.msg => Over(b)'
                      /\ b = pending.msg /\ pending.dst = Me => Alone(b)'
    BY <1>3 DEF CleanOf
  <2>1. b \in 1 .. k /\ NoneGivenUp(b)
    BY <1>1, <1>3, <1>5
  <2>2. CASE b < m
    BY <1>7, <2>1, <2>2
  <2>3. CASE b >= m
    <3>1. m = k /\ pending.msg = k /\ Alone(k)
      BY <1>6, <2>1, <2>3
    <3>2. b = k
      BY <2>1, <2>3, <3>1
    <3> QED
      BY <1>2, <3>1, <3>2
  <2> QED
    BY <1>2, <2>1, <2>2, <2>3
<1>9. Still'
  <2> SUFFICES ASSUME NoneGivenUp(Len(started))'
               PROVE  pending.msg # 0 /\ pending.dst # Broadcast
    BY <1>3 DEF Still
  <2>1. NoneGivenUp(k)
    BY <1>1, <1>3 DEF NoneGivenUp, GivenUp
  <2>2. k \in 1 .. k /\ k >= m
    BY <1>2
  <2> QED
    BY <1>2, <1>6, <2>1, <2>2 DEF Me, Broadcast
<1> QED
  BY <1>8, <1>9, CleanFrom

(* The message being sent, when a frame of it is received. *)

LEMMA RestOfIt ==
  ASSUME Types, SenderKept, FramesKept, NEW f, Received(f), f.dst = Me, f.msg = pending.msg
  PROVE  /\ pending.dst = Me /\ pending.total \in Nat /\ pending.total >= 1 /\ nextSeq \in Nat
         /\ ~DataIs(f) => f.pgn = pending.pgn /\ f.total = pending.total
         /\ DataIs(f) => f.seq \in Nat /\ f.seq >= 1 /\ f.seq <= nextSeq
         /\ \A g \in Rcv' :
              /\ g.msg = f.msg /\ DataIs(g) /\ g.dst = Me /\ g.seq \in Nat /\ g.seq >= 1
              /\ g.seq <= nextSeq /\ (DataIs(f) => f.seq < g.seq)
<1>1. PICK k \in Nat : k = Len(started)
  BY Sending
<1>2. /\ f.msg \in 1 .. k /\ started[f.msg].dst = Me
      /\ ~DataIs(f) => f.pgn = started[f.msg].pgn /\ f.total = started[f.msg].total
      /\ DataIs(f) => f.seq \in 1 .. started[f.msg].total /\ f.seq <= nextSeq
      /\ f \in Frames
  BY <1>1 DEF Received, FrameKept
<1>3. /\ f.msg = k /\ pending.msg # 0 /\ pending.total \in Nat /\ pending.total >= 1
      /\ nextSeq \in Nat
  BY <1>1, <1>2, Sending
<1>4. started[f.msg] = [pgn |-> pending.pgn, total |-> pending.total, dst |-> pending.dst]
  BY <1>3 DEF SenderKept
<1>5. pending.dst = Me /\ (~DataIs(f) => f.pgn = pending.pgn /\ f.total = pending.total)
  BY <1>2, <1>4
<1>6. DataIs(f) => f.seq \in Nat /\ f.seq >= 1 /\ f.seq <= nextSeq
  <2>1. started[f.msg].total \in Nat
    BY <1>3, <1>4
  <2> QED
    BY <1>2, <2>1
<1>7. ASSUME NEW g \in Rcv'
      PROVE  /\ g.msg = f.msg /\ DataIs(g) /\ g.dst = Me /\ g.seq \in Nat /\ g.seq >= 1
             /\ g.seq <= nextSeq /\ (DataIs(f) => f.seq < g.seq)
  <2>1. Before(f, g) /\ g \in Rcv
    BY DEF Received
  <2>2. g \in Frames /\ FrameKept(g)
    BY <2>1, Queued DEF FramesKept
  <2>3. g.msg \in 1 .. k /\ g.dst = started[g.msg].dst
    BY <1>1, <2>2 DEF FrameKept
  <2>4. g.msg = f.msg /\ DataIs(g) /\ (DataIs(f) => f.seq < g.seq)
    BY <1>2, <1>3, <2>1, <2>3 DEF Before
  <2>5. g.seq \in Nat /\ g.seq \in 1 .. started[g.msg].total /\ g.seq <= nextSeq
    BY <2>2, <2>4, FrameIs DEF FrameKept
  <2> QED
    BY <1>2, <2>3, <2>4, <2>5
<1> QED
  BY <1>3, <1>5, <1>6, <1>7

LEMMA NobodyAnswers ==
  ASSUME Types, NEW f, f \in Rcv, NEW b, b = f.msg, Alone(b), DataIs(f) => OpenTo(Me) # {}
  PROVE  Snd = {} /\ Len(toSnd) = 0
<1>1. CASE ~DataIs(f)
  BY <1>1, NoAnswers DEF Alone
<1>2. CASE DataIs(f)
  <2>1. OpenTo(Me) # {}
    BY <1>2
  <2>2. \A c \in Snd : /\ c.kind = "CTS" => \A g \in Rcv : g.msg # b
                       /\ c.kind # "CTS" => OpenTo(Me) = {}
    BY DEF Alone
  <2>3. Snd = {}
    BY <2>1, <2>2
  <2> QED
    BY <2>3, NoAnswers
<1> QED
  BY <1>1, <1>2

LEMMA SentIs ==
  ASSUME NEW yes, NEW a, Sent(yes, a), Snd = {}, Len(toSnd) = 0
  PROVE  Len(toSnd') <= 1 /\ \A c \in Snd' : yes /\ c = a
<1>1. CASE yes
  <2>1. Snd' = Snd \cup {a} /\ Len(toSnd') = Len(toSnd) + 1
    BY <1>1 DEF Sent
  <2>2. Len(toSnd') = 1
    BY <2>1
  <2> QED
    BY <1>1, <2>1, <2>2
<1>2. CASE ~yes
  <2>1. toSnd' = toSnd /\ Snd' = Snd
    BY <1>2 DEF Sent
  <2>2. Len(toSnd') = 0
    BY <2>1
  <2> QED
    BY <2>1, <2>2
<1> QED
  BY <1>1, <1>2

(* The transfer is refused, broken off or complete.                        *)
LEMMA AloneEnds ==
  ASSUME Types, SenderKept, FramesKept, NEW f, Received(f), f.dst = Me, f.msg = pending.msg,
         NEW b, b = f.msg, Alone(b), DataIs(f) => OpenTo(Me) # {},
         NEW yes, NEW a, Sent(yes, a), a.kind # "CTS", OpenTo(Me)' = {}
  PROVE  Alone(b)'
<1>1. Snd = {} /\ Len(toSnd) = 0
  BY NobodyAnswers DEF Received
<1>2. Len(toSnd') <= 1 /\ \A c \in Snd' : c.kind # "CTS"
  BY <1>1, SentIs
<1>3. \A g \in Rcv' : DataIs(g)
  BY RestOfIt
<1> QED
  BY <1>2, <1>3 DEF Alone

LEMMA AloneOpens ==
  ASSUME Types, SenderKept, FramesKept, Ordered(toRcv), NEW f, NEW i, Opens(f, i), f.dst = Me,
         f.msg = pending.msg, NEW b, b = f.msg, Alone(b)
  PROVE  Alone(b)'
<1>1. /\ Received(f) /\ f \in OpenFrames /\ ~DataIs(f)
      /\ Sent(f.kind = "RTS", Cts(f.pgn, f.total, 1, f.msg))
  BY OpensIs
<1>2. f \in Rcv /\ UNCHANGED sender
  BY <1>1 DEF Received
<1>3. nextSeq = 0 /\ OpenTo(Me) = {} /\ Snd = {} /\ Len(toSnd) = 0
  <2>1. nextSeq = 0 /\ OpenTo(Me) = {}
    BY <1>1, <1>2 DEF Alone
  <2> QED
    BY <1>1, <1>2, <2>1, NobodyAnswers
<1>4. f.pgn = pending.pgn /\ f.total = pending.total /\ pending.total \in Nat
  BY <1>1, RestOfIt
<1>5. Rcv' = {}
  BY <1>1, <1>3, RestOfIt
<1>6. PICK s : s = NewSlot(f)
  OBVIOUS
<1>7. s.line = pending.pgn /\ s.total = pending.total /\ s.last = 0
  BY <1>1, <1>4, <1>6, NewSlotIs, NowIs
<1>8. OpenTo(Me)' = {i} /\ buf'[i] = s
  BY <1>3, <1>6, OpensOnly
<1>9. PICK t \in Nat \ {0} : t = TPCtsPackets(pending.total)
  BY <1>4, CtsPackets
<1>10. 0 % t = 0
  OBVIOUS
<1>11. \A n : n \in Nat => Window(0, 0, t, n)
  BY <1>10 DEF Window
<1>12. UNCHANGED <<pending, nextSeq>>
  BY <1>2 DEF sender
<1>13. PICK a : a = Cts(f.pgn, f.total, 1, f.msg)
  OBVIOUS
<1>14. Sent(f.kind = "RTS", a) /\ a.pgn = pending.pgn /\ a.next = 0 + 1 /\ a.packets = t
       /\ a.kind = "CTS"
  BY <1>1, <1>4, <1>9, <1>13 DEF Cts
<1>15. Len(toSnd') <= 1 /\ \A c \in Snd' : c = a
  BY <1>3, <1>14, SentIs
<1>16. TPCtsPackets(pending.total)' = t
  BY <1>9, <1>12
<1>17. nextSeq' = 0 /\ pending' = pending
  BY <1>3, <1>12
<1>18. Window(nextSeq', buf'[i].last, t, pending'.total)
  BY <1>4, <1>7, <1>8, <1>11, <1>17
<1>19. ASSUME NEW c \in Snd'
       PROVE  /\ c.kind = "CTS" /\ c.pgn = pending'.pgn /\ c.next = nextSeq' + 1 /\ c.packets = t
              /\ nextSeq' % t = 0
              /\ \A j \in OpenTo(Me)' : buf'[j].last = nextSeq'
  BY <1>7, <1>8, <1>10, <1>14, <1>15, <1>17
<1>20. \A j \in OpenTo(Me)' : /\ j = i /\ buf'[j].line = pending'.pgn
                              /\ buf'[j].total = pending'.total
  BY <1>7, <1>8, <1>17
<1> QED
  BY <1>5, <1>15, <1>16, <1>18, <1>19, <1>20 DEF Alone

LEMMA NextMultiple ==
  ASSUME NEW t \in Nat \ {0}, NEW x \in Nat, NEW y \in Nat, x % t = 0, y % t = 0,
         x < y, y <= x + t
  PROVE  y = x + t
<1>1. PICK q \in Int : x = t * q
  <2>1. x = (t * (x \div t)) + (x % t) /\ x \div t \in Int
    OBVIOUS
  <2> QED
    BY <2>1
<1>2. PICK r \in Int : y = t * r
  <2>1. y = (t * (y \div t)) + (y % t) /\ y \div t \in Int
    OBVIOUS
  <2> QED
    BY <2>1
<1>3. PICK d \in Int : d = r - q
  OBVIOUS
<1>4. y - x = t * d
  BY <1>1, <1>2, <1>3
<1>5. d >= 1
  <2> SUFFICES ASSUME d <= 0
               PROVE  FALSE
    BY <1>3
  <2>1. t * d <= 0
    OBVIOUS
  <2> QED
    BY <1>4, <2>1
<1>6. t * d >= t
  BY <1>5
<1> QED
  BY <1>4, <1>6

LEMMA WindowFilled ==
  ASSUME NEW n \in Nat, NEW l \in Nat, NEW t \in Nat \ {0}, NEW total \in Nat,
         Window(n, l, t, total), l + 1 <= n
  PROVE  /\ Window(n, l + 1, t, total)
         /\ (l + 1) % t = 0 => n = l + 1
<1>1. PICK base \in 0 .. n : /\ base % t = 0 /\ base <= l /\ l <= n
                             /\ n = base \/ n = base + t \/ (n = total /\ n <= base + t)
  BY DEF Window
<1>2. base \in Nat /\ base <= l + 1 /\ base < l + 1 /\ n <= base + t
  BY <1>1
<1>3. Window(n, l + 1, t, total)
  BY <1>1, <1>2 DEF Window
<1>4. ASSUME (l + 1) % t = 0
      PROVE  n = l + 1
  <2>1. PICK x \in Nat : x = l + 1
    OBVIOUS
  <2>2. x % t = 0 /\ base % t = 0 /\ base < x /\ x <= base + t
    BY <1>1, <1>2, <1>4, <2>1
  <2>3. x = base + t
    BY <1>2, <2>2, NextMultiple
  <2> QED
    BY <1>2, <2>1, <2>3
<1> QED
  BY <1>3, <1>4

LEMMA AloneAdds ==
  ASSUME Types, SenderKept, FramesKept, Ordered(toRcv), SlotsKept, NEW f, NEW i, Adds(f, i),
         f.dst = Me, f.msg = pending.msg, NEW b, b = f.msg, Alone(b)
  PROVE  Alone(b)'
<1>1. Received(f) /\ f \in DataFrames /\ DataIs(f) /\ i \in OpenTo(Me)
  BY AddsIs
<1>2. f \in Rcv /\ UNCHANGED sender
  BY <1>1 DEF Received
<1>3. PICK s : /\ Grown(s, f, i) /\ SlotSet(i, s) /\ \A d : OpenNow(i, s, d)
               /\ Sent(s.tag > 0 /\ s.last % s.tag = 0, Cts(s.line, s.total, s.last + 1, f.msg))
  BY AddsIs
<1>4. PICK l \in Nat, n \in Nat, total \in Nat, t \in Nat \ {0} :
        l = buf[i].last /\ n = nextSeq /\ total = pending.total /\ t = TPCtsPackets(total)
  BY <1>1, RestOfIt, OpenSlot, CtsPackets
<1>5. /\ \A j \in OpenTo(Me) : j = i
      /\ buf[i].line = pending.pgn /\ buf[i].total = total /\ Window(n, l, t, total)
  BY <1>1, <1>4 DEF Alone
<1>6. buf[i].tag = t
  BY <1>1, <1>4, <1>5, OpenSlot
<1>7. s.line = pending.pgn /\ s.total = total /\ s.tag = t /\ s.last = l + 1 /\ f.seq = l + 1
  BY <1>4, <1>5, <1>6, <1>3 DEF Grown
<1>8. OpenTo(Me)' = OpenTo(Me) /\ buf'[i] = s
  BY <1>1, <1>3, AddsOnly
<1>9. l + 1 <= n
  BY <1>1, <1>4, <1>7, RestOfIt
<1>10. Window(n, l + 1, t, total) /\ ((l + 1) % t = 0 => n = l + 1)
  BY <1>4, <1>5, <1>9, WindowFilled
<1>11. UNCHANGED <<pending, nextSeq>>
  BY <1>2 DEF sender
<1>12. \A g \in Rcv' : g.msg = b /\ DataIs(g) /\ g.seq \in Nat /\ g.seq > l + 1 /\ g.seq <= n
  BY <1>1, <1>4, <1>7, RestOfIt
<1>13. Snd = {} /\ Len(toSnd) = 0
  BY <1>1, <1>2, NobodyAnswers
<1>14. PICK a : a = Cts(s.line, s.total, s.last + 1, f.msg)
  OBVIOUS
<1>15. PICK y \in BOOLEAN : y <=> s.tag > 0 /\ s.last % s.tag = 0
  OBVIOUS
<1>16. Sent(y, a)
  BY <1>3, <1>14, <1>15 DEF Sent
<1>17. a.kind = "CTS" /\ a.pgn = pending.pgn /\ a.next = (l + 1) + 1 /\ a.packets = t
  BY <1>4, <1>7, <1>14 DEF Cts
<1>18. y => (l + 1) % t = 0 /\ n = l + 1
  BY <1>7, <1>10, <1>15
<1>19. Len(toSnd') <= 1 /\ \A c \in Snd' : y /\ c = a
  BY <1>13, <1>16, SentIs
<1>20. TPCtsPackets(pending.total)' = t /\ nextSeq' = n /\ pending' = pending
  BY <1>4, <1>11
<1>21. ASSUME NEW j \in OpenTo(Me)'
       PROVE  /\ j = i /\ buf'[j].line = pending'.pgn /\ buf'[j].total = pending'.total
              /\ Window(nextSeq', buf'[j].last, t, pending'.total)
              /\ \A g \in Rcv' : g.msg = b /\ DataIs(g) /\ g.seq > buf'[j].last
  <2>1. j = i /\ buf'[j] = s
    BY <1>5, <1>8
  <2> QED
    BY <1>4, <1>7, <1>10, <1>12, <1>20, <2>1
<1>22. ASSUME NEW c \in Snd'
       PROVE  /\ c.kind = "CTS" /\ c.pgn = pending'.pgn /\ c.next = nextSeq' + 1 /\ c.packets = t
              /\ nextSeq' % t = 0
              /\ \A j \in OpenTo(Me)' : buf'[j].last = nextSeq'
              /\ Rcv' = {}
  <2>1. c = a /\ n = l + 1 /\ (l + 1) % t = 0
    BY <1>18, <1>19
  <2>2. Rcv' = {}
    BY <1>12, <2>1
  <2>3. \A j \in OpenTo(Me)' : buf'[j].last = nextSeq'
    BY <1>7, <1>8, <1>20, <1>21, <2>1
  <2> QED
    BY <1>17, <1>20, <2>1, <2>2, <2>3
<1>23. \A g \in Rcv' : DataIs(g)
  BY <1>12
<1> QED
  BY <1>19, <1>20, <1>21, <1>22, <1>23 DEF Alone

(* Frames for all leave the answers and the receiver's own slots alone.    *)
LEMMA CleanRest ==
  ASSUME Types, SenderKept, FramesKept, Ordered(toRcv), SlotsKept, CleanKept, Types',
         UNCHANGED sender, Rcv' \subseteq Rcv, ReceiverSteps \/ OtherSteps \/ UNCHANGED vars
  PROVE  CleanKept'
<1>1. UNCHANGED <<pending, nextSeq, started, ended>>
  BY DEF sender
<1>2. Len(toSnd) \in Nat /\ Len(toSnd') \in Nat
  BY DEF Types
<1>3. ASSUME UNCHANGED toSnd, MineShrinks
      PROVE  CleanKept'
  <2>1. Snd' \subseteq Snd /\ Len(toSnd') = Len(toSnd)
    BY <1>3 DEF Snd
  <2> QED
    BY <1>1, <1>2, <1>3, <2>1, CleanShrinks
<1>4. OpenShrinks => MineShrinks
  BY DEF OpenShrinks, MineShrinks
<1>5. ASSUME NEW f \in Frames, f.dst # Me, NEW a, Sent(f.kind = "RTS", a), FrameKept(f), ~DataIs(f)
      PROVE  UNCHANGED toSnd
  <2>1. f.kind # "RTS"
    BY <1>5, FrameIs, RtsIsToMe
  <2> QED
    BY <1>5, <2>1 DEF Sent
<1>6. ASSUME NEW d, NEW i \in OpenTo(d), NEW s, NEW f, Grown(s, f, i) \/ s = buf[i], d # Me
      PROVE  ~(s.tag > 0)
  BY <1>6, TagIsToMe
<1>7. ASSUME NEW f, TurnsAway(f)
      PROVE  CleanKept'
  <2>1. PICK a : a = Short("Abort", f.pgn, f.msg)
    OBVIOUS
  <2>2. /\ Received(f) /\ ~DataIs(f) /\ Sent(f.kind = "RTS", a)
        /\ a.kind # "CTS" /\ a.msg = f.msg
    BY <1>7, <2>1, TurnsAwayIs DEF Short
  <2>3. OpenShrinks
    BY <1>7, MostlyShrinks
  <2>4. CASE f.dst # Me
    BY <1>3, <1>4, <1>5, <2>2, <2>3, <2>4 DEF Received
  <2>5. CASE f.dst = Me
    <3>1. ASSUME f.msg = pending.msg, Alone(f.msg)
          PROVE  Alone(f.msg)'
      <4>1. OpenTo(Me) = {}
        BY <2>2, <3>1 DEF Alone, Received
      <4>2. OpenTo(Me)' = {}
        BY <2>3, <4>1 DEF OpenShrinks
      <4> QED
        BY <2>2, <2>5, <3>1, <4>2, AloneEnds
    <3> QED
      BY <2>2, <2>5, <3>1, CleanReceived
  <2> QED
    BY <2>4, <2>5
<1>8. ASSUME NEW f, NEW i, Opens(f, i)
      PROVE  CleanKept'
  <2>1. PICK a : a = Cts(f.pgn, f.total, 1, f.msg)
    OBVIOUS
  <2>2. Received(f) /\ ~DataIs(f) /\ Sent(f.kind = "RTS", a) /\ a.msg = f.msg
    BY <1>8, <2>1, OpensIs DEF Cts
  <2>3. CASE f.dst # Me
    <3>1. /\ OpenTo(Me)' = OpenTo(Me) \ {i}
          /\ \A j \in Slots : j # i => buf'[j] = buf[j]
      BY <1>8, <2>3, OpensOnly
    <3>2. OpenTo(Me) \subseteq Slots
      BY DEF OpenTo, OpenFrom
    <3>3. MineShrinks
      BY <3>1, <3>2 DEF MineShrinks
    <3> QED
      BY <1>3, <1>5, <2>2, <2>3, <3>3 DEF Received
  <2>4. CASE f.dst = Me
    BY <1>8, <2>2, <2>4, AloneOpens, CleanReceived
  <2> QED
    BY <2>3, <2>4
<1>9. ASSUME NEW f, NEW i, Breaks(f, i) \/ Completes(f, i)
      PROVE  CleanKept'
  <2>1. PICK yes, a :
          /\ Received(f) /\ DataIs(f) /\ i \in OpenTo(f.dst) /\ Sent(yes, a)
          /\ a.kind # "CTS" /\ a.msg = f.msg /\ (f.dst # Me => ~yes)
          /\ SlotSet(i, Free) /\ \A d : OpenNow(i, Free, d)
    <3>1. CASE Breaks(f, i)
      <4>1. PICK a : a = Short("Abort", buf[i].line, f.msg)
        OBVIOUS
      <4>2. PICK y \in BOOLEAN : y <=> buf[i].tag > 0
        OBVIOUS
      <4>3. Sent(y, a) /\ a.kind # "CTS" /\ a.msg = f.msg
        BY <3>1, <4>1, <4>2, BreaksIs DEF Short, Sent
      <4>4. /\ Received(f) /\ DataIs(f) /\ i \in OpenTo(f.dst)
            /\ SlotSet(i, Free) /\ \A d : OpenNow(i, Free, d)
        BY <3>1, BreaksIs
      <4>5. f.dst # Me => ~y
        BY <1>6, <4>2, <4>4
      <4> QED
        BY <4>3, <4>4, <4>5
    <3>2. CASE Completes(f, i)
      <4>1. PICK s : Grown(s, f, i) /\ Sent(s.tag > 0, Short("ACK", s.line, f.msg))
        BY <3>2, CompletesIs
      <4>2. PICK a : a = Short("ACK", s.line, f.msg)
        OBVIOUS
      <4>3. PICK y \in BOOLEAN : y <=> s.tag > 0
        OBVIOUS
      <4>4. Sent(y, a) /\ a.kind # "CTS" /\ a.msg = f.msg
        BY <4>1, <4>2, <4>3 DEF Short, Sent
      <4>5. /\ Received(f) /\ DataIs(f) /\ i \in OpenTo(f.dst)
            /\ SlotSet(i, Free) /\ \A d : OpenNow(i, Free, d)
        BY <3>2, CompletesIs
      <4>6. f.dst # Me => ~y
        BY <1>6, <4>1, <4>3, <4>5
      <4> QED
        BY <4>4, <4>5, <4>6
    <3> QED
      BY <1>9, <3>1, <3>2
  <2>2. OpenShrinks
    BY <1>9, MostlyShrinks
  <2>3. CASE f.dst # Me
    BY <1>3, <1>4, <2>1, <2>2, <2>3 DEF Sent
  <2>4. CASE f.dst = Me
    <3>1. ASSUME f.msg = pending.msg, Alone(f.msg)
          PROVE  Alone(f.msg)'
      <4>1. \A j \in OpenTo(Me) : j = i
        BY <2>1, <2>4, <3>1 DEF Alone
      <4>2. OpenNow(i, Free, Me) /\ Free.free
        BY <2>1, FreeIsNoTransfer, NowIs
      <4>3. OpenTo(Me)' = {}
        BY <4>1, <4>2 DEF OpenNow
      <4> QED
        BY <2>1, <2>4, <3>1, <4>3, AloneEnds
    <3> QED
      BY <2>1, <2>4, <3>1, CleanReceived
  <2> QED
    BY <2>3, <2>4
<1>10. ASSUME NEW f, NEW i, Adds(f, i)
       PROVE  CleanKept'
  <2>1. Received(f) /\ DataIs(f) /\ i \in OpenTo(f.dst)
    BY <1>10, AddsIs
  <2>2. PICK s : /\ Grown(s, f, i) /\ SlotSet(i, s) /\ \A d : OpenNow(i, s, d)
                 /\ Sent(s.tag > 0 /\ s.last % s.tag = 0, Cts(s.line, s.total, s.last + 1, f.msg))
    BY <1>10, AddsIs
  <2>3. PICK a : a = Cts(s.line, s.total, s.last + 1, f.msg)
    OBVIOUS
  <2>4. PICK y \in BOOLEAN : y <=> s.tag > 0 /\ s.last % s.tag = 0
    OBVIOUS
  <2>5. Sent(y, a) /\ a.msg = f.msg
    BY <2>2, <2>3, <2>4 DEF Sent, Cts
  <2>6. CASE f.dst # Me
    <3>1. ~y
      BY <1>6, <2>1, <2>2, <2>4, <2>6
    <3>2. UNCHANGED toSnd
      BY <2>5, <3>1 DEF Sent
    <3>3. OpenTo(Me)' = OpenTo(Me) /\ \A j \in Slots : j # i => buf'[j] = buf[j]
      BY <2>1, <2>2, AddsOnly
    <3>4. \A j \in OpenTo(Me) : j \in Slots /\ j # i
      BY <2>1, <2>6 DEF OpenTo, OpenFrom
    <3>5. MineShrinks
      BY <3>3, <3>4 DEF MineShrinks
    <3> QED
      BY <1>3, <3>2, <3>5
  <2>7. CASE f.dst = Me
    <3>1. f.msg = pending.msg /\ Alone(f.msg) => Alone(f.msg)'
      BY <1>10, <2>7, AloneAdds
    <3> QED
      BY <2>1, <2>5, <2>7, <3>1, CleanReceived
  <2> QED
    BY <2>6, <2>7
<1>11. ASSUME NEW f, Ignores(f)
       PROVE  CleanKept'
  <2>1. UNCHANGED toSnd /\ OpenShrinks
    BY <1>11, MostlyShrinks DEF Ignores
  <2> QED
    BY <1>3, <1>4, <2>1
<1>12. CASE OtherSteps
  <2>1. OpenShrinks
    BY <1>12, MostlyShrinks
  <2>2. CASE AnswerLost
    <3>1. Snd' \subseteq Snd /\ Len(toSnd') = Len(toSnd) - 1 /\ toSnd # <<>>
      BY <2>2, AnswerLostIs
    <3>2. Len(toSnd') <= Len(toSnd)
      BY <1>2, <3>1
    <3> QED
      BY <1>1, <1>2, <1>4, <2>1, <3>1, <3>2, CleanShrinks
  <2>3. CASE ~AnswerLost
    <3>1. UNCHANGED toSnd
      BY <1>12, <2>3, SlotTakenIs, SlotLeftIs, FrameLostIs DEF OtherSteps, Tick
    <3> QED
      BY <1>3, <1>4, <2>1, <3>1
  <2> QED
    BY <2>2, <2>3
<1>13. CASE UNCHANGED vars
  <2>1. UNCHANGED toSnd /\ OpenShrinks
    BY <1>13, SameSlots DEF vars, receiver
  <2> QED
    BY <1>3, <1>4, <2>1
<1> QED
  BY <1>7, <1>8, <1>9, <1>10, <1>11, <1>12, <1>13 DEF ReceiverSteps

(* The sender's steps. *)

LEMMA NoneBefore ==
  ASSUME Types, SenderGrows, NEW b \in 0 .. MaxMsgs, NoneGivenUp(b)'
  PROVE  NoneGivenUp(b)
<1> SUFFICES ASSUME NEW g \in 1 .. b, GivenUp(g)
             PROVE  FALSE
  BY DEF NoneGivenUp
<1>1. g \in 1 .. MaxMsgs
  BY Constants
<1>2. GivenUp(g)'
  BY <1>1, GivenUpStays
<1> QED
  BY <1>2 DEF NoneGivenUp

(* What is over stays over while the sender sends for a later message.     *)
LEMMA OverStays ==
  ASSUME UNCHANGED receiver, Snd' \subseteq Snd, NEW b, Over(b),
         \A f \in Rcv' : f \in Rcv \/ f.msg # b
  PROVE  Over(b)'
  BY DEF Over, OpenTo, receiver

LEMMA LaterFrames ==
  ASSUME Types, SenderKept, NewFrames, NEW b \in 1 .. Len(started), b # pending.msg
  PROVE  \A f \in Rcv' : f \in Rcv \/ f.msg # b
<1>1. PICK k \in Nat : k = Len(started)
  BY Sending
<1> SUFFICES ASSUME NEW f \in Rcv'
             PROVE  f \in Rcv \/ f.msg # b
  OBVIOUS
<1>2. CASE NewData(f)
  BY <1>2 DEF NewData
<1>3. CASE NewOpen(f)
  <2>1. f.msg = k + 1
    BY <1>1, <1>3 DEF NewOpen
  <2> QED
    BY <1>1, <2>1
<1> QED
  BY <1>2, <1>3 DEF NewFrames

LEMMA OthersOver ==
  ASSUME Types, SenderKept, CleanKept, SenderGrows, NewFrames,
         UNCHANGED receiver, Snd' \subseteq Snd,
         NEW b \in 1 .. Len(started), b # pending.msg, NoneGivenUp(b)'
  PROVE  Over(b)'
<1>1. b \in 0 .. MaxMsgs
  BY Sending
<1>2. NoneGivenUp(b)
  BY <1>1, NoneBefore
<1>3. Over(b)
  BY <1>2, CleanIs DEF CleanOf
<1> QED
  BY <1>3, LaterFrames, OverStays

(* Another transfer was given up: what comes before it is over.            *)
LEMMA CleanGivenUp ==
  ASSUME Types, SenderKept, CleanKept, SenderGrows, NewFrames, UNCHANGED receiver,
         Snd' \subseteq Snd, pending' = None, NEW m, m = Len(started'), m \in 1 .. MaxMsgs,
         GivenUp(m)',
         \/ m = Len(started) /\ pending.msg = m
         \/ m = Len(started) + 1 /\ pending.msg = 0
  PROVE  CleanKept'
<1>1. PICK k \in Nat : k = Len(started)
  BY Sending
<1>2. ASSUME NEW b \in 1 .. m, NoneGivenUp(b)'
      PROVE  b < m
  <2>1. b # m
    BY <1>2 DEF NoneGivenUp
  <2> QED
    BY <2>1
<1>3. ASSUME NEW b \in 1 .. Len(started')
      PROVE  CleanOf(b)'
  <2> SUFFICES ASSUME NoneGivenUp(b)'
               PROVE  Over(b)' /\ b # pending'.msg
    BY DEF CleanOf
  <2>1. b < m /\ b \in 1 .. k
    BY <1>1, <1>2
  <2>2. b # pending.msg
    BY <1>1, <2>1
  <2>3. Over(b)'
    BY <1>1, <2>1, <2>2, OthersOver
  <2>4. pending'.msg = 0
    BY NoneIs
  <2> QED
    BY <2>1, <2>3, <2>4
<1>4. Still'
  <2>1. m \in 1 .. m
    BY <1>1
  <2>2. ~NoneGivenUp(m)'
    BY <2>1 DEF NoneGivenUp
  <2> QED
    BY <2>2 DEF Still
<1> QED
  BY <1>3, <1>4, CleanFrom

LEMMA CleanBegins ==
  ASSUME Types, SenderKept, CleanKept, SenderGrows, NewFrames, UNCHANGED receiver,
         NEW p, NEW n, NEW d, Begins(p, n, d)
  PROVE  CleanKept'
<1>1. PICK k \in Nat : k = Len(started) /\ k + 1 <= MaxMsgs /\ MaxMsgs \in Nat
  BY Sending DEF Begins
<1>2. PICK e : e = [pgn |-> p, total |-> n, dst |-> d]
  OBVIOUS
<1>3. /\ pending.msg = 0 /\ started' = Append(started, e) /\ nextSeq' = 0
      /\ pending' = [msg |-> k + 1, pgn |-> p, total |-> n, dst |-> d]
      /\ UNCHANGED <<ended, toSnd>>
  BY <1>1, <1>2 DEF Begins
<1>4. Len(started') = k + 1
  <2>1. started \in Seq(Requests) /\ e \in Requests
    BY <1>2 DEF Types, Begins, Requests
  <2> QED
    BY <1>1, <1>3, <2>1, Appended
<1>5. Snd' = Snd
  BY <1>3 DEF Snd
<1>6. ASSUME NoneGivenUp(k + 1)'
      PROVE  OpenTo(Me)' = {} /\ toSnd' = <<>> /\ Snd' = {}
  <2>1. NoneGivenUp(k + 1)
    BY <1>1, <1>6, NoneBefore
  <2>2. NoneGivenUp(k)
    BY <1>1, <2>1 DEF NoneGivenUp
  <2>3. OpenTo(Me) = {} /\ toSnd = <<>>
    BY <1>1, <1>3, <2>2, CleanIs DEF Still
  <2>4. OpenTo(Me)' = OpenTo(Me)
    BY DEF OpenTo, receiver
  <2> QED
    BY <1>3, <1>5, <2>3, <2>4, NoAnswers
<1>7. ASSUME NEW b \in 1 .. Len(started')
      PROVE  CleanOf(b)'
  <2> SUFFICES ASSUME NoneGivenUp(b)'
               PROVE  (b # k + 1 => Over(b)') /\ (b = k + 1 => Alone(b)')
    BY <1>3 DEF CleanOf
  <2>1. ASSUME b # k + 1
        PROVE  Over(b)'
    <3>1. b \in 1 .. Len(started) /\ b # pending.msg
      BY <1>1, <1>3, <1>4, <2>1
    <3> QED
      BY <1>5, <3>1, OthersOver
  <2>2. ASSUME b = k + 1
        PROVE  Alone(b)'
    <3>1. OpenTo(Me)' = {} /\ toSnd' = <<>> /\ Snd' = {}
      BY <1>6, <2>2
    <3>2. Len(toSnd') <= 1
      BY <1>3, <3>1, NoAnswers
    <3> QED
      BY <1>3, <3>1, <3>2 DEF Alone
  <2> QED
    BY <2>1, <2>2
<1>8. Still'
  BY <1>4, <1>6 DEF Still
<1> QED
  BY <1>7, <1>8, CleanFrom

LEMMA CleanBroadcasts ==
  ASSUME Types, SenderKept, FramesKept, FramesKept', CleanKept, SenderGrows, NewFrames,
         UNCHANGED receiver, Broadcasts
  PROVE  CleanKept'
<1>1. PICK k \in Nat : k = Len(started) /\ k <= MaxMsgs /\ MaxMsgs \in Nat
  BY Sending
<1>2. /\ pending.msg = k /\ k # 0 /\ pending.dst = Broadcast /\ UNCHANGED <<toSnd, started>>
      /\ pending' = None \/ pending' = pending
  BY <1>1, Sending DEF Broadcasts, Ends
<1>3. Snd' = Snd /\ OpenTo(Me)' = OpenTo(Me)
  BY <1>2 DEF Snd, OpenTo, receiver
<1>4. ASSUME NoneGivenUp(k)'
      PROVE  OpenTo(Me)' = {} /\ toSnd' = <<>> /\ Snd' = {}
  <2>1. NoneGivenUp(k)
    BY <1>1, <1>4, NoneBefore
  <2>2. OpenTo(Me) = {} /\ toSnd = <<>>
    BY <1>1, <1>2, <2>1, CleanIs DEF Still
  <2> QED
    BY <1>2, <1>3, <2>2, NoAnswers
<1>5. started[k].dst = Broadcast
  <2>1. started[k] = [pgn |-> pending.pgn, total |-> pending.total, dst |-> pending.dst]
    BY <1>2 DEF SenderKept
  <2> QED
    BY <1>2, <2>1
<1>6. ASSUME NEW b \in 1 .. Len(started')
      PROVE  CleanOf(b)'
  <2> SUFFICES ASSUME NoneGivenUp(b)'
               PROVE  (b # pending'.msg => Over(b)') /\ (b = pending'.msg => pending'.dst # Me)
    BY DEF CleanOf
  <2>1. b \in 1 .. k
    BY <1>1, <1>2
  <2>2. b = pending'.msg => pending'.dst # Me
    BY <1>2, <2>1, NoneIs DEF Me, Broadcast
  <2>3. CASE b # k
    <3>1. Over(b)'
      BY <1>1, <1>2, <1>3, <2>1, <2>3, OthersOver
    <3> QED
      BY <2>2, <3>1
  <2>4. CASE b = k
    <3>1. Snd' = {}
      BY <1>4, <2>4
    <3>2. \A f \in Rcv' : f.msg = b => f.dst = Broadcast
      BY <1>2, <1>5, <2>4 DEF FramesKept, FrameKept
    <3>3. Over(b)'
      BY <3>1, <3>2 DEF Over, Me, Broadcast
    <3> QED
      BY <2>2, <3>3
  <2> QED
    BY <2>3, <2>4
<1>7. Still'
  BY <1>1, <1>2, <1>4 DEF Still
<1> QED
  BY <1>6, <1>7, CleanFrom

LEMMA CleanAsks ==
  ASSUME Types, Types', SenderKept, CleanKept, SenderGrows, NewFrames, UNCHANGED receiver,
         Snd' \subseteq Snd, NEW c, Asks(c)
  PROVE  CleanKept'
<1>1. /\ AnswerTaken /\ c = Head(toSnd) /\ pending.msg # 0 /\ pending.dst = Me /\ Fits(c)
      /\ UNCHANGED <<pending, ended, started>> /\ toSnd # <<>> /\ toSnd' = Tail(toSnd)
  BY DEF Asks, AnswerTaken
<1>2. PICK k \in Nat : k = Len(started) /\ k <= MaxMsgs /\ pending.msg = k
  BY <1>1, Sending
<1>3. c \in Snd /\ Len(toSnd') = Len(toSnd) - 1
  BY <1>1, AnswerDropping
<1>4. OpenTo(Me)' = OpenTo(Me) /\ buf' = buf
  BY DEF OpenTo, receiver
<1>5. ASSUME Alone(k)
      PROVE  Alone(k)'
  <2>1. PICK t \in Nat \ {0}, n \in Nat, x \in Nat, total \in Nat :
          /\ t = TPCtsPackets(pending.total) /\ n = nextSeq /\ x = nextSeq'
          /\ total = pending.total
    BY <1>1, Sending, CtsPackets DEF Asks
  <2>2. /\ c.packets = t /\ n % t = 0 /\ \A i \in OpenTo(Me) : buf[i].last = n
        /\ \A f \in Rcv : f.msg # k
    BY <1>1, <1>3, <1>5, <2>1 DEF Alone, Fits
  <2>3. n <= x /\ (x = n + t \/ (x = total /\ x <= n + t))
    <3>1. /\ n <= x /\ x <= n + t /\ (n + t <= total => x = n + t)
          /\ total <= n + t => x = total
      BY <2>1, <2>2 DEF Asks
    <3> QED
      BY <2>1, <3>1
  <2>4. Window(x, n, t, total)
    BY <2>1, <2>2, <2>3 DEF Window
  <2>5. ASSUME NEW f \in Rcv'
        PROVE  f \in Rcv \/ (f.msg = k /\ DataIs(f) /\ f.seq > n)
    <3>1. CASE NewData(f)
      <4>1. f.seq \in Nat /\ nextSeq < f.seq
        BY <3>1, FrameIs DEF NewData
      <4> QED
        BY <1>2, <2>1, <3>1, <4>1 DEF NewData
    <3>2. ~NewOpen(f)
      BY <1>1, <1>2 DEF NewOpen
    <3> QED
      BY <3>1, <3>2 DEF NewFrames
  <2>6. Len(toSnd') = 0 /\ Snd' = {} /\ toSnd' = <<>>
    <3>1. Len(toSnd) <= 1 /\ Len(toSnd) \in Nat
      BY <1>5, NoAnswers DEF Alone
    <3>2. toSnd' \in Seq(AnswerFrames) /\ Len(toSnd') <= 0
      BY <1>3, <3>1 DEF Types
    <3>3. toSnd' = <<>>
      BY <3>2
    <3>4. Snd' = {} /\ Len(toSnd') = 0
      BY <3>3 DEF Snd, Elems
    <3> QED
      BY <3>3, <3>4
  <2>7. pending' = pending /\ TPCtsPackets(pending.total)' = t
    BY <1>1, <2>1
  <2>8. \A f \in Rcv' : f.msg = k => DataIs(f)
    BY <2>2, <2>5
  <2>9. ASSUME NEW i \in OpenTo(Me)'
        PROVE  /\ buf'[i].line = pending'.pgn /\ buf'[i].total = pending'.total
               /\ \A f \in Rcv' : f.dst = Me => f.msg = k /\ DataIs(f) /\ f.seq > buf'[i].last
               /\ Window(nextSeq', buf'[i].last, t, pending'.total)
    <3>1. i \in OpenTo(Me) /\ buf[i].last = n
      BY <1>4, <2>2
    <3>2. /\ buf[i].line = pending.pgn /\ buf[i].total = pending.total
          /\ \A f \in Rcv : f.dst = Me => f.msg = k
      BY <1>5, <3>1 DEF Alone
    <3>3. \A f \in Rcv' : f.dst = Me => f.msg = k /\ DataIs(f) /\ f.seq > n
      BY <2>2, <2>5, <3>2
    <3> QED
      BY <1>4, <2>1, <2>4, <2>7, <3>1, <3>2, <3>3
  <2>10. \A i, j \in OpenTo(Me)' : i = j
    BY <1>4, <1>5 DEF Alone
  <2>11. Len(toSnd') <= 1
    BY <2>6
  <2> QED
    BY <2>6, <2>7, <2>8, <2>9, <2>10, <2>11 DEF Alone
<1>6. ASSUME NEW b \in 1 .. Len(started')
      PROVE  CleanOf(b)'
  <2> SUFFICES ASSUME NoneGivenUp(b)'
               PROVE  (b # k => Over(b)') /\ (b = k => Alone(b)')
    BY <1>1, <1>2 DEF CleanOf
  <2>1. b \in 1 .. Len(started) /\ b \in 0 .. MaxMsgs
    BY <1>1, <1>2, Constants
  <2>2. b # k => Over(b)'
    BY <1>2, <2>1, OthersOver
  <2>3. ASSUME b = k
        PROVE  Alone(b)'
    <3>1. NoneGivenUp(b)
      BY <2>1, NoneBefore
    <3>2. Alone(k)
      BY <1>1, <1>2, <2>1, <2>3, <3>1, CleanIs DEF CleanOf
    <3> QED
      BY <1>5, <2>3, <3>2
  <2> QED
    BY <2>2, <2>3
<1>7. Still'
  BY <1>1 DEF Still, Me, Broadcast
<1> QED
  BY <1>6, <1>7, CleanFrom

LEMMA CleanEnded ==
  ASSUME Types, Types', SenderKept, AnswersKept, CleanKept, SenderGrows, NewFrames,
         UNCHANGED receiver, Snd' \subseteq Snd, NEW c, NEW how, EndedBy(c, how)
  PROVE  CleanKept'
<1>1. /\ AnswerTaken /\ c = Head(toSnd) /\ pending.msg # 0 /\ pending.dst = Me
      /\ pending' = None /\ UNCHANGED <<nextSeq, toRcv, started>>
      /\ toSnd # <<>> /\ toSnd' = Tail(toSnd)
      /\ c.kind = "CTS" => ~Fits(c)
  BY DEF EndedBy, AnswerTaken, Ends
<1>2. PICK k \in Nat : k = Len(started) /\ k <= MaxMsgs /\ pending.msg = k /\ k # 0
  BY <1>1, Sending
<1>3. c \in Snd /\ c \in AnswerFrames /\ Len(toSnd') = Len(toSnd) - 1
  BY <1>1, AnswerDropping
<1>4. OpenTo(Me)' = OpenTo(Me) /\ Rcv' = Rcv
  BY <1>1 DEF OpenTo, receiver, Rcv
<1>5. ASSUME NoneGivenUp(k)'
      PROVE  Over(k)' /\ OpenTo(Me)' = {} /\ toSnd' = <<>>
  <2>1. k \in 1 .. Len(started) /\ k \in 0 .. MaxMsgs
    BY <1>2, Constants
  <2>2. NoneGivenUp(k)
    BY <1>5, <2>1, NoneBefore
  <2>3. Alone(k)
    BY <1>1, <1>2, <2>1, <2>2, CleanIs DEF CleanOf
  <2>4. Snd' = {} /\ toSnd' = <<>>
    <3>1. Len(toSnd) <= 1 /\ Len(toSnd) \in Nat
      BY <2>3, NoAnswers DEF Alone
    <3>2. toSnd' \in Seq(AnswerFrames) /\ Len(toSnd') <= 0
      BY <1>3, <3>1 DEF Types
    <3>3. toSnd' = <<>>
      BY <3>2
    <3> QED
      BY <3>3 DEF Snd, Elems
  <2>5. c.kind # "CTS"
    <3>1. c.kind = "CTS" => c.pgn = pending.pgn /\ c.next = nextSeq + 1
      BY <1>3, <2>3 DEF Alone
    <3>2. nextSeq \in Nat
      BY Sending
    <3> QED
      BY <1>1, <3>1, <3>2 DEF Fits
  <2>6. OpenTo(Me) = {}
    BY <1>3, <2>3, <2>5 DEF Alone
  <2>7. \A f \in Rcv : f.msg = k => DataIs(f)
    BY <1>1, <2>3 DEF Alone
  <2> QED
    BY <1>4, <2>4, <2>6, <2>7 DEF Over
<1>6. ASSUME NEW b \in 1 .. Len(started')
      PROVE  CleanOf(b)'
  <2> SUFFICES ASSUME NoneGivenUp(b)'
               PROVE  Over(b)' /\ b # pending'.msg
    BY DEF CleanOf
  <2>1. b \in 1 .. Len(started) /\ b # 0
    BY <1>1, <1>2
  <2>2. b # pending'.msg
    BY <1>1, <2>1, NoneIs
  <2>3. b # k => Over(b)'
    BY <1>2, <2>1, OthersOver
  <2> QED
    BY <1>5, <2>2, <2>3
<1>7. Still'
  BY <1>1, <1>2, <1>5 DEF Still
<1> QED
  BY <1>6, <1>7, CleanFrom

LEMMA CleanSender ==
  ASSUME Types, Types', SenderKept, FramesKept, FramesKept', AnswersKept, CleanKept, SenderSteps,
         SenderGrows, NewFrames, UNCHANGED receiver, Snd' \subseteq Snd
  PROVE  CleanKept'
<1>1. PICK k \in Nat : k = Len(started) /\ k <= MaxMsgs /\ MaxMsgs \in Nat
  BY Sending
<1>2. ended \in [1 .. MaxMsgs -> [how : Endings, by : Nat]]
  BY DEF Types
<1>3. ASSUME NEW m \in 1 .. MaxMsgs, NEW how \in {"timeout", "failed"},
             ended' = [ended EXCEPT ![m] = [how |-> how, by |-> 0]]
      PROVE  GivenUp(m)'
  <2>1. ended'[m] = [how |-> how, by |-> 0]
    BY <1>2, <1>3
  <2>2. ended'[m].how = how
    BY <2>1
  <2> QED
    BY <2>2 DEF GivenUp
<1>4. ASSUME NEW p, NEW n, NEW d, Begins(p, n, d)
      PROVE  CleanKept'
  BY <1>4, CleanBegins
<1>5. ASSUME NEW p, NEW n, NEW d, BeginFails(p, n, d)
      PROVE  CleanKept'
  <2>1. PICK e : e = [pgn |-> p, total |-> n, dst |-> d]
    OBVIOUS
  <2>2. /\ pending.msg = 0 /\ started' = Append(started, e) /\ pending' = None
        /\ ended' = [ended EXCEPT ![k + 1] = [how |-> "failed", by |-> 0]]
        /\ k + 1 <= MaxMsgs
    BY <1>1, <1>5, <2>1 DEF BeginFails
  <2>3. Len(started') = k + 1
    <3>1. started \in Seq(Requests) /\ e \in Requests
      BY <1>5, <2>1 DEF Types, BeginFails, Requests
    <3> QED
      BY <1>1, <2>2, <3>1, Appended
  <2>4. k + 1 \in 1 .. MaxMsgs
    BY <1>1, <2>2
  <2>5. GivenUp(k + 1)'
    BY <1>3, <2>2, <2>4
  <2> QED
    BY <1>1, <2>2, <2>3, <2>4, <2>5, CleanGivenUp
<1>6. ASSUME pending.msg # 0, NEW how \in {"timeout", "failed"}, pending' = None,
             UNCHANGED started,
             ended' = [ended EXCEPT ![pending.msg] = [how |-> how, by |-> 0]]
      PROVE  CleanKept'
  <2>1. pending.msg = k /\ k \in 1 .. MaxMsgs /\ Len(started') = k
    BY <1>1, <1>6, Sending
  <2>2. GivenUp(k)'
    BY <1>3, <1>6, <2>1
  <2> QED
    BY <1>1, <1>6, <2>1, <2>2, CleanGivenUp
<1>7. CASE Broadcasts
  BY <1>7, CleanBroadcasts
<1>8. CASE TimesOut
  <2>1. /\ pending.msg # 0 /\ pending' = None /\ UNCHANGED started
        /\ ended' = [ended EXCEPT ![pending.msg] = [how |-> "timeout", by |-> 0]]
    BY <1>8 DEF TimesOut, Ends
  <2> QED
    BY <1>6, <2>1
<1>9. CASE AnswerIgnored
  <2>1. /\ UNCHANGED <<pending, nextSeq, started, ended, toRcv>>
        /\ toSnd # <<>> /\ toSnd' = Tail(toSnd)
    BY <1>9 DEF AnswerIgnored, AnswerTaken
  <2>2. Len(toSnd) \in Nat /\ Len(toSnd') \in Nat /\ Len(toSnd') = Len(toSnd) - 1
    BY <2>1, AnswerDropping DEF Types
  <2>3. MineShrinks /\ Rcv' \subseteq Rcv
    BY <2>1 DEF MineShrinks, OpenTo, receiver, Rcv
  <2>4. Len(toSnd') <= Len(toSnd)
    BY <2>2
  <2> QED
    BY <2>1, <2>2, <2>3, <2>4, CleanShrinks
<1>10. ASSUME NEW c, Asks(c)
       PROVE  CleanKept'
  BY <1>10, CleanAsks
<1>11. ASSUME NEW c, AskFails(c)
       PROVE  CleanKept'
  <2>1. /\ pending.msg # 0 /\ pending' = None /\ UNCHANGED started
        /\ ended' = [ended EXCEPT ![pending.msg] = [how |-> "failed", by |-> 0]]
    BY <1>11 DEF AskFails, AnswerTaken
  <2> QED
    BY <1>6, <2>1
<1>12. ASSUME NEW c, NEW how, EndedBy(c, how)
       PROVE  CleanKept'
  BY <1>12, CleanEnded
<1> QED
  BY <1>4, <1>5, <1>7, <1>8, <1>9, <1>10, <1>11, <1>12 DEF SenderSteps

-----------------------------------------------------------------------------
(* Broadcasts that nothing disturbs. *)

NoFast == \A i \in Slots : buf[i].line # "fast packet"
FillsAll ==
  \A i \in OpenTo(Broadcast) :
    \E m \in 1 .. Len(started) : started[m].dst = Broadcast /\ Filling(i, m)
AllKept == \A m \in 1 .. Len(started) : started[m].dst = Broadcast => BroadcastKept(m)

LEMMA QuietIs == BroadcastsKept <=> (Quiet => NoFast /\ FillsAll /\ AllKept)
  BY DEF BroadcastsKept, NoFast, FillsAll, AllKept

LEMMA SentIsNat ==
  ASSUME Types, SenderKept, NEW m \in 1 .. Len(started)
  PROVE  /\ started[m].total \in Nat /\ started[m].total >= 1 /\ SentOf(m) \in Nat
         /\ SentOf(m) <= started[m].total
         /\ m # pending.msg => SentOf(m) = started[m].total
         /\ m = pending.msg => SentOf(m) = nextSeq
<1>1. started[m] \in Requests
  BY DEF Types
<1>2. started[m].total \in Nat /\ started[m].total >= 1
  <2>1. started[m].total \in Sizes
    BY <1>1 DEF Requests
  <2> QED
    BY <2>1, SizesAre
<1>3. nextSeq \in Nat
  BY DEF Types
<1>4. m = pending.msg => nextSeq <= started[m].total
  <2> SUFFICES ASSUME m = pending.msg
               PROVE  nextSeq <= started[m].total
    OBVIOUS
  <2>1. pending.msg # 0
    OBVIOUS
  <2>2. /\ started[m] = [pgn |-> pending.pgn, total |-> pending.total, dst |-> pending.dst]
        /\ nextSeq <= pending.total
    BY <2>1 DEF SenderKept
  <2> QED
    BY <2>2
<1> QED
  BY <1>2, <1>3, <1>4 DEF SentOf

(* A broadcast the sender goes on with, or has sent.                       *)
Continues(m) ==
  /\ SentOf(m)' \in Nat /\ SentOf(m) <= SentOf(m)'
  /\ \A q \in SentOf(m) + 1 .. SentOf(m)' : Dt(m, q) \in Rcv'
  /\ m # pending'.msg => ended'[m].how = "sent"

LEMMA ContinuesBeside ==
  ASSUME Types, SenderKept, SenderGrows, NEW m \in 1 .. Len(started), m # pending.msg,
         started[m].dst = Broadcast, BroadcastKept(m)
  PROVE  Continues(m)
<1>1. m \in 1 .. MaxMsgs /\ started'[m] = started[m] /\ m # pending'.msg
  BY Sending DEF SenderGrows
<1>2. ended[m].how = "sent"
  BY DEF BroadcastKept
<1>3. ended'[m] = ended[m]
  BY <1>1, <1>2 DEF SenderGrows, Going
<1>4. PICK n \in Nat : n = SentOf(m)
  BY SentIsNat
<1>5. SentOf(m)' = n
  BY <1>1, <1>4 DEF SentOf
<1>6. n + 1 .. n = {}
  BY <1>4
<1> QED
  BY <1>2, <1>3, <1>4, <1>5, <1>6 DEF Continues

LEMMA ContinuesOn ==
  ASSUME Types, SenderKept, SenderSteps, NewFrames, NEW m \in 1 .. Len(started), m = pending.msg,
         started[m].dst = Broadcast, BroadcastKept(m), faults = 0, faults' = 0
  PROVE  Continues(m)
<1>1. PICK n \in Nat : n = nextSeq /\ SentOf(m) = n
  BY SentIsNat
<1>2. m # 0 /\ pending.msg # 0
  OBVIOUS
<1>3. started[m] = [pgn |-> pending.pgn, total |-> pending.total, dst |-> pending.dst]
  BY <1>2 DEF SenderKept
<1>4. pending.dst = Broadcast /\ pending.dst # Me
  BY <1>3 DEF Me, Broadcast
<1>5. PICK total \in Nat : total = pending.total /\ total = started[m].total /\ n < total
  <2>1. nextSeq < pending.total
    BY <1>2, <1>4 DEF SenderKept
  <2> QED
    BY <1>1, <1>2, <1>3, <2>1, Sending
<1>6. CASE Broadcasts
  <2>1. /\ toRcv' = Append(toRcv, Data(nextSeq)) /\ nextSeq' = n + 1 /\ UNCHANGED started
        /\ IF n + 1 >= total THEN Ends("sent", 0) ELSE UNCHANGED <<pending, timer, ended>>
    <3>1. faults' # faults + 1
      OBVIOUS
    <3> QED
      BY <1>1, <1>5, <1>6, <3>1 DEF Broadcasts
  <2>2. PICK d : d = Data(nextSeq)
    OBVIOUS
  <2>3. d = Dt(m, n + 1) /\ d \in Frames
    BY <1>1, <1>4, <2>2 DEF Data, Dt, Frames, DataFrames, Types, Transfers
  <2>4. d \in Rcv'
    BY <2>1, <2>2, <2>3, ElemsOfAppend DEF Rcv, Types
  <2>5. SentOf(m)' = n + 1 /\ (m # pending'.msg => ended'[m].how = "sent")
    <3>1. CASE n + 1 >= total
      <4>1. n + 1 = total /\ pending'.msg = 0
        BY <1>5, <2>1, <3>1, NoneIs DEF Ends
      <4>2. SentOf(m)' = total
        BY <1>2, <1>5, <2>1, <4>1 DEF SentOf
      <4>3. ended'[m] = [how |-> "sent", by |-> 0]
        <5>1. ended \in [1 .. MaxMsgs -> [how : Endings, by : Nat]] /\ m \in 1 .. MaxMsgs
          BY <1>2, Sending DEF Types
        <5>2. ended' = [ended EXCEPT ![m] = [how |-> "sent", by |-> 0]]
          BY <2>1, <3>1 DEF Ends
        <5> QED
          BY <5>1, <5>2
      <4>4. ended'[m].how = "sent"
        BY <4>3
      <4> QED
        BY <4>1, <4>2, <4>4
    <3>2. CASE ~(n + 1 >= total)
      <4>1. pending' = pending
        BY <2>1, <3>2
      <4> QED
        BY <2>1, <4>1 DEF SentOf
    <3> QED
      BY <3>1, <3>2
  <2>6. n + 1 .. n + 1 = {n + 1}
    OBVIOUS
  <2> QED
    BY <1>1, <2>3, <2>4, <2>5, <2>6 DEF Continues
<1>7. CASE AnswerIgnored
  <2>1. UNCHANGED <<pending, nextSeq, started>>
    BY <1>7 DEF AnswerIgnored, AnswerTaken
  <2>2. SentOf(m)' = n /\ n + 1 .. n = {}
    BY <1>1, <2>1 DEF SentOf
  <2> QED
    BY <1>1, <2>1, <2>2 DEF Continues
<1>8. ASSUME NEW p, NEW e, NEW d, Begins(p, e, d) \/ BeginFails(p, e, d)
      PROVE  FALSE
  BY <1>2, <1>8 DEF Begins, BeginFails
<1>9. ASSUME NEW c, NEW how, Asks(c) \/ AskFails(c) \/ EndedBy(c, how)
      PROVE  FALSE
  BY <1>4, <1>9 DEF Asks, AskFails, EndedBy
<1>10. ~TimesOut
  BY <1>4 DEF TimesOut
<1> QED
  BY <1>6, <1>7, <1>8, <1>9, <1>10 DEF SenderSteps

(* A message that begins.                                                  *)
LEMMA BroadcastBegins ==
  ASSUME Types, Types', SenderKept, SenderKept', SenderSteps, SenderGrows, faults = 0, faults' = 0,
         NEW m \in 1 .. Len(started'), m \notin 1 .. Len(started), started'[m].dst = Broadcast
  PROVE  BroadcastKept(m)'
<1>1. PICK k \in Nat : k = Len(started)
  BY Sending
<1>2. Len(started') # k /\ m > k
  BY <1>1
<1>3. started' # started
  BY <1>1, <1>2
<1>4. PICK p, n, d : Begins(p, n, d)
  <2>1. ~Broadcasts /\ ~TimesOut /\ ~AnswerIgnored
    BY <1>3 DEF Broadcasts, TimesOut, AnswerIgnored, AnswerTaken
  <2>2. ASSUME NEW c, NEW how
        PROVE  ~Asks(c) /\ ~AskFails(c) /\ ~EndedBy(c, how)
    BY <1>3 DEF Asks, AskFails, EndedBy, AnswerTaken
  <2>3. ASSUME NEW p, NEW n, NEW d
        PROVE  ~BeginFails(p, n, d)
    BY DEF BeginFails
  <2> QED
    BY <2>1, <2>2, <2>3 DEF SenderSteps
<1>5. PICK e : e = [pgn |-> p, total |-> n, dst |-> d]
  OBVIOUS
<1>6. /\ started' = Append(started, e) /\ nextSeq' = 0
      /\ pending' = [msg |-> k + 1, pgn |-> p, total |-> n, dst |-> d]
      /\ toRcv' = Append(toRcv, OpenFrame(p, n, d, k + 1)) /\ e \in Requests
      /\ p \in Pgns /\ n \in Sizes
  BY <1>1, <1>4, <1>5 DEF Begins, Requests
<1>7. Len(started') = k + 1 /\ started'[k + 1] = e
  BY <1>1, <1>6, Appended DEF Types
<1>8. m = k + 1 /\ m = pending'.msg /\ d = Broadcast /\ started'[m] = e
  <2>1. m = k + 1
    BY <1>1, <1>2, <1>7
  <2> QED
    BY <1>5, <1>6, <1>7, <2>1
<1>9. PICK b : b = [kind |-> "BAM", dst |-> Broadcast, pgn |-> p, total |-> n, msg |-> k + 1]
  OBVIOUS
<1>10. b = OpenFrame(p, n, d, k + 1) /\ b = Bam(m)'
  BY <1>5, <1>8, <1>9 DEF OpenFrame, Bam
<1>11. b \in Frames
  BY <1>1, <1>6, <1>9 DEF Frames, OpenFrames
<1>12. b \in Rcv'
  BY <1>6, <1>10, <1>11, ElemsOfAppend DEF Rcv, Types
<1>13. SentOf(m)' = 0 /\ 1 .. 0 = {}
  BY <1>6, <1>8 DEF SentOf
<1> QED
  BY <1>8, <1>10, <1>12, <1>13 DEF BroadcastKept

LEMMA FillingGrows ==
  ASSUME Types, SenderKept, SlotsKept, SenderGrows, NewFrames, UNCHANGED receiver,
         NEW m \in 1 .. Len(started), Continues(m), NEW i \in OpenTo(Broadcast), Filling(i, m)
  PROVE  Filling(i, m)'
<1>1. PICK k \in Nat : k = Len(started)
  BY Sending
<1>2. started'[m] = started[m] /\ buf' = buf /\ m <= k
  BY <1>1 DEF SenderGrows, receiver
<1>3. Bam(m)' = Bam(m)
  BY <1>2 DEF Bam
<1>4. PICK n \in Nat, n2 \in Nat, l \in Nat :
        n = SentOf(m) /\ n2 = SentOf(m)' /\ l = buf[i].last /\ n <= n2 /\ l <= n
  BY SentIsNat, OpenSlot DEF Continues, Filling
<1>5. Bam(m) \notin Rcv'
  <2>1. Bam(m).kind = "BAM" /\ Bam(m).msg = m /\ ~DataIs(Bam(m))
    BY DEF Bam, DataIs
  <2>2. ~NewData(Bam(m))
    BY <2>1 DEF NewData
  <2>3. ~NewOpen(Bam(m))
    BY <1>1, <1>2, <2>1 DEF NewOpen
  <2> QED
    BY <2>2, <2>3 DEF NewFrames, Filling
<1>6. ASSUME NEW f \in Rcv'
      PROVE  f.msg >= m /\ (f.msg = m => f.seq > l)
  <2>1. CASE f \in Rcv
    BY <1>4, <2>1 DEF Filling
  <2>2. CASE NewData(f)
    <3>1. f.seq \in Nat /\ f.msg = k /\ nextSeq < f.seq /\ nextSeq \in Nat /\ f.msg = pending.msg
      BY <1>1, <2>2, FrameIs, Sending DEF NewData
    <3>2. f.msg = m => n = nextSeq
      BY <1>4, <3>1, SentIsNat
    <3> QED
      BY <1>1, <1>2, <1>4, <3>1, <3>2
  <2>3. CASE NewOpen(f)
    <3>1. f.msg = k + 1
      BY <1>1, <2>3 DEF NewOpen
    <3> QED
      BY <1>2, <3>1
  <2> QED
    BY <2>1, <2>2, <2>3 DEF NewFrames
<1>7. ASSUME NEW q \in l + 1 .. n2
      PROVE  Dt(m, q) \in Rcv'
  <2>1. CASE q \in l + 1 .. n
    BY <1>4, <2>1 DEF Filling, NewFrames
  <2>2. CASE q \in n + 1 .. n2
    BY <1>4, <2>2 DEF Continues
  <2> QED
    BY <1>4, <2>1, <2>2
<1>8. l <= n2
  BY <1>4
<1>9. /\ buf'[i].total = started'[m].total /\ buf'[i].last = l
      /\ \A j \in 1 .. l : buf'[i].got[j].msg = m
  BY <1>2, <1>4 DEF Filling
<1> QED
  BY <1>3, <1>4, <1>5, <1>6, <1>7, <1>8, <1>9 DEF Filling, Dt

LEMMA SenderCounts ==
  ASSUME SenderSteps
  PROVE  UNCHANGED others /\ (faults' = faults \/ faults' = faults + 1)
<1>1. ASSUME NEW p, NEW n, NEW d, Begins(p, n, d) \/ BeginFails(p, n, d)
      PROVE  UNCHANGED others /\ (faults' = faults \/ faults' = faults + 1)
  BY <1>1 DEF Begins, BeginFails
<1>2. ASSUME Broadcasts \/ TimesOut \/ AnswerIgnored
      PROVE  UNCHANGED others /\ (faults' = faults \/ faults' = faults + 1)
  BY <1>2 DEF Broadcasts, TimesOut, AnswerIgnored, AnswerTaken
<1>3. ASSUME NEW c, NEW how, Asks(c) \/ AskFails(c) \/ EndedBy(c, how)
      PROVE  UNCHANGED others /\ (faults' = faults \/ faults' = faults + 1)
  BY <1>3 DEF Asks, AskFails, EndedBy, AnswerTaken
<1> QED
  BY <1>1, <1>2, <1>3 DEF SenderSteps

LEMMA BroadcastSender ==
  ASSUME Types, Types', SenderKept, SenderKept', SlotsKept, BroadcastsKept, SenderSteps,
         SenderGrows, NewFrames, UNCHANGED <<receiver, now>>
  PROVE  BroadcastsKept'
<1> SUFFICES ASSUME Quiet'
             PROVE  NoFast' /\ FillsAll' /\ AllKept'
  BY DEF BroadcastsKept, NoFast, FillsAll, AllKept
<1>1. faults = 0 /\ faults' = 0 /\ Quiet
  <2>1. faults \in Nat /\ faults' = 0
    BY DEF Types, Quiet
  <2>2. UNCHANGED others /\ (faults' = faults \/ faults' = faults + 1)
    BY SenderCounts
  <2>3. faults = 0
    BY <2>1, <2>2
  <2> QED
    BY <2>1, <2>2, <2>3 DEF Quiet, receiver
<1>2. NoFast /\ FillsAll /\ AllKept
  BY <1>1, QuietIs
<1>3. OpenTo(Broadcast)' = OpenTo(Broadcast) /\ buf' = buf /\ delivered' = delivered
  BY DEF OpenTo, receiver
<1>4. ASSUME NEW m \in 1 .. Len(started)
      PROVE  m \in 1 .. Len(started') /\ started'[m] = started[m]
  BY DEF SenderGrows
<1>5. ASSUME NEW m \in 1 .. Len(started), started[m].dst = Broadcast
      PROVE  Continues(m) /\ BroadcastKept(m)
  <2>1. BroadcastKept(m)
    BY <1>2, <1>5 DEF AllKept
  <2>2. CASE m = pending.msg
    BY <1>1, <1>5, <2>1, <2>2, ContinuesOn
  <2>3. CASE m # pending.msg
    BY <1>5, <2>1, <2>3, ContinuesBeside
  <2> QED
    BY <2>1, <2>2, <2>3
<1>6. ASSUME NEW m \in 1 .. Len(started), started[m].dst = Broadcast,
             NEW i \in OpenTo(Broadcast), Filling(i, m)
      PROVE  Filling(i, m)'
  BY <1>5, <1>6, FillingGrows
<1>7. FillsAll'
  <2> SUFFICES ASSUME NEW i \in OpenTo(Broadcast)
               PROVE  \E m \in 1 .. Len(started') : started'[m].dst = Broadcast /\ Filling(i, m)'
    BY <1>3 DEF FillsAll
  <2>1. PICK m \in 1 .. Len(started) : started[m].dst = Broadcast /\ Filling(i, m)
    BY <1>2 DEF FillsAll
  <2> QED
    BY <1>4, <1>6, <2>1
<1>8. ASSUME NEW m \in 1 .. Len(started'), started'[m].dst = Broadcast
      PROVE  BroadcastKept(m)'
  <2>1. CASE m \notin 1 .. Len(started)
    BY <1>1, <1>8, <2>1, BroadcastBegins
  <2>2. CASE m \in 1 .. Len(started)
    <3>1. started'[m] = started[m] /\ Continues(m) /\ BroadcastKept(m) /\ started[m].dst = Broadcast
      BY <1>4, <1>5, <1>8, <2>2
    <3>2. PICK n \in Nat, n2 \in Nat : n = SentOf(m) /\ n2 = SentOf(m)' /\ n <= n2
      BY <2>2, <3>1, SentIsNat DEF Continues
    <3>3. Bam(m)' = Bam(m)
      BY <3>1 DEF Bam
    <3>4. Bam(m) \in Rcv' => Bam(m) \in Rcv
      <4>1. Bam(m).kind = "BAM" /\ Bam(m).msg = m /\ ~DataIs(Bam(m))
        BY DEF Bam, DataIs
      <4>2. ~NewData(Bam(m))
        BY <4>1 DEF NewData
      <4>3. ~NewOpen(Bam(m))
        <5>1. m # Len(started) + 1
          BY <2>2, Sending
        <5> QED
          BY <4>1, <5>1 DEF NewOpen
      <4> QED
        BY <4>2, <4>3 DEF NewFrames
    <3>5. ASSUME Bam(m) \in Rcv', NEW q \in 1 .. n2
          PROVE  Dt(m, q) \in Rcv'
      <4>1. CASE q \in 1 .. n
        BY <3>1, <3>2, <3>4, <3>5, <4>1 DEF BroadcastKept, NewFrames
      <4>2. CASE q \in n + 1 .. n2
        BY <3>1, <3>2, <4>2 DEF Continues
      <4> QED
        BY <3>2, <4>1, <4>2
    <3>6. ASSUME started[m].total \notin TooLong
          PROVE  \/ HandedOn(m)' \/ Bam(m) \in Rcv'
                 \/ \E i \in OpenTo(Broadcast)' : Filling(i, m)'
      <4>1. HandedOn(m) \/ Bam(m) \in Rcv \/ \E i \in OpenTo(Broadcast) : Filling(i, m)
        BY <3>1, <3>6 DEF BroadcastKept
      <4>2. HandedOn(m) => HandedOn(m)'
        BY <1>3 DEF HandedOn, WholeMessage
      <4>3. Bam(m) \in Rcv => Bam(m) \in Rcv'
        BY DEF NewFrames
      <4>4. (\E i \in OpenTo(Broadcast) : Filling(i, m))
              => \E i \in OpenTo(Broadcast)' : Filling(i, m)'
        BY <1>3, <1>6, <2>2, <3>1
      <4> QED
        BY <4>1, <4>2, <4>3, <4>4
    <3>7. m # pending'.msg => ended'[m].how = "sent"
      BY <3>1 DEF Continues
    <3>8. \A q \in 1 .. SentOf(m)' : Bam(m) \in Rcv' => Dt(m, q)' \in Rcv'
      BY <3>2, <3>5 DEF Dt
    <3> QED
      BY <3>1, <3>3, <3>6, <3>7, <3>8 DEF BroadcastKept
  <2> QED
    BY <2>1, <2>2
<1>9. NoFast' /\ AllKept'
  BY <1>2, <1>3, <1>8 DEF NoFast, AllKept
<1> QED
  BY <1>7, <1>9

(* The receiver: nothing times out, and no other node's packet comes.      *)

LEMMA QuietRest ==
  ASSUME Types, FramesKept, Ordered(toRcv), SlotsKept, Quiet',
         ReceiverSteps \/ OtherSteps \/ UNCHANGED vars
  PROVE  /\ Quiet /\ \A i \in Slots : ~Stale(buf[i])
         /\ OtherSteps => \E i : SlotLeft(i)
<1>1. ~overlap
  BY OverlapGrows DEF Quiet, vars
<1>2. faults \in Nat /\ others \in Nat /\ now \in Nat /\ faults' = 0 /\ others' = 0 /\ now' = 0
  BY NowIs DEF Types, Quiet
<1>3. ASSUME NEW f, NEW i, TurnsAway(f) \/ Ignores(f) \/ Opens(f, i) \/ Breaks(f, i)
                           \/ Adds(f, i) \/ Completes(f, i)
      PROVE  UNCHANGED <<now, faults, others>>
  BY <1>3 DEF TurnsAway, Ignores, Opens, Breaks, Adds, Completes, Taken
<1>4. ReceiverSteps => UNCHANGED <<now, faults, others>>
  BY <1>3 DEF ReceiverSteps
<1>5. ASSUME OtherSteps
      PROVE  (\E i : SlotLeft(i)) /\ UNCHANGED <<now, faults, others>>
  <2>1. ASSUME NEW i
        PROVE  ~SlotTaken(i)
    <3>1. others' # others + 1
      BY <1>2
    <3> QED
      BY <3>1 DEF SlotTaken
  <2>2. ~FrameLost /\ ~AnswerLost
    <3>1. faults' # faults + 1
      BY <1>2
    <3> QED
      BY <3>1 DEF FrameLost, AnswerLost
  <2>3. ~Tick
    <3>1. now' # now + 1
      BY <1>2
    <3> QED
      BY <3>1 DEF Tick
  <2>4. \E i : SlotLeft(i)
    BY <1>5, <2>1, <2>2, <2>3 DEF OtherSteps
  <2> QED
    BY <2>4 DEF SlotLeft
<1>6. now = 0 /\ faults = 0 /\ others = 0
  BY <1>2, <1>4, <1>5 DEF vars
<1>7. ASSUME NEW i \in Slots
      PROVE  ~Stale(buf[i])
  <2>1. PICK t \in Nat : t = buf[i].time
    BY DEF Types, SlotTypes
  <2>2. ~(t + MaxN2kMsgBufTime <= 0)
    BY Constants
  <2> QED
    BY <1>6, <2>1, <2>2 DEF Stale
<1> QED
  BY <1>1, <1>5, <1>6, <1>7 DEF Quiet

LEMMA NoFastStep ==
  ASSUME Types, FramesKept, Ordered(toRcv), SlotsKept, NoFast,
         \/ ReceiverSteps
         \/ \E i : SlotLeft(i)
         \/ UNCHANGED buf
  PROVE  NoFast'
<1>1. NoLine # "fast packet" /\ "fast packet" \notin Pgns
  BY TransportAssumption DEF NoLine
<1>2. ASSUME NEW i, NEW s, SlotSet(i, s), s.line # "fast packet"
      PROVE  NoFast'
  BY <1>2 DEF NoFast, SlotSet
<1>3. Free.line # "fast packet"
  BY <1>1 DEF Free
<1>4. UNCHANGED buf => NoFast'
  BY DEF NoFast
<1>5. ASSUME NEW f, TurnsAway(f)
      PROVE  NoFast'
  <2>1. buf' = buf \/ \E i \in Slots : SlotSet(i, Free)
    BY <1>5, TurnsAwayIs
  <2> QED
    BY <1>2, <1>3, <1>4, <2>1
<1>6. ASSUME NEW f, NEW i, Opens(f, i)
      PROVE  NoFast'
  <2>1. PICK s : s = NewSlot(f)
    OBVIOUS
  <2>2. f \in OpenFrames /\ SlotSet(i, s)
    BY <1>6, <2>1, OpensIs
  <2>3. s.line \in Pgns
    BY <2>1, <2>2, NewSlotIs, NowIs DEF OpenFrames
  <2> QED
    BY <1>1, <1>2, <2>2, <2>3
<1>7. ASSUME NEW f, NEW i, Breaks(f, i) \/ Completes(f, i)
      PROVE  NoFast'
  <2>1. SlotSet(i, Free)
    BY <1>7, BreaksIs, CompletesIs
  <2> QED
    BY <1>2, <1>3, <2>1
<1>8. ASSUME NEW f, NEW i, Adds(f, i)
      PROVE  NoFast'
  <2>1. i \in OpenTo(f.dst)
    BY <1>8, AddsIs
  <2>2. PICK s : Grown(s, f, i) /\ SlotSet(i, s)
    BY <1>8, AddsIs
  <2>3. s.line \in Pgns
    BY <2>1, <2>2, OpenSlot DEF Grown
  <2> QED
    BY <1>1, <1>2, <2>2, <2>3
<1>9. ASSUME NEW i, SlotLeft(i)
      PROVE  NoFast'
  <2>1. SlotSet(i, Free)
    BY <1>9, SlotLeftIs
  <2> QED
    BY <1>2, <1>3, <2>1
<1>10. ASSUME NEW f, Ignores(f)
       PROVE  NoFast'
  BY <1>4, <1>10 DEF Ignores, receiver
<1> QED
  BY <1>4, <1>5, <1>6, <1>7, <1>8, <1>9, <1>10 DEF ReceiverSteps

(* The broadcasts a frame does not belong to.                              *)
LEMMA FillingBeside ==
  ASSUME NEW f, Received(f), NEW m, \A q : f # Dt(m, q),
         NEW i, Filling(i, m), buf'[i] = buf[i]
  PROVE  Filling(i, m)'
<1>1. UNCHANGED <<pending, nextSeq, started>> /\ Rcv' \subseteq Rcv
      /\ \A g \in Rcv : g = f \/ g \in Rcv'
  BY DEF Received, sender
<1>2. Bam(m)' = Bam(m) /\ SentOf(m)' = SentOf(m)
  BY <1>1 DEF Bam, SentOf
<1>3. \A q \in buf[i].last + 1 .. SentOf(m) : Dt(m, q) \in Rcv'
  BY <1>1 DEF Filling
<1>4. Bam(m) \notin Rcv'
  BY <1>1 DEF Filling
<1>5. \A g \in Rcv' : g.msg >= m /\ (g.msg = m => g.seq > buf[i].last)
  BY <1>1 DEF Filling
<1>6. /\ buf[i].total = started[m].total /\ buf[i].last <= SentOf(m)
      /\ \A k \in 1 .. buf[i].last : buf[i].got[k].msg = m
  BY DEF Filling
<1> QED
  BY <1>1, <1>2, <1>3, <1>4, <1>5, <1>6 DEF Filling, Dt

LEMMA KeptBeside ==
  ASSUME NEW f, Received(f), NEW m, BroadcastKept(m), delivered \subseteq delivered',
         f # Bam(m), \A q : f # Dt(m, q),
         \A i \in OpenTo(Broadcast) : Filling(i, m) => i \in OpenTo(Broadcast)' /\ buf'[i] = buf[i]
  PROVE  BroadcastKept(m)'
<1>1. UNCHANGED <<pending, nextSeq, started, ended>> /\ Rcv' \subseteq Rcv
      /\ \A g \in Rcv : g = f \/ g \in Rcv'
  BY DEF Received, sender
<1>2. Bam(m)' = Bam(m) /\ SentOf(m)' = SentOf(m)
  BY <1>1 DEF Bam, SentOf
<1>3. m # pending.msg => ended[m].how = "sent"
  BY DEF BroadcastKept
<1>4. Bam(m) \in Rcv' => \A q \in 1 .. SentOf(m) : Dt(m, q) \in Rcv'
  BY <1>1 DEF BroadcastKept
<1>5. ASSUME started[m].total \notin TooLong
      PROVE  \/ HandedOn(m)' \/ Bam(m) \in Rcv'
             \/ \E i \in OpenTo(Broadcast)' : Filling(i, m)'
  <2>1. HandedOn(m) \/ Bam(m) \in Rcv \/ \E i \in OpenTo(Broadcast) : Filling(i, m)
    BY <1>5 DEF BroadcastKept
  <2>2. HandedOn(m) => HandedOn(m)'
    BY DEF HandedOn, WholeMessage
  <2>3. Bam(m) \in Rcv => Bam(m) \in Rcv'
    BY <1>1
  <2>4. (\E i \in OpenTo(Broadcast) : Filling(i, m))
          => \E i \in OpenTo(Broadcast)' : Filling(i, m)'
    BY FillingBeside
  <2> QED
    BY <2>1, <2>2, <2>3, <2>4
<1> QED
  BY <1>1, <1>2, <1>3, <1>4, <1>5 DEF BroadcastKept, Dt

LEMMA BroadcastAside ==
  ASSUME NEW f, Received(f), f.dst = Me, FillsAll, AllKept, delivered \subseteq delivered',
         OpenTo(Broadcast)' = OpenTo(Broadcast), \A i \in OpenTo(Broadcast) : buf'[i] = buf[i]
  PROVE  FillsAll' /\ AllKept'
<1>1. UNCHANGED started
  BY DEF Received, sender
<1>2. ASSUME NEW m
      PROVE  f # Bam(m) /\ \A q : f # Dt(m, q)
  BY DEF Bam, Dt, Me, Broadcast
<1>3. FillsAll'
  BY <1>1, <1>2, FillingBeside DEF FillsAll
<1>4. AllKept'
  BY <1>1, <1>2, KeptBeside DEF AllKept
<1> QED
  BY <1>3, <1>4

(* The first frame on its way belongs to the broadcast that is open.       *)
LEMMA HeadBelongs ==
  ASSUME Types, SenderKept, FramesKept, SlotsKept, NEW f, Received(f), NEW i \in OpenTo(Broadcast),
         NEW m \in 1 .. Len(started), Filling(i, m)
  PROVE  f.msg = m
<1>1. PICK k \in Nat : k = Len(started)
  BY Sending
<1>2. f.msg \in 1 .. k /\ f.msg >= m /\ m \in Nat /\ m # 0
  BY <1>1 DEF Received, FrameKept, Filling
<1> SUFFICES ASSUME f.msg > m
             PROVE  FALSE
  BY <1>2
<1>3. m # pending.msg
  BY <1>1, <1>2, Sending
<1>4. PICK l \in Nat : l = buf[i].last /\ l < buf[i].total
  BY OpenSlot
<1>5. PICK n \in Nat : n = SentOf(m) /\ n = started[m].total /\ n = buf[i].total
  BY <1>3, SentIsNat DEF Filling
<1>6. l + 1 \in l + 1 .. n
  BY <1>4, <1>5
<1>7. PICK g : g = Dt(m, l + 1)
  OBVIOUS
<1>8. g \in Rcv /\ g.msg = m
  BY <1>4, <1>5, <1>6, <1>7 DEF Filling, Dt
<1>9. g \in Rcv'
  BY <1>2, <1>8 DEF Received
<1>10. Before(f, g)
  BY <1>9 DEF Received
<1> QED
  BY <1>2, <1>8, <1>10 DEF Before

(* A BAM finds no other broadcast open, and a slot; a packet is the next   *)
(* of the broadcast that is open.                                          *)
LEMMA HeadBam ==
  ASSUME Types, SenderKept, FramesKept, SlotsKept, FillsAll, NEW f, Received(f), ~DataIs(f),
         f.dst = Broadcast
  PROVE  f = Bam(f.msg) /\ OpenTo(Broadcast) = {} /\ f.total = started[f.msg].total
<1>1. f \in OpenFrames /\ FrameKept(f) /\ f \in Rcv
  BY FrameIs DEF Received
<1>2. f.kind = "BAM" /\ f.pgn = started[f.msg].pgn /\ f.total = started[f.msg].total
  BY <1>1 DEF FrameKept
<1>3. f = Bam(f.msg)
  BY <1>1, <1>2 DEF OpenFrames, Bam
<1>4. ASSUME NEW i \in OpenTo(Broadcast)
      PROVE  FALSE
  <2>1. PICK m \in 1 .. Len(started) : Filling(i, m)
    BY DEF FillsAll
  <2>2. f.msg = m
    BY <2>1, HeadBelongs
  <2>3. Bam(m) \notin Rcv
    BY <2>1 DEF Filling
  <2> QED
    BY <1>1, <1>3, <2>2, <2>3
<1> QED
  BY <1>2, <1>3, <1>4

LEMMA HeadPacket ==
  ASSUME Types, SenderKept, FramesKept, SlotsKept, NEW f, Received(f), DataIs(f),
         f.dst = Broadcast, NEW i \in OpenTo(Broadcast), NEW m \in 1 .. Len(started), Filling(i, m)
  PROVE  /\ f.msg = m /\ f.seq = buf[i].last + 1 /\ f.seq <= SentOf(m) /\ f = Dt(m, f.seq)
<1>1. f.msg = m
  BY HeadBelongs
<1>2. f \in DataFrames /\ FrameKept(f) /\ f \in Rcv /\ f.seq \in Nat
  BY FrameIs DEF Received
<1>3. PICK l \in Nat, n \in Nat : l = buf[i].last /\ n = SentOf(m)
  BY OpenSlot, SentIsNat
<1>4. f.seq > l
  BY <1>1, <1>2, <1>3 DEF Filling
<1>5. f.seq <= n
  <2>1. f.seq <= started[m].total /\ (m = pending.msg => f.seq <= nextSeq)
    BY <1>1, <1>2, SentIsNat DEF FrameKept
  <2> QED
    BY <1>3, <2>1, SentIsNat
<1>6. ~(f.seq > l + 1)
  <2> SUFFICES ASSUME f.seq > l + 1
               PROVE  FALSE
    OBVIOUS
  <2>1. l + 1 \in l + 1 .. n
    BY <1>2, <1>3, <1>5
  <2>2. PICK g : g = Dt(m, l + 1)
    OBVIOUS
  <2>3. g \in Rcv /\ g.msg = m /\ g.seq = l + 1
    BY <1>3, <2>1, <2>2 DEF Filling, Dt
  <2>4. g \in Rcv'
    BY <2>3 DEF Received
  <2>5. Before(f, g)
    BY <2>4 DEF Received
  <2> QED
    BY <1>1, <1>2, <1>3, <2>3, <2>5 DEF Before
<1>7. f.seq = l + 1
  BY <1>2, <1>3, <1>4, <1>6
<1>8. f = Dt(m, f.seq)
  BY <1>1, <1>2 DEF DataFrames, Dt
<1> QED
  BY <1>1, <1>3, <1>5, <1>7, <1>8

LEMMA RoomForBam ==
  ASSUME Types, SlotsKept, OverlapKept, ~overlap, NoFast, OpenTo(Broadcast) = {}, NEW p,
         Usable(buf, p, Broadcast, TRUE) = {}
  PROVE  FALSE
<1>1. ASSUME NEW i \in Slots
      PROVE  i \in OpenTo(Me)
  <2>1. ~buf[i].free /\ buf[i].line # "fast packet"
    BY DEF Usable, NoFast
  <2>2. buf[i].tp /\ buf[i].dst \in {Me, Broadcast}
    BY <2>1 DEF SlotsKept, SlotKept
  <2>3. buf[i].dst # Broadcast
    BY <2>1, <2>2 DEF OpenTo, OpenFrom
  <2> QED
    BY <2>1, <2>2, <2>3 DEF OpenTo, OpenFrom
<1>2. 0 \in OpenTo(Me) /\ 1 \in OpenTo(Me)
  BY <1>1, SlotsAre
<1>3. \A i, j \in OpenTo(Me) : i = j
  BY DEF OverlapKept
<1>4. 0 = 1
  BY <1>2, <1>3
<1> QED
  BY <1>4

(* The broadcast of a frame that was received, and the others.             *)
LEMMA HeadKept ==
  ASSUME NEW f, Received(f), BroadcastKept(f.msg),
         started[f.msg].total \notin TooLong =>
           HandedOn(f.msg)' \/ \E i \in OpenTo(Broadcast)' : Filling(i, f.msg)'
  PROVE  BroadcastKept(f.msg)'
<1>1. UNCHANGED <<pending, nextSeq, started, ended>>
  BY DEF Received, sender
<1>2. PICK m : m = f.msg
  OBVIOUS
<1>3. Bam(m)' = Bam(m) /\ SentOf(m)' = SentOf(m)
  BY <1>1 DEF Bam, SentOf
<1>4. Bam(m) \notin Rcv'
  <2> SUFFICES ASSUME Bam(m) \in Rcv'
               PROVE  FALSE
    OBVIOUS
  <2>1. Before(f, Bam(m)) /\ f \in Frames
    BY DEF Received
  <2>2. Bam(m).msg = m /\ ~DataIs(Bam(m)) /\ f.msg \in Nat
    BY <2>1, FrameIs DEF Bam, DataIs
  <2> QED
    BY <1>2, <2>1, <2>2 DEF Before
<1>5. m # pending.msg => ended[m].how = "sent"
  BY <1>2 DEF BroadcastKept
<1>6. \/ started[m].total \in TooLong \/ HandedOn(m)'
      \/ \E i \in OpenTo(Broadcast)' : Filling(i, m)'
  BY <1>2
<1>7. BroadcastKept(m)'
  BY <1>1, <1>3, <1>4, <1>5, <1>6 DEF BroadcastKept
<1> QED
  BY <1>1, <1>2, <1>7 DEF BroadcastKept, Bam, SentOf, HandedOn, Filling

LEMMA OthersKept ==
  ASSUME Types, SenderKept, FramesKept, SlotsKept, AllKept, NEW f, Received(f),
         delivered \subseteq delivered', BroadcastKept(f.msg)'
  PROVE  AllKept'
<1>1. UNCHANGED started
  BY DEF Received, sender
<1>2. ASSUME NEW m \in 1 .. Len(started), started[m].dst = Broadcast, m # f.msg
      PROVE  BroadcastKept(m)'
  <2>1. BroadcastKept(m)
    BY <1>2 DEF AllKept
  <2>2. f # Bam(m) /\ \A q : f # Dt(m, q)
    BY <1>2 DEF Bam, Dt
  <2>3. ASSUME NEW i \in OpenTo(Broadcast), Filling(i, m)
        PROVE  FALSE
    BY <1>2, <2>3, HeadBelongs
  <2> QED
    BY <2>1, <2>2, <2>3, KeptBeside
<1>3. ASSUME NEW m \in 1 .. Len(started), started[m].dst = Broadcast, m = f.msg
      PROVE  BroadcastKept(m)'
  BY <1>3 DEF BroadcastKept, Bam, SentOf, HandedOn, Filling
<1> QED
  BY <1>1, <1>2, <1>3 DEF AllKept

(* Nothing of a frame to the receiver alone concerns a broadcast.          *)
LEMMA AsideStep ==
  ASSUME Types, FramesKept, Ordered(toRcv), SlotsKept, FillsAll, AllKept,
         \A i \in Slots : ~Stale(buf[i]), NEW f, f.dst = Me,
         \/ TurnsAway(f) \/ Ignores(f)
         \/ \E i : Opens(f, i) \/ Breaks(f, i) \/ Adds(f, i) \/ Completes(f, i)
  PROVE  FillsAll' /\ AllKept'
<1> DEFINE Same == /\ Received(f) /\ delivered \subseteq delivered'
                   /\ OpenTo(Broadcast)' = OpenTo(Broadcast)
                   /\ \A j \in OpenTo(Broadcast) : buf'[j] = buf[j]
<1>1. Me # Broadcast
  BY DEF Me, Broadcast
<1>2. ASSUME Received(f), UNCHANGED <<buf, delivered>>
      PROVE  Same
  BY <1>2 DEF OpenTo
<1>3. CASE TurnsAway(f)
  <2>1. Received(f) /\ UNCHANGED <<buf, delivered>>
    BY <1>3, TurnsAwayIs
  <2>2. Same
    BY <1>2, <2>1
  <2> QED
    BY <2>2, BroadcastAside
<1>4. CASE Ignores(f)
  <2>1. Received(f) /\ UNCHANGED <<buf, delivered>>
    BY <1>4, TakenIs DEF Ignores, receiver
  <2>2. Same
    BY <1>2, <2>1
  <2> QED
    BY <2>2, BroadcastAside
<1>5. ASSUME NEW i, Opens(f, i)
      PROVE  Same
  <2>1. OpenTo(Broadcast)' = OpenTo(Broadcast) \ {i} /\ (\A j \in Slots : j # i => buf'[j] = buf[j])
        /\ i \in Slots
    BY <1>1, <1>5, OpensOnly
  <2>2. Received(f) /\ UNCHANGED delivered
    BY <1>5, OpensIs
  <2>3. buf[i].free \/ buf[i].dst = Me
    BY <1>5, <2>1, OpensIs
  <2>4. i \notin OpenTo(Broadcast)
    BY <1>1, <2>3 DEF OpenTo, OpenFrom
  <2>5. OpenTo(Broadcast) \subseteq Slots
    BY DEF OpenTo, OpenFrom
  <2> QED
    BY <2>1, <2>2, <2>4, <2>5
<1>6. ASSUME NEW i, Breaks(f, i) \/ Completes(f, i)
      PROVE  Same
  <2>1. Received(f) /\ i \in OpenTo(f.dst) /\ SlotSet(i, Free) /\ OpenNow(i, Free, Broadcast)
    BY <1>6, BreaksIs, CompletesIs
  <2>2. delivered \subseteq delivered'
    BY <1>6 DEF Breaks, Completes
  <2>3. i \notin OpenTo(Broadcast) /\ OpenTo(Broadcast) \subseteq Slots
    BY <1>1, <2>1 DEF OpenTo, OpenFrom
  <2>4. Free.free
    BY FreeIsNoTransfer, NowIs
  <2>5. OpenTo(Broadcast)' = OpenTo(Broadcast)
    BY <2>1, <2>3, <2>4 DEF OpenNow
  <2> QED
    BY <2>1, <2>2, <2>3, <2>5 DEF SlotSet
<1>7. ASSUME NEW i, Adds(f, i)
      PROVE  Same
  <2>1. Received(f) /\ i \in OpenTo(f.dst) /\ UNCHANGED delivered
    BY <1>7, AddsIs
  <2>2. PICK s : Grown(s, f, i) /\ SlotSet(i, s) /\ \A d : OpenNow(i, s, d)
    BY <1>7, AddsIs
  <2>3. OpenTo(Broadcast)' = OpenTo(Broadcast) /\ \A j \in Slots : j # i => buf'[j] = buf[j]
    BY <2>1, <2>2, AddsOnly
  <2>4. i \notin OpenTo(Broadcast) /\ OpenTo(Broadcast) \subseteq Slots
    BY <1>1, <2>1 DEF OpenTo, OpenFrom
  <2> QED
    BY <2>1, <2>3, <2>4
<1>8. CASE \E i : Opens(f, i) \/ Breaks(f, i) \/ Adds(f, i) \/ Completes(f, i)
  <2>1. Same
    BY <1>5, <1>6, <1>7, <1>8
  <2> QED
    BY <2>1, BroadcastAside
<1> QED
  BY <1>3, <1>4, <1>8

(* A BAM opens a slot for its broadcast, unless it is too long.            *)
LEMMA BamStep ==
  ASSUME Types, SenderKept, FramesKept, Ordered(toRcv), SlotsKept, OverlapKept, ~overlap,
         NoFast, FillsAll, AllKept, \A i \in Slots : ~Stale(buf[i]), NEW f, f.dst = Broadcast,
         TurnsAway(f) \/ \E i : Opens(f, i)
  PROVE  FillsAll' /\ AllKept'
<1>1. Received(f) /\ ~DataIs(f) /\ UNCHANGED delivered
  BY TurnsAwayIs, OpensIs
<1>2. f = Bam(f.msg) /\ OpenTo(Broadcast) = {} /\ f.total = started[f.msg].total
  BY <1>1, HeadBam
<1>3. UNCHANGED <<pending, nextSeq, started>> /\ f.msg \in 1 .. Len(started) /\ f \in Rcv
      /\ started[f.msg].dst = Broadcast
  BY <1>1 DEF Received, sender, FrameKept
<1>4. BroadcastKept(f.msg)
  BY <1>3 DEF AllKept
<1>5. CASE TurnsAway(f)
  <2>1. UNCHANGED buf
    BY <1>5, TurnsAwayIs
  <2>2. OpenTo(Broadcast)' = {}
    BY <1>2, <2>1 DEF OpenTo
  <2>3. FillsAll'
    BY <2>2 DEF FillsAll
  <2>4. f.total \in TooLong
    <3>1. f.total \in TooLong \/ Usable(buf, f.pgn, f.dst, TRUE) = {}
      BY <1>5 DEF TurnsAway
    <3> QED
      BY <1>2, <3>1, RoomForBam
  <2>5. BroadcastKept(f.msg)'
    BY <1>1, <1>2, <1>4, <2>4, HeadKept
  <2> QED
    BY <1>1, <2>3, <2>5, OthersKept
<1>6. ASSUME NEW i, Opens(f, i)
      PROVE  FillsAll' /\ AllKept'
  <2>1. OpenTo(Broadcast)' = {i} /\ buf'[i] = NewSlot(f)
    BY <1>2, <1>6, OpensOnly
  <2>2. PICK s : s = NewSlot(f)
    OBVIOUS
  <2>3. f \in OpenFrames
    BY <1>6, OpensIs
  <2>4. s.last = 0 /\ s.total = f.total
    BY <2>2 DEF NewSlot
  <2>5. PICK m : m = f.msg
    OBVIOUS
  <2>6. Filling(i, m)'
    <3>1. PICK n \in Nat : n = SentOf(m)
      BY <1>3, <2>5, SentIsNat
    <3>2. SentOf(m)' = n
      BY <1>3, <3>1 DEF SentOf
    <3>3. f \notin Rcv' /\ Bam(m)' = f
      <4>1. ~Before(f, f) /\ \A g \in Rcv' : Before(f, g)
        BY <1>1, <1>3, <2>5 DEF Before, Received
      <4>2. Bam(m)' = Bam(m)
        BY <1>3 DEF Bam
      <4> QED
        BY <1>2, <2>5, <4>1, <4>2
    <3>4. ASSUME NEW g \in Rcv'
          PROVE  g.msg >= m /\ (g.msg = m => g.seq > 0)
      <4>1. Before(f, g) /\ g \in Rcv /\ m \in Nat
        BY <1>1, <1>3, <2>5 DEF Received
      <4>2. g \in Frames /\ FrameKept(g) /\ g.msg \in Nat
        BY <4>1, Queued, FrameIs DEF FramesKept
      <4>3. DataIs(g) => g.seq \in Nat /\ g.seq >= 1
        <5>1. DataIs(g) => g.seq \in Nat
          BY <4>2, FrameIs
        <5>2. DataIs(g) => g.seq \in 1 .. started[g.msg].total
          BY <4>2 DEF FrameKept
        <5>3. g.msg \in 1 .. Len(started)
          BY <4>2 DEF FrameKept
        <5> QED
          BY <5>1, <5>2, <5>3, SentIsNat
      <4> QED
        BY <2>5, <4>1, <4>2, <4>3 DEF Before
    <3>5. ASSUME NEW q \in 1 .. n
          PROVE  Dt(m, q) \in Rcv'
      <4>1. Dt(m, q) \in Rcv /\ Dt(m, q) # f
        <5>1. Dt(m, q) \in Rcv
          BY <1>2, <1>3, <1>4, <2>5, <3>1 DEF BroadcastKept
        <5>2. DataIs(Dt(m, q))
          BY DEF Dt, DataIs
        <5> QED
          BY <1>1, <5>1, <5>2
      <4> QED
        BY <1>1, <4>1 DEF Received
    <3>6. 0 + 1 .. n = 1 .. n /\ 1 .. 0 = {} /\ 0 <= n
      OBVIOUS
    <3>7. buf'[i].last = 0 /\ buf'[i].total = started'[m].total
      BY <1>2, <1>3, <2>1, <2>2, <2>4, <2>5
    <3> QED
      BY <3>2, <3>3, <3>4, <3>5, <3>6, <3>7 DEF Filling, Dt
  <2>7. FillsAll'
    BY <1>3, <2>1, <2>5, <2>6 DEF FillsAll
  <2>8. BroadcastKept(f.msg)'
    BY <1>1, <1>4, <2>1, <2>5, <2>6, HeadKept
  <2> QED
    BY <1>1, <2>7, <2>8, OthersKept
<1> QED
  BY <1>5, <1>6

(* A packet of a broadcast fills the slot, or completes the message.       *)
LEMMA PacketFills ==
  ASSUME Types, SenderKept, FramesKept, SlotsKept, NEW f, Received(f), DataIs(f),
         f.dst = Broadcast, NEW i \in OpenTo(Broadcast), NEW m \in 1 .. Len(started), Filling(i, m),
         NEW s, Grown(s, f, i), buf'[i] = s
  PROVE  Filling(i, m)'
<1>1. f.msg = m /\ f.seq <= SentOf(m) /\ f = Dt(m, f.seq)
  BY HeadPacket
<1>2. PICK l \in Nat, n \in Nat : l = buf[i].last /\ n = SentOf(m)
  BY OpenSlot, SentIsNat
<1>3. /\ f.seq = l + 1 /\ s.last = l + 1 /\ s.total = buf[i].total
      /\ (\A k \in 1 .. l : s.got[k] = buf[i].got[k])
      /\ s.got[l + 1] = [msg |-> f.msg, idx |-> f.seq]
  BY <1>2 DEF Grown
<1>4. UNCHANGED <<pending, nextSeq, started>> /\ Rcv' \subseteq Rcv
      /\ \A g \in Rcv : g = f \/ g \in Rcv'
  BY DEF Received, sender
<1>5. Bam(m)' = Bam(m) /\ SentOf(m)' = n
  BY <1>2, <1>4 DEF Bam, SentOf
<1>6. Bam(m) \notin Rcv'
  BY <1>4 DEF Filling
<1>7. ASSUME NEW g \in Rcv'
      PROVE  g.msg >= m /\ (g.msg = m => g.seq > l + 1)
  <2>1. Before(f, g) /\ g \in Frames /\ f \in Frames
    BY <1>4, Queued DEF Received
  <2>2. g.msg >= m
    BY <1>4 DEF Filling
  <2>3. g.msg = m => f.seq < g.seq /\ DataIs(g)
    BY <1>1, <2>1, FrameIs DEF Before
  <2>4. DataIs(g) => g.seq \in Nat
    BY <2>1, FrameIs
  <2> QED
    BY <1>3, <2>2, <2>3, <2>4
<1>8. ASSUME NEW q \in (l + 1) + 1 .. n
      PROVE  Dt(m, q) \in Rcv'
  <2>1. q \in l + 1 .. n /\ q # f.seq
    BY <1>2, <1>3
  <2>2. Dt(m, q) \in Rcv
    BY <1>2, <2>1 DEF Filling
  <2>3. Dt(m, q) # f
    BY <2>1 DEF Dt
  <2> QED
    BY <1>4, <2>2, <2>3
<1>9. ASSUME NEW k \in 1 .. l + 1
      PROVE  s.got[k].msg = m
  <2>1. CASE k \in 1 .. l
    BY <1>2, <1>3, <2>1 DEF Filling
  <2>2. CASE k = l + 1
    BY <1>1, <1>3, <2>2
  <2> QED
    BY <2>1, <2>2
<1>10. buf'[i].total = started'[m].total /\ buf'[i].last = l + 1
  BY <1>3, <1>4 DEF Filling
<1>11. l + 1 <= n
  BY <1>1, <1>2, <1>3
<1> QED
  BY <1>5, <1>6, <1>7, <1>8, <1>9, <1>10, <1>11 DEF Filling, Dt

LEMMA PacketCompletes ==
  ASSUME Types, SenderKept, FramesKept, SlotsKept, NEW f, Received(f), DataIs(f),
         f.dst = Broadcast, NEW i \in OpenTo(Broadcast), NEW m \in 1 .. Len(started), Filling(i, m),
         NEW s, Grown(s, f, i), s.last = s.total,
         delivered' = delivered \cup {Delivery(s)}
  PROVE  HandedOn(m)'
<1>1. f.msg = m /\ m \in 1 .. MaxMsgs
  BY HeadPacket, Sending
<1>2. PICK l \in Nat : l = buf[i].last
  BY OpenSlot
<1>3. /\ s.last = l + 1 /\ s.total = l + 1 /\ Len(s.got) = s.total /\ s \in SlotTypes
      /\ (\A k \in 1 .. l : s.got[k] = buf[i].got[k])
      /\ s.got[l + 1] = [msg |-> f.msg, idx |-> f.seq] /\ f.seq = l + 1
      /\ GotKept(buf[i])
  BY <1>2, OpenSlot DEF Grown
<1>4. ASSUME NEW k \in 1 .. l + 1
      PROVE  s.got[k].msg = m /\ s.got[k].idx = k
  <2>1. CASE k \in 1 .. l
    <3>1. s.got[k] = buf[i].got[k] /\ buf[i].got[k].idx = k /\ buf[i].got[k].msg = m
      BY <1>2, <1>3, <2>1 DEF Filling, GotKept
    <3> QED
      BY <3>1
  <2>2. CASE k = l + 1
    BY <1>1, <1>3, <2>2
  <2> QED
    BY <2>1, <2>2
<1>5. PICK d : d = Delivery(s)
  OBVIOUS
<1>6. /\ s.total \in Nat /\ s.total >= 1
      /\ \A k \in 1 .. s.total : s.got[k].msg = m /\ s.got[k].idx = k
  BY <1>3, <1>4
<1>7. WholeMessage(d) /\ d.got[1].msg = m
  BY <1>1, <1>3, <1>5, <1>6, WholeIs
<1> QED
  BY <1>5, <1>7 DEF HandedOn, WholeMessage

LEMMA PacketStep ==
  ASSUME Types, SenderKept, FramesKept, Ordered(toRcv), SlotsKept, OverlapKept, ~overlap,
         FillsAll, AllKept, NEW f, f.dst = Broadcast,
         Ignores(f) \/ \E i : Breaks(f, i) \/ Adds(f, i) \/ Completes(f, i)
  PROVE  FillsAll' /\ AllKept'
<1>1. Received(f) /\ DataIs(f)
  BY TakenIs, BreaksIs, AddsIs, CompletesIs DEF Ignores
<1>2. UNCHANGED <<pending, nextSeq, started>> /\ f.msg \in 1 .. Len(started) /\ f \in Rcv
      /\ started[f.msg].dst = Broadcast
  BY <1>1 DEF Received, sender, FrameKept
<1>3. BroadcastKept(f.msg)
  BY <1>2 DEF AllKept
<1>4. \A j, k \in OpenTo(Broadcast) : j = k
  BY DEF OverlapKept
<1>5. CASE Ignores(f)
  <2>1. OpenTo(Broadcast) = {} /\ UNCHANGED <<buf, delivered>>
    BY <1>5 DEF Ignores, receiver
  <2>2. OpenTo(Broadcast)' = {}
    BY <2>1 DEF OpenTo
  <2>3. FillsAll'
    BY <2>2 DEF FillsAll
  <2>4. Bam(f.msg) \notin Rcv
    <3> SUFFICES ASSUME Bam(f.msg) \in Rcv
                 PROVE  FALSE
      OBVIOUS
    <3>1. Bam(f.msg).msg = f.msg /\ ~DataIs(Bam(f.msg)) /\ f.msg \in Nat
      BY <1>1, FrameIs DEF Bam, DataIs, Received
    <3>2. Bam(f.msg) \in Rcv'
      BY <1>1, <3>1 DEF Received
    <3>3. Before(f, Bam(f.msg))
      BY <1>1, <3>2 DEF Received
    <3> QED
      BY <3>1, <3>3 DEF Before
  <2>5. started[f.msg].total \notin TooLong => HandedOn(f.msg)'
    BY <1>3, <2>1, <2>4 DEF BroadcastKept, HandedOn, WholeMessage
  <2>6. BroadcastKept(f.msg)'
    BY <1>1, <1>3, <2>5, HeadKept
  <2> QED
    BY <1>1, <2>1, <2>3, <2>6, OthersKept
<1>6. ASSUME NEW i, Breaks(f, i)
      PROVE  FALSE
  <2>1. i \in OpenTo(Broadcast) /\ f.seq # buf[i].last + 1
    BY <1>6, BreaksIs
  <2>2. PICK m \in 1 .. Len(started) : Filling(i, m)
    BY <2>1 DEF FillsAll
  <2> QED
    BY <1>1, <2>1, <2>2, HeadPacket
<1>7. ASSUME NEW i, Adds(f, i)
      PROVE  FillsAll' /\ AllKept'
  <2>1. i \in OpenTo(f.dst) /\ i \in OpenTo(Broadcast) /\ UNCHANGED delivered
    BY <1>7, AddsIs
  <2>2. PICK s : Grown(s, f, i) /\ SlotSet(i, s) /\ \A d : OpenNow(i, s, d)
    BY <1>7, AddsIs
  <2>3. OpenTo(Broadcast)' = OpenTo(Broadcast) /\ buf'[i] = s
    BY <2>1, <2>2, AddsOnly
  <2>4. PICK m \in 1 .. Len(started) : started[m].dst = Broadcast /\ Filling(i, m)
    BY <2>1 DEF FillsAll
  <2>5. Filling(i, m)' /\ f.msg = m
    BY <1>1, <2>1, <2>2, <2>3, <2>4, PacketFills, HeadPacket
  <2>6. FillsAll'
    BY <1>2, <1>4, <2>1, <2>3, <2>4, <2>5 DEF FillsAll
  <2>7. BroadcastKept(f.msg)'
    BY <1>1, <1>3, <2>1, <2>3, <2>5, HeadKept
  <2> QED
    BY <1>1, <2>1, <2>6, <2>7, OthersKept
<1>8. ASSUME NEW i, Completes(f, i)
      PROVE  FillsAll' /\ AllKept'
  <2>1. i \in OpenTo(Broadcast) /\ OpenNow(i, Free, Broadcast)
    BY <1>8, CompletesIs
  <2>2. PICK s : /\ Grown(s, f, i) /\ s.last = s.total
                 /\ delivered' = delivered \cup {Delivery(s)}
    BY <1>8, CompletesIs DEF Delivery
  <2>3. Free.free
    BY FreeIsNoTransfer, NowIs
  <2>4. OpenTo(Broadcast)' = {}
    BY <1>4, <2>1, <2>3 DEF OpenNow
  <2>5. FillsAll'
    BY <2>4 DEF FillsAll
  <2>6. PICK m \in 1 .. Len(started) : started[m].dst = Broadcast /\ Filling(i, m)
    BY <2>1 DEF FillsAll
  <2>7. f.msg = m
    BY <1>1, <2>1, <2>6, HeadPacket
  <2>8. HandedOn(m)'
    BY <1>1, <2>1, <2>2, <2>6, PacketCompletes
  <2>9. BroadcastKept(f.msg)'
    BY <1>1, <1>3, <2>7, <2>8, HeadKept
  <2> QED
    BY <1>1, <2>2, <2>5, <2>9, OthersKept
<1> QED
  BY <1>5, <1>6, <1>7, <1>8

LEMMA BroadcastRest ==
  ASSUME Types, SenderKept, FramesKept, Ordered(toRcv), SlotsKept, OverlapKept, BroadcastsKept,
         ReceiverSteps \/ OtherSteps \/ UNCHANGED vars
  PROVE  BroadcastsKept'
<1> SUFFICES ASSUME Quiet'
             PROVE  NoFast' /\ FillsAll' /\ AllKept'
  BY DEF BroadcastsKept, NoFast, FillsAll, AllKept
<1>1. Quiet /\ (\A i \in Slots : ~Stale(buf[i])) /\ (OtherSteps => \E i : SlotLeft(i))
  BY QuietRest
<1>2. NoFast /\ FillsAll /\ AllKept /\ ~overlap
  BY <1>1, QuietIs DEF Quiet
<1>3. ASSUME NEW i
      PROVE  ~SlotLeft(i)
  BY <1>2 DEF NoFast, SlotLeft
<1>4. ~OtherSteps
  BY <1>1, <1>3
<1>5. CASE ReceiverSteps
  <2>1. NoFast'
    BY <1>2, <1>5, NoFastStep
  <2>2. PICK f : \/ TurnsAway(f) \/ Ignores(f)
                 \/ \E i : Opens(f, i) \/ Breaks(f, i) \/ Adds(f, i) \/ Completes(f, i)
    BY <1>5 DEF ReceiverSteps
  <2>3. Received(f)
    BY <2>2, TurnsAwayIs, OpensIs, BreaksIs, AddsIs, CompletesIs, TakenIs DEF Ignores
  <2>4. f.dst \in {Me, Broadcast}
    BY <2>3, FrameIs DEF Received
  <2>5. CASE f.dst = Me
    BY <1>1, <1>2, <2>1, <2>2, <2>5, AsideStep
  <2>6. CASE f.dst = Broadcast
    <3>1. CASE TurnsAway(f) \/ \E i : Opens(f, i)
      BY <1>1, <1>2, <2>1, <2>6, <3>1, BamStep
    <3>2. CASE Ignores(f) \/ \E i : Breaks(f, i) \/ Adds(f, i) \/ Completes(f, i)
      BY <1>2, <2>1, <2>6, <3>2, PacketStep
    <3> QED
      BY <2>2, <3>1, <3>2
  <2> QED
    BY <2>4, <2>5, <2>6
<1>6. CASE UNCHANGED vars
  <2>1. UNCHANGED <<sender, toRcv, receiver>>
    BY <1>6 DEF vars
  <2>2. UNCHANGED <<pending, nextSeq, started, ended, toRcv, buf, delivered>>
    BY <2>1 DEF sender, receiver
  <2>3. NoFast'
    BY <1>2, <2>2 DEF NoFast
  <2>4. Rcv' = Rcv /\ OpenTo(Broadcast)' = OpenTo(Broadcast)
    BY <2>2 DEF Rcv, OpenTo
  <2>5. ASSUME NEW i, NEW m
        PROVE  (Filling(i, m)' <=> Filling(i, m)) /\ (HandedOn(m)' <=> HandedOn(m))
               /\ Bam(m)' = Bam(m) /\ SentOf(m)' = SentOf(m)
    BY <2>2, <2>4 DEF Filling, HandedOn, WholeMessage, Bam, SentOf, Dt
  <2>6. FillsAll'
    BY <1>2, <2>2, <2>4, <2>5 DEF FillsAll
  <2>7. ASSUME NEW m, BroadcastKept(m)
        PROVE  BroadcastKept(m)'
    BY <2>2, <2>4, <2>5, <2>7 DEF BroadcastKept, Dt
  <2>8. AllKept'
    BY <1>2, <2>2, <2>7 DEF AllKept
  <2> QED
    BY <2>3, <2>6, <2>8
<1> QED
  BY <1>4, <1>5, <1>6

-----------------------------------------------------------------------------
(* When the sender goes on with a message, no packet of it is left of      *)
(* those it sent before.                                                   *)

LEMMA NewWindow ==
  ASSUME Types, SenderKept, FramesKept, AnswersKept, SenderSteps, NEW f, NewData(f), f.dst = Me,
         f.msg \notin misled'
  PROVE  /\ nextSeq' \in Nat /\ nextSeq' <= nextSeq + TpMaxFrames
         /\ \A g \in Rcv : DataIs(g) => g.msg # f.msg
<1>1. nextSeq \in Nat /\ f.seq \in Nat /\ nextSeq < f.seq /\ f.seq <= nextSeq' /\ pending.msg # 0
      /\ f.msg = pending.msg /\ pending.dst = Me /\ Me # Broadcast
  BY FrameIs, Sending DEF NewData, Me, Broadcast
<1>2. nextSeq' # nextSeq
  BY <1>1
<1>3. ASSUME NEW p, NEW n, NEW d, Begins(p, n, d) \/ BeginFails(p, n, d)
      PROVE  FALSE
  BY <1>1, <1>3 DEF Begins, BeginFails
<1>4. ~Broadcasts /\ ~TimesOut /\ ~AnswerIgnored
  BY <1>1, <1>2 DEF Broadcasts, TimesOut, AnswerIgnored
<1>5. ASSUME NEW c, NEW how, EndedBy(c, how)
      PROVE  FALSE
  BY <1>2, <1>5 DEF EndedBy
<1>6. PICK c : Asks(c) \/ AskFails(c)
  BY <1>3, <1>4, <1>5 DEF SenderSteps
<1>7. /\ AnswerTaken /\ c = Head(toSnd) /\ Fits(c) /\ Misleads(c)
      /\ nextSeq' \in Nat /\ nextSeq' <= nextSeq + c.packets
  BY <1>6 DEF Asks, AskFails
<1>8. c \in Snd /\ c \in AnswerFrames /\ AnswerKept(c)
  BY <1>7, AnswerDropping DEF AnswerTaken, AnswersKept
<1>9. c.msg = pending.msg
  BY <1>1, <1>7, NoMisleading
<1>10. c.packets \in 1 .. TpMaxFrames /\ c.next \in Nat /\ c.next - 1 = nextSeq
       /\ \A g \in Rcv : DataIs(g) /\ g.msg = c.msg => g.seq >= c.next
  BY <1>7, <1>8 DEF Fits, AnswerKept, AnswerFrames
<1>11. nextSeq' <= nextSeq + TpMaxFrames
  BY <1>1, <1>7, <1>10, Constants
<1>12. ASSUME NEW g \in Rcv, DataIs(g), g.msg = f.msg
       PROVE  FALSE
  <2>1. g.seq \in Nat /\ FrameKept(g)
    BY <1>12, Queued, FrameIs DEF FramesKept
  <2>2. g.seq <= nextSeq
    BY <1>1, <1>12, <2>1 DEF FrameKept
  <2>3. g.seq >= c.next
    BY <1>1, <1>9, <1>10, <1>12
  <2> QED
    BY <1>1, <1>10, <2>1, <2>2, <2>3
<1> QED
  BY <1>7, <1>11, <1>12

LEMMA SpreadSender ==
  ASSUME Types, SenderKept, FramesKept, AnswersKept, SpreadKept, SenderSteps, SenderGrows, NewFrames
  PROVE  SpreadKept'
<1> SUFFICES ASSUME NEW m \in 1 .. Len(started'), m \notin misled', NEW f \in Rcv', NEW g \in Rcv',
                    DataIs(f), DataIs(g), f.dst = Me, g.dst = Me, f.msg = m, g.msg = m
             PROVE  f.seq < g.seq + TpMaxFrames
  BY DEF SpreadKept, Spread
<1>1. PICK n \in Nat, t \in Nat : n = nextSeq /\ t = TpMaxFrames /\ t > 0
  BY Sending, Constants
<1>2. m \notin misled
  BY DEF SenderGrows
<1>3. (f \in Rcv \/ NewData(f)) /\ (g \in Rcv \/ NewData(g))
  BY DEF NewFrames, NewOpen
<1>4. CASE f \in Rcv /\ g \in Rcv
  <2>1. m \in 1 .. Len(started)
    BY <1>4 DEF FramesKept, FrameKept
  <2> QED
    BY <1>2, <1>4, <2>1 DEF SpreadKept, Spread
<1>5. CASE NewData(f)
  <2>1. nextSeq' \in Nat /\ nextSeq' <= n + t /\ \A h \in Rcv : DataIs(h) => h.msg # m
    BY <1>1, <1>5, NewWindow
  <2>2. NewData(g)
    BY <1>3, <2>1
  <2>3. f.seq \in Nat /\ g.seq \in Nat /\ f.seq <= nextSeq' /\ n < g.seq
    BY <1>1, <1>5, <2>2, FrameIs DEF NewData
  <2> QED
    BY <1>1, <2>1, <2>3
<1>6. CASE NewData(g)
  <2>1. \A h \in Rcv : DataIs(h) => h.msg # m
    BY <1>6, NewWindow
  <2>2. NewData(f)
    BY <1>3, <2>1
  <2> QED
    BY <1>5, <2>2
<1> QED
  BY <1>3, <1>4, <1>5, <1>6

LEMMA SpreadRest ==
  ASSUME SpreadKept, UNCHANGED sender, Rcv' \subseteq Rcv
  PROVE  SpreadKept'
  BY DEF SpreadKept, Spread, sender

(* Packets of one window are as many as their numbers.                     *)
LEMMA SpreadIsWindow ==
  ASSUME Types, FramesKept, Ordered(toRcv), SpreadKept
  PROVE  WindowKept
<1> SUFFICES ASSUME NEW m \in (1 .. MaxMsgs) \ misled
             PROVE  Cardinality({i \in DOMAIN toRcv : toRcv[i].kind = "DT" /\ toRcv[i].msg = m
                                                      /\ toRcv[i].dst # Broadcast}) <= TpMaxFrames
  BY DEF WindowKept
<1>1. PICK t \in Nat, r \in Seq(Frames) : t = TpMaxFrames /\ t > 0 /\ r = toRcv
  BY Constants DEF Types
<1>2. PICK I : I = {i \in DOMAIN r : DataIs(r[i]) /\ r[i].msg = m /\ r[i].dst # Broadcast}
  OBVIOUS
<1>3. ASSUME NEW i \in I
      PROVE  /\ i \in Nat /\ r[i] \in Rcv /\ DataIs(r[i]) /\ r[i].dst = Me /\ r[i].msg = m
             /\ r[i].seq \in Nat /\ m \in 1 .. Len(started)
  <2>1. i \in DOMAIN r /\ i \in Nat /\ r[i] \in Frames /\ r[i] \in Rcv
    BY <1>1, <1>2 DEF Rcv, Elems
  <2>2. DataIs(r[i]) /\ r[i].msg = m /\ r[i].dst = Me /\ r[i].seq \in Nat
    BY <1>2, <2>1, FrameIs
  <2>3. m \in 1 .. Len(started)
    BY <2>1, <2>2 DEF FramesKept, FrameKept
  <2> QED
    BY <2>1, <2>2, <2>3
<1>4. ASSUME NEW i \in I, NEW j \in I, i < j
      PROVE  r[i].seq < r[j].seq
  <2>1. Before(r[i], r[j])
    BY <1>1, <1>2, <1>4 DEF Ordered
  <2> QED
    BY <1>3, <2>1 DEF Before
<1>5. CASE I = {}
  <2>1. Cardinality(I) = 0
    BY <1>5, FS_EmptySet
  <2> QED
    BY <1>1, <1>2, <2>1 DEF DataIs
<1>6. CASE I # {}
  <2>1. PICK a \in I : \A i \in I : a <= i
    <3>1. I \in SUBSET Nat
      BY <1>3
    <3> QED
      BY <1>6, <3>1, LeastExists
  <2>2. PICK q \in Nat : q = r[a].seq
    BY <1>3
  <2>3. ASSUME NEW i \in I
        PROVE  r[i].seq \in q .. q + t - 1
    <3>1. q <= r[i].seq
      <4>1. i = a \/ a < i
        BY <1>3, <2>1
      <4> QED
        BY <1>3, <1>4, <2>2, <4>1
    <3>2. r[i].seq < q + t
      BY <1>1, <1>3, <2>2 DEF SpreadKept, Spread
    <3> QED
      BY <1>1, <1>3, <2>2, <3>1, <3>2
  <2>4. PICK F : F = [i \in I |-> r[i].seq]
    OBVIOUS
  <2>5. F \in Injection(I, q .. q + t - 1)
    <3>1. F \in [I -> q .. q + t - 1]
      BY <2>3, <2>4
    <3>2. ASSUME NEW i \in I, NEW j \in I, F[i] = F[j]
          PROVE  i = j
      <4>1. r[i].seq = r[j].seq /\ r[i].seq \in Nat /\ i \in Nat /\ j \in Nat
        BY <1>3, <2>4, <3>2
      <4>2. ~(i < j) /\ ~(j < i)
        BY <1>4, <4>1
      <4> QED
        BY <4>1, <4>2
    <3> QED
      BY <3>1, <3>2 DEF Injection, IsInjective
  <2>6. IsFiniteSet(q .. q + t - 1) /\ Cardinality(q .. q + t - 1) = t
    <3>1. q \in Int /\ q + t - 1 \in Int /\ ~(q > q + t - 1) /\ (q + t - 1) - q + 1 = t
      BY <1>1
    <3> QED
      BY <3>1, FS_Interval
  <2>7. Cardinality(I) <= t
    BY <2>5, <2>6, FS_Injection
  <2> QED
    BY <1>1, <1>2, <2>7 DEF DataIs
<1> QED
  BY <1>5, <1>6

-----------------------------------------------------------------------------
(* The invariant, ... *)

LEMMA InitKept ==
  ASSUME Init
  PROVE  IsoInv
<1>1. /\ pending = None /\ nextSeq = 0 /\ timer = FALSE /\ started = <<>>
      /\ ended = [m \in 1 .. MaxMsgs |-> Going] /\ misled = {}
      /\ toRcv = <<>> /\ toSnd = <<>> /\ buf = EmptyBuf /\ now = 0
      /\ delivered = {} /\ overlap = FALSE /\ faults = 0 /\ others = 0
  BY DEF Init
<1>2. Rcv = {} /\ Snd = {} /\ Len(started) = 0 /\ 1 .. 0 = {}
  BY <1>1 DEF Rcv, Snd, Elems
<1>3. Free \in SlotTypes /\ Free.free /\ ~Free.tp /\ Free.line = NoLine /\ NoLine # "fast packet"
  <2>1. Free \in SlotTypes /\ Free.free /\ ~Free.tp /\ Free.line = NoLine
    BY FreeTyped, <1>1
  <2> QED
    BY <2>1 DEF NoLine
<1>4. \A i \in Slots : buf[i] = Free
  BY <1>1 DEF EmptyBuf
<1>5. \A d : OpenTo(d) = {}
  BY <1>3, <1>4 DEF OpenTo, OpenFrom
<1>6. ASSUME NEW m \in 1 .. MaxMsgs
      PROVE  ended[m].how = "going" /\ ended[m].by = 0 /\ ended[m] = Going
  BY <1>1 DEF Going
<1>7. Types
  <2>1. Going \in [how : Endings, by : Nat]
    BY DEF Going, Endings
  <2>2. buf \in [Slots -> SlotTypes]
    BY <1>1, <1>3 DEF EmptyBuf
  <2>3. 0 \in 0 .. MaxTime /\ 0 + 0 <= MaxFaults /\ 0 <= MaxMsgs
    BY Constants
  <2>4. /\ toRcv \in Seq(Frames) /\ toSnd \in Seq(AnswerFrames) /\ started \in Seq(Requests)
    BY <1>1
  <2> QED
    BY <1>1, <1>2, <2>1, <2>2, <2>3, <2>4, NoneIs DEF Types
<1>8. SenderKept
  <2>1. \A m \in 1 .. MaxMsgs : ended[m] = Going /\ ~(m <= 0) /\ ended[m].how # "sent"
    BY <1>6
  <2> QED
    BY <1>1, <1>2, <2>1, NoneIs DEF SenderKept
<1>9. Ordered(toRcv)
  BY <1>1 DEF Ordered
<1>10. FramesKept /\ AnswersKept /\ OverlapKept
  BY <1>2, <1>5 DEF FramesKept, AnswersKept, OverlapKept
<1>11. SlotsKept
  BY <1>3, <1>4 DEF SlotsKept, SlotKept
<1>12. AskedKept /\ SpreadKept
  BY <1>2 DEF AskedKept, SpreadKept
<1>13. AcksKept
  BY <1>2, <1>6 DEF AcksKept
<1>14. BroadcastsKept
  BY <1>2, <1>3, <1>4, <1>5 DEF BroadcastsKept
<1>15. CleanKept
  BY <1>1, <1>2, <1>5 DEF CleanKept
<1>16. DeliveredWhole
  BY <1>1 DEF DeliveredWhole
<1>17. OnlyLateAnswersHarm
  BY <1>1, <1>6 DEF OnlyLateAnswersHarm
<1> QED
  BY <1>7, <1>8, <1>9, <1>10, <1>11, <1>12, <1>13, <1>14, <1>15, <1>16, <1>17 DEF IsoInv

(* ... which every step keeps, ... *)
LEMMA SenderStepKept ==
  ASSUME IsoInv, SenderSteps
  PROVE  IsoInv'
<1>1. /\ Types /\ SenderKept /\ FramesKept /\ Ordered(toRcv) /\ AnswersKept /\ SlotsKept
      /\ OverlapKept /\ AskedKept /\ AcksKept /\ BroadcastsKept /\ CleanKept /\ SpreadKept
      /\ DeliveredWhole /\ OnlyLateAnswersHarm
  BY DEF IsoInv
<1>2. /\ Types' /\ SenderKept' /\ SenderGrows /\ NewFrames /\ UNCHANGED <<receiver, now>>
      /\ UNCHANGED receiver /\ Snd' \subseteq Snd
  BY <1>1, SenderEffect
<1>3. FramesKept' /\ Ordered(toRcv)'
  BY <1>1, <1>2, FramesStep DEF NewFrames
<1>4. AnswersKept' /\ SlotsKept'
  BY <1>1, <1>2, AnswersStep, SlotsStep
<1>5. OverlapKept' /\ AskedKept' /\ AcksKept'
  BY <1>1, <1>2, OverlapStep, AskedSender, AcksSender
<1>6. BroadcastsKept' /\ CleanKept' /\ SpreadKept'
  BY <1>1, <1>2, <1>3, BroadcastSender, CleanSender, SpreadSender
<1>7. DeliveredWhole' /\ OnlyLateAnswersHarm'
  BY <1>1, <1>2, DeliveredStep, HarmStep
<1> QED
  BY <1>2, <1>3, <1>4, <1>5, <1>6, <1>7 DEF IsoInv

LEMMA OtherStepKept ==
  ASSUME IsoInv, ReceiverSteps \/ OtherSteps \/ UNCHANGED vars
  PROVE  IsoInv'
<1>1. /\ Types /\ SenderKept /\ FramesKept /\ Ordered(toRcv) /\ AnswersKept /\ SlotsKept
      /\ OverlapKept /\ AskedKept /\ AcksKept /\ BroadcastsKept /\ CleanKept /\ SpreadKept
      /\ DeliveredWhole /\ OnlyLateAnswersHarm
  BY DEF IsoInv
<1>2. /\ Types' /\ UNCHANGED sender /\ Rcv' \subseteq Rcv /\ Ordered(toRcv)'
      /\ SenderKept' /\ SenderGrows
  BY <1>1, RestEffect
<1>3. UNCHANGED misled /\ (UNCHANGED vars => UNCHANGED receiver)
  BY <1>2 DEF sender, vars
<1>4. FramesKept'
  BY <1>1, <1>2, FramesStep
<1>5. AnswersKept' /\ SlotsKept'
  BY <1>1, <1>2, AnswersStep, SlotsStep
<1>6. OverlapKept'
  BY <1>1, <1>2, <1>3, OverlapStep
<1>7. AskedKept' /\ AcksKept'
  BY <1>1, <1>2, <1>6, AskedStep, AcksStep
<1>8. BroadcastsKept' /\ CleanKept' /\ SpreadKept'
  BY <1>1, <1>2, BroadcastRest, CleanRest, SpreadRest
<1>9. DeliveredWhole'
  BY <1>1, <1>2, <1>3, DeliveredStep
<1>10. OnlyLateAnswersHarm'
  BY <1>1, <1>2, HarmStep
<1> QED
  BY <1>2, <1>4, <1>5, <1>6, <1>7, <1>8, <1>9, <1>10 DEF IsoInv

LEMMA StepKept ==
  ASSUME IsoInv, [Next]_vars
  PROVE  IsoInv'
<1>1. SenderSteps \/ ReceiverSteps \/ OtherSteps \/ UNCHANGED vars
  BY StepCases DEF IsoInv
<1> QED
  BY <1>1, SenderStepKept, OtherStepKept

(* ... and what follows from it. *)
LEMMA TypesKept ==
  ASSUME Types, SenderKept, SlotsKept
  PROVE  TransportTypeOK
<1>1. pending \in Transfers /\ pending.msg \in 0 .. MaxMsgs
  BY Sending DEF Types
<1>2. nextSeq <= pending.total \/ pending.msg = 0
  BY Sending
<1>3. pending.msg # 0 => timer
  BY DEF SenderKept
<1>4. \A i \in DOMAIN toRcv : toRcv[i].kind \in {"BAM", "RTS", "DT"}
  <2>1. \A i \in DOMAIN toRcv : toRcv[i] \in Rcv
    BY DEF Rcv, Elems
  <2> QED
    BY <2>1, Queued, FrameIs
<1>5. \A i \in DOMAIN toSnd : toSnd[i].kind \in {"CTS", "ACK", "Abort"}
  <2>1. \A i \in DOMAIN toSnd : toSnd[i] \in Snd
    BY DEF Snd, Elems
  <2> QED
    BY <2>1, Queued DEF AnswerFrames
<1>6. \A i \in Slots : buf[i].free \/ buf[i].line \in Pgns \cup {"fast packet"}
  BY DEF SlotsKept, SlotKept
<1> QED
  BY <1>1, <1>2, <1>3, <1>4, <1>5, <1>6 DEF TransportTypeOK, Types, Transfers

LEMMA BroadcastArrives ==
  ASSUME Types, SenderKept, SlotsKept, BroadcastsKept
  PROVE  BroadcastDelivered
<1> SUFFICES ASSUME faults = 0, others = 0, now = 0, toRcv = <<>>, ~overlap,
                    NEW m \in 1 .. MaxMsgs, ended[m].how = "sent",
                    started[m].total \notin TooLong
             PROVE  \E d \in delivered : WholeMessage(d) /\ d.got[1].msg = m
  BY DEF BroadcastDelivered
<1>1. m <= Len(started) /\ started[m].dst = Broadcast /\ m \in 1 .. Len(started)
  BY Sending DEF SenderKept
<1>2. m # pending.msg
  BY Sending DEF Going
<1>3. Rcv = {}
  BY DEF Rcv, Elems
<1>4. BroadcastKept(m)
  BY <1>1 DEF BroadcastsKept, Quiet
<1>5. ASSUME NEW i \in OpenTo(Broadcast), Filling(i, m)
      PROVE  FALSE
  <2>1. PICK l \in Nat, n \in Nat : l = buf[i].last /\ n = SentOf(m) /\ l < n
    <3>1. buf[i].last \in Nat /\ buf[i].last < buf[i].total /\ buf[i].total = started[m].total
      BY <1>5, OpenSlot DEF Filling
    <3>2. SentOf(m) = started[m].total /\ SentOf(m) \in Nat
      BY <1>1, <1>2, SentIsNat
    <3> QED
      BY <3>1, <3>2
  <2>2. l + 1 \in l + 1 .. n
    BY <2>1
  <2>3. Dt(m, l + 1) \in Rcv
    BY <1>5, <2>1, <2>2 DEF Filling
  <2> QED
    BY <1>3, <2>3
<1>6. HandedOn(m)
  BY <1>3, <1>4, <1>5 DEF BroadcastKept
<1> QED
  BY <1>6 DEF HandedOn

LEMMA Promised ==
  ASSUME IsoInv
  PROVE  TransportInv /\ OnlyLateAnswersHarm
<1>1. TransportTypeOK /\ BroadcastDelivered /\ WindowKept
  BY TypesKept, BroadcastArrives, SpreadIsWindow DEF IsoInv
<1>2. AckedWasDelivered
  BY DEF IsoInv, AcksKept, AckedWasDelivered, Handed
<1> QED
  BY <1>1, <1>2 DEF IsoInv, TransportInv

-----------------------------------------------------------------------------
(* What a transfer promises to both sides: the receiver hands on whole     *)
(* messages, and what it acknowledged; the sender is never more than a     *)
(* window ahead; an undisturbed broadcast arrives (TestHandleTPMessage()). *)
THEOREM TransportKept == Spec => []TransportInv
<1>1. Init => IsoInv
  BY InitKept
<1>2. IsoInv /\ [Next]_vars => IsoInv'
  BY StepKept
<1>3. IsoInv => TransportInv
  BY Promised
<1> QED
  BY <1>1, <1>2, <1>3, PTL DEF Spec

(* An answer to another message ends a transfer, or makes it send, only    *)
(* after the sender itself had given up that message or one before it,     *)
(* although TestHandleTPMessage() compares neither source nor, for an end, *)
(* PGN.                                                                    *)
THEOREM OnlyLateHarms == Spec => []OnlyLateAnswersHarm
<1>1. Init => IsoInv
  BY InitKept
<1>2. IsoInv /\ [Next]_vars => IsoInv'
  BY StepKept
<1>3. IsoInv => OnlyLateAnswersHarm
  BY Promised
<1> QED
  BY <1>1, <1>2, <1>3, PTL DEF Spec
=============================================================================
