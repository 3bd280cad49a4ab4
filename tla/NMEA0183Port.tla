---------------------------- MODULE NMEA0183Port ----------------------------
(***************************************************************************)
(* tNMEA0183 (NMEA0183.cpp): sentences cut out of the bytes of a serial    *)
(* port, and sentences written to it through a ring of bytes that holds    *)
(* what the port does not take at once.                                    *)
(*                                                                         *)
(* Reading: a byte is "$" (which stands for "!" too), "*", or one of the   *)
(* characters "a" and "b" of bodies and checksums.  Sentences come whole   *)
(* or damaged.  Writing: the bytes given to SendBuf are numbered in the    *)
(* order they are given.                                                   *)
(***************************************************************************)
EXTENDS Integers, Sequences

CONSTANTS
  Bodies,           \* what stands between the prefix and the star
  MaxLen,           \* MAX_NMEA0183_MSG_BUF_LEN
  None,             \* SIZE_MAX, where there is no star
  MsgOutBufSize,    \* the ring of bytes to be written
  Messages,         \* sentences sent, as the lengths of their parts
  MaxRoom,          \* bytes the port takes at most without waiting
  MaxBytes          \* bound: bytes given to SendBuf

\* Assumed of the constants: a sentence fits into MsgInBuf.
PortAssumption ==
  /\ None \notin Nat /\ None \notin Bodies
  /\ \A body \in Bodies : body \in Seq({"a", "b"}) /\ Len(body) + 4 <= MaxLen
  /\ MaxLen \in Nat /\ MsgOutBufSize \in Nat \ {0}
  /\ Messages \subseteq Seq(Nat) /\ MaxRoom \in Nat

VARIABLES
  \* reading
  started, inBuf,   \* MsgInStarted; the first MsgInPos bytes of MsgInBuf
  star,             \* MsgCheckSumStartPos
  wire,             \* bytes that have not been read yet
  last, before,     \* the last two sentences sent: a body, or None if damaged
  heard,            \* the bodies GetMessage has found since the last was sent
  \* writing
  outBuf, w, r,     \* MsgOutBuf, MsgOutWritePos, MsgOutReadPos
  room,             \* bytes the port would take now
  parts, given,     \* parts of the message still to send; bytes given so far
  line, accepted    \* the bytes written; those SendBuf has taken over

inVars == <<started, inBuf, star, wire, last, before, heard>>
outVars == <<outBuf, w, r, room, parts, given, line, accepted>>
vars == <<inVars, outVars>>

-----------------------------------------------------------------------------
(* Reading *)

InitIn ==
  /\ started = FALSE /\ inBuf = <<>> /\ star = None
  /\ wire = <<>>
  /\ last = None /\ before = None /\ heard = <<>>

\* A checksum of two characters, different for bodies of different parity.
CheckSum(body) ==
  LET as == {k \in DOMAIN body : body[k] = "a"}
      odd[n \in 0 .. Len(body)] == IF n = 0 THEN FALSE
                                   ELSE odd[n - 1] # (n \in as)
  IN IF odd[Len(body)] THEN <<"a", "b">> ELSE <<"b", "a">>

Sentence(body) == <<"$">> \o body \o <<"*">> \o CheckSum(body)

\* tNMEA0183Msg::SetMessage: the body in the buffer, if the prefix, the star
\* and the checksum are where they belong.
Found(buf) ==
  {body \in Bodies : buf = Sentence(body)}

\* Another sentence comes, or what a bad line leaves of it: its beginning, or
\* a beginning that is followed by too many characters.
Talk(body, kept) ==
  /\ wire = <<>>
  /\ wire' = IF kept <= Len(Sentence(body)) THEN SubSeq(Sentence(body), 1, kept)
             ELSE <<"$">> \o [k \in 1 .. MaxLen |-> "a"]
  /\ last' = IF kept = Len(Sentence(body)) THEN body ELSE None
  /\ before' = last
  /\ heard' = <<>>
  /\ UNCHANGED <<started, inBuf, star>>

Begin ==
  /\ started' = TRUE /\ inBuf' = <<Head(wire)>>
  /\ UNCHANGED <<star, heard>>

\* Seeded error: the place of the star is remembered for the next sentence.
StartFromBeginning_bug_star_kept ==
  started' = FALSE /\ inBuf' = <<>> /\ UNCHANGED star

StartFromBeginning == started' = FALSE /\ inBuf' = <<>> /\ star' = None

Continue(buf, at) ==
  IF at # None /\ at + 3 = Len(buf)
  THEN /\ StartFromBeginning
       /\ heard' = IF Found(buf) = {} THEN heard
                   ELSE Append(heard, CHOOSE body \in Found(buf) : TRUE)
  ELSE IF Len(buf) >= MaxLen
  THEN StartFromBeginning /\ UNCHANGED heard
  ELSE started' = TRUE /\ inBuf' = buf /\ star' = at /\ UNCHANGED heard

\* GetMessage reads a byte.  A "$" does not forget the star of a sentence it
\* cuts short.
GetMessage ==
  /\ wire # <<>>
  /\ wire' = Tail(wire)
  /\ IF Head(wire) = "$" THEN Begin
     ELSE IF started
     THEN Continue(Append(inBuf, Head(wire)),
                   IF Head(wire) = "*" THEN Len(inBuf) ELSE star)
     ELSE UNCHANGED <<started, inBuf, star, heard>>
  /\ UNCHANGED <<last, before>>

InNext ==
  \/ \E body \in Bodies, kept \in 1 .. MaxLen + 1 : Talk(body, kept)
  \/ GetMessage

\* However the line was disturbed before: of two whole sentences in a row the
\* second one is found, once, and a damaged one is not taken for another.
SecondIsHeard ==
  wire = <<>> =>
    /\ last # None /\ before # None => heard = <<last>>
    /\ last = None => heard = <<>>

-----------------------------------------------------------------------------
(* Writing *)

InitOut ==
  /\ outBuf = [k \in 0 .. MsgOutBufSize - 1 |-> 0]
  /\ w = 0 /\ r = 0
  /\ room \in 0 .. MaxRoom
  /\ parts = <<>> /\ given = 0
  /\ line = <<>> /\ accepted = <<>>

Used == (w - r) % MsgOutBufSize
Buffered == [k \in 1 .. Used |-> outBuf[(r + k - 1) % MsgOutBufSize]]
Least(a, b) == IF a < b THEN a ELSE b
Bytes(first, n) == [k \in 1 .. n |-> first + k - 1]

\* When the writer has gone round, too large by the size; then the ring below
\* decides.
MsgOutBufFreeSize(pos) ==
  IF pos < w THEN MsgOutBufSize - (w - pos) ELSE MsgOutBufSize + pos - w

\* kick writes what the port takes of the ring.
Kicked == Least(Used, room)

kick ==
  /\ Kicked > 0
  /\ line' = line \o SubSeq(Buffered, 1, Kicked)
  /\ r' = (r + Kicked) % MsgOutBufSize
  /\ room' = room - Kicked
  /\ UNCHANGED <<outBuf, w, parts, given, accepted>>

\* A part that does not fit is taken back: MsgOutWritePos=wp.
WritePosAfter(n, fit) ==
  IF fit < n THEN w ELSE (w + n) % MsgOutBufSize

\* SendBuf of n bytes: kick, write what the port takes if nothing waits, and
\* buffer the rest or refuse it.
SendBuf(n) ==
  LET r1 == (r + Kicked) % MsgOutBufSize
      direct == IF w = r1 THEN Least(n, room - Kicked) ELSE 0
      rest == n - direct
      tried == rest > 0 /\ rest < MsgOutBufFreeSize(r1)
      fit == Least(rest, (r1 - w - 1) % MsgOutBufSize)
      first == given + direct + 1
  IN /\ line' = line \o SubSeq(Buffered, 1, Kicked) \o Bytes(given + 1, direct)
     /\ r' = r1
     /\ room' = room - Kicked - direct
     /\ outBuf' = IF ~tried THEN outBuf
                  ELSE [k \in DOMAIN outBuf |->
                          IF (k - w) % MsgOutBufSize < fit
                          THEN first + ((k - w) % MsgOutBufSize) ELSE outBuf[k]]
     /\ w' = IF tried THEN WritePosAfter(rest, fit) ELSE w
     /\ accepted' = accepted \o
          Bytes(given + 1, IF tried /\ fit = rest THEN n ELSE direct)
     /\ given' = given + n

\* SendMessage sends a part after the other, whether they are taken or not.
SendMessage(lengths) ==
  /\ parts = <<>> /\ given < MaxBytes
  /\ parts' = lengths
  /\ UNCHANGED <<outBuf, w, r, room, given, line, accepted>>

SendPart == parts # <<>> /\ SendBuf(Head(parts)) /\ parts' = Tail(parts)

\* The port has sent a byte.
PortDrains ==
  /\ room < MaxRoom /\ room' = room + 1
  /\ UNCHANGED <<outBuf, w, r, parts, given, line, accepted>>

OutNext ==
  \/ kick
  \/ \E lengths \in Messages : SendMessage(lengths)
  \/ SendPart
  \/ PortDrains

\* The line shows the bytes SendBuf has taken over, in order, and the ring
\* holds the rest of them: what is refused leaves nothing behind, also after
\* the ring has gone round.
LineInOrder == line \o Buffered = accepted
=============================================================================
