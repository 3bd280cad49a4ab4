------------------------------ MODULE N2kFormats ------------------------------
(***************************************************************************)
(* The forms in which a message leaves or enters the bus: the identifier   *)
(* of its CAN frames (N2ktoCanID and CanIdToN2k of NMEA2000.cpp), the      *)
(* frame of Actisense's devices (SendInActisenseFormat of N2kMsg.cpp) and  *)
(* the sentence $PCDIN of Seasmart.cpp.                                    *)
(*                                                                         *)
(* A HEADER is a record [pri, pgn, src, dst, time]; the time is four       *)
(* bytes, lowest first, and data are bytes.  A text is a sequence of       *)
(* ASCII codes.                                                            *)
(***************************************************************************)
EXTENDS N2kMsg, FiniteSets

-----------------------------------------------------------------------------
(* The identifier of a CAN frame *)

PDU1(pgn) == (pgn \div 256) % 256 < 240

CanIdToN2k(id) ==
  [src |-> id % 256, pri |-> (id \div 2^26) % 8,
   pgn |-> ((id \div 256) % 2^17) - (IF PDU1(id \div 256) THEN (id \div 256) % 256 ELSE 0),
   dst |-> IF PDU1(id \div 256) THEN (id \div 256) % 256 ELSE 255]

\* 0 for a PGN that has a number where the destination belongs.
N2ktoCanID(h) ==
  IF ~PDU1(h.pgn) THEN ((h.pri % 8) * 2^26) + (h.pgn * 256) + h.src
  ELSE IF h.pgn % 256 # 0 THEN 0
  ELSE ((h.pri % 8) * 2^26) + (h.pgn * 256) + (h.dst * 256) + h.src

-----------------------------------------------------------------------------
(* Actisense *)

Escape == 16
StartOfText == 2
EndOfText == 3
MsgTypeN2k == 147

RECURSIVE SumOf(_)
SumOf(codes) == IF codes = <<>> THEN 0 ELSE Head(codes) + SumOf(Tail(codes))

\* Seeded error: an Escape among the bytes is not doubled.
AddByteEscapedToBuf_bug_single(codes) == codes

\* One byte after the other, an Escape twice.
RECURSIVE AddByteEscapedToBuf(_)
AddByteEscapedToBuf(codes) ==
  IF codes = <<>> THEN <<>>
  ELSE (IF Head(codes) = Escape THEN <<Escape, Escape>> ELSE <<Head(codes)>>)
         \o AddByteEscapedToBuf(Tail(codes))

\* The index into the buffer is a uint8_t: from byte 256 on the frame is
\* written over its own beginning, and only what the index counts is sent.
Wrapped(bytes) ==
  LET n == Len(bytes)
      last(i) == CHOOSE k \in DOMAIN bytes : (k % 256) = (i % 256) /\ k + 256 > n
  IN IF n < 256 THEN bytes ELSE [i \in 1..(n % 256) |-> bytes[last(i)]]

PGNBytes(pgn) == <<pgn % 256, (pgn \div 256) % 256, (pgn \div 65536) % 256>>

\* The bytes the function puts together.
ActisenseBytes(h, data) ==
  LET counted == <<MsgTypeN2k, Len(data) + 11, h.pri>> \o PGNBytes(h.pgn)
                   \o <<h.dst, h.src>> \o h.time \o <<Len(data)>> \o data
      crc     == (256 - (SumOf(counted) % 256)) % 256
  IN <<Escape, StartOfText>> \o AddByteEscapedToBuf(counted \o <<crc>>)
       \o <<Escape, EndOfText>>

SendInActisenseFormat(h, data) == Wrapped(ActisenseBytes(h, data))

-----------------------------------------------------------------------------
(* Seasmart *)

Hex == <<48, 49, 50, 51, 52, 53, 54, 55, 56, 57, 65, 66, 67, 68, 69, 70>>
Star == 42
Comma == 44
PCDIN == <<36, 80, 67, 68, 73, 78>>                          \* $PCDIN

appendByte(byte) == <<Hex[(byte \div 16) + 1], Hex[(byte % 16) + 1]>>

RECURSIVE AppendBytes(_)
AppendBytes(bytes) ==
  IF bytes = <<>> THEN <<>> ELSE appendByte(Head(bytes)) \o AppendBytes(Tail(bytes))

\* append2Bytes and appendWord write the highest byte first.
HighFirst(bytes) == [i \in DOMAIN bytes |-> bytes[Len(bytes) + 1 - i]]

\* The exclusive or of what is between the $ and the star at `end`.
nmea_compute_checksum(codes, end) ==
  LET ones(b) == {i \in 2..(end - 1) : (codes[i] \div 2^b) % 2 = 1}
  IN SumOf([b \in 1..8 |-> 2^(b - 1) * (Cardinality(ones(b - 1)) % 2)])

\* The sentence, empty if the buffer of `size` characters has no room.
N2kToSeasmart(h, data, size) ==
  LET text == PCDIN \o <<Comma>> \o AppendBytes(HighFirst(PGNBytes(h.pgn)))
                \o <<Comma>> \o AppendBytes(HighFirst(h.time))
                \o <<Comma>> \o appendByte(h.src) \o <<Comma>> \o AppendBytes(data)
      needed == 6 + 1 + 6 + 1 + 8 + 1 + 2 + 1 + 2 * Len(data) + 1 + 2 + 1
  IN IF size < needed THEN <<>>
     ELSE text \o <<Star>> \o appendByte(nmea_compute_checksum(text, Len(text) + 1))

\* isxdigit and the value of a digit.
IsHex(c) == c \in (48..57) \cup (65..70) \cup (97..102)
Digit(c) == IF c < 58 THEN c - 48 ELSE (c - 55) % 32

\* readNHexByte: n bytes at position i, where the sentence has as many digits.
HasHex(codes, i, n) == i + 2 * n - 1 <= Len(codes) /\ \A k \in i..(i + 2 * n - 1) : IsHex(codes[k])
ReadHex(codes, i, n) ==
  [k \in 1..n |-> (16 * Digit(codes[i + (2 * k) - 2])) + Digit(codes[i + (2 * k) - 1])]

Refused == [pgn |-> 0, src |-> 0, time |-> <<>>, data |-> <<>>]

\* What is read; Refused where the function returns false.  Only where a
\* sentence has a star are the characters behind it inside the buffer.
SeasmartToN2k(codes) ==
  LET firstStar(from) == CHOOSE i \in from..Len(codes) :
                           codes[i] = Star /\ Star \notin {codes[j] : j \in from..(i - 1)}
      end   == firstStar(27)
      bytes == (end - 27) \div 2
      pgn   == ReadHex(codes, 8, 3)
  IN IF \/ SubSeq(codes, 1, 6) # PCDIN
        \/ ~HasHex(codes, 8, 1) \/ ~HasHex(codes, 10, 2)
        \/ ~HasHex(codes, 15, 4) \/ ~HasHex(codes, 24, 1)
        \/ Star \notin {codes[i] : i \in 27..Len(codes)} \/ (end - 27) % 2 # 0 \/ bytes > MaxDataLen
        \/ ~HasHex(codes, 27, bytes) \/ ~HasHex(codes, end + 1, 1)
        \/ ReadHex(codes, end + 1, 1) # <<nmea_compute_checksum(codes, firstStar(2))>>
     THEN Refused
     ELSE [pgn |-> (pgn[1] * 65536) + (pgn[2] * 256) + pgn[3], src |-> ReadHex(codes, 24, 1)[1],
           time |-> HighFirst(ReadHex(codes, 15, 4)), data |-> ReadHex(codes, 27, bytes)]

=============================================================================
