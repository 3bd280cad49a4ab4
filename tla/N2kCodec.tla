------------------------------ MODULE N2kCodec ------------------------------
(***************************************************************************)
(* The life of a tN2kMsg: a device fills it with a Set function, adds      *)
(* items to it with the Append functions, the message may reach a reader   *)
(* with fewer bytes (an older device sends fewer fields), and a Parse      *)
(* function reads it.  One field at a time takes the values at the ends of *)
(* its range, and those that have a name, while the others are all low or  *)
(* all high.  A bridge may also forward the message in another format.     *)
(***************************************************************************)
EXTENDS N2kAliases, N2kFormats, FiniteSets

CONSTANTS PGNs,          \* the messages of this instance
          NameLengths,   \* the lengths of the names of waypoints
          Headers,       \* what forwarded messages have besides their data
          BufferSize,    \* of the sentences a program lets write
          DamagedLength, \* sentences up to this length may be damaged
          Noise          \* the characters a damaged line has instead

VARIABLES phase,         \* "idle", "set", "cut", "parsed", "refused",
                         \* "actisense", "seasmart" or "damaged"
          codec,         \* the message: its PGN and its two layouts
          vals,          \* what the Set function was given: field -> value
          data,          \* the data bytes, as bits
          items,         \* what the Append functions took
          nameLength,    \* of the waypoints that are appended
          full,          \* an Append function has refused an item
          alone,         \* no field is varied: the message may be cut
          kept,          \* the number of items of the layout that are left
          got,           \* what the Parse function gave: field -> value
          header,        \* of the message that was forwarded
          wire           \* the bytes of the format it was forwarded in

forwarded == <<header, wire>>
vars == <<phase, codec, vals, data, items, nameLength, full, alone, kept, got, forwarded>>

Codecs == {c \in AllCodecs : c.pgn \in PGNs}

-----------------------------------------------------------------------------
(* Fields and their values *)

Field(name, kind, w, res) ==
  [name |-> name, kind |-> kind, w |-> w, res |-> res, named |-> {}]

\* A field of bits, and the numbers its type has a name for.
BitField(f) ==
  [Field(f.name, "bits", f.w, "") EXCEPT !.named = {f.type[n] : n \in DOMAIN f.type}]

RECURSIVE FieldsOf(_)
FieldsOfItem(item) ==
  CASE item.kind \in {"word", "key", "signed"} ->
         {BitField(f) : f \in {g \in ToSet(item.bits) : g.name # ""}}
    [] item.kind \in {"u", "s", "lossy"} -> {Field(item.name, item.kind, 8 * item.size, item.res)}
    [] item.kind \in {"ais", "str", "var"} ->
         {Field(item.name, item.kind, item.size, "text")}
    [] item.kind \in {"count", "exponent", "sint"} -> {Field(item.name, item.kind, 8, item.res)}
    [] item.kind = "if" -> FieldsOf(item.bits)
    [] OTHER -> {}
FieldsOf(layout) == UNION {FieldsOfItem(item) : item \in ToSet(layout)}

OneHot(i, w) == [j \in 1..w |-> IF j = i THEN 1 ELSE 0]
Number(bits, sign, res) == Value(Wide(bits, sign), res)

\* The greatest number below the two codes at the top of the range.
Greatest(w) == <<1, 0>> \o Rep(1, w - 2)

Word24(n) == [i \in 1..24 |-> (n \div 2^(i - 1)) % 2]

Letters(n, code) == Text(Rep(code, n))

\* A variable string has no bound of its own (AddVarStr does not look at
\* the room in the message); a caller keeps it within this length.
VarRoom == 20

Room(f) == IF f.kind = "var" /\ f.w = MaxDataLen THEN VarRoom ELSE f.w

ValuesOf(f) ==
  CASE f.kind = "bits" -> {Number(b, 0, "") :
                             b \in {Rep(0, f.w), OneHot(1, f.w), OneHot(f.w, f.w), Rep(1, f.w)}
                                    \cup {Word24(n) : n \in f.named}}
    [] f.kind = "u" -> {NA} \cup {Number(b, 0, f.res) :
                                    b \in {Rep(0, f.w), OneHot(1, f.w), Greatest(f.w)}}
                       \cup (IF f.w = Width THEN {}
                             ELSE {Number(Rep(0, f.w) \o <<1>>, 0, f.res),
                                   Number(<<1>>, 1, f.res)})
    [] f.kind = "s" -> {NA, Number(<<1>>, 1, f.res), Number(OneHot(f.w, f.w), 1, f.res)}
                       \cup {Number(b, 0, f.res) :
                               b \in {Rep(0, f.w), OneHot(1, f.w), Greatest(f.w - 1)}}
                       \cup (IF f.w = Width THEN {} ELSE {Number(OneHot(f.w, f.w), 0, f.res)})
    [] f.kind \in {"ais", "str", "var"} ->
         {Letters(n, 65) : n \in {0, 1, Room(f)}} \cup {Letters(1, 97), Letters(1, 126)}
           \cup (IF Room(f) = VarRoom /\ f.kind = "var" THEN {} ELSE {Letters(f.w + 1, 66)})
    [] f.kind = "count" -> {Number(ByteBits(n), 0, "") : n \in {0, 1, 2, 255}}
    [] f.kind = "exponent" -> {NA, Number(<<1>>, 1, f.res)}
                              \cup {Number(ByteBits(n), 0, f.res) : n \in {0, 252, 253}}

\* All bits 0 or the empty text; all bits 1, not available or a full text.
Low(f) == IF f.res = "text" THEN Text(<<>>) ELSE Number(<<0>>, 0, f.res)
High(f) ==
  CASE f.kind \in {"u", "s", "exponent"} -> NA
    [] f.res = "text" -> Letters(Room(f), 66)
    [] OTHER -> Number(Rep(1, f.w), 0, "")

Background(c, high) ==
  LET fields == FieldsOf(c.set)
      field(n) == CHOOSE f \in fields : f.name = n
  IN [n \in {f.name : f \in fields} |-> IF high THEN High(field(n)) ELSE Low(field(n))]

\* The n-th item of a list: numbers that differ from item to item, every
\* third of them not available.
NthItem(layout, n) ==
  LET fields == FieldsOf(layout)
      field(x) == CHOOSE f \in fields : f.name = x
      value(f) == CASE f.res = "text" -> Letters(nameLength, 65)
                    [] f.kind \in {"u", "s"} /\ n % 3 = 0 -> NA
                    [] OTHER -> Number(SubSeq(ByteBits(n), 1, IF f.w < 8 THEN f.w ELSE 8), 0, f.res)
  IN [x \in {f.name : f \in fields} |-> value(field(x))]

-----------------------------------------------------------------------------
(* Behaviour *)

Init ==
  /\ phase = "idle" /\ codec = <<>>
  /\ vals = <<>> /\ data = <<>> /\ items = <<>> /\ got = <<>>
  /\ nameLength = 0 /\ full = FALSE /\ alone = FALSE /\ kept = 0
  /\ header = <<>> /\ wire = <<>>

\* SetN2kPGN...(N2kMsg, ...): Init of the message and the fields in order.
Fill(c, given, single) ==
  /\ phase' = "set" /\ codec' = c
  /\ vals' = given
  /\ data' = Encode(c.set, given)
  /\ alone' = single
  /\ kept' = Len(c.parse)
  /\ items' = <<>> /\ full' = FALSE /\ got' = <<>>
  /\ UNCHANGED forwarded

SetMessage ==
  /\ phase = "idle"
  /\ \E c \in Codecs, high \in BOOLEAN :
       \/ /\ Fill(c, Background(c, high), TRUE)
          /\ nameLength' \in IF ItemsOf(c.pgn) = <<>> THEN {0} ELSE NameLengths
       \/ \E f \in FieldsOf(c.set) : \E v \in ValuesOf(f) :
            /\ Fill(c, [Background(c, high) EXCEPT ![f.name] = v], FALSE)
            /\ nameLength' = 0

\* AppendN2kPGN129540, 129285 or 130074, until one is refused.
AppendItem ==
  LET pgn  == codec.pgn
      item == NthItem(ItemsOf(pgn), Len(items) + 1)
  IN /\ phase = "set" /\ alone /\ ~full
     /\ ItemsOf(pgn) # <<>>
     /\ data' = Append1(pgn, data, item)
     /\ full' = (data' = data)
     /\ items' = IF full' THEN items ELSE Append(items, item)
     /\ UNCHANGED <<phase, codec, vals, nameLength, alone, kept, got, forwarded>>

\* The byte at which item i of what the Parse function reads begins.
StartOf(i) ==
  Decode(SubSeq(codec.parse, 1, i - 1), [data |-> data, idx |-> 0, got |-> <<>>]).idx

\* The device sent only the first items (of a PGN list: it is shorter, and
\* another message).
Shorten ==
  /\ phase = "set" /\ alone /\ items = <<>> /\ codec.pgn # 126464
  /\ phase' = "cut"
  /\ \E i \in DOMAIN codec.parse :
       /\ data' = SubSeq(data, 1, 8 * StartOf(i))
       /\ kept' = i - 1
  /\ UNCHANGED <<codec, vals, items, nameLength, full, alone, got, forwarded>>

\* What makes a Parse function return false besides another PGN: a
\* manufacturer's code that is not Maretron's, or the length of a request.
Refuses(c, bits) ==
  \/ c.parse[1].kind = "key" /\ GetWord([data |-> bits, idx |-> 0], 2) # PutWord(c.parse[1].bits, <<>>)
  \/ c.pgn = 59904 /\ Len(bits) \div 8 \notin 3..8

\* ParseN2kPGN...(N2kMsg, ...)
Parse ==
  LET c == codec
  IN /\ phase \in {"set", "cut"}
     /\ c.parse # <<>>
     /\ IF Refuses(c, data) THEN phase' = "refused" /\ got' = <<>>
        ELSE phase' = "parsed" /\ got' = ParseAt(c.parse, data, 0)
     /\ UNCHANGED <<codec, vals, data, items, nameLength, full, alone, kept, forwarded>>

\* ForwardMessage writes the frame of an Actisense device, or a program
\* the sentence $PCDIN.  A message all others hear has no destination.
Forward ==
  LET bytes == Codes(data)
      full1(h) == [pri |-> h.pri, pgn |-> codec.pgn, src |-> h.src, time |-> h.time,
                   dst |-> IF PDU1(codec.pgn) THEN h.dst ELSE 255]
  IN /\ phase = "set"
     /\ \E h \in Headers :
          /\ header' = full1(h)
          /\ \/ phase' = "actisense" /\ wire' = SendInActisenseFormat(header', bytes)
             \/ phase' = "seasmart"  /\ wire' = N2kToSeasmart(header', bytes, BufferSize)
     /\ UNCHANGED <<codec, vals, data, items, nameLength, full, alone, kept, got>>

\* One character of a sentence is damaged on its line.
Damage ==
  /\ phase = "seasmart" /\ alone /\ Len(wire) <= DamagedLength
  /\ phase' = "damaged"
  /\ \E i \in DOMAIN wire, c \in Noise :
       wire[i] # c /\ wire' = [wire EXCEPT ![i] = c]
  /\ UNCHANGED <<codec, vals, data, items, nameLength, full, alone, kept, got, header>>

\* The object is used for another message; a message nobody parses too.
Clear ==
  /\ \/ phase \in {"parsed", "refused", "actisense", "seasmart", "damaged"}
     \/ phase = "set" /\ codec.parse = <<>>
  /\ phase' = "idle" /\ codec' = <<>>
  /\ vals' = <<>> /\ data' = <<>> /\ items' = <<>> /\ got' = <<>>
  /\ nameLength' = 0 /\ full' = FALSE /\ alone' = FALSE /\ kept' = 0
  /\ header' = <<>> /\ wire' = <<>>

Next == SetMessage \/ AppendItem \/ Shorten \/ Parse \/ Forward \/ Damage \/ Clear

Spec == Init /\ [][Next]_vars

-----------------------------------------------------------------------------
(* What a reader should get *)

\* The fields the Set function sent: those of a list only if there is one.
Sent(layout) ==
  UNION {IF item.kind = "if" /\ NoneOf(vals[item.name]) THEN {}
         ELSE FieldsOfItem(item) : item \in ToSet(layout)}

\* A value the field cannot hold arrives as its "out of range" code, a text
\* that is too long without its end, an AIS text in capitals, and of the
\* items a count announces one is sent.
Expected(f) ==
  LET v == vals[f.name]
      signed == f.kind = "s"
      chars == SubSeq(v.raw, 1, IF Len(v.raw) < f.w THEN Len(v.raw) ELSE f.w)
  IN CASE f.kind \in {"u", "s"} ->
            IF v = NA \/ f.w = Width \/ Fits(signed, f.w \div 8, v.raw) THEN v
            ELSE Number(OutOfRange(signed, f.w \div 8), 0, f.res)
       [] f.kind = "ais" -> Text([i \in DOMAIN chars |-> AISChar(chars[i])])
       [] f.kind \in {"str", "var"} -> Text(chars)
       [] f.kind = "count" /\ ~NoneOf(v) -> Number(<<1>>, 0, "")
       [] OTHER -> v

\* The items behind the end of a message that was cut.
Lost == SubSeq(codec.parse, kept + 1, Len(codec.parse))

\* What a field is read as when its bytes are missing.
Unavailable(f) ==
  CASE f.kind = "bits" -> Number(Rep(1, f.w), 0, "")
    [] f.kind = "sint" -> Number(NotAvailable(TRUE, 2), 0, "")
    [] f.res = "text" -> Text(<<>>)
    [] OTHER -> NA

\* Parse 127507 counts minutes where Set counts seconds; 129041 and the
\* capacity of 127513 are written with a sign and read without one; the
\* three bytes of 65286 and 65287 are read without their sign; of
\* BatteryTemperature and BearingReference one bit is read, and the number
\* of a reference station is read with a sign it has not.  The error codes
\* of SWRT lose their upper four bits when they are read, the undefined
\* HumiditySource of 130311 its upper six when it is written.  The exponent of
\* 127513 and the distances of 128275 lose "not available".  The pairs of an
\* acknowledged group function are not counted.  Status2 of 127489 loses its
\* upper eight bits when it is assigned.
ReadOtherwise ==
  {<<126208, "NumberOfAcknowledgedPairs">>, <<127489, "Status2">>,
   <<127507, "EqualizationTimeRemaining">>, <<127510, "BatteryTemperature">>,
   <<127513, "BatCapacity">>, <<127513, "PeukertExponent">>,
   <<128259, "SWRT">>, <<128275, "Log">>, <<128275, "TripLog">>,
   <<129029, "ReferenceSationID">>,
   <<129041, "Length">>, <<129041, "Beam">>,
   <<129041, "PositionReferenceStarboard">>, <<129041, "PositionReferenceTrueNorth">>,
   <<129284, "BearingReference">>, <<130311, "HumiditySource">>,
   <<65286, "FluidFlowRate">>, <<65287, "TripVolume">>}

-----------------------------------------------------------------------------
(* Properties *)

\* What a Parse function reads, of a complete message or of the part of it
\* that arrived, is what the Set function was given, field by field, at the
\* ends of every range (the two functions of every PGN of N2kMessages.cpp
\* are written apart, each with its own widths, masks and units).  A
\* complete message is never refused.
ReadBack ==
  /\ phase = "refused" => Lost # <<>>
  /\ phase = "parsed" =>
       LET lost == {f.name : f \in FieldsOf(Lost)}
       IN \A f \in Sent(codec.set) :
            \/ f.name \in lost \cup codec.own
            \/ <<codec.pgn, f.name>> \in ReadOtherwise
            \/ f.name \in DOMAIN got /\ got[f.name] = Expected(f)

\* A message that ends early reads as "not available" from its end on: the
\* Get functions never take bytes behind DataLen, where an older message
\* has left its own.  (The fields of a list are left out: what is assumed
\* without one is a constant of the code.)
ShortReadsUnavailable ==
  phase = "parsed" =>
    \A f \in FieldsOf(SelectSeq(Lost, LAMBDA item : item.kind # "if")) :
      \/ <<codec.pgn, f.name>> \in ReadOtherwise
      \/ f.name \in DOMAIN got /\ got[f.name] = Unavailable(f)

\* A message never grows over the 223 bytes of its buffer, however many
\* items are appended to it.
FitsBuffer == Len(data) <= 8 * MaxDataLen

\* The sender (SendMsg) and the receiver (CheckKnownMessage) decide by
\* different lists whether a message is a fast packet: for every message of
\* the library they decide alike.
SentAsReceived ==
  phase = "set" => (SentAsFastPacket(codec.pgn, Len(data) \div 8) <=> CheckKnownMessage(codec.pgn))

\* The items of a list, which are counted in the middle of the message and
\* found by arithmetic, are the ones that were appended, in their order, and
\* none is found behind the last.
RECURSIVE ReadItems(_, _, _)
ReadItems(layout, st, n) ==
  IF n = 0 THEN <<>>
  ELSE LET next == Decode(layout, [st EXCEPT !.got = <<>>])
       IN <<next.got>> \o ReadItems(layout, next, n - 1)

ItemsKept ==
  phase = "set" /\ alone =>
    CASE codec.pgn = 129540 ->
           \A i \in 0..MaxSatelliteInfoCount :
             ParseN2kPGNSatellitesInView_satellite(data, i) =
               IF i < Len(items) THEN items[i + 1]
               ELSE [f \in {g.name : g \in FieldsOf(ReadSatelliteInfo)} |->
                       Unavailable(CHOOSE g \in FieldsOf(ReadSatelliteInfo) : g.name = f)]
      [] codec.pgn \in {129285, 130074} ->
           /\ CountAt(data, 2, 2) = Len(items)
           /\ ReadItems(Waypoint,
                        [data |-> data, idx |-> Len(Encode(codec.set, vals)) \div 8, got |-> <<>>],
                        Len(items)) = items
      [] OTHER -> TRUE

\* The lists a message is made of fit it and are read again.
ListsKept == FitsBuffer /\ ItemsKept

\* What a reader of Actisense's format finds between the marks: it takes
\* two Escapes for one, and one for the end.
RECURSIVE Unescaped(_)
Unescaped(codes) ==
  IF codes = <<>> THEN <<>>
  ELSE IF Head(codes) # Escape THEN <<Head(codes)>> \o Unescaped(Tail(codes))
  ELSE IF Len(codes) > 1 /\ codes[2] = Escape THEN <<Escape>> \o Unescaped(SubSeq(codes, 3, Len(codes)))
  ELSE <<>>

\* The frame is whole: its two lengths and its checksum agree.
Whole(b) ==
  Len(b) > 13 /\ Len(b) = b[2] + 3 /\ Len(b) = b[13] + 14 /\ SumOf(b) % 256 = 0

ActisenseRead(b) ==
  [pri |-> b[3], pgn |-> b[4] + (b[5] * 256) + (b[6] * 65536), dst |-> b[7], src |-> b[8],
   time |-> SubSeq(b, 9, 12), data |-> SubSeq(b, 14, 13 + b[13])]

\* What was read has the header that was forwarded.
SameAs(read) == \A f \in DOMAIN read \cap DOMAIN header : read[f] = header[f]

\* A message survives each of its other forms: the identifier of its
\* frames, the Actisense frame (marks, doubled Escapes, length and checksum
\* are put together by hand; from 256 bytes on the index of the frame wraps
\* and the frame is lost) and the sentence with its checksum.
FormatsReadBack ==
  LET bytes == Codes(data)
  IN /\ phase \in {"actisense", "seasmart"} => SameAs(CanIdToN2k(N2ktoCanID(header)))
     /\ phase = "actisense" /\ Len(ActisenseBytes(header, bytes)) < 256 =>
          LET b == Unescaped(SubSeq(wire, 3, Len(wire)))
          IN Whole(b) /\ ActisenseRead(b).data = bytes /\ SameAs(ActisenseRead(b))
     /\ phase = "seasmart" /\ wire # <<>> =>
          LET r == SeasmartToN2k(wire) IN r.data = bytes /\ SameAs(r)

\* A sentence with a damaged character is never read as another message:
\* the checksum covers all that is between its marks, and a damaged mark is
\* noticed or does no harm (the commas are skipped unread).
DamageNoticed ==
  phase = "damaged" =>
    LET r == SeasmartToN2k(wire)
    IN \/ r = Refused
       \/ SameAs(r) /\ r.data = Codes(data)

\* The other forms of a message, whole and damaged.
FormsKept == FormatsReadBack /\ DamageNoticed
=============================================================================
