------------------------------- MODULE N2kMsg -------------------------------
(***************************************************************************)
(* The container of an NMEA 2000 message, tN2kMsg of N2kMsg.cpp, as the    *)
(* functions that write and read its data bytes.                           *)
(*                                                                         *)
(* The data of a message is a sequence of bits, the lowest bit of the      *)
(* first byte first; the build is little endian, so a number of n bytes is *)
(* its 8n lowest bits in order.  What a program wants to send or has read  *)
(* is a VALUE [raw, res]: a number of units of `res`, written as 64 bits   *)
(* of two's complement (an integer or an enumeration has the unit ""), or  *)
(* the characters of a string.  NA stands for N2kDoubleNA.                 *)
(*                                                                         *)
(* A message is described by a LAYOUT, the sequence of the calls that      *)
(* write it (SetN2k...) or read it (ParseN2k...).  An ITEM of a layout is  *)
(* one such call.                                                          *)
(***************************************************************************)
EXTENDS Integers, Sequences, SequencesExt

MaxDataLen == 223
Width == 64                              \* the widest number there is

-----------------------------------------------------------------------------
(* Bits *)

Rep(bit, n) == [i \in 1..n |-> bit]

ByteBits(b) == [i \in 1..8 |-> (b \div 2^(i - 1)) % 2]

RECURSIVE ByteOf(_)
ByteOf(bits) == IF bits = <<>> THEN 0 ELSE Head(bits) + 2 * ByteOf(Tail(bits))

\* A C conversion of a number to a wider type: the sign says what fills it.
Wide(bits, sign) == bits \o Rep(sign, Width - Len(bits))

SignOf(bits) == bits[Len(bits)]

Value(raw, res) == [raw |-> raw, res |-> res]

NA == Value(<<>>, "not available")

\* What is left when "not available" goes through an arithmetic operation
\* or a conversion to an integer: a number, but not a measured one.
Junk == Value(<<>>, "junk")

-----------------------------------------------------------------------------
(* The items of a layout *)

Item(kind, name, size, res, bits) ==
  [kind |-> kind, name |-> name, size |-> size, res |-> res, bits |-> bits]

\* The parts of an integer that several fields share, lowest bits first: a
\* field of w bits (read through a mask that keeps some of them), one whose
\* numbers have names, constant bits, bits the reader leaves out.
Masked(name, w, kept) ==
  [name |-> name, w |-> w, kept |-> kept, bit |-> 0, type |-> <<>>]
B(name, w)       == Masked(name, w, 1..w)
E(name, w, type) == [B(name, w) EXCEPT !.type = type]
Ones(w)          == [Masked("", w, {}) EXCEPT !.bit = 1]
Zeros(w)         == Masked("", w, {})
Gap(w)           == Zeros(w)

\* AddByte, Add2ByteUInt, ... AddUInt64 and GetByte, Get2ByteUInt, ...
Word(size, fields) == Item("word", "", size, "", fields)
UInt(name, size)       == Word(size, <<B(name, 8 * size)>>)
EInt(name, size, type) == Word(size, <<E(name, 8 * size, type)>>)
Reserved(size)         == Word(size, <<Ones(8 * size)>>)
Skip(size)             == Word(size, <<>>)

\* A constant the reader compares (the code of a proprietary message).
Key(fields) == Item("key", "", 2, "", fields)

\* AddNByteUDouble/GetNByteUDouble and AddNByteDouble/GetNByteDouble.
U(name, size, res) == Item("u", name, size, res, <<>>)
S(name, size, res) == Item("s", name, size, res, <<>>)

\* A number read through an expression that does not keep "not available".
Lossy(item) == [item EXCEPT !.kind = "lossy"]

\* Two fields of two bytes read as a signed integer: the upper one is
\* shifted down with its sign.
SignedHigh(low, w, high, wHigh) ==
  Item("signed", high, 2, "", <<B(low, w), B(high, wHigh)>>)

\* Get2ByteInt, the one integer that is 0x7fff past the end of the message.
SInt(name) == Item("sint", name, 2, "", <<>>)

\* AddAISStr and GetStr(.., '@', ..); AddStr and GetStr(.., 0xff, ..);
\* AddVarStr or AddStr behind a length, and GetVarStr.
AIS(name, size) == Item("ais", name, size, "", <<>>)
Str(name, size) == Item("str", name, size, "", <<>>)
Var(name)       == Item("var", name, MaxDataLen, "", <<>>)
VarMax(name, n) == Item("var", name, n, "", <<>>)

\* A count of which the writer sends one item at most, and the items that
\* are there when it is neither 0 nor 0xff, with what a reader assumes when
\* they are not.
Count(name) == Item("count", name, 1, "", <<>>)
IfAny(name, items, otherwise) == Item("if", name, 0, otherwise, items)

\* The number above 1 that SetN2kPGN127513 sends, 0 to 252 units of 0.002.
Exponent(name) == Item("exponent", name, 1, "0.002 above 1", <<>>)

-----------------------------------------------------------------------------
(* Writing *)

\* A number fits the field if its high bits are the sign's, and it is below
\* the two codes (out of range, not available) at the top of the range.
Fits(signed, size, raw) ==
  LET w   == 8 * size
      top == IF signed THEN w - 1 ELSE w       \* the bits of the magnitude
  IN /\ \A i \in (top + 1)..Width : raw[i] = (IF signed THEN raw[Width] ELSE 0)
     /\ raw[Width] = 0 => \E i \in 2..top : raw[i] = 0

OutOfRange(signed, size) ==
  <<0>> \o Rep(1, 8 * size - 2) \o <<IF signed THEN 0 ELSE 1>>

NotAvailable(signed, size) ==
  Rep(1, 8 * size - 1) \o <<IF signed THEN 0 ELSE 1>>

\* SetBufNByteDouble and SetBufNByteUDouble; eight bytes are not checked.
PutNumber(signed, size, v) ==
  IF v = NA THEN NotAvailable(signed, size)
  ELSE IF size = 8 \/ Fits(signed, size, v.raw) THEN SubSeq(v.raw, 1, 8 * size)
  ELSE OutOfRange(signed, size)

\* A smaller or larger exponent is sent as not available.
PutExponent(v) ==
  IF v = NA \/ v.raw[Width] = 1 \/ ByteOf(SubSeq(v.raw, 1, 16)) > 252
  THEN Rep(1, 8) ELSE SubSeq(v.raw, 1, 8)

RECURSIVE PutWord(_, _)
PutWord(fields, vals) ==
  IF fields = <<>> THEN <<>>
  ELSE LET f == Head(fields)
       IN (IF f.name = "" THEN Rep(f.bit, f.w) ELSE SubSeq(vals[f.name].raw, 1, f.w))
            \o PutWord(Tail(fields), vals)

Bytes(codes) ==
  [i \in 1..(8 * Len(codes)) |-> (codes[(i + 7) \div 8] \div 2^((i - 1) % 8)) % 2]

\* toupper, and a question mark for what AIS cannot show.
AISChar(c) == LET u == IF c \in 97..122 THEN c - 32 ELSE c
              IN IF u \in 32..95 THEN u ELSE 63

\* The first n characters, filled up to n.
Filled(codes, n, fill) ==
  [i \in 1..n |-> IF i <= Len(codes) THEN codes[i] ELSE fill]

PutAISStr(codes, n) ==
  Bytes(Filled([i \in DOMAIN codes |-> AISChar(codes[i])], n, 64))

\* SetBufStr, as AddStr calls it.
PutStr(codes, n) == Bytes(Filled(codes, n, 255))

PutVarStr(codes, n) ==
  LET kept == SubSeq(codes, 1, IF Len(codes) < n THEN Len(codes) ELSE n)
  IN Bytes(<<Len(kept) + 2, 1>> \o kept)

\* 0 or 0xff in the low byte of a count.
NoneOf(v) == SubSeq(v.raw, 1, 8) \in {Rep(0, 8), Rep(1, 8)}

RECURSIVE Encode(_, _)

Put(item, vals) ==
  CASE item.kind \in {"word", "key"} -> PutWord(item.bits, vals)
    [] item.kind = "u"   -> PutNumber(FALSE, item.size, vals[item.name])
    [] item.kind = "s"   -> PutNumber(TRUE, item.size, vals[item.name])
    [] item.kind = "ais" -> PutAISStr(vals[item.name].raw, item.size)
    [] item.kind = "str" -> PutStr(vals[item.name].raw, item.size)
    [] item.kind = "var" -> PutVarStr(vals[item.name].raw, item.size)
    [] item.kind = "exponent" -> PutExponent(vals[item.name])
    [] item.kind = "count" -> IF NoneOf(vals[item.name])
                              THEN SubSeq(vals[item.name].raw, 1, 8) ELSE ByteBits(1)
    [] item.kind = "if"  -> IF NoneOf(vals[item.name]) THEN <<>>
                            ELSE Encode(item.bits, vals)

\* The data a Set function leaves in the message.
Encode(layout, vals) ==
  IF layout = <<>> THEN <<>> ELSE Put(Head(layout), vals) \o Encode(Tail(layout), vals)

-----------------------------------------------------------------------------
(* Reading: st is [data, idx, got]; idx counts bytes, as Index does *)

Have(st, n) == st.idx + n <= Len(st.data) \div 8

Take(st, n) == SubSeq(st.data, 8 * st.idx + 1, 8 * (st.idx + n))

\* Seeded error: past the end of the message what an older one left is read.
GetWord_bug_no_check(st, n) ==
  IF Have(st, n) THEN Take(st, n) ELSE [b \in 1..(8 * n) |-> IF b = 1 THEN 1 ELSE 0]

\* GetByte, GetNByteInt: all ones, and no step forward, past the end.
GetWord(st, n) == IF Have(st, n) THEN Take(st, n) ELSE Rep(1, 8 * n)

Advance(st, n) == IF Have(st, n) THEN st.idx + n ELSE st.idx

\* A reading leaves st.got with the fields in `new` and goes n bytes on.
Read(st, n, new) ==
  [st EXCEPT !.idx = Advance(st, n),
             !.got = [f \in DOMAIN st.got \cup DOMAIN new |->
                        IF f \in DOMAIN new THEN new[f] ELSE st.got[f]]]

\* The first bit of field i of a word.
RECURSIVE FirstBit(_, _)
FirstBit(fields, i) == IF i = 1 THEN 0 ELSE FirstBit(fields, i - 1) + fields[i - 1].w

WordFields(bits, fields) ==
  LET named == {i \in DOMAIN fields : fields[i].name # ""}
      raw(i) == [b \in 1..fields[i].w |->
                   IF b \in fields[i].kept THEN bits[FirstBit(fields, i) + b] ELSE 0]
  IN [f \in {fields[i].name : i \in named} |->
        Value(Wide(raw(CHOOSE i \in named : fields[i].name = f), 0), "")]

\* GetBufNByteDouble and GetBufNByteUDouble: three bytes are copied into an
\* int32_t that was 0, so their sign is not extended.
GetNumber(signed, size, res, bits) ==
  IF bits = NotAvailable(signed, size) THEN NA
  ELSE Value(Wide(bits, IF signed /\ size # 3 THEN SignOf(bits) ELSE 0), res)

\* The bytes of a string up to 0 or the fill character.
UpTo(codes, nul) ==
  LET ends == {i \in DOMAIN codes : codes[i] \in {0, nul}}
  IN IF ends = {} THEN codes
     ELSE SubSeq(codes, 1, (CHOOSE i \in ends : \A j \in ends : i <= j) - 1)

Codes(bits) == [i \in 1..(Len(bits) \div 8) |-> ByteOf(SubSeq(bits, 8 * i - 7, 8 * i))]

Text(codes) == Value(codes, "text")

\* GetStr, into a buffer that has room for the whole field.
GetStr(st, n, nul) == IF Have(st, n) THEN Text(UpTo(Codes(Take(st, n)), nul)) ELSE Text(<<>>)

\* GetVarStr: the length counts itself and the type; only type 1 is read.
GetVarStr(st, name) ==
  LET len   == ByteOf(GetWord(st, 1))
      st1   == Read(st, 1, <<>>)
      type  == ByteOf(GetWord(st1, 1))
      st2   == Read(st1, 1, <<>>)
  IN IF len < 2 \/ type # 1 THEN Read(st2, 0, name :> Text(<<>>))
     ELSE Read(st2, len - 2, name :> GetStr(st2, len - 2, 255))

RECURSIVE Decode(_, _)

Get(item, st) ==
  LET bits == GetWord(st, item.size)
      number(signed) == IF Have(st, item.size)
                        THEN GetNumber(signed, item.size, item.res, bits) ELSE NA
      named(v) == Read(st, item.size, item.name :> v)
  IN CASE item.kind = "word"   -> Read(st, item.size, WordFields(bits, item.bits))
       [] item.kind = "key"    -> Read(st, item.size, <<>>)
       [] item.kind = "u"      -> named(number(FALSE))
       [] item.kind = "s"      -> named(number(TRUE))
       [] item.kind = "lossy"  -> named(IF number(FALSE) = NA THEN Junk ELSE number(FALSE))
       [] item.kind = "signed" ->
            LET low == item.bits[1].w
            IN Read(st, 2, (item.name :> Value(Wide(SubSeq(bits, low + 1, 16)
                                                          \o Rep(SignOf(bits), low), 0), ""))
                           @@ WordFields(bits, <<item.bits[1]>>))
       [] item.kind = "sint"   -> named(Value(Wide(IF Have(st, 2) THEN bits
                                                   ELSE NotAvailable(TRUE, 2), 0), ""))
       [] item.kind = "ais"    -> named(GetStr(st, item.size, 64))
       [] item.kind = "str"    -> named(GetStr(st, item.size, 255))
       [] item.kind = "var"    -> GetVarStr(st, item.name)
       [] item.kind = "if"     -> IF NoneOf(st.got[item.name]) THEN Read(st, 0, item.res)
                                  ELSE Decode(item.bits, st)

\* What a Parse function has read.
Decode(layout, st) ==
  IF layout = <<>> THEN st ELSE Decode(Tail(layout), Get(Head(layout), st))

ParseAt(layout, data, idx) ==
  Decode(layout, [data |-> data, idx |-> idx, got |-> <<>>]).got

=============================================================================
