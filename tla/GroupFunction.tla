---------------------------- MODULE GroupFunction ----------------------------
(***************************************************************************)
(* What a node does with an NMEA group function, PGN 126208: the handlers  *)
(* of N2kGroupFunction.cpp and N2kGroupFunctionDefaultHandlers.cpp, and    *)
(* the part of tNMEA2000 they read and change.                             *)
(*                                                                         *)
(* A node is a record: name (its NAME by its parts), src, product and conf *)
(* (product and configuration information), tx and rx (its PGN lists), hb  *)
(* (interval and offset of its heartbeat), pending (the answers it still   *)
(* owes), changed (the flags the application reads), claiming and end (the *)
(* state of its address claim).  A handler takes the node and the message  *)
(* and yields the node behind it and the messages it sends.  sent says     *)
(* whether SendMsg has room for them.                                      *)
(*                                                                         *)
(* The pairs of a message are the bytes the code reads; a string of        *)
(* characters is a sequence of their codes, NoString stands for a null     *)
(* pointer.                                                                *)
(***************************************************************************)
EXTENDS Integers, Sequences

CONSTANTS
  StrLen,          \* bytes of a string in the product information, 32
  ConfStrLen,      \* Max_N2kConfigurationInfoField_len, 71
  DefaultHeartbeatInterval, MaxHeartbeatInterval, MinHeartbeatInterval,
  NoString

Broadcast == 255
NullAddress == 254

-----------------------------------------------------------------------------
(* Codes *)

tN2kGroupFunctionCode ==
  [Request |-> 0, Command |-> 1, Acknowledge |-> 2, Read |-> 3, ReadReply |-> 4,
   Write |-> 5, WriteReply |-> 6]

tN2kGroupFunctionPGNErrorCode ==
  [Acknowledge |-> 0, PGNNotSupported |-> 1, PGNTemporarilyNotAvailable |-> 2,
   AccessDenied |-> 3, RequestOrCommandNotSupported |-> 4,
   DefinerTagNotSupported |-> 5, ReadOrWriteNotSupported |-> 6]

tN2kGroupFunctionTransmissionOrPriorityErrorCode ==
  [Acknowledge |-> 0, TransmitIntervalOrPriorityNotSupported |-> 1]

tN2kGroupFunctionParameterErrorCode ==
  [Acknowledge |-> 0, InvalidField |-> 1, TemporarilyUnableToComply |-> 2,
   OutOfRange |-> 3, AccessDenied |-> 4, NotSupported |-> 5]

pgnEc   == tN2kGroupFunctionPGNErrorCode
prioEc  == tN2kGroupFunctionTransmissionOrPriorityErrorCode
paramEc == tN2kGroupFunctionParameterErrorCode

\* Intervals above the range of a number here.
NoChange       == -1       \* 0xffffffff
RestoreDefault == -2       \* 0xfffffffe

-----------------------------------------------------------------------------
(* Reading: data is a sequence of bytes, i counts from 0 as Index does *)

Have(data, i, n) == i + n <= Len(data)

\* GetByte, Get2ByteUInt, Get3ByteUInt: all ones past the end, and no step.
GetUInt(data, i, n) ==
  IF ~Have(data, i, n) THEN 256^n - 1
  ELSE LET b(k) == data[i + k]
       IN b(1) + (IF n > 1 THEN 256 * b(2) ELSE 0) + (IF n > 2 THEN 65536 * b(3) ELSE 0)

Advance(data, i, n) == IF Have(data, i, n) THEN i + n ELSE i

\* The characters before 0 or 0xff, at most max of them.
UpTo(codes, max) ==
  LET ends == {k \in 1..Len(codes) : codes[k] \in {0, 255}} \cup {max + 1, Len(codes) + 1}
  IN SubSeq(codes, 1, (CHOOSE k \in ends : \A j \in ends : k <= j) - 1)

\* GetStr with 0xff for "nothing follows": past the end it reads nothing.
GetStr(data, i, n, max) ==
  IF Have(data, i, n) THEN UpTo(SubSeq(data, i + 1, i + n), max) ELSE <<>>

\* GetVarStr.  A string that is not of type 1, or that is too short for its
\* own head, leaves the buffer as it is: `old` is what was in it.
GetVarStr(data, i, old) ==
  LET len  == GetUInt(data, i, 1)
      i1   == Advance(data, i, 1)
      type == GetUInt(data, i1, 1)
      i2   == Advance(data, i1, 1)
  IN IF len < 2 \/ type # 1 THEN [str |-> old, idx |-> i2]
     ELSE [str |-> GetStr(data, i2, len - 2, ConfStrLen - 1),
           idx |-> Advance(data, i2, len - 2)]

-----------------------------------------------------------------------------
(* Messages *)

Message(src, dst, pgn, body) == [src |-> src, dst |-> dst, pgn |-> pgn, body |-> body]

\* SetStartAcknowledge and the codes AddAcknowledgeParameter has added.
SetStartAcknowledge(nd, m, pgnError, prioError, n, codes) ==
  Message(nd.src, m.src, 126208,
    [code |-> tN2kGroupFunctionCode.Acknowledge, pgn |-> m.body.pgn,
     pgnError |-> pgnError, prioError |-> prioError, n |-> n, codes |-> codes])

\* Seeded error: the code of an odd pair takes the place of the whole byte.
AddAcknowledgeParameter_bug_overwritten(codes, k, ec) ==
  IF k % 2 = 0 THEN Append(codes, 15 * 16 + ec)
  ELSE [codes EXCEPT ![Len(codes)] = 15 + 16 * ec]

\* Two codes share a byte, the first one in its low half.
AddAcknowledgeParameter(codes, k, ec) ==
  IF k % 2 = 0 THEN Append(codes, 15 * 16 + ec)
  ELSE [codes EXCEPT ![Len(codes)] = (@ % 16) + 16 * ec]

\* The same code for every pair.
AllCodes(n, ec) ==
  LET add[k \in 0..n] == IF k = 0 THEN <<>>
                         ELSE AddAcknowledgeParameter(add[k - 1], k - 1, ec)
  IN add[n]

SendAcknowledge(nd, m, pgnError, prioError, n, ec) ==
  SetStartAcknowledge(nd, m, pgnError, prioError, n, AllCodes(n, ec))

\* A handler's result.
Result(nd, out) == [nd |-> nd, out |-> out]

\* SendMsg sends nothing without an address, while one is claimed or when the
\* buffers are full.
SendMsg(nd, sent, out) ==
  IF sent /\ ~nd.claiming /\ nd.src # NullAddress THEN out ELSE <<>>

IsTxPGN(nd, pgn) == pgn \in nd.tx

-----------------------------------------------------------------------------
(* What a node says about itself *)

SetPending(nd, what) == [nd EXCEPT !.pending = @ \cup {what}]
ClearPending(nd, what) == [nd EXCEPT !.pending = @ \ {what}]

ClaimOf(nd) == Message(nd.src, Broadcast, 60928, [name |-> nd.name])

\* SendIsoAddressClaim with a delay.
SendIsoAddressClaimDelayed(nd) == SetPending(nd, "claim")

\* SendIsoAddressClaim without one: the claim itself may be sent while the
\* address is being claimed.
SendIsoAddressClaim(nd, sent) == Result(nd, IF sent THEN <<ClaimOf(nd)>> ELSE <<>>)

\* SendProductInformation: it is tried again later if it could not be sent.
SendProductInformation(nd, dst, sent) ==
  LET m == Message(nd.src, dst, 126996, nd.product)
  IN IF SendMsg(nd, sent, <<m>>) # <<>>
     THEN Result(ClearPending(nd, "product"), <<m>>)
     ELSE Result(SetPending(nd, "product"), <<>>)

\* SendConfigurationInformation; without any information, a refusal.
SendConfigurationInformation(nd, dst, sent) ==
  LET none == \A f \in DOMAIN nd.conf : nd.conf[f] = NoString
      m == IF none THEN Message(nd.src, dst, 59392, [control |-> 1, pgn |-> 126998])
           ELSE Message(nd.src, dst, 126998,
                  [f \in DOMAIN nd.conf |-> IF nd.conf[f] = NoString THEN <<>> ELSE nd.conf[f]])
  IN IF SendMsg(nd, sent, <<m>>) # <<>>
     THEN Result(ClearPending(nd, "configuration"), <<m>>)
     ELSE Result(SetPending(nd, "configuration"), <<>>)

\* SendTxPGNList and SendRxPGNList are not tried again.
SendTxPGNList(nd, dst, sent) ==
  SendMsg(nd, sent, <<Message(nd.src, dst, 126464, [list |-> 0, pgns |-> nd.tx])>>)

SendRxPGNList(nd, dst, sent) ==
  SendMsg(nd, sent, <<Message(nd.src, dst, 126464, [list |-> 1, pgns |-> nd.rx])>>)

SendHeartbeat(nd, sent) ==
  SendMsg(nd, sent, <<Message(nd.src, Broadcast, 126993, [interval |-> nd.hb.interval])>>)

-----------------------------------------------------------------------------
(* What a command changes *)

\* Bits are replaced by the parts that are given, 255 for one that is not.
DeviceInstance(old, lower, upper) ==
  (IF lower = 255 THEN old % 8 ELSE lower % 8)
    + 8 * (IF upper = 255 THEN old \div 8 ELSE upper % 32)

\* SetDeviceInformationInstances: the NAME is claimed with its new instances
\* whether they have changed or not.
SetDeviceInformationInstances(nd, lower, upper, system) ==
  LET name == [nd.name EXCEPT
                 !.DeviceInstance = DeviceInstance(@, lower, upper),
                 !.SystemInstance = IF system = 255 THEN @ ELSE system]
      changed == IF name # nd.name THEN {"DeviceInformation"} ELSE {}
  IN SendIsoAddressClaimDelayed([nd EXCEPT !.name = name, !.changed = @ \cup changed])

\* CopyProgmemConfigurationInformationToLocal: the strings of the program
\* are copied where they can be changed; one that was not given is empty in
\* the copy.
CopyProgmemConfigurationInformationToLocal(conf, local) ==
  IF local THEN conf
  ELSE [f \in DOMAIN conf |-> IF conf[f] = NoString THEN <<>> ELSE conf[f]]

\* SetInstallationDescription1 and 2.
SetInstallationDescription(nd, f, str) ==
  [nd EXCEPT !.conf = [CopyProgmemConfigurationInformationToLocal(nd.conf, nd.local)
                         EXCEPT ![f] = SubSeq(str, 1, IF Len(str) < ConfStrLen THEN Len(str)
                                                      ELSE ConfStrLen - 1)],
             !.local = TRUE,
             !.changed = @ \cup {"InstallationDescription"}]

\* SetHeartbeatIntervalAndOffset, for one device.  Its branch for an interval
\* of 0, which turns the heartbeat off, is left out: the handler of requests
\* for 126993, the only caller here, refuses 0 before it calls.
SetHeartbeatIntervalAndOffset(nd, interval, offset) ==
  LET asked == CASE interval = NoChange -> nd.hb.interval
                 [] interval = RestoreDefault -> DefaultHeartbeatInterval
                 [] OTHER -> interval
      kept  == CASE asked > MaxHeartbeatInterval -> MaxHeartbeatInterval
                 [] asked < MinHeartbeatInterval -> MinHeartbeatInterval
                 [] OTHER -> asked
      hb    == [interval |-> kept, offset |-> IF offset = NoChange THEN nd.hb.offset ELSE offset]
  IN IF hb = nd.hb THEN nd
     ELSE [nd EXCEPT !.hb = hb, !.changed = @ \cup {"DeviceInformation"}]

-----------------------------------------------------------------------------
(* Requests *)

\* GetRequestGroupFunctionTransmissionOrPriorityErrorCode, for an interval
\* and an offset that are accepted when they are in the given sets.
TransmissionError(interval, offset, intervals, offsets) ==
  IF interval \in {NoChange, RestoreDefault, 0} \cup intervals
     /\ offset \in {65535, 0} \cup offsets
  THEN prioEc.Acknowledge ELSE prioEc.TransmitIntervalOrPriorityNotSupported

\* A reading of the value of a pair: whether it is what the node has, the
\* code for it, the next byte, and what is in the string buffer behind it.
Reading(fits, ec, idx, old) == [fits |-> fits, ec |-> ec, idx |-> idx, old |-> old]

CodeFor(fits) == IF fits THEN paramEc.Acknowledge ELSE paramEc.OutOfRange

Field(size, modulus, value) == [size |-> size, modulus |-> modulus, value |-> value]

\* The fields of a NAME; nothing is compared in the sixth and the tenth.
NameField(name) ==
  <<Field(3, 2^21, name.UniqueNumber), Field(2, 2^11, name.ManufacturerCode),
    Field(1, 8, name.DeviceInstance % 8), Field(1, 32, name.DeviceInstance \div 8),
    Field(1, 256, name.DeviceFunction), Field(1, 1, 0), Field(1, 128, name.DeviceClass),
    Field(1, 16, name.SystemInstance), Field(1, 8, name.IndustryGroup), Field(1, 1, 0)>>

\* MatchRequestField for numbers.
MatchNumber(field, data, w) ==
  LET fits == GetUInt(data, w.idx, field.size) % field.modulus = field.value
  IN Reading(fits, CodeFor(fits), Advance(data, w.idx, field.size), w.old)

\* MatchRequestField for strings: the code is that of all pairs so far.
MatchString(fits, w, idx, old) == Reading(fits, CodeFor(w.match /\ fits), idx, old)

Match60928(nd, f, data, w) == MatchNumber(NameField(nd.name)[f], data, w)

\* The transmit or the receive list.
Match126464(nd, f, data, w) ==
  LET fits == GetUInt(data, w.idx, 1) \in {0, 1}
  IN Reading(fits, CodeFor(fits), Advance(data, w.idx, 1), w.old)

\* Every string is compared with the model: the handler calls GetModelID for
\* the software code, the model version and the serial code as well.
Match126996(nd, f, data, w) ==
  LET p == nd.product
      query == GetStr(data, w.idx, StrLen, StrLen)
  IN IF f \in 3..6
     THEN MatchString(query = p.ModelID, w, Advance(data, w.idx, StrLen), query)
     ELSE MatchNumber(CASE f = 1 -> Field(2, 65536, p.N2kVersion)
                        [] f = 2 -> Field(2, 65536, p.ProductCode)
                        [] f = 7 -> Field(1, 256, p.CertificationLevel)
                        [] f = 8 -> Field(1, 256, p.LoadEquivalency), data, w)

ConfFields == <<"InstallationDescription1", "InstallationDescription2",
                "ManufacturerInformation">>

Match126998(nd, f, data, w) ==
  LET query == GetVarStr(data, w.idx, w.old)
      has   == nd.conf[ConfFields[f]]
  IN MatchString(query.str = (IF has = NoString THEN <<>> ELSE has), w, query.idx, query.str)

MatchField(pgn, nd, f, data, w) ==
  CASE pgn = 60928  -> Match60928(nd, f, data, w)
    [] pgn = 126464 -> Match126464(nd, f, data, w)
    [] pgn = 126996 -> Match126996(nd, f, data, w)
    [] pgn = 126998 -> Match126998(nd, f, data, w)

\* The loop of the four HandleRequest functions over the pairs: behind a
\* field it does not know, the length of which it does not know either, it
\* can only say so.  A broadcast that does not match is read no further.
RequestPairs(nd, m, fields, old) ==
  LET data == m.body.data
      next(w, k) ==
        LET f == GetUInt(data, w.idx, 1)
            v == [w EXCEPT !.idx = Advance(data, @, 1)]
            r == MatchField(m.body.pgn, nd, f, data, v)
            code(ec) == AddAcknowledgeParameter(w.codes, k, ec)
        IN IF m.dst = Broadcast /\ ~w.match THEN w
           ELSE IF w.unknown
           THEN [w EXCEPT !.codes = code(paramEc.TemporarilyUnableToComply)]
           ELSE IF f \notin fields
           THEN [v EXCEPT !.match = FALSE, !.unknown = TRUE, !.codes = code(paramEc.InvalidField)]
           ELSE [v EXCEPT !.match = @ /\ r.fits, !.idx = r.idx, !.old = r.old,
                          !.codes = code(r.ec)]
      walk[k \in 0..m.body.n] ==
        IF k = 0 THEN [idx |-> 0, match |-> TRUE, unknown |-> FALSE, old |-> old, codes |-> <<>>]
        ELSE next(walk[k - 1], k - 1)
  IN walk[m.body.n]

\* What follows the loop: the information, or the codes if one node was asked.
Answer(nd, m, w, sent, information) ==
  LET pec == TransmissionError(m.body.interval, m.body.offset, {}, {})
  IN IF w.match /\ pec = prioEc.Acknowledge THEN information
     ELSE IF m.dst = Broadcast THEN Result(nd, <<>>)
     ELSE Result(nd, SendMsg(nd, sent,
            <<SetStartAcknowledge(nd, m, pgnEc.Acknowledge, pec, m.body.n, w.codes)>>))

HandleRequest60928(nd, m, sent, old) ==
  Answer(nd, m, RequestPairs(nd, m, 1..10, old), sent,
         Result(SendIsoAddressClaimDelayed(nd), <<>>))

\* The last list that is named is sent, both if none is; requests carried by
\* the ISO transport protocol are left out.
HandleRequest126464(nd, m, sent, old) ==
  LET which == IF m.body.n = 0 THEN 255 ELSE GetUInt(m.body.data, 2 * m.body.n - 1, 1)
  IN Answer(nd, m, RequestPairs(nd, m, {1}, old), sent,
       Result(nd, (IF which \in {0, 255} THEN SendTxPGNList(nd, m.src, sent) ELSE <<>>)
                    \o (IF which \in {1, 255} THEN SendRxPGNList(nd, m.src, sent) ELSE <<>>)))

HandleRequest126996(nd, m, sent, old) ==
  Answer(nd, m, RequestPairs(nd, m, 1..8, old), sent,
         SendProductInformation(nd, m.src, sent))

HandleRequest126998(nd, m, sent, old) ==
  Answer(nd, m, RequestPairs(nd, m, 1..3, old), sent,
         SendConfigurationInformation(nd, m.src, sent))

\* The base class: a message the node sends is "temporarily not available",
\* any other one not supported.
HandleRequestDefault(nd, m, sent) ==
  LET b    == m.body
      tor  == TransmissionError(b.interval, b.offset, {}, {})
      pec  == IF ~IsTxPGN(nd, b.pgn) THEN <<pgnEc.PGNNotSupported, prioEc.Acknowledge>>
              ELSE IF tor # prioEc.Acknowledge THEN <<pgnEc.Acknowledge, tor>>
              ELSE <<pgnEc.PGNTemporarilyNotAvailable, prioEc.Acknowledge>>
  IN Result(nd, IF m.dst = Broadcast THEN <<>>
                ELSE SendMsg(nd, sent, <<SendAcknowledge(nd, m, pec[1], pec[2], b.n,
                                                         paramEc.Acknowledge)>>))

\* Heartbeat: one that would not change anything is the base class's.
HandleRequest126993(nd, m, sent) ==
  LET b   == m.body
      pec == IF b.interval = 0 THEN prioEc.TransmitIntervalOrPriorityNotSupported
             ELSE TransmissionError(b.interval, b.offset, 1000..60000, 0..6000)
      new == SetHeartbeatIntervalAndOffset(nd, b.interval,
               IF b.offset \in {0, 65535} THEN NoChange ELSE 10 * b.offset)
      refuse(ec) == Result(nd, IF m.dst = Broadcast THEN <<>>
                               ELSE SendMsg(nd, sent, <<SendAcknowledge(nd, m, pgnEc.Acknowledge,
                                                                        pec, b.n, ec)>>))
  IN IF b.n > 0 THEN refuse(paramEc.NotSupported)
     ELSE IF b.interval = NoChange /\ b.offset = 65535 THEN HandleRequestDefault(nd, m, sent)
     ELSE IF pec = prioEc.Acknowledge THEN Result(new, SendHeartbeat(new, sent))
     ELSE refuse(paramEc.Acknowledge)

-----------------------------------------------------------------------------
(* Commands, reads and writes *)

PriorityError(priority) ==
  IF priority \in {8, 9, 15} THEN prioEc.Acknowledge
  ELSE prioEc.TransmitIntervalOrPriorityNotSupported

HandleCommandDefault(nd, m, sent) ==
  Result(nd, SendMsg(nd, sent,
    <<SendAcknowledge(nd, m, IF IsTxPGN(nd, m.body.pgn) THEN pgnEc.Acknowledge
                             ELSE pgnEc.PGNNotSupported,
                      PriorityError(m.body.priority), m.body.n, paramEc.Acknowledge)>>))

HandleCommand126993(nd, m, sent) ==
  Result(nd, SendMsg(nd, sent,
    <<SendAcknowledge(nd, m, pgnEc.PGNNotSupported, PriorityError(m.body.priority),
                      m.body.n, paramEc.Acknowledge)>>))

HandleReadOrWrite(nd, m, sent) ==
  Result(nd, SendMsg(nd, sent,
    <<SendAcknowledge(nd, m, IF IsTxPGN(nd, m.body.pgn) THEN pgnEc.ReadOrWriteNotSupported
                             ELSE pgnEc.PGNNotSupported,
                      prioEc.Acknowledge, m.body.n, paramEc.Acknowledge)>>))

\* Seeded error: the parts of the instance are mixed up.
SetInstance_bug_swapped(w, f, data) ==
  LET v == GetUInt(data, w.idx, 1)
      next == [w EXCEPT !.idx = Advance(data, @, 1)]
  IN CASE f = 3 -> [next EXCEPT !.upper = v % 8]
       [] f = 4 -> [next EXCEPT !.lower = v % 32]
       [] f = 8 -> [next EXCEPT !.system = v % 16]
       [] OTHER -> w

SetInstance(w, f, data) ==
  LET v == GetUInt(data, w.idx, 1)
      next == [w EXCEPT !.idx = Advance(data, @, 1)]
  IN CASE f = 3 -> [next EXCEPT !.lower = v % 8]
       [] f = 4 -> [next EXCEPT !.upper = v % 32]
       [] f = 8 -> [next EXCEPT !.system = v % 16]
       [] OTHER -> w

SetDescription(w, f, data) ==
  LET v == GetVarStr(data, w.idx, w.old)
  IN IF f \notin {1, 2} THEN w
     ELSE [w EXCEPT !.idx = v.idx, !.old = v.str,
                    !.nd = SetInstallationDescription(@, ConfFields[f], v.str)]

SetField(pgn, w, f, data) ==
  CASE pgn = 60928  -> SetInstance(w, f, data)
    [] pgn = 126998 -> SetDescription(w, f, data)

\* The loop of a HandleCommand function.  The value of a field it does not
\* know is not passed over: it is read as the field of the next pair.
CommandPairs(m, start) ==
  LET data == m.body.data
      walk[k \in 0..m.body.n] ==
        IF k = 0 THEN [start EXCEPT !.idx = 0, !.codes = <<>>]
        ELSE LET w == walk[k - 1]
                 f == GetUInt(data, w.idx, 1)
                 v == SetField(m.body.pgn, [w EXCEPT !.idx = Advance(data, @, 1)], f, data)
             IN [v EXCEPT !.codes = AddAcknowledgeParameter(@, k - 1,
                   IF f \in w.fields THEN paramEc.Acknowledge ELSE paramEc.InvalidField)]
  IN walk[m.body.n]

\* The acknowledge is begun before the priority is looked at, and never says
\* that it is not supported.
HandleCommand60928(nd, m, sent) ==
  LET w == CommandPairs(m, [idx |-> 0, codes |-> <<>>, fields |-> {3, 4, 8},
                            lower |-> 255, upper |-> 255, system |-> 255])
  IN Result(SetDeviceInformationInstances(nd, w.lower, w.upper, w.system),
            SendMsg(nd, sent, <<SetStartAcknowledge(nd, m, pgnEc.Acknowledge,
                                  prioEc.Acknowledge, m.body.n, w.codes)>>))

HandleCommand126998(nd, m, sent, old) ==
  LET w == CommandPairs(m, [idx |-> 0, codes |-> <<>>, fields |-> {1, 2},
                            nd |-> nd, old |-> old])
  IN Result(w.nd, SendMsg(nd, sent,
       <<SetStartAcknowledge(nd, m, pgnEc.Acknowledge, PriorityError(m.body.priority),
                             m.body.n, w.codes)>>))

-----------------------------------------------------------------------------
(* Dispatch *)

HandleRequest(nd, m, sent, old) ==
  CASE m.body.pgn = 60928  -> HandleRequest60928(nd, m, sent, old)
    [] m.body.pgn = 126464 -> HandleRequest126464(nd, m, sent, old)
    [] m.body.pgn = 126993 -> HandleRequest126993(nd, m, sent)
    [] m.body.pgn = 126996 -> HandleRequest126996(nd, m, sent, old)
    [] m.body.pgn = 126998 -> HandleRequest126998(nd, m, sent, old)
    [] OTHER -> HandleRequestDefault(nd, m, sent)

HandleCommand(nd, m, sent, old) ==
  CASE m.body.pgn = 60928  -> HandleCommand60928(nd, m, sent)
    [] m.body.pgn = 126993 -> HandleCommand126993(nd, m, sent)
    [] m.body.pgn = 126998 -> HandleCommand126998(nd, m, sent, old)
    [] OTHER -> HandleCommandDefault(nd, m, sent)

\* tN2kGroupFunctionHandler::Handle, of the handler Open() has set up for the
\* PGN or of the default one: only a request may be broadcast.
Handle(nd, m, sent, old) ==
  LET code == m.body.code
  IN CASE code = tN2kGroupFunctionCode.Request -> HandleRequest(nd, m, sent, old)
       [] m.dst # Broadcast /\ code = tN2kGroupFunctionCode.Command ->
            HandleCommand(nd, m, sent, old)
       [] m.dst # Broadcast /\ code \in {tN2kGroupFunctionCode.Read,
                                         tN2kGroupFunctionCode.Write} ->
            HandleReadOrWrite(nd, m, sent)
       [] OTHER -> Result(nd, <<>>)

HandleGroupFunction(nd, m, sent, old) ==
  IF m.dst \in {Broadcast, nd.src} THEN Handle(nd, m, sent, old) ELSE Result(nd, <<>>)

-----------------------------------------------------------------------------
(* ISO requests *)

\* RespondISORequest; no handler for further requests is set.  Nothing is
\* answered while an address is claimed.
RespondISORequest(nd, m, sent) ==
  LET refusal == Message(nd.src, m.src, 59392, [control |-> 1, pgn |-> m.body.pgn])
  IN CASE nd.claiming -> Result(nd, <<>>)
       [] m.body.pgn = 60928  -> SendIsoAddressClaim(nd, sent)
       [] m.body.pgn = 126464 -> Result(nd, SendTxPGNList(nd, m.src, sent)
                                              \o SendRxPGNList(nd, m.src, sent))
       [] m.body.pgn = 126996 -> SendProductInformation(nd, Broadcast, sent)
       [] m.body.pgn = 126998 -> SendConfigurationInformation(nd, Broadcast, sent)
       [] OTHER -> Result(nd, IF m.dst = Broadcast THEN <<>>
                              ELSE SendMsg(nd, sent, <<refusal>>))

HandleISORequest(nd, m, sent) ==
  IF m.dst \in {Broadcast, nd.src} THEN RespondISORequest(nd, m, sent) ELSE Result(nd, <<>>)

=============================================================================
