-------------------------- MODULE N2kSystemMessages --------------------------
(***************************************************************************)
(* The messages NMEA2000.cpp itself sends, as the layouts of N2kMessages,  *)
(* and the lists by which it decides whether a PGN travels in one frame or *)
(* as a fast packet.                                                       *)
(***************************************************************************)
EXTENDS N2kMessages, TLC

\* The lists a program adds with SetSingleFrameMessages and
\* SetFastPacketMessages (group 0) and the Extend functions (group 1); an
\* empty set stands for a list that was never set.
CONSTANTS SingleFrameMessages, FastPacketMessages

N2kMessageGroups == 0..1

-----------------------------------------------------------------------------
(* Layouts *)

\* ISO Acknowledgement
SetN2kPGN59392 ==
  <<UInt("Control", 1), UInt("GroupFunction", 1), Reserved(1), Reserved(1),
    Reserved(1), UInt("PGN", 3)>>

\* ISO Address Claim, from the parts of a NAME
SetN2kPGN60928 ==
  <<Word(4, <<B("UniqueNumber", 21), B("ManufacturerCode", 11)>>),
    UInt("DeviceInstance", 1), UInt("DeviceFunction", 1),
    Word(1, <<Zeros(1), B("DeviceClass", 7)>>),
    Word(1, <<B("SystemInstance", 4), B("IndustryGroup", 3), Ones(1)>>)>>

\* What tDeviceInformation makes of the eight bytes of a NAME it was given
\* with SetName: UnicNumberAndManCode, DeviceInstance, DeviceFunction,
\* DeviceClass and IndustryGroupAndSystemInstance, through their getters.
tDeviceInformation ==
  <<Word(4, <<B("UniqueNumber", 21), B("ManufacturerCode", 11)>>),
    UInt("DeviceInstance", 1), UInt("DeviceFunction", 1),
    Word(1, <<Gap(1), B("DeviceClass", 7)>>),
    Word(1, <<B("SystemInstance", 4), B("IndustryGroup", 3)>>)>>

\* Product Information
SetN2kPGN126996 ==
  <<UInt("N2kVersion", 2), UInt("ProductCode", 2), Str("ModelID", 32),
    Str("SwCode", 32), Str("ModelVersion", 32), Str("ModelSerialCode", 32),
    UInt("CertificationLevel", 1), UInt("LoadEquivalency", 1)>>

ParseN2kPGN126996 ==
  <<UInt("N2kVersion", 2), UInt("ProductCode", 2), Str("ModelID", 32),
    Str("SwCode", 32), Str("ModelVersion", 32), Str("ModelSerialCode", 32),
    UInt("CertificationLevel", 1), UInt("LoadEquivalency", 1)>>

\* Configuration Information.  Three strings of at most 71 characters are
\* never longer than the message, so the second bound on their sum in the
\* code cuts nothing.
Max_N2kConfigurationInfoField_len == 71

SetN2kPGN126998 ==
  <<VarMax("InstallationDescription1", Max_N2kConfigurationInfoField_len),
    VarMax("InstallationDescription2", Max_N2kConfigurationInfoField_len),
    VarMax("ManufacturerInformation", Max_N2kConfigurationInfoField_len)>>

\* The reader stops at the first string it cannot read; those behind it
\* cannot be read either and are empty here.
ParseN2kPGN126998 ==
  <<Var("InstallationDescription1"), Var("InstallationDescription2"),
    Var("ManufacturerInformation")>>

\* ISO Request
SetN2kPGN59904 == <<UInt("RequestedPGN", 3)>>

ParseN2kPGN59904 == <<UInt("RequestedPGN", 3)>>

\* Heartbeat: an interval that is too long for the library is an error code,
\* any other one is sent modulo 2^16.
SetN2kPGN126993 ==
  <<UInt("timeInterval_ms", 2), UInt("sequenceCounter", 1), Reserved(1), Reserved(4)>>

\* The PGN lists, one message for each: which list it is, and its PGNs.
N2kpgnl_transmit == 0
N2kpgnl_receive == 1

DefTransmitMessages ==
  <<59392, 59904, 60160, 60416, 60928, 126208, 126464, 126993, 126996, 126998>>

DefReceiveMessages ==
  <<59392, 59904, 60160, 60416, 60928, 65240, 126208>>

Listed(k) == "PGN" \o ToString(k)

SetN2kPGN126464(tr, PGNs) ==
  <<EInt("PGNList", 1, [list |-> tr])>>
    \o [k \in DOMAIN PGNs |-> EInt(Listed(k), 3, [default |-> PGNs[k]])]

\* A reader takes as many PGNs as there are three bytes for.
HandleSupportedPGNList(PGNCount) ==
  <<UInt("PGNList", 1)>> \o [k \in 1..PGNCount |-> UInt(Listed(k), 3)]

PGNListCodec(set, PGNs) == Codec(126464, set, HandleSupportedPGNList(Len(PGNs)))

-----------------------------------------------------------------------------
(* NMEA group functions.  A reader takes their first byte, the function     *)
(* code, to tell them apart, and the PGN behind it.                          *)

FunctionCode(n) ==
  Word(1, [j \in 1..8 |-> IF ByteBits(n)[j] = 1 THEN Ones(1) ELSE Zeros(1)])

GetPGNForGroupFunction == <<Skip(1), UInt("PGNForGroupFunction", 3)>>

\* What another device sends as a request and as a command.
GroupRequest ==
  <<FunctionCode(0), UInt("PGNForGroupFunction", 3),
    UInt("TransmissionInterval", 4), UInt("TransmissionIntervalOffset", 2),
    UInt("NumberOfParameterPairs", 1)>>

GroupCommand ==
  <<FunctionCode(1), UInt("PGNForGroupFunction", 3),
    Word(1, <<B("PrioritySetting", 4), Ones(4)>>),
    UInt("NumberOfParameterPairs", 1)>>

ParseRequestParams ==
  <<UInt("TransmissionInterval", 4), UInt("TransmissionIntervalOffset", 2),
    UInt("NumberOfParameterPairs", 1)>>

ParseCommandParams ==
  <<Word(1, <<B("PrioritySetting", 4), Gap(4)>>),
    UInt("NumberOfParameterPairs", 1)>>

SetStartAcknowledge ==
  <<FunctionCode(2), UInt("PGNForGroupFunction", 3),
    Word(1, <<B("PGNErrorCode", 4), B("TransmissionOrPriorityErrorCode", 4)>>),
    UInt("NumberOfAcknowledgedPairs", 1)>>

\* The reader of an acknowledgement leaves the number of its pairs at 0.
ParseAcknowledgeParams ==
  <<Word(1, <<B("PGNErrorCode", 4), B("TransmissionOrPriorityErrorCode", 4)>>)>>

\* A proprietary PGN has two bytes more, who made it up.
SetStartReadOrWriteReply(cmd, Proprietary) ==
  <<FunctionCode(cmd), UInt("PGNForGroupFunction", 3)>>
    \o (IF Proprietary
        THEN <<Word(2, <<B("ManufacturerCode", 11), Ones(2), B("IndustryGroup", 3)>>)>>
        ELSE <<>>)
    \o <<UInt("UniqueID", 1), UInt("NumberOfSelectionPairs", 1),
         UInt("NumberOfParameterPairs", 1)>>

SetStartReadReply(Proprietary)  == SetStartReadOrWriteReply(4, Proprietary)
SetStartWriteReply(Proprietary) == SetStartReadOrWriteReply(6, Proprietary)

ParseReadOrWriteParams(Proprietary) ==
  (IF Proprietary
   THEN <<Word(2, <<B("ManufacturerCode", 11), Gap(2), B("IndustryGroup", 3)>>)>>
   ELSE <<>>)
    \o <<UInt("UniqueID", 1), UInt("NumberOfSelectionPairs", 1),
         UInt("NumberOfParameterPairs", 1)>>

GroupCodec(set, params) == Codec(126208, set, GetPGNForGroupFunction \o params)

GroupCodecs ==
  <<GroupCodec(GroupRequest, ParseRequestParams),
    GroupCodec(GroupCommand, ParseCommandParams),
    GroupCodec(SetStartAcknowledge, ParseAcknowledgeParams)>>
  \o [k \in 1..2 |-> GroupCodec(SetStartReadReply(k = 1), ParseReadOrWriteParams(k = 1))]
  \o [k \in 1..2 |-> GroupCodec(SetStartWriteReply(k = 1), ParseReadOrWriteParams(k = 1))]

-----------------------------------------------------------------------------
(* One frame or a fast packet *)

IsSingleFrameSystemMessage(PGN) == PGN \in
  {59392, 60160, 60416, 59904, 60928}

IsFastPacketSystemMessage(PGN) == PGN \in
  {65240, 126208}

IsDefaultSingleFrameMessage(PGN) == PGN \in
  {126992, 126993, 127245, 127250, 127251, 127252, 127257, 127488, 127493,
   127501, 127505, 127508, 127750, 128259, 128267, 129025, 129026, 129283,
   130306, 130310, 130311, 130312, 130313, 130314, 130316, 130576}

IsMandatoryFastPacketMessage(PGN) == PGN \in
  {126464, 126996, 126998}

IsDefaultFastPacketMessage(PGN) == PGN \in
  {126983, 126984, 126985, 126986, 126987, 126988, 127233, 127237, 127489,
   127490, 127491, 127494, 127495, 127496, 127497, 127498, 127503, 127504,
   127506, 127507, 127509, 127510, 127511, 127512, 127513, 127514, 128275,
   128520, 128538, 129029, 129038, 129039, 129040, 129041, 129044, 129045,
   129284, 129285, 129301, 129302, 129538, 129540, 129541, 129542, 129545,
   129547, 129549, 129551, 129556, 129792, 129793, 129794, 129795, 129796,
   129797, 129798, 129799, 129800, 129801, 129802, 129803, 129804, 129805,
   129806, 129807, 129808, 129809, 129810, 129811, 129812, 129813, 129814,
   129815, 129816, 130052, 130053, 130054, 130060, 130061, 130064, 130065,
   130066, 130067, 130068, 130069, 130070, 130071, 130072, 130073, 130074,
   130320, 130321, 130322, 130323, 130324, 130330, 130561, 130562, 130563,
   130564, 130565, 130566, 130567, 130577, 130578, 130569, 130570, 130571,
   130572, 130573, 130574, 130580, 130581, 130583, 130584, 130586}

IsProprietaryFastPacketMessage(PGN) == PGN = 126720 \/ PGN \in 130816..131071

\* What the sender asks.
IsFastPacketPGN(PGN) ==
  \/ IsFastPacketSystemMessage(PGN)
  \/ IsMandatoryFastPacketMessage(PGN)
  \/ FastPacketMessages[0] = {} /\ IsDefaultFastPacketMessage(PGN)
  \/ IsProprietaryFastPacketMessage(PGN)
  \/ \E g \in N2kMessageGroups : PGN \in FastPacketMessages[g]

\* Seeded error: the mandatory messages are not asked.
IsFirstFoundFast_bug_no_mandatory(PGN) ==
  /\ ~(SingleFrameMessages[0] = {} /\ IsDefaultSingleFrameMessage(PGN))
  /\ \/ FastPacketMessages[0] = {} /\ IsDefaultFastPacketMessage(PGN)
     \/ IsFastPacketSystemMessage(PGN)
     \/ IsProprietaryFastPacketMessage(PGN)

\* What the receiver asks: the first list in which the PGN is found decides.
IsFirstFoundFast(PGN) ==
  IF SingleFrameMessages[0] = {} /\ IsDefaultSingleFrameMessage(PGN) THEN FALSE
  ELSE IF IsMandatoryFastPacketMessage(PGN) THEN TRUE
  ELSE IF FastPacketMessages[0] = {} /\ IsDefaultFastPacketMessage(PGN) THEN TRUE
  ELSE IF IsSingleFrameSystemMessage(PGN) THEN FALSE
  ELSE IF IsFastPacketSystemMessage(PGN) THEN TRUE
  ELSE IF PGN \in SingleFrameMessages[0] THEN FALSE
  ELSE IF PGN \in FastPacketMessages[0] THEN TRUE
  ELSE IF PGN \in SingleFrameMessages[1] THEN FALSE
  ELSE IF PGN \in FastPacketMessages[1] THEN TRUE
  ELSE IsProprietaryFastPacketMessage(PGN)

\* The FastPacket result of CheckKnownMessage.
CheckKnownMessage(PGN) == PGN # 0 /\ IsFirstFoundFast(PGN)

\* SendMsg: one frame holds eight bytes.
SentAsFastPacket(PGN, dataLen) == dataLen > 8 \/ IsFastPacketPGN(PGN)

=============================================================================
