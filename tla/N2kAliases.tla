----------------------------- MODULE N2kAliases -----------------------------
(***************************************************************************)
(* The functions by which a program writes and reads the messages: inline  *)
(* functions with a name instead of a PGN, most of which call one function *)
(* of N2kMessages.cpp, N2kMaretron.cpp or NMEA2000.cpp with their own      *)
(* parameters in its order, and older forms that take or give less.        *)
(***************************************************************************)
EXTENDS N2kSystemMessages

-----------------------------------------------------------------------------
(* Older forms: parameters that are fixed, or one bit each *)

NotMeasured == Word(2, <<Ones(15), Zeros(1)>>)

SetN2kTrueHeading ==
  <<UInt("SID", 1), U("Heading", 2, "0.0001"), NotMeasured, NotMeasured,
    Word(1, <<Zeros(2), Ones(6)>>)>>

SetN2kMagneticHeading ==
  <<UInt("SID", 1), U("Heading", 2, "0.0001"), S("Deviation", 2, "0.0001"),
    S("Variation", 2, "0.0001"), Word(1, <<Ones(1), Zeros(1), Ones(6)>>)>>

Flags(names) == [i \in DOMAIN names |-> B(names[i], 1)]

\* The bits of the unions tN2kDD206 and tN2kDD223 a program sets one by one.
EngineStatus1 == Flags(<<"CheckEngine", "OverTemperature", "LowOilPressure",
  "LowOilLevel", "LowFuelPressure", "LowSystemVoltage", "LowCoolantLevel",
  "WaterFlow", "WaterInFuel", "ChargeIndicator", "PreheatIndicator",
  "HighBoostPressure", "RevLimitExceeded", "EGRSystem",
  "ThrottlePositionSensor", "EngineEmergencyStopMode">>)

EngineStatus2 == Flags(<<"WarningLevel1", "WarningLevel2",
  "LowOiPowerReduction", "MaintenanceNeeded", "EngineCommError",
  "SubOrSecondaryThrottle", "NeutralStartProtect", "EngineShuttingDown">>)

SetN2kPGN127489_flags ==
  [SetN2kPGN127489 EXCEPT ![11] = Word(2, EngineStatus1),
                          ![12] = Word(2, EngineStatus2 \o <<Zeros(8)>>)]

\* A program reads the same bits of the unions.
ParseN2kPGN127489_flags ==
  [ParseN2kPGN127489 EXCEPT ![11] = Word(2, EngineStatus1),
                            ![12] = Word(2, EngineStatus2)]

TransmissionFlags ==
  Flags(<<"flagCheck", "flagOverTemp", "flagLowOilPressure", "flagLowOilLevel",
          "flagSailDrive">>)

SetN2kTransmissionParameters_flags ==
  [SetN2kPGN127493 EXCEPT ![5] = Word(1, TransmissionFlags \o <<Zeros(3)>>)]

ParseN2kTransmissionParameters_flags ==
  [ParseN2kPGN127493 EXCEPT ![5] = Word(1, TransmissionFlags)]

\* The transceiver's information is "channel A", the SID 0xff.
SetN2kAISClassBPosition_old ==
  [SetN2kPGN129039 EXCEPT ![10] = Word(1, <<Ones(3), Zeros(5)>>), ![15] = Reserved(1)]

SetN2kPGN129285_bools ==
  [SetN2kPGN129285 EXCEPT ![5] = Word(1, <<B("NavDirection", 1), Zeros(2),
     B("SupplementaryData", 1), Zeros(1), Ones(3)>>)]

-----------------------------------------------------------------------------
(* Older readers: some fields go to variables of their own *)

Keeping(layout, own) == [layout |-> layout, own |-> own]

AISOwn == {"AISTransceiverInformation", "AISinfo", "AISInfo", "SID"}

ParseN2kRudder_position ==
  Keeping(ParseN2kPGN127245, {"Instance", "RudderDirectionOrder", "AngleOrder"})
ParseN2kHeave_values == Keeping(ParseN2kPGN127252, {"Delay", "DelaySource"})
ParseN2kPGN127489_values == Keeping(ParseN2kPGN127489, {"Status1", "Status2"})
ParseN2kEngineDynamicParam_old ==
  Keeping(ParseN2kPGN127489, {"EngineCoolantPress", "EngineFuelPress", "EngineLoad",
                              "EngineTorque", "Status1", "Status2"})
ParseN2kWaterDepth_old == Keeping(ParseN2kPGN128267, {"Range"})
ParseN2kAISClassAPosition_old == Keeping(ParseN2kPGN129038, AISOwn)
ParseN2kAISClassBPosition_old == Keeping(ParseN2kPGN129039, AISOwn)
ParseN2kAISClassBPosition_info == Keeping(ParseN2kPGN129039, {"SID"})
ParseN2kAISClassAStatic_old == Keeping(ParseN2kPGN129794, AISOwn)
ParseN2kAISClassBStaticPartA_old == Keeping(ParseN2kPGN129809, AISOwn)
ParseN2kAISClassBStaticPartB_old == Keeping(ParseN2kPGN129810, AISOwn)
ParseN2kPGN130313_actual == Keeping(ParseN2kPGN130313, {"SetHumidity"})

-----------------------------------------------------------------------------
(* The aliases *)

\* N2kMessages.h
SetN2kSystemTime == SetN2kPGN126992
ParseN2kSystemTime == ParseN2kPGN126992
SetN2kAISSafetyRelatedBroadcastMsg == SetN2kPGN129802
ParseN2kAISSafetyRelatedBroadcastMsg == ParseN2kPGN129802
SetN2kMOBNotification == SetN2kPGN127233
ParseN2kMOBNotification == ParseN2kPGN127233
SetN2kHeadingTrackControl == SetN2kPGN127237
ParseN2kHeadingTrackControl == ParseN2kPGN127237
SetN2kRudder == SetN2kPGN127245
ParseN2kRudder == ParseN2kPGN127245
ParseN2kHeading == ParseN2kPGN127250
SetN2kRateOfTurn == SetN2kPGN127251
ParseN2kRateOfTurn == ParseN2kPGN127251
SetN2kHeave == SetN2kPGN127252
ParseN2kHeave == ParseN2kPGN127252
SetN2kAttitude == SetN2kPGN127257
ParseN2kAttitude == ParseN2kPGN127257
SetN2kMagneticVariation == SetN2kPGN127258
ParseN2kMagneticVariation == ParseN2kPGN127258
SetN2kEngineParamRapid == SetN2kPGN127488
ParseN2kEngineParamRapid == ParseN2kPGN127488
SetN2kEngineDynamicParam == SetN2kPGN127489
SetN2kEngineDynamicParam_flags == SetN2kPGN127489_flags
ParseN2kEngineDynamicParam_values == ParseN2kPGN127489_values
ParseN2kEngineDynamicParam == ParseN2kPGN127489
SetN2kTransmissionParameters == SetN2kPGN127493
ParseN2kTransmissionParameters == ParseN2kPGN127493
SetN2kEngineTripParameters == SetN2kPGN127497
ParseN2kEngineTripParameters == ParseN2kPGN127497
SetN2kBinaryStatus == SetN2kPGN127501
SetN2kBinaryStatus_statuses == SetN2kPGN127501_statuses
ParseN2kBinaryStatus_statuses == ParseN2kPGN127501_statuses
ParseN2kBinaryStatus == ParseN2kPGN127501
ParseN2kSwitchbankControl == ParseN2kPGN127502
SetN2kSwitchbankControl == SetN2kPGN127502
SetN2kFluidLevel == SetN2kPGN127505
ParseN2kFluidLevel == ParseN2kPGN127505
SetN2kDCStatus == SetN2kPGN127506
ParseN2kDCStatus == ParseN2kPGN127506
SetN2kChargerStatus == SetN2kPGN127507
ParseN2kChargerStatus == ParseN2kPGN127507
SetN2kDCBatStatus == SetN2kPGN127508
ParseN2kDCBatStatus == ParseN2kPGN127508
SetN2kChargerConf == SetN2kPGN127510
ParseN2kChargerConf == ParseN2kPGN127510
SetN2kBatConf == SetN2kPGN127513
ParseN2kBatConf == ParseN2kPGN127513
SetN2kDCConvStatus == SetN2kPGN127750
ParseN2kDCConvStatus == ParseN2kPGN127750
SetN2kLeeway == SetN2kPGN128000
ParseN2kLeeway == ParseN2kPGN128000
SetN2kBoatSpeed == SetN2kPGN128259
ParseN2kBoatSpeed == ParseN2kPGN128259
SetN2kWaterDepth == SetN2kPGN128267
ParseN2kWaterDepth == ParseN2kPGN128267
SetN2kDistanceLog == SetN2kPGN128275
ParseN2kDistanceLog == ParseN2kPGN128275
SetN2kLatLonRapid == SetN2kPGN129025
ParseN2kPositionRapid == ParseN2kPGN129025
SetN2kCOGSOGRapid == SetN2kPGN129026
ParseN2kCOGSOGRapid == ParseN2kPGN129026
SetN2kGNSS == SetN2kPGN129029
ParseN2kGNSS == ParseN2kPGN129029
SetN2kLocalOffset == SetN2kPGN129033
ParseN2kLocalOffset == ParseN2kPGN129033
SetN2kAISClassAPosition == SetN2kPGN129038
ParseN2kAISClassAPosition == ParseN2kPGN129038
SetN2kAISClassBPosition == SetN2kPGN129039
ParseN2kAISClassBPosition == ParseN2kPGN129039
SetN2kAISAtoNReport == SetN2kPGN129041
ParseN2kAISAtoNReport == ParseN2kPGN129041
SetN2kXTE == SetN2kPGN129283
ParseN2kXTE == ParseN2kPGN129283
SetN2kNavigationInfo == SetN2kPGN129284
ParseN2kNavigationInfo == ParseN2kPGN129284
SetN2kRouteWPInfo == SetN2kPGN129285
AppendN2kRouteWPInfo(data, vals) == AppendN2kPGN129285(data, vals)
SetN2kGNSSDOPData == SetN2kPGN129539
ParseN2kGNSSDOPData == ParseN2kPgn129539
SetN2kGNSSSatellitesInView == SetN2kPGN129540
AppendSatelliteInfo(data, vals) == AppendN2kPGN129540(data, vals)
ParseN2kPGNSatellitesInView == ParseN2kPGN129540
ParseN2kPGNSatellitesInView_satellite(data, i) ==
  ParseN2kPGN129540_satellite(data, i)
SetN2kAISClassAStatic == SetN2kPGN129794
ParseN2kAISClassAStatic == ParseN2kPGN129794
SetN2kAISClassBStaticPartA == SetN2kPGN129809
ParseN2kAISClassBStaticPartA == ParseN2kPGN129809
SetN2kAISClassBStaticPartB == SetN2kPGN129810
ParseN2kAISClassBStaticPartB == ParseN2kPGN129810
SetN2kWaypointList == SetN2kPGN130074
AppendN2kWaypointList(data, vals) == AppendN2kPGN130074(data, vals)
SetN2kWindSpeed == SetN2kPGN130306
ParseN2kWindSpeed == ParseN2kPGN130306
SetN2kOutsideEnvironmentalParameters == SetN2kPGN130310
ParseN2kOutsideEnvironmentalParameters == ParseN2kPGN130310
SetN2kEnvironmentalParameters == SetN2kPGN130311
ParseN2kEnvironmentalParameters == ParseN2kPGN130311
SetN2kTemperature == SetN2kPGN130312
ParseN2kTemperature == ParseN2kPGN130312
SetN2kHumidity == SetN2kPGN130313
ParseN2kHumidity == ParseN2kPGN130313
ParseN2kHumidity_actual == ParseN2kPGN130313_actual
SetN2kPressure == SetN2kPGN130314
ParseN2kPressure == ParseN2kPGN130314
SetN2kSetPressure == SetN2kPGN130315
SetN2kTemperatureExt == SetN2kPGN130316
ParseN2kTemperatureExt == ParseN2kPGN130316
SetN2kMeteorlogicalStationData == SetN2kPGN130323
ParseN2kMeteorlogicalStationData == ParseN2kPGN130323
SetN2kTrimTab == SetN2kPGN130576
ParseN2kTrimTab == ParseN2kPGN130576
SetN2kDirectionData == SetN2kPGN130577
ParseN2kDirectionData == ParseN2kPGN130577

\* N2kMaretron.h
SetN2kMaretronTempHR == SetN2kMaretronPGN130823
ParseN2kMaretronTempHR == ParseN2kMaretronPGN130823
SetN2kMaretronFluidFR == SetN2kMaretronPGN65286
ParseN2kMaretronFluidFR == ParseN2kMaretronPGN65286
SetN2kMaretronTripVolume == SetN2kMaretronPGN65287
ParseN2kMaretronTripVolume == ParseN2kMaretronPGN65287

\* NMEA2000.h
SetN2kPGNISOAcknowledgement == SetN2kPGN59392
SetN2kISOAddressClaim == SetN2kPGN60928
SetN2kProductInformation == SetN2kPGN126996
SetN2kConfigurationInformation == SetN2kPGN126998
SetN2kPGNISORequest == SetN2kPGN59904
ParseN2kPGNISORequest == ParseN2kPGN59904
SetHeartbeat == SetN2kPGN126993
SetN2kPGNTransmitList(PGNs) == SetN2kPGN126464(N2kpgnl_transmit, PGNs)

-----------------------------------------------------------------------------
(* What is written and read by them *)

\* An item of the list of a message is added under its name.
Append1(pgn, data, vals) ==
  CASE pgn = 129540 -> AppendSatelliteInfo(data, vals)
    [] pgn = 129285 -> AppendN2kRouteWPInfo(data, vals)
    [] pgn = 130074 -> AppendN2kWaypointList(data, vals)

\* What a program gets from an older reader.
Hidden(item, own) ==
  IF item.kind # "word" THEN IF item.name \in own THEN Skip(item.size) ELSE item
  ELSE [item EXCEPT !.bits = [j \in DOMAIN @ |->
                                IF @[j].name \in own THEN Gap(@[j].w) ELSE @[j]]]

OldCodec(pgn, set, reader) ==
  LET kept == [i \in DOMAIN reader.layout |-> Hidden(reader.layout[i], reader.own)]
  IN [Codec(pgn, set, kept) EXCEPT !.own = reader.own]

NewCodecs ==
  <<Codec(126992, SetN2kSystemTime, ParseN2kSystemTime),
    Codec(129802, SetN2kAISSafetyRelatedBroadcastMsg,
      ParseN2kAISSafetyRelatedBroadcastMsg),
    Codec(127233, SetN2kMOBNotification, ParseN2kMOBNotification),
    Codec(127237, SetN2kHeadingTrackControl, ParseN2kHeadingTrackControl),
    Codec(127245, SetN2kRudder, ParseN2kRudder),
    Codec(127250, SetN2kPGN127250, ParseN2kHeading),
    Codec(127251, SetN2kRateOfTurn, ParseN2kRateOfTurn),
    Codec(127252, SetN2kHeave, ParseN2kHeave),
    Codec(127257, SetN2kAttitude, ParseN2kAttitude),
    Codec(127258, SetN2kMagneticVariation, ParseN2kMagneticVariation),
    Codec(127488, SetN2kEngineParamRapid, ParseN2kEngineParamRapid),
    Codec(127489, SetN2kEngineDynamicParam, ParseN2kEngineDynamicParam),
    Codec(127493, SetN2kTransmissionParameters,
      ParseN2kTransmissionParameters),
    Codec(127497, SetN2kEngineTripParameters, ParseN2kEngineTripParameters),
    Codec(127501, SetN2kBinaryStatus, ParseN2kBinaryStatus),
    Codec(127501, SetN2kBinaryStatus_statuses, ParseN2kBinaryStatus_statuses),
    Codec(127502, SetN2kSwitchbankControl, ParseN2kSwitchbankControl),
    Codec(127505, SetN2kFluidLevel, ParseN2kFluidLevel),
    Codec(127506, SetN2kDCStatus, ParseN2kDCStatus),
    Codec(127507, SetN2kChargerStatus, ParseN2kChargerStatus),
    Codec(127508, SetN2kDCBatStatus, ParseN2kDCBatStatus),
    Codec(127510, SetN2kChargerConf, ParseN2kChargerConf),
    Codec(127513, SetN2kBatConf, ParseN2kBatConf),
    Codec(127750, SetN2kDCConvStatus, ParseN2kDCConvStatus),
    Codec(128000, SetN2kLeeway, ParseN2kLeeway),
    Codec(128259, SetN2kBoatSpeed, ParseN2kBoatSpeed),
    Codec(128267, SetN2kWaterDepth, ParseN2kWaterDepth),
    Codec(128275, SetN2kDistanceLog, ParseN2kDistanceLog),
    Codec(128776, SetN2kPGN128776, ParseN2kPGN128776),
    Codec(128777, SetN2kPGN128777, ParseN2kPGN128777),
    Codec(128778, SetN2kPGN128778, ParseN2kPGN128778),
    Codec(129025, SetN2kLatLonRapid, ParseN2kPositionRapid),
    Codec(129026, SetN2kCOGSOGRapid, ParseN2kCOGSOGRapid),
    Codec(129029, SetN2kGNSS, ParseN2kGNSS),
    Codec(129033, SetN2kLocalOffset, ParseN2kLocalOffset),
    Codec(129539, SetN2kGNSSDOPData, ParseN2kGNSSDOPData),
    Codec(129540, SetN2kGNSSSatellitesInView, ParseN2kPGNSatellitesInView),
    Codec(129038, SetN2kAISClassAPosition, ParseN2kAISClassAPosition),
    Codec(129039, SetN2kAISClassBPosition, ParseN2kAISClassBPosition),
    Codec(129041, SetN2kAISAtoNReport, ParseN2kAISAtoNReport),
    Codec(129283, SetN2kXTE, ParseN2kXTE),
    Codec(129284, SetN2kNavigationInfo, ParseN2kNavigationInfo),
    Codec(129285, SetN2kRouteWPInfo, <<>>),
    Codec(129794, SetN2kAISClassAStatic, ParseN2kAISClassAStatic),
    Codec(129809, SetN2kAISClassBStaticPartA, ParseN2kAISClassBStaticPartA),
    Codec(129810, SetN2kAISClassBStaticPartB, ParseN2kAISClassBStaticPartB),
    Codec(130074, SetN2kWaypointList, <<>>),
    Codec(130306, SetN2kWindSpeed, ParseN2kWindSpeed),
    Codec(130310, SetN2kOutsideEnvironmentalParameters,
      ParseN2kOutsideEnvironmentalParameters),
    Codec(130311, SetN2kEnvironmentalParameters,
      ParseN2kEnvironmentalParameters),
    Codec(130312, SetN2kTemperature, ParseN2kTemperature),
    Codec(130313, SetN2kHumidity, ParseN2kHumidity),
    Codec(130314, SetN2kPressure, ParseN2kPressure),
    Codec(130315, SetN2kSetPressure, <<>>),
    Codec(130316, SetN2kTemperatureExt, ParseN2kTemperatureExt),
    Codec(130323, SetN2kMeteorlogicalStationData,
      ParseN2kMeteorlogicalStationData),
    Codec(130576, SetN2kTrimTab, ParseN2kTrimTab),
    Codec(130577, SetN2kDirectionData, ParseN2kDirectionData),
    Codec(130823, SetN2kMaretronTempHR, ParseN2kMaretronTempHR),
    Codec(65286, SetN2kMaretronFluidFR, ParseN2kMaretronFluidFR),
    Codec(65287, SetN2kMaretronTripVolume, ParseN2kMaretronTripVolume),
    Codec(59392, SetN2kPGNISOAcknowledgement, <<>>),
    Codec(60928, SetN2kISOAddressClaim, tDeviceInformation),
    Codec(126996, SetN2kProductInformation, ParseN2kPGN126996),
    Codec(126998, SetN2kConfigurationInformation, ParseN2kPGN126998),
    Codec(59904, SetN2kPGNISORequest, ParseN2kPGNISORequest),
    Codec(126993, SetHeartbeat, <<>>),
    PGNListCodec(SetN2kPGNTransmitList(DefTransmitMessages), DefTransmitMessages),
    PGNListCodec(SetN2kPGN126464(N2kpgnl_receive, DefReceiveMessages),
                 DefReceiveMessages)>>

OldCodecs ==
  <<Codec(127250, SetN2kTrueHeading, ParseN2kHeading),
    Codec(127250, SetN2kMagneticHeading, ParseN2kHeading),
    Codec(127489, SetN2kEngineDynamicParam_flags, ParseN2kPGN127489_flags),
    Codec(127493, SetN2kTransmissionParameters_flags,
      ParseN2kTransmissionParameters_flags),
    Codec(129039, SetN2kAISClassBPosition_old, ParseN2kAISClassBPosition),
    Codec(129285, SetN2kPGN129285_bools, <<>>),
    OldCodec(127245, SetN2kRudder, ParseN2kRudder_position),
    OldCodec(127252, SetN2kHeave, ParseN2kHeave_values),
    OldCodec(127489, SetN2kEngineDynamicParam, ParseN2kEngineDynamicParam_values),
    OldCodec(127489, SetN2kEngineDynamicParam, ParseN2kEngineDynamicParam_old),
    OldCodec(128267, SetN2kWaterDepth, ParseN2kWaterDepth_old),
    OldCodec(129038, SetN2kAISClassAPosition, ParseN2kAISClassAPosition_old),
    OldCodec(129039, SetN2kAISClassBPosition, ParseN2kAISClassBPosition_old),
    OldCodec(129039, SetN2kAISClassBPosition, ParseN2kAISClassBPosition_info),
    OldCodec(129794, SetN2kAISClassAStatic, ParseN2kAISClassAStatic_old),
    OldCodec(129809, SetN2kAISClassBStaticPartA,
      ParseN2kAISClassBStaticPartA_old),
    OldCodec(129810, SetN2kAISClassBStaticPartB,
      ParseN2kAISClassBStaticPartB_old),
    OldCodec(130313, SetN2kHumidity, ParseN2kHumidity_actual)>>

AllCodecs == ToSet(GroupCodecs \o NewCodecs \o OldCodecs)

=============================================================================
