----------------------------- MODULE N2kMessages -----------------------------
(***************************************************************************)
(* The messages of N2kMessages.cpp and N2kMaretron.cpp: for every          *)
(* SetN2kPGN... the layout it writes, for every ParseN2kPGN... the layout  *)
(* it reads, each translated from its own function, in the order of its    *)
(* calls.  What a Set function puts in the bits the reader skips is        *)
(* written with Ones and Zeros.  An enumeration that is not masked when it *)
(* is written has the width its values need.                               *)
(***************************************************************************)
EXTENDS N2kMsg, N2kTypes

\* A message: its PGN and what its Set and Parse functions write and read
\* (an empty layout where the library has no Parse function).
\* own are the fields a reader does not hand to its caller.
Codec(pgn, set, parse) == [pgn |-> pgn, set |-> set, parse |-> parse, own |-> {}]

\* The code in the first two bytes of Maretron's messages, 0x9889.
MaretronProprietary ==
  Key(<<Ones(1), Zeros(2), Ones(1), Zeros(3), Ones(1),
        Zeros(3), Ones(2), Zeros(2), Ones(1)>>)

\* PGN 129029 has room for one of the reference stations it counts.
ReferenceStation ==
  <<Word(2, <<E("ReferenceStationType", 4, tN2kGNSStype),
    B("ReferenceSationID", 12)>>), U("AgeOfCorrection", 2, "0.01")>>

\* The identifier is shifted out of an int16_t, with its sign.
ReadReferenceStation ==
  <<SignedHigh("ReferenceStationType", 4, "ReferenceSationID", 12),
    U("AgeOfCorrection", 2, "0.01")>>

NoReferenceStation ==
  [ReferenceStationType |-> Value(Rep(0, Width), ""),
   ReferenceSationID |-> Value(Rep(1, 15) \o Rep(0, Width - 15), ""),
   AgeOfCorrection |-> NA]

\* System time
SetN2kPGN126992 ==
  <<UInt("SID", 1), Word(1, <<E("TimeSource", 4, tN2kTimeSource), Ones(4)>>),
    UInt("SystemDate", 2), U("SystemTime", 4, "0.0001")>>

ParseN2kPGN126992 ==
  <<UInt("SID", 1), Word(1, <<E("TimeSource", 4, tN2kTimeSource)>>),
    UInt("SystemDate", 2), U("SystemTime", 4, "0.0001")>>

\* AIS Safety Related Broadcast Message
SetN2kPGN129802 ==
  <<Word(1, <<B("MessageID", 6), E("Repeat", 2, tN2kAISRepeat)>>),
    Word(4, <<B("SourceID", 30), Ones(2)>>),
    Word(1, <<E("AISTransceiverInformation", 5, tN2kAISTransceiverInformation),
    Ones(3)>>), Var("SafetyRelatedText")>>

ParseN2kPGN129802 ==
  <<Word(1, <<B("MessageID", 6), E("Repeat", 2, tN2kAISRepeat)>>),
    Word(4, <<B("SourceID", 30)>>),
    Word(1, <<E("AISTransceiverInformation", 5, tN2kAISTransceiverInformation)>>),
    Var("SafetyRelatedText")>>

\* Man Overboard Notification
SetN2kPGN127233 ==
  <<UInt("SID", 1), UInt("MobEmitterId", 4),
    Word(1, <<E("MOBStatus", 3, tN2kMOBStatus), Ones(5)>>),
    U("ActivationTime", 4, "0.0001"),
    Word(1, <<E("PositionSource", 3, tN2kMOBPositionSource), Ones(5)>>),
    UInt("PositionDate", 2), U("PositionTime", 4, "0.0001"),
    S("Latitude", 4, "1e-07"), S("Longitude", 4, "1e-07"),
    Word(1, <<E("COGReference", 2, tN2kHeadingReference), Ones(6)>>),
    U("COG", 2, "0.0001"), U("SOG", 2, "0.01"), UInt("MMSI", 4),
    Word(1, <<E("MOBEmitterBatteryStatus", 3, tN2kMOBEmitterBatteryStatus),
    Ones(5)>>)>>

ParseN2kPGN127233 ==
  <<UInt("SID", 1), UInt("MobEmitterId", 4),
    Word(1, <<E("MOBStatus", 3, tN2kMOBStatus)>>),
    U("ActivationTime", 4, "0.0001"),
    Word(1, <<E("PositionSource", 3, tN2kMOBPositionSource)>>),
    UInt("PositionDate", 2), U("PositionTime", 4, "0.0001"),
    S("Latitude", 4, "1e-07"), S("Longitude", 4, "1e-07"),
    Word(1, <<E("COGReference", 2, tN2kHeadingReference)>>),
    U("COG", 2, "0.0001"), U("SOG", 2, "0.01"), UInt("MMSI", 4),
    Word(1, <<E("MOBEmitterBatteryStatus", 3, tN2kMOBEmitterBatteryStatus)>>)>>

\* Heading/Track control
SetN2kPGN127237 ==
  <<Word(1, <<E("RudderLimitExceeded", 2, tN2kOnOff),
    E("OffHeadingLimitExceeded", 2, tN2kOnOff),
    E("OffTrackLimitExceeded", 2, tN2kOnOff), E("Override", 2, tN2kOnOff)>>),
    Word(1, <<E("SteeringMode", 3, tN2kSteeringMode),
    E("TurnMode", 3, tN2kTurnMode),
    E("HeadingReference", 2, tN2kHeadingReference)>>), Word(1, <<Ones(5),
    E("CommandedRudderDirection", 3, tN2kRudderDirectionOrder)>>),
    S("CommandedRudderAngle", 2, "0.0001"),
    U("HeadingToSteerCourse", 2, "0.0001"), U("Track", 2, "0.0001"),
    U("RudderLimit", 2, "0.0001"), U("OffHeadingLimit", 2, "0.0001"),
    S("RadiusOfTurnOrder", 2, "1"), S("RateOfTurnOrder", 2, "3.125e-05"),
    S("OffTrackLimit", 2, "1"), U("VesselHeading", 2, "0.0001")>>

ParseN2kPGN127237 ==
  <<Word(1, <<E("RudderLimitExceeded", 2, tN2kOnOff),
    E("OffHeadingLimitExceeded", 2, tN2kOnOff),
    E("OffTrackLimitExceeded", 2, tN2kOnOff), E("Override", 2, tN2kOnOff)>>),
    Word(1, <<E("SteeringMode", 3, tN2kSteeringMode),
    E("TurnMode", 3, tN2kTurnMode),
    E("HeadingReference", 2, tN2kHeadingReference)>>), Word(1, <<Gap(5),
    E("CommandedRudderDirection", 3, tN2kRudderDirectionOrder)>>),
    S("CommandedRudderAngle", 2, "0.0001"),
    U("HeadingToSteerCourse", 2, "0.0001"), U("Track", 2, "0.0001"),
    U("RudderLimit", 2, "0.0001"), U("OffHeadingLimit", 2, "0.0001"),
    S("RadiusOfTurnOrder", 2, "1"), S("RateOfTurnOrder", 2, "3.125e-05"),
    S("OffTrackLimit", 2, "1"), U("VesselHeading", 2, "0.0001")>>

\* Rudder
SetN2kPGN127245 ==
  <<UInt("Instance", 1),
    Word(1, <<E("RudderDirectionOrder", 3, tN2kRudderDirectionOrder),
    Ones(5)>>), S("AngleOrder", 2, "0.0001"),
    S("RudderPosition", 2, "0.0001"), Reserved(1), Reserved(1)>>

ParseN2kPGN127245 ==
  <<UInt("Instance", 1),
    Word(1, <<E("RudderDirectionOrder", 3, tN2kRudderDirectionOrder)>>),
    S("AngleOrder", 2, "0.0001"), S("RudderPosition", 2, "0.0001")>>

\* Seeded error: deviation and variation in the wrong order.
SetN2kPGN127250_bug_swapped ==
  <<UInt("SID", 1), U("Heading", 2, "0.0001"), S("Variation", 2, "0.0001"),
    S("Deviation", 2, "0.0001"), Word(1, <<E("ref", 2, tN2kHeadingReference),
    Ones(6)>>)>>

\* Vessel Heading
SetN2kPGN127250 ==
  <<UInt("SID", 1), U("Heading", 2, "0.0001"), S("Deviation", 2, "0.0001"),
    S("Variation", 2, "0.0001"), Word(1, <<E("ref", 2, tN2kHeadingReference),
    Ones(6)>>)>>

ParseN2kPGN127250 ==
  <<UInt("SID", 1), U("Heading", 2, "0.0001"), S("Deviation", 2, "0.0001"),
    S("Variation", 2, "0.0001"),
    Word(1, <<E("ref", 2, tN2kHeadingReference)>>)>>

\* Rate of turn
SetN2kPGN127251 ==
  <<UInt("SID", 1), S("RateOfTurn", 4, "3.125e-08"), Reserved(1),
    Reserved(2)>>

ParseN2kPGN127251 == <<UInt("SID", 1), S("RateOfTurn", 4, "3.125e-08")>>

\* Heave
SetN2kPGN127252 ==
  <<UInt("SID", 1), S("Heave", 2, "0.01"), U("Delay", 2, "0.01"),
    Word(1, <<E("DelaySource", 4, tN2kDD374), Ones(4)>>), Reserved(2)>>

ParseN2kPGN127252 ==
  <<UInt("SID", 1), S("Heave", 2, "0.01"), U("Delay", 2, "0.01"),
    Word(1, <<E("DelaySource", 4, tN2kDD374)>>)>>

\* Attitude
SetN2kPGN127257 ==
  <<UInt("SID", 1), S("Yaw", 2, "0.0001"), S("Pitch", 2, "0.0001"),
    S("Roll", 2, "0.0001"), Reserved(1)>>

ParseN2kPGN127257 ==
  <<UInt("SID", 1), S("Yaw", 2, "0.0001"), S("Pitch", 2, "0.0001"),
    S("Roll", 2, "0.0001")>>

\* Magnetic variation
SetN2kPGN127258 ==
  <<UInt("SID", 1), Word(1, <<E("Source", 4, tN2kMagneticVariation),
    Zeros(4)>>), UInt("DaysSince1970", 2), S("Variation", 2, "0.0001"),
    Reserved(2)>>

ParseN2kPGN127258 ==
  <<UInt("SID", 1), Word(1, <<E("Source", 4, tN2kMagneticVariation)>>),
    UInt("DaysSince1970", 2), S("Variation", 2, "0.0001")>>

\* Engine rapid param
SetN2kPGN127488 ==
  <<UInt("EngineInstance", 1), U("EngineSpeed", 2, "0.25"),
    U("EngineBoostPressure", 2, "100"), UInt("EngineTiltTrim", 1),
    Reserved(1), Reserved(1)>>

ParseN2kPGN127488 ==
  <<UInt("EngineInstance", 1), U("EngineSpeed", 2, "0.25"),
    U("EngineBoostPressure", 2, "100"), UInt("EngineTiltTrim", 1)>>

\* Engine parameters dynamic
SetN2kPGN127489 ==
  <<UInt("EngineInstance", 1), U("EngineOilPress", 2, "100"),
    U("EngineOilTemp", 2, "0.1"), U("EngineCoolantTemp", 2, "0.01"),
    S("AltenatorVoltage", 2, "0.01"), S("FuelRate", 2, "0.1"),
    U("EngineHours", 4, "1"), U("EngineCoolantPress", 2, "100"),
    U("EngineFuelPress", 2, "1000"), Reserved(1),
    EInt("Status1", 2, tN2kDD206), EInt("Status2", 2, tN2kDD223),
    UInt("EngineLoad", 1), UInt("EngineTorque", 1)>>

ParseN2kPGN127489 ==
  <<UInt("EngineInstance", 1), U("EngineOilPress", 2, "100"),
    U("EngineOilTemp", 2, "0.1"), U("EngineCoolantTemp", 2, "0.01"),
    S("AltenatorVoltage", 2, "0.01"), S("FuelRate", 2, "0.1"),
    U("EngineHours", 4, "1"), U("EngineCoolantPress", 2, "100"),
    U("EngineFuelPress", 2, "1000"), Skip(1), EInt("Status1", 2, tN2kDD206),
    Word(2, <<[E("Status2", 16, tN2kDD223) EXCEPT !.kept = 1..8]>>),
    UInt("EngineLoad", 1), UInt("EngineTorque", 1)>>

\* Transmission parameters, dynamic
SetN2kPGN127493 ==
  <<UInt("EngineInstance", 1),
    Word(1, <<E("TransmissionGear", 2, tN2kTransmissionGear), Ones(6)>>),
    U("OilPressure", 2, "100"), U("OilTemperature", 2, "0.1"),
    UInt("DiscreteStatus1", 1), Reserved(1)>>

ParseN2kPGN127493 ==
  <<UInt("EngineInstance", 1),
    Word(1, <<E("TransmissionGear", 2, tN2kTransmissionGear)>>),
    U("OilPressure", 2, "100"), U("OilTemperature", 2, "0.1"),
    UInt("DiscreteStatus1", 1)>>

\* Trip Parameters, Engine
SetN2kPGN127497 ==
  <<UInt("EngineInstance", 1), U("TripFuelUsed", 2, "1"),
    S("FuelRateAverage", 2, "0.1"), S("FuelRateEconomy", 2, "0.1"),
    S("InstantaneousFuelEconomy", 2, "0.1")>>

ParseN2kPGN127497 ==
  <<UInt("EngineInstance", 1), U("TripFuelUsed", 2, "1"),
    S("FuelRateAverage", 2, "0.1"), S("FuelRateEconomy", 2, "0.1"),
    S("InstantaneousFuelEconomy", 2, "0.1")>>

SetN2kPGN127501 ==
  <<Word(8, <<B("DeviceBankInstance", 8), B("BankStatus", 56)>>)>>

\* Binary status report
SetN2kPGN127501_statuses ==
  <<Word(8, <<B("DeviceBankInstance", 8), E("Status1", 2, tN2kOnOff),
    E("Status2", 2, tN2kOnOff), E("Status3", 2, tN2kOnOff),
    E("Status4", 2, tN2kOnOff), Ones(48)>>)>>

ParseN2kPGN127501_statuses ==
  <<UInt("DeviceBankInstance", 1), Word(1, <<E("Status1", 2, tN2kOnOff),
    E("Status2", 2, tN2kOnOff), E("Status3", 2, tN2kOnOff),
    E("Status4", 2, tN2kOnOff)>>)>>

ParseN2kPGN127501 ==
  <<Word(8, <<B("DeviceBankInstance", 8), B("BankStatus", 56)>>)>>

ParseN2kPGN127502 ==
  <<Word(8, <<B("TargetBankInstance", 8), B("BankStatus", 56)>>)>>

SetN2kPGN127502 ==
  <<Word(8, <<B("TargetBankInstance", 8), B("BankStatus", 56)>>)>>

\* Fluid level
SetN2kPGN127505 ==
  <<Word(1, <<B("Instance", 4), E("FluidType", 4, tN2kFluidType)>>),
    S("Level", 2, "0.004"), U("Capacity", 4, "0.1"), Reserved(1)>>

ParseN2kPGN127505 ==
  <<Word(1, <<B("Instance", 4), E("FluidType", 4, tN2kFluidType)>>),
    S("Level", 2, "0.004"), U("Capacity", 4, "0.1")>>

\* DC Detailed Status
SetN2kPGN127506 ==
  <<UInt("SID", 1), UInt("DCInstance", 1), EInt("DCType", 1, tN2kDCType),
    UInt("StateOfCharge", 1), UInt("StateOfHealth", 1),
    U("TimeRemaining", 2, "60"), U("RippleVoltage", 2, "0.001"),
    U("Capacity", 2, "3600")>>

ParseN2kPGN127506 ==
  <<UInt("SID", 1), UInt("DCInstance", 1), EInt("DCType", 1, tN2kDCType),
    UInt("StateOfCharge", 1), UInt("StateOfHealth", 1),
    U("TimeRemaining", 2, "60"), U("RippleVoltage", 2, "0.001"),
    U("Capacity", 2, "3600")>>

\* Charger Status
SetN2kPGN127507 ==
  <<UInt("Instance", 1), UInt("BatteryInstance", 1),
    Word(1, <<E("ChargeState", 4, tN2kChargeState),
    E("ChargerMode", 4, tN2kChargerMode)>>),
    Word(1, <<E("Enabled", 2, tN2kOnOff),
    E("EqualizationPending", 2, tN2kOnOff), Ones(4)>>),
    U("EqualizationTimeRemaining", 2, "1")>>

ParseN2kPGN127507 ==
  <<UInt("Instance", 1), UInt("BatteryInstance", 1),
    Word(1, <<E("ChargeState", 4, tN2kChargeState),
    E("ChargerMode", 4, tN2kChargerMode)>>),
    Word(1, <<E("Enabled", 2, tN2kOnOff),
    E("EqualizationPending", 2, tN2kOnOff)>>),
    U("EqualizationTimeRemaining", 2, "60")>>

\* Battery Status
SetN2kPGN127508 ==
  <<UInt("BatteryInstance", 1), S("BatteryVoltage", 2, "0.01"),
    S("BatteryCurrent", 2, "0.1"), U("BatteryTemperature", 2, "0.01"),
    UInt("SID", 1)>>

ParseN2kPGN127508 ==
  <<UInt("BatteryInstance", 1), S("BatteryVoltage", 2, "0.01"),
    S("BatteryCurrent", 2, "0.1"), U("BatteryTemperature", 2, "0.01"),
    UInt("SID", 1)>>

\* Charger Configuration Status
SetN2kPGN127510 ==
  <<UInt("ChargerInsance", 1), UInt("BatteryInstance", 1),
    Word(1, <<E("Enable", 2, tN2kOnOff), Zeros(6)>>),
    UInt("ChargeCurrentLimit", 1),
    Word(1, <<E("ChargingAlgorithm", 4, tN2kChargingAlgorithm),
    E("ChargerMode", 4, tN2kChargerMode)>>),
    Word(1, <<E("BatteryTemperature", 4, tBattTempNoSensor),
    E("EqualizationEnabled", 2, tN2kOnOff),
    E("OverChargeEnable", 2, tN2kOnOff)>>),
    UInt("EqualizationTimeRemaining", 2)>>

ParseN2kPGN127510 ==
  <<UInt("ChargerInsance", 1), UInt("BatteryInstance", 1),
    Word(1, <<E("Enable", 2, tN2kOnOff)>>), UInt("ChargeCurrentLimit", 1),
    Word(1, <<E("ChargingAlgorithm", 4, tN2kChargingAlgorithm),
    E("ChargerMode", 4, tN2kChargerMode)>>),
    Word(1, <<Masked("BatteryTemperature", 4, {3}),
    E("EqualizationEnabled", 2, tN2kOnOff),
    E("OverChargeEnable", 2, tN2kOnOff)>>),
    UInt("EqualizationTimeRemaining", 2)>>

\* Battery Configuration Status
SetN2kPGN127513 ==
  <<UInt("BatInstance", 1), Word(1, <<E("BatType", 4, tN2kBatType),
    E("SupportsEqual", 2, tN2kBatEqSupport), Ones(2)>>),
    Word(1, <<E("BatNominalVoltage", 4, tN2kBatNomVolt),
    E("BatChemistry", 4, tN2kBatChem)>>), U("BatCapacity", 2, "3600"),
    UInt("BatTemperatureCoefficient", 1), Exponent("PeukertExponent"),
    UInt("ChargeEfficiencyFactor", 1)>>

ParseN2kPGN127513 ==
  <<UInt("BatInstance", 1), Word(1, <<E("BatType", 4, tN2kBatType),
    E("SupportsEqual", 2, tN2kBatEqSupport)>>),
    Word(1, <<E("BatNominalVoltage", 4, tN2kBatNomVolt),
    E("BatChemistry", 4, tN2kBatChem)>>), S("BatCapacity", 2, "3600"),
    UInt("BatTemperatureCoefficient", 1),
    Lossy(U("PeukertExponent", 1, "0.002 above 1")),
    UInt("ChargeEfficiencyFactor", 1)>>

\* Converter (Inverter/Charger) Status 127750
SetN2kPGN127750 ==
  <<UInt("SID", 1), UInt("ConnectionNumber", 1),
    EInt("OperatingState", 1, tN2kConvMode),
    Word(1, <<E("TemperatureState", 2, tN2kTemperatureState),
    E("OverloadState", 2, tN2kOverloadState),
    E("LowDcVoltageState", 2, tN2kDCVolgateState),
    E("RippleState", 2, tN2kRippleState)>>), Reserved(4)>>

ParseN2kPGN127750 ==
  <<UInt("SID", 1), UInt("ConnectionNumber", 1),
    EInt("OperatingState", 1, tN2kConvMode),
    Word(1, <<E("TemperatureState", 2, tN2kTemperatureState),
    E("OverloadState", 2, tN2kOverloadState),
    E("LowDcVoltageState", 2, tN2kDCVolgateState),
    E("RippleState", 2, tN2kRippleState)>>)>>

\* Leeway
SetN2kPGN128000 ==
  <<UInt("SID", 1), S("Leeway", 2, "0.0001"), Reserved(1), Reserved(1),
    Reserved(1), Reserved(1), Reserved(1)>>

ParseN2kPGN128000 == <<UInt("SID", 1), S("Leeway", 2, "0.0001")>>

\* Boat speed
SetN2kPGN128259 ==
  <<UInt("SID", 1), U("WaterReferenced", 2, "0.01"),
    U("GroundReferenced", 2, "0.01"),
    EInt("SWRT", 1, tN2kSpeedWaterReferenceType), Reserved(1), Reserved(1)>>

ParseN2kPGN128259 ==
  <<UInt("SID", 1), U("WaterReferenced", 2, "0.01"),
    U("GroundReferenced", 2, "0.01"),
    Word(1, <<E("SWRT", 4, tN2kSpeedWaterReferenceType)>>)>>

\* Water depth
SetN2kPGN128267 ==
  <<UInt("SID", 1), U("DepthBelowTransducer", 4, "0.01"),
    S("Offset", 2, "0.001"), U("Range", 1, "10")>>

ParseN2kPGN128267 ==
  <<UInt("SID", 1), U("DepthBelowTransducer", 4, "0.01"),
    S("Offset", 2, "0.001"), U("Range", 1, "10")>>

\* Distance log
SetN2kPGN128275 ==
  <<UInt("DaysSince1970", 2), U("SecondsSinceMidnight", 4, "0.0001"),
    UInt("Log", 4), UInt("TripLog", 4)>>

ParseN2kPGN128275 ==
  <<UInt("DaysSince1970", 2), U("SecondsSinceMidnight", 4, "0.0001"),
    Lossy(U("Log", 4, "")), Lossy(U("TripLog", 4, ""))>>

SetN2kPGN128776 ==
  <<UInt("SID", 1), UInt("WindlassIdentifier", 1),
    Word(1, <<E("WindlassDirectionControl", 2, tN2kDD484),
    E("AnchorDockingControl", 2, tN2kDD002),
    E("SpeedControlType", 2, tN2kDD488), Ones(2)>>), UInt("SpeedControl", 1),
    Word(1, <<E("PowerEnable", 2, tN2kDD002),
    E("MechanicalLock", 2, tN2kDD002), E("DeckAndAnchorWash", 2, tN2kDD002),
    E("AnchorLight", 2, tN2kDD002)>>), U("CommandTimeout", 1, "0.005"),
    EInt("WindlassControlEvents", 1, tN2kDD478)>>

ParseN2kPGN128776 ==
  <<UInt("SID", 1), UInt("WindlassIdentifier", 1),
    Word(1, <<E("WindlassDirectionControl", 2, tN2kDD484),
    E("AnchorDockingControl", 2, tN2kDD002),
    E("SpeedControlType", 2, tN2kDD488)>>), UInt("SpeedControl", 1),
    Word(1, <<E("PowerEnable", 2, tN2kDD002),
    E("MechanicalLock", 2, tN2kDD002), E("DeckAndAnchorWash", 2, tN2kDD002),
    E("AnchorLight", 2, tN2kDD002)>>), U("CommandTimeout", 1, "0.005"),
    EInt("WindlassControlEvents", 1, tN2kDD478)>>

SetN2kPGN128777 ==
  <<UInt("SID", 1), UInt("WindlassIdentifier", 1),
    Word(1, <<E("WindlassMotionStatus", 2, tN2kDD480),
    E("RodeTypeStatus", 2, tN2kDD481), Ones(4)>>),
    U("RodeCounterValue", 2, "0.1"), U("WindlassLineSpeed", 2, "0.01"),
    Word(1, <<E("AnchorDockingStatus", 2, tN2kDD482),
    E("WindlassOperatingEvents", 6, tN2kDD483)>>)>>

ParseN2kPGN128777 ==
  <<UInt("SID", 1), UInt("WindlassIdentifier", 1),
    Word(1, <<E("WindlassMotionStatus", 2, tN2kDD480),
    E("RodeTypeStatus", 2, tN2kDD481)>>), U("RodeCounterValue", 2, "0.1"),
    U("WindlassLineSpeed", 2, "0.01"),
    Word(1, <<E("AnchorDockingStatus", 2, tN2kDD482),
    E("WindlassOperatingEvents", 6, tN2kDD483)>>)>>

SetN2kPGN128778 ==
  <<UInt("SID", 1), UInt("WindlassIdentifier", 1),
    EInt("WindlassMonitoringEvents", 1, tN2kDD477),
    U("ControllerVoltage", 1, "0.2"), U("MotorCurrent", 1, "1"),
    U("TotalMotorTime", 2, "60"), Reserved(1)>>

ParseN2kPGN128778 ==
  <<UInt("SID", 1), UInt("WindlassIdentifier", 1),
    EInt("WindlassMonitoringEvents", 1, tN2kDD477),
    U("ControllerVoltage", 1, "0.2"), U("MotorCurrent", 1, "1"),
    U("TotalMotorTime", 2, "60")>>

\* Lat long rapid
SetN2kPGN129025 == <<S("Latitude", 4, "1e-07"), S("Longitude", 4, "1e-07")>>

ParseN2kPGN129025 == <<S("Latitude", 4, "1e-07"), S("Longitude", 4, "1e-07")>>

\* COG SOG rapid
SetN2kPGN129026 ==
  <<UInt("SID", 1), Word(1, <<E("ref", 2, tN2kHeadingReference), Ones(6)>>),
    U("COG", 2, "0.0001"), U("SOG", 2, "0.01"), Reserved(1), Reserved(1)>>

ParseN2kPGN129026 ==
  <<UInt("SID", 1), Word(1, <<E("ref", 2, tN2kHeadingReference)>>),
    U("COG", 2, "0.0001"), U("SOG", 2, "0.01")>>

\* GNSS Position Data
SetN2kPGN129029 ==
  <<UInt("SID", 1), UInt("DaysSince1970", 2),
    U("SecondsSinceMidnight", 4, "0.0001"), S("Latitude", 8, "1e-16"),
    S("Longitude", 8, "1e-16"), S("Altitude", 8, "1e-06"),
    Word(1, <<E("GNSStype", 4, tN2kGNSStype),
    E("GNSSmethod", 4, tN2kGNSSmethod)>>), Word(1, <<Ones(1), Zeros(1),
    Ones(6)>>), UInt("nSatellites", 1), S("HDOP", 2, "0.01"),
    S("PDOP", 2, "0.01"), S("GeoidalSeparation", 4, "0.01"),
    Count("nReferenceStations"),
    IfAny("nReferenceStations", ReferenceStation, NoReferenceStation)>>

ParseN2kPGN129029 ==
  <<UInt("SID", 1), UInt("DaysSince1970", 2),
    U("SecondsSinceMidnight", 4, "0.0001"), S("Latitude", 8, "1e-16"),
    S("Longitude", 8, "1e-16"), S("Altitude", 8, "1e-06"),
    Word(1, <<E("GNSStype", 4, tN2kGNSStype),
    E("GNSSmethod", 4, tN2kGNSSmethod)>>), Skip(1), UInt("nSatellites", 1),
    S("HDOP", 2, "0.01"), S("PDOP", 2, "0.01"),
    S("GeoidalSeparation", 4, "0.01"), UInt("nReferenceStations", 1),
    IfAny("nReferenceStations", ReadReferenceStation, NoReferenceStation)>>

\* Date,Time & Local offset
SetN2kPGN129033 ==
  <<UInt("DaysSince1970", 2), U("SecondsSinceMidnight", 4, "0.0001"),
    UInt("LocalOffset", 2)>>

ParseN2kPGN129033 ==
  <<UInt("DaysSince1970", 2), U("SecondsSinceMidnight", 4, "0.0001"),
    SInt("LocalOffset")>>

\* GNSS DOP data
SetN2kPGN129539 ==
  <<UInt("SID", 1), Word(1, <<E("DesiredMode", 3, tN2kGNSSDOPmode),
    E("ActualMode", 3, tN2kGNSSDOPmode), Ones(2)>>), S("HDOP", 2, "0.01"),
    S("VDOP", 2, "0.01"), S("TDOP", 2, "0.01")>>

ParseN2kPgn129539 ==
  <<UInt("SID", 1), Word(1, <<E("DesiredMode", 3, tN2kGNSSDOPmode),
    E("ActualMode", 3, tN2kGNSSDOPmode)>>), S("HDOP", 2, "0.01"),
    S("VDOP", 2, "0.01"), S("TDOP", 2, "0.01")>>

SetN2kPGN129540 ==
  <<UInt("SID", 1), Word(1, <<E("Mode", 2, tN2kDD072), Ones(6)>>),
    Word(1, <<Zeros(8)>>)>>

ParseN2kPGN129540 ==
  <<UInt("SID", 1), Word(1, <<E("Mode", 2, tN2kDD072)>>),
    UInt("NumberOfSVs", 1)>>

\* AIS position report (class A 129038)
SetN2kPGN129038 ==
  <<Word(1, <<B("MessageID", 6), E("Repeat", 2, tN2kAISRepeat)>>),
    UInt("UserID", 4), S("Longitude", 4, "1e-07"), S("Latitude", 4, "1e-07"),
    Word(1, <<B("Accuracy", 1), B("RAIM", 1), B("Seconds", 6)>>),
    U("COG", 2, "0.0001"), U("SOG", 2, "0.01"), Word(3, <<Ones(19),
    E("AISTransceiverInformation", 5, tN2kAISTransceiverInformation)>>),
    U("Heading", 2, "0.0001"), S("ROT", 2, "3.125e-05"),
    Word(1, <<E("NavStatus", 4, tN2kAISNavStatus), Ones(4)>>), Reserved(1),
    UInt("SID", 1)>>

ParseN2kPGN129038 ==
  <<Word(1, <<B("MessageID", 6), E("Repeat", 2, tN2kAISRepeat)>>),
    UInt("UserID", 4), S("Longitude", 4, "1e-07"), S("Latitude", 4, "1e-07"),
    Word(1, <<B("Accuracy", 1), B("RAIM", 1), B("Seconds", 6)>>),
    U("COG", 2, "0.0001"), U("SOG", 2, "0.01"), Skip(1), Skip(1),
    Word(1, <<Gap(3),
    E("AISTransceiverInformation", 5, tN2kAISTransceiverInformation)>>),
    U("Heading", 2, "0.0001"), S("ROT", 2, "3.125e-05"),
    Word(1, <<E("NavStatus", 4, tN2kAISNavStatus)>>), Skip(1),
    UInt("SID", 1)>>

\* AIS position report (class B 129039)
SetN2kPGN129039 ==
  <<Word(1, <<B("MessageID", 6), E("Repeat", 2, tN2kAISRepeat)>>),
    UInt("UserID", 4), S("Longitude", 4, "1e-07"), S("Latitude", 4, "1e-07"),
    Word(1, <<B("Accuracy", 1), B("RAIM", 1), B("Seconds", 6)>>),
    U("COG", 2, "0.0001"), U("SOG", 2, "0.01"), Reserved(1), Reserved(1),
    Word(1, <<Ones(3),
    E("AISTransceiverInformation", 5, tN2kAISTransceiverInformation)>>),
    U("Heading", 2, "0.0001"), Reserved(1), Word(1, <<Zeros(2),
    E("Unit", 1, tN2kAISUnit), B("Display", 1), B("DSC", 1), B("Band", 1),
    B("Msg22", 1), E("Mode", 1, tN2kAISMode)>>), Word(1, <<B("State", 1),
    Ones(7)>>), UInt("SID", 1)>>

ParseN2kPGN129039 ==
  <<Word(1, <<B("MessageID", 6), E("Repeat", 2, tN2kAISRepeat)>>),
    UInt("UserID", 4), S("Longitude", 4, "1e-07"), S("Latitude", 4, "1e-07"),
    Word(1, <<B("Accuracy", 1), B("RAIM", 1), B("Seconds", 6)>>),
    U("COG", 2, "0.0001"), U("SOG", 2, "0.01"), Skip(1), Skip(1),
    Word(1, <<Gap(3),
    E("AISTransceiverInformation", 5, tN2kAISTransceiverInformation)>>),
    U("Heading", 2, "0.0001"), Skip(1), Word(1, <<Gap(2),
    E("Unit", 1, tN2kAISUnit), B("Display", 1), B("DSC", 1), B("Band", 1),
    B("Msg22", 1), E("Mode", 1, tN2kAISMode)>>), Word(1, <<B("State", 1)>>),
    UInt("SID", 1)>>

\* AIS Aids to Navigation (AtoN) Report (PGN 129041)
SetN2kPGN129041 ==
  <<Word(1, <<B("MessageID", 6), E("Repeat", 2, tN2kAISRepeat)>>),
    UInt("UserID", 4), S("Longitude", 4, "1e-07"), S("Latitude", 4, "1e-07"),
    Word(1, <<B("Accuracy", 1), B("RAIM", 1), B("Seconds", 6)>>),
    U("Length", 2, "0.1"), U("Beam", 2, "0.1"),
    U("PositionReferenceStarboard", 2, "0.1"),
    U("PositionReferenceTrueNorth", 2, "0.1"),
    Word(1, <<E("AtoNType", 5, tN2kDD305), B("OffPositionIndicator", 1),
    B("VirtualAtoNFlag", 1), B("AssignedModeFlag", 1)>>), Word(1, <<Zeros(1),
    E("GNSSType", 4, tN2kGNSStype), Ones(3)>>), UInt("AtoNStatus", 1),
    Word(1, <<E("AISTransceiverInformation", 5, tN2kAISTransceiverInformation),
    Ones(3)>>), Var("AtoNName")>>

ParseN2kPGN129041 ==
  <<Word(1, <<B("MessageID", 6), E("Repeat", 2, tN2kAISRepeat)>>),
    UInt("UserID", 4), S("Longitude", 4, "1e-07"), S("Latitude", 4, "1e-07"),
    Word(1, <<B("Accuracy", 1), B("RAIM", 1), B("Seconds", 6)>>),
    S("Length", 2, "0.1"), S("Beam", 2, "0.1"),
    S("PositionReferenceStarboard", 2, "0.1"),
    S("PositionReferenceTrueNorth", 2, "0.1"),
    Word(1, <<E("AtoNType", 5, tN2kDD305), B("OffPositionIndicator", 1),
    B("VirtualAtoNFlag", 1), B("AssignedModeFlag", 1)>>), Word(1, <<Gap(1),
    E("GNSSType", 4, tN2kGNSStype)>>), UInt("AtoNStatus", 1),
    Word(1, <<E("AISTransceiverInformation", 5, tN2kAISTransceiverInformation)>>),
    Var("AtoNName")>>

\* Cross Track Error
SetN2kPGN129283 ==
  <<UInt("SID", 1), Word(1, <<E("XTEMode", 4, tN2kXTEMode), Zeros(2),
    B("NavigationTerminated", 1), Zeros(1)>>), S("XTE", 4, "0.01"),
    Reserved(1), Reserved(1)>>

ParseN2kPGN129283 ==
  <<UInt("SID", 1), Word(1, <<E("XTEMode", 4, tN2kXTEMode), Gap(2),
    B("NavigationTerminated", 1)>>), S("XTE", 4, "0.01")>>

\* Navigation info
SetN2kPGN129284 ==
  <<UInt("SID", 1), U("DistanceToWaypoint", 4, "0.01"),
    Word(1, <<E("BearingReference", 2, tN2kHeadingReference),
    B("PerpendicularCrossed", 1), Zeros(1), B("ArrivalCircleEntered", 1),
    Zeros(1), E("CalculationType", 1, tN2kDistanceCalculationType),
    Zeros(1)>>), U("ETATime", 4, "0.0001"), UInt("ETADate", 2),
    U("BearingOriginToDestinationWaypoint", 2, "0.0001"),
    U("BearingPositionToDestinationWaypoint", 2, "0.0001"),
    UInt("OriginWaypointNumber", 4), UInt("DestinationWaypointNumber", 4),
    S("DestinationLatitude", 4, "1e-07"),
    S("DestinationLongitude", 4, "1e-07"),
    S("WaypointClosingVelocity", 2, "0.01")>>

ParseN2kPGN129284 ==
  <<UInt("SID", 1), U("DistanceToWaypoint", 4, "0.01"),
    Word(1, <<E("BearingReference", 1, tN2kHeadingReference), Gap(1),
    B("PerpendicularCrossed", 1), Gap(1), B("ArrivalCircleEntered", 1),
    Gap(1), E("CalculationType", 1, tN2kDistanceCalculationType)>>),
    U("ETATime", 4, "0.0001"), UInt("ETADate", 2),
    U("BearingOriginToDestinationWaypoint", 2, "0.0001"),
    U("BearingPositionToDestinationWaypoint", 2, "0.0001"),
    UInt("OriginWaypointNumber", 4), UInt("DestinationWaypointNumber", 4),
    S("DestinationLatitude", 4, "1e-07"),
    S("DestinationLongitude", 4, "1e-07"),
    S("WaypointClosingVelocity", 2, "0.01")>>

\* Waypoint list
SetN2kPGN129285 ==
  <<UInt("Start", 2), Word(2, <<Zeros(16)>>), UInt("Database", 2),
    UInt("Route", 2), Word(1, <<E("NavDirection", 3, tN2kNavigationDirection),
    E("SupplementaryData", 2, tN2kDD002), Ones(3)>>), Var("RouteName"),
    Reserved(1)>>

\* AIS static data A
SetN2kPGN129794 ==
  <<Word(1, <<B("MessageID", 6), E("Repeat", 2, tN2kAISRepeat)>>),
    UInt("UserID", 4), UInt("IMOnumber", 4), AIS("Callsign", 7),
    AIS("Name", 20), UInt("VesselType", 1), S("Length", 2, "0.1"),
    S("Beam", 2, "0.1"), S("PosRefStbd", 2, "0.1"), S("PosRefBow", 2, "0.1"),
    UInt("ETAdate", 2), U("ETAtime", 4, "0.0001"), S("Draught", 2, "0.01"),
    AIS("Destination", 20), Word(1, <<E("AISversion", 2, tN2kAISVersion),
    E("GNSStype", 4, tN2kGNSStype), E("DTE", 1, tN2kAISDTE), Zeros(1)>>),
    Word(1, <<E("AISinfo", 5, tN2kAISTransceiverInformation), Ones(3)>>),
    UInt("SID", 1)>>

ParseN2kPGN129794 ==
  <<Word(1, <<B("MessageID", 6), E("Repeat", 2, tN2kAISRepeat)>>),
    UInt("UserID", 4), UInt("IMOnumber", 4), AIS("Callsign", 7),
    AIS("Name", 20), UInt("VesselType", 1), S("Length", 2, "0.1"),
    S("Beam", 2, "0.1"), S("PosRefStbd", 2, "0.1"), S("PosRefBow", 2, "0.1"),
    UInt("ETAdate", 2), U("ETAtime", 4, "0.0001"), S("Draught", 2, "0.01"),
    AIS("Destination", 20), Word(1, <<E("AISversion", 2, tN2kAISVersion),
    E("GNSStype", 4, tN2kGNSStype), E("DTE", 1, tN2kAISDTE)>>),
    Word(1, <<E("AISinfo", 5, tN2kAISTransceiverInformation)>>),
    UInt("SID", 1)>>

\* AIS static data class B part A
SetN2kPGN129809 ==
  <<Word(1, <<B("MessageID", 6), E("Repeat", 2, tN2kAISRepeat)>>),
    UInt("UserID", 4), AIS("Name", 20),
    Word(1, <<E("AISInfo", 5, tN2kAISTransceiverInformation), Ones(3)>>),
    UInt("SID", 1)>>

ParseN2kPGN129809 ==
  <<Word(1, <<B("MessageID", 6), E("Repeat", 2, tN2kAISRepeat)>>),
    UInt("UserID", 4), AIS("Name", 20),
    Word(1, <<E("AISInfo", 5, tN2kAISTransceiverInformation)>>),
    UInt("SID", 1)>>

\* AIS static data class B part B
SetN2kPGN129810 ==
  <<Word(1, <<B("MessageID", 6), E("Repeat", 2, tN2kAISRepeat)>>),
    UInt("UserID", 4), UInt("VesselType", 1), AIS("Vendor", 7),
    AIS("Callsign", 7), U("Length", 2, "0.1"), U("Beam", 2, "0.1"),
    U("PosRefStbd", 2, "0.1"), U("PosRefBow", 2, "0.1"),
    UInt("MothershipID", 4), Word(1, <<Ones(2), Zeros(6)>>),
    Word(1, <<E("AISInfo", 5, tN2kAISTransceiverInformation), Ones(3)>>),
    UInt("SID", 1)>>

ParseN2kPGN129810 ==
  <<Word(1, <<B("MessageID", 6), E("Repeat", 2, tN2kAISRepeat)>>),
    UInt("UserID", 4), UInt("VesselType", 1), AIS("Vendor", 7),
    AIS("Callsign", 7), U("Length", 2, "0.1"), U("Beam", 2, "0.1"),
    U("PosRefStbd", 2, "0.1"), U("PosRefBow", 2, "0.1"),
    UInt("MothershipID", 4), Skip(1),
    Word(1, <<E("AISInfo", 5, tN2kAISTransceiverInformation)>>),
    UInt("SID", 1)>>

\* Waypoint list
SetN2kPGN130074 ==
  <<UInt("Start", 2), Word(2, <<Zeros(16)>>), UInt("NumWaypoints", 2),
    UInt("Database", 2), Reserved(1), Reserved(1)>>

\* Wind Speed
SetN2kPGN130306 ==
  <<UInt("SID", 1), U("WindSpeed", 2, "0.01"), U("WindAngle", 2, "0.0001"),
    Word(1, <<E("WindReference", 3, tN2kWindReference), Zeros(5)>>),
    Reserved(1), Reserved(1)>>

ParseN2kPGN130306 ==
  <<UInt("SID", 1), U("WindSpeed", 2, "0.01"), U("WindAngle", 2, "0.0001"),
    Word(1, <<E("WindReference", 3, tN2kWindReference)>>)>>

\* Outside Environmental parameters
SetN2kPGN130310 ==
  <<UInt("SID", 1), U("WaterTemperature", 2, "0.01"),
    U("OutsideAmbientAirTemperature", 2, "0.01"),
    U("AtmosphericPressure", 2, "100"), Reserved(1)>>

ParseN2kPGN130310 ==
  <<UInt("SID", 1), U("WaterTemperature", 2, "0.01"),
    U("OutsideAmbientAirTemperature", 2, "0.01"),
    U("AtmosphericPressure", 2, "100")>>

\* Environmental parameters
SetN2kPGN130311 ==
  <<UInt("SID", 1), Word(1, <<E("TempSource", 6, tN2kTempSource),
    E("HumiditySource", 2, tN2kHumiditySource)>>),
    U("Temperature", 2, "0.01"), S("Humidity", 2, "0.004"),
    U("AtmosphericPressure", 2, "100")>>

ParseN2kPGN130311 ==
  <<UInt("SID", 1), Word(1, <<E("TempSource", 6, tN2kTempSource),
    E("HumiditySource", 2, tN2kHumiditySource)>>),
    U("Temperature", 2, "0.01"), S("Humidity", 2, "0.004"),
    U("AtmosphericPressure", 2, "100")>>

\* Temperature
SetN2kPGN130312 ==
  <<UInt("SID", 1), UInt("TempInstance", 1),
    EInt("TempSource", 1, tN2kTempSource), U("ActualTemperature", 2, "0.01"),
    U("SetTemperature", 2, "0.01"), Reserved(1)>>

ParseN2kPGN130312 ==
  <<UInt("SID", 1), UInt("TempInstance", 1),
    EInt("TempSource", 1, tN2kTempSource), U("ActualTemperature", 2, "0.01"),
    U("SetTemperature", 2, "0.01")>>

\* Humidity
SetN2kPGN130313 ==
  <<UInt("SID", 1), UInt("HumidityInstance", 1),
    EInt("HumiditySource", 1, tN2kHumiditySource),
    S("ActualHumidity", 2, "0.004"), S("SetHumidity", 2, "0.004"),
    Reserved(1)>>

ParseN2kPGN130313 ==
  <<UInt("SID", 1), UInt("HumidityInstance", 1),
    EInt("HumiditySource", 1, tN2kHumiditySource),
    S("ActualHumidity", 2, "0.004"), S("SetHumidity", 2, "0.004")>>

\* Actual Pressure
SetN2kPGN130314 ==
  <<UInt("SID", 1), UInt("PressureInstance", 1), UInt("PressureSource", 1),
    S("ActualPressure", 4, "0.1"), Reserved(1)>>

ParseN2kPGN130314 ==
  <<UInt("SID", 1), UInt("PressureInstance", 1), UInt("PressureSource", 1),
    S("ActualPressure", 4, "0.1")>>

\* Set Pressure
SetN2kPGN130315 ==
  <<UInt("SID", 1), UInt("PressureInstance", 1), UInt("PressureSource", 1),
    S("SetPressure", 4, "0.1"), Reserved(1)>>

\* Temperature extended range
SetN2kPGN130316 ==
  <<UInt("SID", 1), UInt("TempInstance", 1),
    EInt("TempSource", 1, tN2kTempSource), U("ActualTemperature", 3, "0.001"),
    U("SetTemperature", 2, "0.1")>>

ParseN2kPGN130316 ==
  <<UInt("SID", 1), UInt("TempInstance", 1),
    EInt("TempSource", 1, tN2kTempSource), U("ActualTemperature", 3, "0.001"),
    U("SetTemperature", 2, "0.1")>>

\* Meteorological Station Data
SetN2kPGN130323 ==
  <<Word(1, <<B("Mode", 4), Ones(4)>>), UInt("SystemDate", 2),
    U("SystemTime", 4, "0.0001"), S("Latitude", 4, "1e-07"),
    S("Longitude", 4, "1e-07"), U("WindSpeed", 2, "0.01"),
    U("WindDirection", 2, "0.0001"),
    Word(1, <<B("WindReference", 3), Ones(5)>>), U("WindGusts", 2, "0.01"),
    U("AtmosphericPressure", 2, "100"),
    U("OutsideAmbientAirTemperature", 2, "0.01"), Var("StationID"),
    Var("StationName")>>

ParseN2kPGN130323 ==
  <<Word(1, <<B("Mode", 4)>>), UInt("SystemDate", 2),
    U("SystemTime", 4, "0.0001"), S("Latitude", 4, "1e-07"),
    S("Longitude", 4, "1e-07"), U("WindSpeed", 2, "0.01"),
    U("WindDirection", 2, "0.0001"), Word(1, <<B("WindReference", 3)>>),
    U("WindGusts", 2, "0.01"), U("AtmosphericPressure", 2, "100"),
    U("OutsideAmbientAirTemperature", 2, "0.01"), Var("StationID"),
    Var("StationName")>>

\* Trim Tab Position
SetN2kPGN130576 ==
  <<UInt("PortTrimTab", 1), UInt("StbdTrimTab", 1), Reserved(2), Reserved(4)>>

ParseN2kPGN130576 == <<UInt("PortTrimTab", 1), UInt("StbdTrimTab", 1)>>

\* Direction Data
SetN2kPGN130577 ==
  <<Word(1, <<E("DataMode", 4, tN2kDD025),
    E("CogReference", 2, tN2kHeadingReference), Ones(2)>>), UInt("SID", 1),
    U("COG", 2, "0.0001"), U("SOG", 2, "0.01"), U("Heading", 2, "0.0001"),
    U("SpeedThroughWater", 2, "0.01"), U("Set", 2, "0.0001"),
    U("Drift", 2, "0.01")>>

ParseN2kPGN130577 ==
  <<Word(1, <<E("DataMode", 4, tN2kDD025),
    E("CogReference", 2, tN2kHeadingReference)>>), UInt("SID", 1),
    U("COG", 2, "0.0001"), U("SOG", 2, "0.01"), U("Heading", 2, "0.0001"),
    U("SpeedThroughWater", 2, "0.01"), U("Set", 2, "0.0001"),
    U("Drift", 2, "0.01")>>

\* Temperature High Range [MARETRON TMP100]
SetN2kMaretronPGN130823 ==
  <<MaretronProprietary, UInt("SID", 1), UInt("TempInstance", 1),
    UInt("TempSource", 1), U("ActualTemperature", 2, "0.1"),
    U("SetTemperature", 2, "0.1")>>

ParseN2kMaretronPGN130823 ==
  <<MaretronProprietary, UInt("SID", 1), UInt("TempInstance", 1),
    UInt("TempSource", 1), U("ActualTemperature", 2, "0.1"),
    U("SetTemperature", 2, "0.1")>>

\* Fluid Flow Rate [MARETRON FFM100]
SetN2kMaretronPGN65286 ==
  <<MaretronProprietary, UInt("SID", 1), UInt("FlowRateInstance", 1),
    UInt("FluidType", 1), S("FluidFlowRate", 3, "0.1")>>

ParseN2kMaretronPGN65286 ==
  <<MaretronProprietary, UInt("SID", 1), UInt("FlowRateInstance", 1),
    UInt("FluidType", 1), S("FluidFlowRate", 3, "0.1")>>

\* Trip Volume [MARETRON FFM100]
SetN2kMaretronPGN65287 ==
  <<MaretronProprietary, UInt("SID", 1), UInt("VolumeInstance", 1),
    UInt("FluidType", 1), S("TripVolume", 3, "1")>>

ParseN2kMaretronPGN65287 ==
  <<MaretronProprietary, UInt("SID", 1), UInt("VolumeInstance", 1),
    UInt("FluidType", 1), S("TripVolume", 3, "1")>>

-----------------------------------------------------------------------------
(* Messages to which items are added one by one *)

CountAt(data, byte, size) == ByteOf(SubSeq(data, 8 * byte + 1, 8 * (byte + size)))

\* SetByte and Set2ByteUInt inside the data.
Replace(data, byte, bits) ==
  SubSeq(data, 1, 8 * byte) \o bits \o SubSeq(data, 8 * byte + Len(bits) + 1, Len(data))

Count2(n) == ByteBits(n % 256) \o ByteBits(n \div 256)

MaxSatelliteInfoCount == 18

SatelliteInfo ==
  <<UInt("PRN", 1), S("Elevation", 2, "0.0001"), U("Azimuth", 2, "0.0001"),
    S("SNR", 2, "0.01"), S("RangeResiduals", 4, "1e-05"),
    Word(1, <<E("UsageStatus", 4, tN2kDD124), Ones(4)>>)>>

ReadSatelliteInfo ==
  <<UInt("PRN", 1), S("Elevation", 2, "0.0001"), U("Azimuth", 2, "0.0001"),
    S("SNR", 2, "0.01"), S("RangeResiduals", 4, "1e-05"),
    Word(1, <<E("UsageStatus", 4, tN2kDD124)>>)>>

\* An Append function returns the data it was given when it refuses the item.
AppendN2kPGN129540(data, vals) ==
  LET n == CountAt(data, 2, 1)
  IN IF n >= MaxSatelliteInfoCount THEN data
     ELSE Replace(data, 2, ByteBits(n + 1)) \o Encode(SatelliteInfo, vals)

\* Seeded error: a satellite is taken for one byte shorter than it is.
ParseN2kPGN129540_satellite_bug_stride(data, i) ==
  LET n == CountAt(data, 2, 1)
  IN IF n <= MaxSatelliteInfoCount /\ i < n
     THEN ParseAt(ReadSatelliteInfo, data, 3 + 11 * i)
     ELSE [PRN |-> Value(Wide(Rep(1, 8), 0), ""), Elevation |-> NA, Azimuth |-> NA,
           SNR |-> NA, RangeResiduals |-> NA, UsageStatus |-> Value(Wide(Rep(1, 4), 0), "")]

\* The satellite at index i from 0 on; unavailable when there is none.
ParseN2kPGN129540_satellite(data, i) ==
  LET n == CountAt(data, 2, 1)
  IN IF n <= MaxSatelliteInfoCount /\ i < n
     THEN ParseAt(ReadSatelliteInfo, data, 3 + 12 * i)
     ELSE [PRN |-> Value(Wide(Rep(1, 8), 0), ""), Elevation |-> NA, Azimuth |-> NA,
           SNR |-> NA, RangeResiduals |-> NA, UsageStatus |-> Value(Wide(Rep(1, 4), 0), "")]

Waypoint ==
  <<UInt("ID", 2), Var("Name"), S("Latitude", 4, "1e-07"),
    S("Longitude", 4, "1e-07")>>

\* A waypoint of len bytes, if there is room for it.
AppendWaypoint(data, len, vals) ==
  IF Len(data) \div 8 + len < MaxDataLen
  THEN Replace(data, 2, Count2(CountAt(data, 2, 2) + 1)) \o Encode(Waypoint, vals)
  ELSE data

AppendN2kPGN129285(data, vals) == AppendWaypoint(data, 12 + Len(vals["Name"].raw), vals)

\* An empty name is sent as the one character 0.
AppendN2kPGN130074(data, vals) ==
  IF vals["Name"].raw = <<>>
  THEN AppendWaypoint(data, 13, [vals EXCEPT !["Name"] = Text(<<0>>)])
  ELSE AppendWaypoint(data, 12 + Len(vals["Name"].raw), vals)

\* The layout of one item, for the messages that have any.
ItemsOf(pgn) == CASE pgn = 129540 -> SatelliteInfo
                  [] pgn \in {129285, 130074} -> Waypoint
                  [] OTHER -> <<>>

=============================================================================
