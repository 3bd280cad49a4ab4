------------------------------ MODULE N2kTypes ------------------------------
(***************************************************************************)
(* The enumerations and bit sets of N2kTypes.h and NMEA2000StdTypes.h that *)
(* a message carries: the names of their values, and the numbers that      *)
(* stand for them on the bus.  The common prefix of the names is left out. *)
(* A type no message uses (the thrusters') is left out.                    *)
(***************************************************************************)
EXTENDS Integers, Sequences, TLC

\* The values 0, 1, 2, ... of an enumeration by their names.
Enum(names) ==
  [n \in {names[i] : i \in DOMAIN names} |-> (CHOOSE i \in DOMAIN names : names[i] = n) - 1]

\* The flags of a union of a status word and its bits, lowest bit first:
\* the number of the word in which only this flag is set.
Bits(names) ==
  [n \in {names[i] : i \in DOMAIN names} |-> 2^((CHOOSE i \in DOMAIN names : names[i] = n) - 1)]

-----------------------------------------------------------------------------

tN2kNavigationDirection ==
  Enum(<<"forward", "reverse", "reserved1", "reserved2", "reserved3",
         "reserved4", "error", "unknown">>)

tN2kHeadingReference == Enum(<<"true", "magnetic", "error", "Unavailable">>)

tN2kDistanceCalculationType == Enum(<<"GreatCircle", "RhumbLine">>)

tN2kXTEMode ==
  Enum(<<"Autonomous", "Differential", "Estimated", "Simulator", "Manual">>)

tN2kGNSStype ==
  Enum(<<"GPS", "GLONASS", "GPSGLONASS", "GPSSBASWAAS", "GPSSBASWAASGLONASS",
         "Chayka", "integrated", "surveyed", "Galileo">>)

tN2kGNSSmethod ==
  Enum(<<"noGNSS", "GNSSfix", "DGNSS", "PreciseGNSS", "RTKFixed",
         "RTKFloat">>)
    @@ [Error |-> 14, Unavailable |-> 15]

tN2kGNSSDOPmode ==
  Enum(<<"1D", "2D", "3D", "Auto", "Reserved", "Reserved2", "Error",
         "Unavailable">>)

tN2kTempSource ==
  Enum(<<"SeaTemperature", "OutsideTemperature", "InsideTemperature",
         "EngineRoomTemperature", "MainCabinTemperature",
         "LiveWellTemperature", "BaitWellTemperature",
         "RefridgerationTemperature", "HeatingSystemTemperature",
         "DewPointTemperature", "ApparentWindChillTemperature",
         "TheoreticalWindChillTemperature", "HeatIndexTemperature",
         "FreezerTemperature", "ExhaustGasTemperature",
         "ShaftSealTemperature">>)

tN2kHumiditySource ==
  Enum(<<"InsideHumidity", "OutsideHumidity">>)
    @@ [Undef |-> 255]

tN2kTimeSource ==
  Enum(<<"GPS", "GLONASS", "RadioStation", "LocalCesiumClock",
         "LocalRubidiumClock", "LocalCrystalClock">>)

tN2kFluidType ==
  Enum(<<"Fuel", "Water", "GrayWater", "LiveWell", "Oil", "BlackWater",
         "FuelGasoline">>)
    @@ [Error |-> 14, Unavailable |-> 15]

tN2kWindReference ==
  Enum(<<"True_North", "Magnetic", "Apparent", "True_boat", "True_water">>)
    @@ [Error |-> 6, Unavailable |-> 7]

tN2kSpeedWaterReferenceType ==
  Enum(<<"Paddle_wheel", "Pitot_tube", "Doppler_log", "Ultra_Sound",
         "Electro_magnetic">>)
    @@ [Error |-> 254, Unavailable |-> 255]

tN2kRudderDirectionOrder ==
  Enum(<<"NoDirectionOrder", "MoveToStarboard", "MoveToPort">>)
    @@ [Unavailable |-> 7]

tN2kDCType ==
  Enum(<<"Battery", "Alternator", "Converter", "SolarCell", "WindGenerator">>)

tN2kBatType == Enum(<<"Flooded", "Gel", "AGM">>)

tN2kBatEqSupport == Enum(<<"No", "Yes", "Error", "Unavailable">>)

tN2kBatChem == Enum(<<"LeadAcid", "LiIon", "NiCad", "ZnO", "NiMh">>)

tN2kBatNomVolt == Enum(<<"6v", "12v", "24v", "32v", "62v", "42v", "48v">>)

tN2kTransmissionGear == Enum(<<"Forward", "Neutral", "Reverse", "Unknown">>)

tN2kAISRepeat == Enum(<<"Initial", "First", "Second", "Final">>)

tN2kAISVersion == Enum(<<"ITU_R_M_1371_1", "ITU_R_M_1371_3">>)

tN2kAISNavStatus ==
  Enum(<<"Under_Way_Motoring", "At_Anchor", "Not_Under_Command",
         "Restricted_Manoeuverability", "Constrained_By_Draught", "Moored",
         "Aground", "Fishing", "Under_Way_Sailing",
         "Hazardous_Material_High_Speed",
         "Hazardous_Material_Wing_In_Ground">>)
    @@ [AIS_SART |-> 14]

tN2kAISDTE == Enum(<<"Ready", "NotReady">>)

tN2kAISUnit == Enum(<<"ClassB_SOTDMA", "ClassB_CS">>)

tN2kAISMode == Enum(<<"Autonomous", "Assigned">>)

tN2kAISTransceiverInformation ==
  Enum(<<"A_VDL_reception", "B_VDL_reception", "A_VDL_transmission",
         "B_VDL_transmission", "own_information_not_broadcast">>)

tN2kMagneticVariation ==
  Enum(<<"Manual", "Chart", "Table", "Calc", "WMM2000", "WMM2005", "WMM2010",
         "WMM2015", "WMM2020">>)

tN2kOnOff == Enum(<<"Off", "On", "Error", "Unavailable">>)

tN2kChargeState ==
  Enum(<<"Not_Charging", "Bulk", "Absorption", "Overcharge", "Equalise",
         "Float", "No_Float", "Constant_VI", "Disabled", "Fault">>)
    @@ [Error |-> 14, Unavailable |-> 15]

tN2kChargerMode ==
  Enum(<<"Standalone", "Primary", "Secondary", "Echo">>)
    @@ [Unavailable |-> 15]

tN2kSteeringMode ==
  Enum(<<"MainSteering", "NonFollowUpDevice", "FollowUpDevice",
         "HeadingControlStandalone", "HeadingControl", "TrackControl">>)
    @@ [Unavailable |-> 7]

tN2kTurnMode ==
  Enum(<<"RudderLimitControlled", "TurnRateControlled", "RadiusControlled">>)
    @@ [Unavailable |-> 7]

tN2kMOBStatus ==
  Enum(<<"MOBEmitterActivated", "ManualOnBoardMOBButtonActivation",
         "TestMode", "MOBNotActive">>)

tN2kMOBPositionSource ==
  Enum(<<"PositionEstimatedByVessel", "PositionReportedByMOBEmitter">>)

tN2kMOBEmitterBatteryStatus == Enum(<<"Good", "Low">>)

tN2kConvMode ==
  Enum(<<"Off", "LP_Mode", "Fault", "Bulk", "Absorption", "Float", "Storage",
         "Equalise", "Passthru", "Inverting", "Assisting", "PSU_Mode">>)
    @@ [Hub1 |-> 252, NotAvailable |-> 255]

tN2kRippleState == Enum(<<"OK", "Warning", "High", "NotAvailable">>)

tN2kDCVolgateState ==
  Enum(<<"OK", "Warning">>)
    @@ [Low |-> 3]

tN2kOverloadState == Enum(<<"OK", "Warning", "Overload", "NotAvailable">>)

tN2kTemperatureState ==
  Enum(<<"OK", "Warning">>)
    @@ [High |-> 3]

tN2kChargingAlgorithm ==
  Enum(<<"Trickle", "CVCC", "2Stage", "3State">>)
    @@ [Error |-> 14, NotAvailable |-> 15]

tBattTempNoSensor ==
  Enum(<<"cold", "warm", "hot">>)
    @@ [Error |-> 14, NotAvailable |-> 15]

tN2kDD002 == Enum(<<"No", "Yes", "Error", "Unavailable">>)

tN2kDD025 ==
  Enum(<<"Autonomous", "Differential", "Estimated", "Simulator", "Manual">>)
    @@ [Error |-> 14, Unavailable |-> 15]

tN2kDD072 ==
  Enum(<<"RangeResidualsWereUsedToCalculateData",
         "RangeResidualsWereCalculatedAfterPosition", "Error",
         "Unavailable">>)

tN2kDD124 ==
  Enum(<<"NotTracked", "TrackedButNotUsedInSolution",
         "UsedInSolutionWithoutDifferentialCorrections",
         "DifferentialCorrectionsAvailable",
         "TrackedWithDifferentialCorrections",
         "UsedWithDifferentialCorrections">>)
    @@ [Error |-> 14, Unavailable |-> 15]

tN2kDD206 ==
  Bits(<<"CheckEngine", "OverTemperature", "LowOilPressure", "LowOilLevel",
         "LowFuelPressure", "LowSystemVoltage", "LowCoolantLevel",
         "WaterFlow", "WaterInFuel", "ChargeIndicator", "PreheatIndicator",
         "HighBoostPressure", "RevLimitExceeded", "EGRSystem",
         "ThrottlePositionSensor", "EngineEmergencyStopMode">>)

tN2kDD223 ==
  Bits(<<"WarningLevel1", "WarningLevel2", "LowOiPowerReduction",
         "MaintenanceNeeded", "EngineCommError", "SubOrSecondaryThrottle",
         "NeutralStartProtect", "EngineShuttingDown", "Manufacturer1",
         "Manufacturer2", "Manufacturer3", "Manufacturer4", "Manufacturer5",
         "Manufacturer6", "Manufacturer7", "Manufacturer8">>)

tN2kDD305 ==
  Enum(<<"not_specified", "reference_point", "RACON", "fixed_structure",
         "emergency_wreck_marking_buoy", "light_without_sectors",
         "light_with_sectors", "leading_light_front", "leading_light_rear",
         "beacon_cardinal_N", "beacon_cardinal_E", "beacon_cardinal_S",
         "beacon_cardinal_W", "beacon_port_hand", "beacon_starboard_hand",
         "beacon_preferred_ch_port_hand",
         "beacon_preferred_ch_starboard_hand", "beacon_isolated_danger",
         "beacon_safe_water", "beacon_special_mark", "cardinal_mark_N",
         "cardinal_mark_E", "cardinal_mark_S", "cardinal_mark_W",
         "port_hand_mark", "starboard_hand_mark",
         "preferred_channel_port_hand", "preferred_channel_starboard_hand",
         "isolated_danger", "safe_water", "special_mark",
         "light_vessel_lanby_rigs">>)

tN2kDD374 ==
  Enum(<<"UserDefined", "MinimumDefined", "FactoryDefault",
         "MaximumSupported">>)
    @@ [OutOfRange |-> 14, DataNotAvailable |-> 15]

tN2kDD477 ==
  Bits(<<"ControllerUnderVoltageCutout", "ControllerOverCurrentCutout",
         "ControllerOverTemperatureCutout">>)

tN2kDD478 == Bits(<<"AnotherDeviceControllingWindlass">>)

tN2kDD480 ==
  Enum(<<"WindlassStopped", "DeploymentOccurring", "RetrievalOccurring",
         "Unavailable">>)

tN2kDD481 ==
  Enum(<<"ChainPresentlyDetected", "RopePresentlyDetected", "Error",
         "Unavailable">>)

tN2kDD482 == Enum(<<"NotDocked", "FullyDocked", "Error", "DataNotAvailable">>)

tN2kDD483 ==
  Bits(<<"SystemError", "SensorError", "NoWindlassMotionDetected",
         "RetrievalDockingDistanceReached", "EndOfRodeReached">>)

tN2kDD484 == Enum(<<"Off", "Down", "Up", "Reserved">>)

tN2kDD488 ==
  Enum(<<"SingleSpeed", "DualSpeed", "ProportionalSpeed",
         "DataNotAvailable">>)

=============================================================================
