------------------------------ MODULE Converter ------------------------------
(***************************************************************************)
(* The handlers of nmea0183converter.cpp: what the converter thread does   *)
(* with one sentence after the other.  They keep a tBoatData, into which   *)
(* the Parse functions write directly, and send NMEA 2000 messages made of *)
(* the sentence and of what earlier sentences left there.                  *)
(*                                                                         *)
(* Talkers say sentences, each with any one field, all or none of them     *)
(* empty and perhaps without its last field.  Angles of the wind are ahead *)
(* or astern, so that vectors are numbers with a sign.  The local time     *)
(* zone of mktime is less than twelve hours from UTC.                      *)
(***************************************************************************)
EXTENDS NMEA0183Messages

CONSTANTS MaxSentences,  \* bound on the sentences that are said
          MaxOdd,        \* bound on those with an empty field, a minus or an end
                         \* that is missing
          Codes,         \* the sentences of this instance
          Start,         \* the time of the clock of the satellites
          Steps          \* by how much it may go on between two sentences

ASSUME ConverterAssumption ==
  /\ MaxSentences \in Nat
  /\ MaxOdd \in Nat
  /\ Start \in Nat
  /\ Steps \subseteq Nat

VARIABLES boat,          \* *pBD
          out,           \* the messages the last handler has sent, in order
          said,          \* the last sentence: what its talker meant and said
          told,          \* what the talkers have told of time, date and sky
          now,           \* the clock, in units of time since 1970
          count,         \* the number of sentences so far
          odd            \* the number of odd ones among them

vars == <<boat, out, said, told, now, count, odd>>

-----------------------------------------------------------------------------
(* The sentences of the talkers *)

Satellites == 1..4

Names(code) ==
  CASE code = "RMC" -> {"GPSTime", "Latitude", "Longitude", "SOG", "TrueCOG", "DaysSince1970", "Variation"}
    [] code = "GGA" -> {"GPSTime", "Latitude", "Longitude", "GPSQualityIndicator", "SatelliteCount",
                        "HDOP", "Altitude", "GeoidalSeparation", "DGPSAge", "DGPSReferenceStationID"}
    [] code = "GLL" -> {"GPSTime", "Latitude", "Longitude"}
    [] code = "VTG" -> {"TrueCOG", "MagneticCOG", "SOG"}
    [] code = "VHW" -> {"TrueHeading", "MagneticHeading", "BoatSpeed"}
    [] code \in {"HDT", "HDM"} -> {"Heading"}
    [] code = "HDG" -> {"Heading", "Deviation", "Variation"}
    [] code = "SHR" -> {"GPSTime", "Heading", "Roll", "Pitch", "Heave", "RollAccuracy",
                        "PitchAccuracy", "HeadingAccuracy", "GPSQualityIndicator", "INSStatusFlag"}
    [] code = "ROT" -> {"RateOfTurn"}
    [] code = "DPT" -> {"DepthBelowTransducer", "Offset", "Range"}
    [] code = "DBx" -> {"DepthBelowTransducer", "Offset"}
    [] code = "MWV" -> {"WindAngle", "Reference", "WindSpeed"}
    [] code = "GSV" -> {"totalMSG", "thisMSG", "SatelliteCount"}
    [] code = "ZDA" -> {"GPSTime", "GPSDay", "GPSMonth", "GPSYear", "LZD", "LZMD"}
    [] code = "RSA" -> {"RudderAngle"}
    [] code \in {"VDM", "VDO"} -> {"count", "number", "id", "channel", "bitstream", "fillbits"}
    [] code = "RMB" -> {"xte", "originID", "destID", "Latitude", "Longitude", "dtw", "btw", "vmg"}
    [] code = "WPL" -> {"Latitude", "Longitude", "name"}
    [] code = "BOD" -> {"trueBearing", "magBearing", "destID", "originID"}
    [] code = "APB" -> {"xte", "botw", "destID", "btw", "headingToSteer"}
    [] code = "RTE" -> {"nrOfsentences", "currSentence", "routeID"}

UnitOf(name) ==
  CASE name \in {"GPSTime", "DGPSAge"} -> "s"
    [] name = "DaysSince1970" -> "day"
    [] name \in {"Latitude", "Longitude", "WindAngle"} -> "deg"
    [] name \in {"TrueCOG", "MagneticCOG", "TrueHeading", "MagneticHeading", "Heading", "Variation",
                 "Deviation", "RateOfTurn", "RudderAngle", "btw", "trueBearing", "magBearing",
                 "botw", "headingToSteer", "Roll", "Pitch", "RollAccuracy", "PitchAccuracy",
                 "HeadingAccuracy"} -> "rad"
    [] name \in {"SOG", "BoatSpeed", "WindSpeed", "vmg"} -> "m/s"
    [] name \in {"Altitude", "GeoidalSeparation", "DepthBelowTransducer", "Offset", "Range",
                 "xte", "dtw", "Heave"} -> "m"
    [] name = "HDOP" -> "ratio"
    [] name \in {"originID", "destID", "name", "bitstream"} -> "text"
    [] OTHER -> "int"

Signed == {"Latitude", "Longitude", "Variation", "Deviation", "RateOfTurn", "RudderAngle", "Offset",
           "xte", "Altitude", "SOG"}

\* Numbers of the same unit in one sentence are not the same.
Offset(name) ==
  CASE name \in {"Longitude", "MagneticCOG", "MagneticHeading", "Range", "thisMSG", "destID",
                 "magBearing", "btw", "dtw", "currSentence", "DGPSAge"} -> 1
    [] name \in {"Deviation", "headingToSteer", "SatelliteCount", "routeID"} -> 2
    [] OTHER -> 0

\* What a talker means by the k-th sentence; sign is that of its signed
\* numbers, and the choices that are not numbers go with it.
Meant(name, k, sign, time) ==
  CASE name = "GPSTime" -> V(time % Day, "s")
    [] name \in {"DaysSince1970"} -> V(time \div Day, "day")
    [] name = "GPSDay" -> V(time \div Day, "int")
    [] name = "WindAngle" -> V(IF k % 2 = 0 THEN 0 ELSE Turn \div 2, "deg")
    [] name = "Reference" -> Letter(IF sign > 0 THEN "R" ELSE "T")
    [] name = "channel" -> Letter(IF sign > 0 THEN "B" ELSE "1")
    [] name = "GPSQualityIndicator" -> V(k, "int")
    [] OTHER -> V((k + Offset(name)) * (IF name \in Signed THEN sign ELSE 1), UnitOf(name))

\* Fields no talker of the library leaves empty: there is no value for it.
NeverEmpty == {"Reference", "channel", "bitstream", "count", "number", "originID", "destID", "name"}

Satellite4(k, i, none) ==
  [f \in {"SVID", "Elevation", "Azimuth", "SNR"} |-> IF none THEN NA ELSE V(k + i, "int")]

Meaning(code, k, sign, time, gaps) ==
  LET a == [f \in Names(code) |->
              IF f \in gaps THEN NA ELSE Meant(f, k, sign, time)]
  IN IF code = "GSV"
     THEN [totalMSG |-> a.totalMSG, thisMSG |-> a.thisMSG, SatelliteCount |-> a.SatelliteCount,
           sats |-> [i \in Satellites |-> Satellite4(k, i, i = 4 /\ sign < 0)]]
     ELSE a

\* Fields other devices write (there is no Set function): a number with a
\* letter for its side, and names.
Plain(v) == IF v = NA THEN <<Empty>> ELSE <<v>>
Sided(v, f) == IF v = NA THEN <<Empty, Empty>>
               ELSE <<Times(IF v.n < 0 THEN Negative(v) ELSE v, f),
                      Letter(IF v.n < 0 THEN "R" ELSE "L")>>
mTonm == Factor("m", "nm")

OtherDevice(code, a) ==
  Sentence(code,
    CASE code = "RMB" -> AddStrField("A") \o Sided(a.xte, mTonm) \o <<a.originID, a.destID>>
           \o AddLatitudeField(a.Latitude) \o AddLongitudeField(a.Longitude)
           \o AddDoubleField(a.dtw, mTonm) \o AddDoubleField(a.btw, radToDeg)
           \o AddDoubleField(a.vmg, msTokn) \o AddStrField("V")
      [] code = "WPL" -> AddLatitudeField(a.Latitude) \o AddLongitudeField(a.Longitude) \o <<a.name>>
      [] code = "BOD" -> AddDoubleUnit(a.trueBearing, radToDeg, "T")
           \o AddDoubleUnit(a.magBearing, radToDeg, "M") \o <<a.destID, a.originID>>
      [] code = "APB" -> AddStrField("A") \o AddStrField("A") \o Sided(a.xte, mTonm)
           \o AddStrField("N") \o AddStrField("V") \o AddStrField("V")
           \o AddDoubleUnit(a.botw, radToDeg, "M") \o <<a.destID>>
           \o AddDoubleUnit(a.btw, radToDeg, "M") \o AddDoubleUnit(a.headingToSteer, radToDeg, "M")
      [] code = "RTE" -> Plain(a.nrOfsentences) \o Plain(a.currSentence) \o AddStrField("c")
           \o Plain(a.routeID) \o <<V(1, "text"), V(2, "text")>>
      [] code = "RSA" -> AddDoubleUnit(a.RudderAngle, radToDeg, "A") \o AddEmptyField \o AddStrField("V"))

\* The date of a receiver that has none is three empty fields.
Date(a) == [f \in DOMAIN a |-> IF a[f] = NA /\ f # "GPSTime" THEN Empty ELSE a[f]]

\* The wind in another unit, the speed in knots only.
Wind(a, f, unit) ==
  Sentence("MWV", AddDoubleField(a.WindAngle, Same("deg")) \o <<a.Reference>>
                    \o AddDoubleField(a.WindSpeed, f) \o AddStrField(unit) \o AddStrField("A"))
KnotsOnly(msg) == [msg EXCEPT !.fields[7] = Empty]

SaidAs(code, a) ==
  CASE code = "RMC" -> {NMEA0183SetRMC(a)} [] code = "GGA" -> {NMEA0183SetGGA(a)}
    [] code = "GLL" -> {NMEA0183SetGLL(a)}
    [] code = "VTG" -> {NMEA0183SetVTG(a), KnotsOnly(NMEA0183SetVTG(a))}
    [] code = "VHW" -> {NMEA0183SetVHW(a), KnotsOnly(NMEA0183SetVHW(a))}
    [] code = "HDT" -> {NMEA0183SetHDT(a)} [] code = "HDM" -> {NMEA0183SetHDM(a)}
    [] code = "HDG" -> {NMEA0183SetHDG(a)} [] code = "ROT" -> {NMEA0183SetROT(a)}
    [] code = "SHR" -> {NMEA0183SetSHR(a)}
    [] code = "DPT" -> {NMEA0183SetDPT(a)} [] code = "DBx" -> {NMEA0183SetDBx(a)}
    [] code = "MWV" -> {NMEA0183SetMWV(a), Wind(a, msTokn, "N"), Wind(a, msTokmh, "K")}
    [] code = "GSV" -> {NMEA0183SetGSV(a)} [] code = "ZDA" -> {NMEA0183SetZDA(Date(a))}
    [] code \in {"VDM", "VDO"} -> {NMEA0183SetVDM(code, a)}
    [] OTHER -> {OtherDevice(code, a)}

WithoutLast(msg) == [msg EXCEPT !.fields = SubSeq(@, 1, Len(@) - 1)]

Gaps(code) ==
  LET names == Names(code) \ NeverEmpty IN {{}, names} \cup {{f} : f \in names}

-----------------------------------------------------------------------------
(* The messages of the converter: the arguments of their Set functions that *)
(* are not constants of the calls.                                          *)

Msg(pgn, args) == [pgn |-> pgn, args |-> args]

GNSMethofNMEA0183ToN2k(v) ==
  CASE v.n = 1 -> "GNSSfix" [] v.n = 2 -> "DGNSS" [] OTHER -> "noGNSS"

\* SetN2kGNSS as HandleRMC and HandleGGA call it.
GNSS(b, altitude, separation) ==
  Msg(129029, [SystemDate |-> b.DaysSince1970, PositionTime |-> b.GPSTime,
               Latitude |-> b.Latitude, Longitude |-> b.Longitude, Altitude |-> altitude,
               Method |-> Letter(GNSMethofNMEA0183ToN2k(b.GPSQualityIndicator)),
               nSatellites |-> b.SatelliteCount, HDOP |-> b.HDOP,
               GeoidalSeparation |-> separation,
               ReferenceSationID |-> b.DGPSReferenceStationID, AgeOfCorrection |-> b.DGPSAge])

\* The same with the defaults of HandleGLL.
GNSSOfGLL(b) ==
  Msg(129029, [SystemDate |-> b.DaysSince1970, PositionTime |-> b.GPSTime,
               Latitude |-> b.Latitude, Longitude |-> b.Longitude, Altitude |-> V(0, "m"),
               Method |-> Letter("DGNSS"), nSatellites |-> V(0, "int"), HDOP |-> V(0, "ratio"),
               GeoidalSeparation |-> V(0, "m"),
               ReferenceSationID |-> V(0, "int"), AgeOfCorrection |-> V(0, "s")])

HeadingMsg(heading, deviation, variation, ref) ==
  Msg(127250, [Heading |-> heading, Deviation |-> deviation, Variation |-> variation, ref |-> ref])
BoatSpeed(water, ground) == Msg(128259, [WaterReferenced |-> water, GroundReferenced |-> ground])
COGSOG(COG, SOG) == Msg(129026, [COG |-> COG, SOG |-> SOG])
WindSpeed(speed, angle, ref) ==
  Msg(130306, [WindSpeed |-> speed, WindAngle |-> angle, ref |-> Letter(ref)])
Depth(r) == Msg(128267, r)
SystemTime(date, time) == Msg(126992, [SystemDate |-> date, SystemTime |-> time])
Rudder(angle) == Msg(127245, [RudderPosition |-> angle])

\* Arithmetic on doubles: -1e9 is a number like any other.
Plus(v, w)  == IF v.u = w.u /\ v # NA /\ v # Junk THEN V(v.n + w.n, v.u) ELSE Junk
Minus(v, w) == IF w = NA THEN Junk ELSE Plus(v, Negative(w))

\* The two loops of HandleHDT, into one turn.
IntoTurn(v) == IF v.u = "rad" THEN V(v.n % Turn, "rad") ELSE v

-----------------------------------------------------------------------------
(* The handlers *)

\* memset to 0 in Init.
NoBoatData ==
  [DaysSince1970 |-> V(0, "day"), GPSTime |-> V(0, "s"),
   Latitude |-> V(0, "deg"), Longitude |-> V(0, "deg"), Altitude |-> V(0, "m"),
   HDOP |-> V(0, "ratio"), GeoidalSeparation |-> V(0, "m"), DGPSAge |-> V(0, "s"),
   TrueHeading |-> V(0, "rad"), SOG |-> V(0, "m/s"), COG |-> V(0, "rad"), Variation |-> V(0, "rad"),
   TWD |-> V(0, "rad"), TWA |-> V(0, "rad"), TWS |-> V(0, "m/s"),
   AWA |-> V(0, "rad"), AWS |-> V(0, "m/s"), RudderAngle |-> V(0, "rad"),
   GPSQualityIndicator |-> V(0, "int"), SatelliteCount |-> V(0, "int"),
   DGPSReferenceStationID |-> V(0, "int"), MOBActivated |-> FALSE]

\* A sentence the Parse function refuses changes nothing.
Ignore == boat' = boat /\ out' = <<>>

HandleRMC(msg) ==
  LET r == NMEA0183ParseRMC_nc(msg)
  IN IF r = Refused THEN Ignore
     ELSE /\ boat' = [boat EXCEPT !.GPSTime = r.GPSTime, !.Latitude = r.Latitude,
                        !.Longitude = r.Longitude, !.COG = r.TrueCOG, !.SOG = r.SOG,
                        !.DaysSince1970 = r.DaysSince1970, !.Variation = r.Variation]
          /\ out' = <<GNSS(boat', V(0, "m"), V(0, "m"))>>

HandleGSV(msg) ==
  LET r == NMEA0183ParseGSV_nc(msg)
  IN IF r = Refused THEN Ignore
     ELSE boat' = [boat EXCEPT !.SatelliteCount = r.SatelliteCount] /\ out' = <<>>

\* Its time and its number of satellites go to local variables.
HandleGGA(msg) ==
  LET r == NMEA0183ParseGGA_nc(msg)
  IN IF r = Refused THEN Ignore
     ELSE /\ boat' = [boat EXCEPT !.Latitude = r.Latitude, !.Longitude = r.Longitude,
                        !.GPSQualityIndicator = r.GPSQualityIndicator, !.HDOP = r.HDOP,
                        !.Altitude = r.Altitude, !.GeoidalSeparation = r.GeoidalSeparation,
                        !.DGPSAge = r.DGPSAge, !.DGPSReferenceStationID = r.DGPSReferenceStationID]
          /\ out' = <<GNSS(boat', boat'.Altitude, boat'.GeoidalSeparation)>>

\* Seeded error: the variation is added.
HandleHDT_bug_added(msg) ==
  LET r == NMEA0183ParseHDT_nc(msg)
  IN IF r = Refused THEN Ignore
     ELSE /\ boat' = [boat EXCEPT !.TrueHeading = r.Heading]
          /\ out' = <<HeadingMsg(IntoTurn(Plus(r.Heading, boat.Variation)), V(0, "rad"),
                                 boat.Variation, Letter("magnetic")),
                      HeadingMsg(r.Heading, NA, NA, Letter("true"))>>

HandleHDT(msg) ==
  LET r == NMEA0183ParseHDT_nc(msg)
  IN IF r = Refused THEN Ignore
     ELSE /\ boat' = [boat EXCEPT !.TrueHeading = r.Heading]
          /\ out' = <<HeadingMsg(IntoTurn(Minus(r.Heading, boat.Variation)), V(0, "rad"),
                                 boat.Variation, Letter("magnetic")),
                      HeadingMsg(r.Heading, NA, NA, Letter("true"))>>

\* The magnetic course is set to 0 before the variation is computed.
HandleVTG(msg) ==
  LET r == NMEA0183ParseVTG_nc(msg)
      MagneticCOG == V(0, "rad")
  IN IF r = Refused THEN Ignore
     ELSE /\ boat' = [boat EXCEPT !.COG = r.TrueCOG, !.SOG = r.SOG,
                        !.Variation = IF r.TrueCOG = NA THEN NA ELSE Minus(r.TrueCOG, MagneticCOG)]
          /\ out' = <<COGSOG(r.TrueCOG, r.SOG), BoatSpeed(r.SOG, NA)>>

\* The difference of two vectors that are ahead or astern, and the angle of
\* a wind measured from a boat that goes ahead.
Along(speed, angle) == IF angle.n = 0 THEN speed ELSE Negative(speed)
Size(v) == IF v.n < 0 THEN Negative(v) ELSE v
Angle(v) == IF v.u = "m/s" THEN V(IF v.n < 0 THEN Turn \div 2 ELSE 0, "rad") ELSE Junk

\* The angle is multiplied whether it is available or not.
HandleMWV(msg) ==
  LET r   == NMEA0183ParseMWV_nc(msg)
      AWA == Times(r.WindAngle, Factor("deg", "rad"))
      apparentWind == IF AWA = Junk THEN Junk ELSE Minus(Along(r.WindSpeed, AWA), boat.SOG)
      sum == Plus(boat.TrueHeading, AWA)
      TWD == IF sum.n >= Turn THEN V(sum.n - Turn, sum.u) ELSE sum
  IN IF r = Refused THEN Ignore
     ELSE IF r.Reference.u = "T"
     THEN /\ boat' = [boat EXCEPT !.AWS = r.WindSpeed, !.AWA = AWA]
          /\ out' = <<WindSpeed(r.WindSpeed, AWA, "True_North")>>
     ELSE /\ boat' = [boat EXCEPT !.AWS = r.WindSpeed, !.AWA = AWA, !.TWD = TWD,
                        !.TWS = Size(apparentWind), !.TWA = Angle(apparentWind)]
          /\ out' = <<WindSpeed(r.WindSpeed, AWA, "Apparent"),
                      WindSpeed(boat'.TWS, boat'.TWA, "True_boat")>>

HandleVHW(msg) ==
  LET r == NMEA0183ParseVHW_nc(msg)
  IN IF r = Refused THEN Ignore
     ELSE /\ UNCHANGED boat
          /\ out' = <<BoatSpeed(r.BoatSpeed, V(0, "m/s")),
                      HeadingMsg(r.MagneticHeading, V(0, "rad"), V(0, "rad"), Letter("magnetic"))>>

HandleDPT(msg) ==
  LET r == NMEA0183ParseDPT_nc(msg)
  IN IF r = Refused THEN Ignore ELSE UNCHANGED boat /\ out' = <<Depth(r)>>

\* Seeded error: the time of the sentence is not kept.
HandleGLL_bug_no_time(msg) ==
  LET r == NMEA0183ParseGLL_nc(msg)
  IN IF r = Refused THEN Ignore
     ELSE /\ boat' = [boat EXCEPT !.Latitude = r.Latitude, !.Longitude = r.Longitude]
          /\ out' = IF r.status.u = "A" THEN <<GNSSOfGLL(boat')>> ELSE <<>>

\* A sentence without a valid status is kept but not sent.
HandleGLL(msg) ==
  LET r == NMEA0183ParseGLL_nc(msg)
  IN IF r = Refused THEN Ignore
     ELSE /\ boat' = [boat EXCEPT !.GPSTime = r.GPSTime, !.Latitude = r.Latitude,
                        !.Longitude = r.Longitude]
          /\ out' = IF r.status.u = "A" THEN <<GNSSOfGLL(boat')>> ELSE <<>>

\* mktime of noon, and the days of it: without a day, a month or a year it
\* is another date or none.
Days(r) == IF 0 \in {r.GPSDay.n, r.GPSMonth.n, r.GPSYear.n} THEN Junk ELSE V(r.GPSDay.n, "day")

HandleZDA(msg) ==
  LET r == NMEA0183ParseZDA(msg)
  IN IF r = Refused THEN Ignore
     ELSE /\ boat' = [boat EXCEPT !.DaysSince1970 = Days(r), !.MOBActivated = FALSE]
          /\ out' = <<SystemTime(boat'.DaysSince1970, r.GPSTime)>>

\* The one handler that reads the fields itself.
HandleRSA(msg) ==
  LET angle == Times(Atof(Field(msg, 0), "deg"), Factor("deg", "rad"))
  IN IF FieldCount(msg) > 2
     THEN boat' = [boat EXCEPT !.RudderAngle = angle] /\ out' = <<Rudder(angle)>>
     ELSE Ignore

\* NMEA0183Handlers
Handled == {"GGA", "HDT", "VTG", "RMC", "GSV", "MWV", "VHW", "DPT", "GLL", "ZDA", "RSA"}

HandleNMEA0183Msg(msg) ==
  \/ msg.code = "GGA" /\ HandleGGA(msg)
  \/ msg.code = "HDT" /\ HandleHDT(msg)
  \/ msg.code = "VTG" /\ HandleVTG(msg)
  \/ msg.code = "RMC" /\ HandleRMC(msg)
  \/ msg.code = "GSV" /\ HandleGSV(msg)
  \/ msg.code = "MWV" /\ HandleMWV(msg)
  \/ msg.code = "VHW" /\ HandleVHW(msg)
  \/ msg.code = "DPT" /\ HandleDPT(msg)
  \/ msg.code = "GLL" /\ HandleGLL(msg)
  \/ msg.code = "ZDA" /\ HandleZDA(msg)
  \/ msg.code = "RSA" /\ HandleRSA(msg)
  \/ msg.code \notin Handled /\ Ignore

-----------------------------------------------------------------------------
(* Behaviour *)

NothingSaid == [code |-> "", args |-> <<>>, msg |-> NoSentence, cut |-> FALSE]

Init ==
  /\ boat = NoBoatData /\ out = <<>> /\ said = NothingSaid
  /\ told = [time |-> NA, timeAt |-> 0, date |-> NA, dateAt |-> 0, satellites |-> V(0, "int"),
             speed |-> V(0, "m/s"), variation |-> V(0, "rad")]
  /\ now = Start /\ count = 0 /\ odd = 0

\* What a complete sentence tells: the properties compare it with what the
\* converter makes of it.  A date that lacks a part is none.
Told(code, a) ==
  CASE code = "RMC" ->
         [told EXCEPT !.time = a.GPSTime, !.timeAt = now', !.date = a.DaysSince1970, !.dateAt = now',
                      !.speed = V(0, "m/s"), !.variation = a.Variation]
    [] code = "GLL" -> [told EXCEPT !.time = a.GPSTime, !.timeAt = now']
    [] code = "ZDA" -> [told EXCEPT !.date = IF NA \in {a.GPSDay, a.GPSMonth, a.GPSYear} THEN Junk
                                             ELSE V(a.GPSDay.n, "day"), !.dateAt = now']
    [] code = "GSV" -> [told EXCEPT !.satellites = Atoi(AddUInt32Field(a.SatelliteCount)[1])]
    [] code = "VTG" -> [told EXCEPT !.speed = a.SOG, !.variation = a.TrueCOG]
    [] OTHER -> told

\* What may become of a line on its way: another first character, an end
\* that is lost, another field, more fields than there is room for.
Damaged(line) ==
  {[line EXCEPT !.prefix = "?"], [line EXCEPT !.star = FALSE],
   [line EXCEPT !.msg.fields[1] = Junk],
   Line([line.msg EXCEPT !.fields = @ \o [i \in 1..MaxFields |-> Empty]])}

\* HandleMessage makes a tNMEA0183Msg of the line and the converter thread
\* handles it; a damaged line is not even queued.
Hear(code, a, line, cut) ==
  LET heard == SetMessage(line)
  IN /\ said' = [code |-> code, args |-> a, msg |-> heard, cut |-> cut]
     /\ told' = IF heard.code = "" \/ (cut /\ code # "GSV") THEN told ELSE Told(code, a)
     /\ HandleNMEA0183Msg(heard)

\* A talker says a sentence, a whole one, one without its last field or one
\* that is damaged on its way.
Say(code, a) ==
  \E full \in SaidAs(code, a) :
    \/ Hear(code, a, Line(full), FALSE) /\ UNCHANGED odd
    \/ /\ odd < MaxOdd /\ odd' = odd + 1
       /\ \E line \in {Line(WithoutLast(full))} \cup Damaged(Line(full)) : Hear(code, a, line, TRUE)

\* The same with numbers that are negative or fields that are empty.
SayOdd(code, a) ==
  /\ odd < MaxOdd /\ odd' = odd + 1
  /\ \E full \in SaidAs(code, a) : Hear(code, a, Line(full), FALSE)

\* A sentence without a handler leaves no trace: it is said last only.  The
\* clock is seen in sentences with a time only, and goes on before these.
Next ==
  /\ count < MaxSentences
  /\ count' = count + 1
  /\ \E code \in Codes : \E step \in IF "GPSTime" \in Names(code) THEN Steps ELSE {0} :
       /\ code \in Handled \/ count' = MaxSentences
       /\ now' = now + step
       /\ \/ Say(code, Meaning(code, count', 1, now', {}))
          \/ \E sign \in {1, -1}, gaps \in Gaps(code) :
               /\ sign = 1 => gaps # {}
               /\ SayOdd(code, Meaning(code, count', sign, now', gaps))

Spec == Init /\ [][Next]_vars

-----------------------------------------------------------------------------
(* What a reader should make of a sentence *)

HasReader(code) == code \notin {"", "RSA", "HDG", "DBx", "SHR", "VDO"}

Read(code, msg) ==
  CASE code = "RMC" -> NMEA0183ParseRMC(msg) [] code = "GGA" -> NMEA0183ParseGGA(msg)
    [] code = "GLL" -> NMEA0183ParseGLL(msg) [] code = "VTG" -> NMEA0183ParseVTG(msg)
    [] code = "VHW" -> NMEA0183ParseVHW(msg) [] code = "HDT" -> NMEA0183ParseHDT(msg)
    [] code = "HDM" -> NMEA0183ParseHDM(msg) [] code = "ROT" -> NMEA0183ParseROT(msg)
    [] code = "DPT" -> NMEA0183ParseDPT(msg) [] code = "MWV" -> NMEA0183ParseMWV(msg)
    [] code = "GSV" -> NMEA0183ParseGSV(msg) [] code = "ZDA" -> NMEA0183ParseZDA(msg)
    [] code = "VDM" -> NMEA0183ParseVDM(msg)
    [] code = "RMB" -> NMEA0183ParseRMB(msg) [] code = "RTE" -> NMEA0183ParseRTE(msg)
    [] code = "WPL" -> NMEA0183ParseWPL(msg) [] code = "BOD" -> NMEA0183ParseBOD(msg)
    [] code = "APB" -> NMEA0183ParseAPB(msg)

\* Where an empty field is read as zero, and where as a number (-1e9 times
\* a factor).
ZeroIfEmpty(code, f) ==
  \/ UnitOf(f) = "int"
  \/ code = "RMC" /\ f \in {"SOG", "TrueCOG"}
  \/ code \in {"RMB", "BOD"} /\ f \notin {"Latitude", "Longitude"}
JunkIfEmpty(code, f, msg) ==
  \/ code = "APB"
  \/ code = "MWV" /\ f = "WindSpeed" /\ Field(msg, 3).u # "M"

Expected(code, f, a, msg) ==
  LET v == IF f \in {"TrueCOG", "MagneticCOG"} THEN Course(a[f], a.SOG) ELSE a[f]
  IN CASE f = "channel" -> Letter(IF v.u = "1" THEN "A" ELSE v.u)
       [] f = "id" /\ a.number.n = 1 /\ a.count.n = 1 -> V(0, "int")
       [] v = NA /\ ZeroIfEmpty(code, f) -> V(0, UnitOf(f))
       [] v = NA /\ JunkIfEmpty(code, f, msg) -> Junk
       [] OTHER -> v

\* The unit in which an NMEA 2000 message wants its number.
WantedUnit(f) ==
  CASE f = "SystemDate" -> "day"
    [] f \in {"PositionTime", "SystemTime", "AgeOfCorrection"} -> "s"
    [] f \in {"nSatellites", "ReferenceSationID"} -> "int"
    [] f \in {"WaterReferenced", "GroundReferenced"} -> "m/s"
    [] f \in {"COG", "RudderPosition"} -> "rad"
    [] f = "WindAngle" -> "rad"
    [] OTHER -> UnitOf(f)

\* The numbers the converter makes of an empty field: a wind of unknown
\* angle or speed or felt on a boat of unknown speed, a magnetic heading of
\* an unknown heading or variation, a date without all its parts.
KnownJunk(f) ==
  \/ /\ said.code = "MWV" /\ f \in {"WindAngle", "WindSpeed"}
     /\ NA \in {said.args.WindAngle, said.args.WindSpeed, told.speed}
  \/ said.code = "HDT" /\ f = "Heading" /\ NA \in {said.args.Heading, told.variation}
  \/ f = "SystemDate" /\ told.date = Junk

Fixes == {i \in DOMAIN out : out[i].pgn = 129029}

-----------------------------------------------------------------------------
(* Properties *)

\* What a Parse function reads of a sentence is what its talker meant: the
\* fields, the units and the letters for sides of the two functions, which
\* are written apart, agree.  The reader of another code refuses it (but
\* that of ZDA).  No sentence carries a number nobody measured (but SHR,
\* which multiplies angles that are not available).
SentenceReadBack ==
  LET read == Read(said.code, said.msg)
  IN /\ HasReader(said.code) /\ ~said.cut =>
          \A f \in DOMAIN said.args \cap DOMAIN read :
            read[f] = IF f = "sats"
                      THEN [i \in Satellites |->
                              [said.args.sats[i] EXCEPT !.SVID = IF @ = NA THEN V(0, "int") ELSE @]]
                      ELSE Expected(said.code, f, said.args, said.msg)
     /\ \A code \in {c \in Codes : HasReader(c)} \ {said.code, "ZDA"} :
          Read(code, said.msg) = Refused
     /\ \A i \in DOMAIN said.msg.fields : said.msg.fields[i] = Junk => said.code = "SHR"
     /\ Len(said.msg.fields) <= MaxFields

\* A GNSS message has the position of the sentence it is made of, not one
\* that an earlier sentence left in the boat data, and counts the
\* satellites of the last GSV (a message of GLL counts none).
FixFromSentence ==
  \A i \in Fixes :
    LET fix == out[i].args
    IN /\ fix.Latitude = said.args.Latitude /\ fix.Longitude = said.args.Longitude
       /\ said.code # "GLL" => fix.nSatellites = told.satellites

\* The date and the time of a GNSS message come from different sentences
\* (GGA sends the time of an earlier RMC or GLL, GLL the date of an earlier
\* RMC or ZDA).  If these two were said on the same day, the message tells
\* a moment that has been, that of the last sentence with a time; it never
\* tells a time of its own or one in the future.
StampHonest ==
  \A i \in Fixes :
    LET fix == out[i].args
        sameDay == told.timeAt \div Day = told.dateAt \div Day
    IN NA \notin {told.time, told.date} /\ told.date # Junk /\ sameDay =>
         /\ fix.SystemDate.n * Day + fix.PositionTime.n = told.timeAt
         /\ told.timeAt <= now

\* Every number of every message is a measurement in the unit its Set
\* function documents, or "not available"; KnownJunk lists the others.
NumbersMeasured ==
  \A i \in DOMAIN out : \A f \in DOMAIN out[i].args \ {"ref", "Method"} :
    out[i].args[f].u \in {WantedUnit(f), "na"} \/ KnownJunk(f)

\* The two headings HandleHDT sends agree: the magnetic heading lies in one
\* turn and differs from the true one by the variation of the same message.
HeadingPairAgrees ==
  said.code = "HDT" /\ out # <<>> /\ NA \notin {said.args.Heading, told.variation} =>
    LET magnetic == out[1].args
    IN /\ magnetic.Heading.n \in 0..(Turn - 1)
       /\ (magnetic.Heading.n + magnetic.Variation.n - out[2].args.Heading.n) % Turn = 0

\* "Save variation for Magnetic heading" (nmea0183converter.cpp:424): after
\* a VTG the variation is the angle between its two courses.
VariationSaved ==
  said.code = "VTG" /\ ~said.cut /\ NA \notin {said.args.TrueCOG, said.args.MagneticCOG} =>
    (boat.Variation.n - (said.args.TrueCOG.n - said.args.MagneticCOG.n)) % Turn = 0

\* The GNSS messages: position, satellites, date and time.
FixHonest == FixFromSentence /\ StampHonest

\* The numbers of all messages: measured, and agreeing where two tell the same.
NumbersHonest == NumbersMeasured /\ HeadingPairAgrees
=============================================================================
