-------------------------- MODULE NMEA0183Messages --------------------------
(***************************************************************************)
(* The sentences of NMEA0183Messages.cpp and the fields of NMEA0183Msg.cpp *)
(* they are made of.                                                       *)
(*                                                                         *)
(* A VALUE [n, u] is n units of the quantity, told in the unit u: a        *)
(* conversion changes u and leaves the quantity alone, and only if the     *)
(* value was in the unit it starts from.  NA is NMEA0183DoubleNA (-1e9) or *)
(* NMEA0183UInt32NA; Junk is what arithmetic makes of NA, or of a value in *)
(* another unit: a number, but nobody's measurement.  The FIELDS of a      *)
(* sentence are values too: a number in the unit of the wire, a letter,    *)
(* whose u is the character, or nothing.  Digits behind the point that a   *)
(* format drops are below the resolution of n.                             *)
(***************************************************************************)
EXTENDS Integers, Sequences

CONSTANTS Turn,        \* units of a whole circle, 2 pi
          Day          \* units of time of a day

ASSUME TurnAssumption == Turn \in Nat /\ Turn > 1 /\ Turn % 2 = 0
ASSUME DayAssumption == Day \in Nat \ {0}

V(n, u) == [n |-> n, u |-> u]
NA    == V(0, "na")
Junk  == V(0, "junk")
Empty == V(0, "")
Letter(c) == V(0, c)

\* val*multiplier in C, for a multiplier that turns one unit into another.
Factor(from, to) == [from |-> from, to |-> to]
Times(v, f) == IF v.u = f.from THEN V(v.n, f.to) ELSE Junk

Same(u) == Factor(u, u)
degToRad   == Factor("deg", "rad")
radToDeg   == Factor("rad", "deg")
knToms     == Factor("kn", "m/s")
kmhToms    == Factor("km/h", "m/s")
msTokn     == Factor("m/s", "kn")
msTokmh    == Factor("m/s", "km/h")
nmTom      == Factor("nm", "m")
mToFeet    == Factor("m", "f")
mToFathoms == Factor("m", "F")

Negative(v) == [v EXCEPT !.n = -@]

\* fmod has the sign of its first argument.
Fmod(n, m) == IF n >= 0 THEN n % m ELSE -((-n) % m)

-----------------------------------------------------------------------------
(* Fields *)

NoSentence == [code |-> "", fields |-> <<>>]
Sentence(code, fields) == [code |-> code, fields |-> fields]

MaxFields == 20                          \* MAX_NMEA0183_MSG_FIELDS

FieldCount(msg) == Len(msg.fields)

\* Field(index) counts from 0; there is an empty field behind the last.
Field(msg, i) == IF i < Len(msg.fields) THEN msg.fields[i + 1] ELSE Empty

AddEmptyField == <<Empty>>
AddStrField(c) == <<Letter(c)>>
AddUInt32Field(v) == IF v = NA THEN AddEmptyField ELSE <<v>>
AddDoubleField(v, f) == IF v = NA THEN AddEmptyField ELSE <<Times(v, f)>>
AddDoubleUnit(v, f, unit) == AddDoubleField(v, f) \o AddStrField(unit)

\* GPSTimeToNMEA0183Time: hours, minutes and seconds one after the other.
AddTimeField(v) == AddDoubleField(v, Factor("s", "hhmmss"))

AddDaysField(v) == IF v = NA THEN AddEmptyField ELSE <<Times(v, Factor("day", "ddmmyy"))>>

\* DoubleToddmm and the hemisphere.
AddHemisphere(v, positive, negative) ==
  IF v = NA THEN AddEmptyField \o AddEmptyField
  ELSE LET size == IF v.n >= 0 THEN v ELSE Negative(v)
       IN AddDoubleField(size, Factor("deg", "ddmm"))
            \o AddStrField(IF v.n >= 0 THEN positive ELSE negative)
AddLatitudeField(v)  == AddHemisphere(v, "N", "S")
AddLongitudeField(v) == AddHemisphere(v, "E", "W")

\* The variation (or deviation) and its side.
AddSideField(v) ==
  IF v = NA THEN AddStrField("") \o AddStrField("")
  ELSE AddDoubleField(IF v.n >= 0 THEN v ELSE Negative(v), radToDeg)
         \o AddStrField(IF v.n >= 0 THEN "E" ELSE "W")

\* A line on the wire.  The checksum stands for what it is computed of; a
\* line longer than the buffer loses its star.
Line(msg) == [prefix |-> IF msg.code \in {"VDM", "VDO"} THEN "!" ELSE "$",
              msg |-> msg, star |-> TRUE, checksum |-> msg]

\* tNMEA0183Msg::SetMessage; Clear when the line is not a sentence.
SetMessage(line) ==
  IF /\ line.prefix \in {"$", "!"} /\ line.star
     /\ FieldCount(line.msg) <= MaxFields
     /\ line.checksum = line.msg
  THEN line.msg ELSE NoSentence

NMEA0183GetDouble(f) == IF f = Empty THEN NA ELSE f

\* NMEA0183GetDouble with a multiplier keeps "not available".
GetScaled(f, factor) ==
  LET v == NMEA0183GetDouble(f) IN IF v = NA THEN NA ELSE Times(v, factor)

\* atof and atoi of an empty field are zero.
Atof(f, u) == IF f = Empty THEN V(0, u) ELSE f
Atoi(f) == Atof(f, "int")

\* Seeded error: the southern and the western half are forgotten.
LatLonToDouble_bug_unsigned(f, sign) ==
  LET v == NMEA0183GetDouble(f)
  IN IF v = NA THEN NA ELSE Times(v, Factor("ddmm", "deg"))

LatLonToDouble(f, sign) ==
  LET v   == NMEA0183GetDouble(f)
      deg == Times(v, Factor("ddmm", "deg"))
  IN IF v = NA THEN NA
     ELSE IF sign.u \in {"S", "W"} THEN Negative(deg) ELSE deg

NMEA0183GPTimeToSeconds(f) ==
  LET v == NMEA0183GetDouble(f) IN IF v = NA THEN NA ELSE Times(v, Factor("hhmmss", "s"))

\* NMEA0183GPSDateTimetotime_t without a time or a default: midnight.
NMEA0183GPSDateTimetotime_t(f) ==
  IF f = Empty THEN NA
  ELSE LET d == Times(f, Factor("ddmmyy", "s")) IN [d EXCEPT !.n = @ * Day]

elapsedDaysSince1970(v) == [Times(v, Factor("s", "day")) EXCEPT !.n = v.n \div Day]

-----------------------------------------------------------------------------
(* What each Set function builds of its arguments, a record *)

NMEA0183SetDepth(prefix, depth) ==
  Sentence(prefix, AddDoubleUnit(depth, mToFeet, "f") \o AddDoubleUnit(depth, Same("m"), "M")
                     \o AddDoubleUnit(depth, mToFathoms, "F"))

\* Below the surface, the keel or the transducer: the sign of the offset
\* says which.
NMEA0183SetDBx(a) ==
  LET depth  == a.DepthBelowTransducer
      offset == a.Offset
      sum    == IF depth = NA THEN NA ELSE V(depth.n + offset.n, "m")
  IN IF offset = NA THEN NMEA0183SetDepth("DBT", depth)
     ELSE NMEA0183SetDepth(IF offset.n > 0 THEN "DBS" ELSE "DBK", sum)

NMEA0183SetDPT(a) ==
  Sentence("DPT", AddDoubleField(a.DepthBelowTransducer, Same("m"))
                    \o AddDoubleField(a.Offset, Same("m")) \o AddDoubleField(a.Range, Same("m")))

NMEA0183SetGGA(a) ==
  Sentence("GGA", AddTimeField(a.GPSTime) \o AddLatitudeField(a.Latitude)
    \o AddLongitudeField(a.Longitude) \o AddUInt32Field(a.GPSQualityIndicator)
    \o AddUInt32Field(a.SatelliteCount) \o AddDoubleField(a.HDOP, Same("ratio"))
    \o AddDoubleUnit(a.Altitude, Same("m"), "M")
    \o AddDoubleUnit(a.GeoidalSeparation, Same("m"), "M")
    \o AddDoubleField(a.DGPSAge, Same("s")) \o AddUInt32Field(a.DGPSReferenceStationID))

NMEA0183SetGLL(a) ==
  LET complete == NA \notin {a.GPSTime, a.Latitude, a.Longitude}
  IN Sentence("GLL", AddLatitudeField(a.Latitude) \o AddLongitudeField(a.Longitude)
       \o AddTimeField(a.GPSTime) \o AddStrField(IF complete THEN "A" ELSE "V"))

\* A negative speed turns the course around; the speed stays negative.
Course(c, SOG) ==
  IF c = NA THEN NA
  ELSE V(Fmod(c.n + (IF SOG # NA /\ SOG.n < 0 THEN Turn \div 2 ELSE 0), Turn), c.u)

\* Without the two indicators that later versions of the standard add.
NMEA0183SetRMC(a) ==
  Sentence("RMC", AddTimeField(a.GPSTime)
    \o (IF a.GPSTime # NA THEN AddStrField("A") ELSE AddEmptyField)
    \o AddLatitudeField(a.Latitude) \o AddLongitudeField(a.Longitude)
    \o AddDoubleField(a.SOG, msTokn) \o AddDoubleField(Course(a.TrueCOG, a.SOG), radToDeg)
    \o AddDaysField(a.DaysSince1970) \o AddSideField(a.Variation))

NMEA0183SetVTG(a) ==
  Sentence("VTG", AddDoubleUnit(Course(a.TrueCOG, a.SOG), radToDeg, "T")
    \o AddDoubleUnit(Course(a.MagneticCOG, a.SOG), radToDeg, "M")
    \o AddDoubleUnit(a.SOG, msTokn, "N") \o AddDoubleUnit(a.SOG, msTokmh, "K"))

NMEA0183SetVHW(a) ==
  Sentence("VHW", AddDoubleUnit(a.TrueHeading, radToDeg, "T")
    \o AddDoubleUnit(a.MagneticHeading, radToDeg, "M")
    \o AddDoubleUnit(a.BoatSpeed, msTokn, "N") \o AddDoubleUnit(a.BoatSpeed, msTokmh, "K"))

NMEA0183SetROT(a) == Sentence("ROT", AddDoubleUnit(a.RateOfTurn, radToDeg, "A"))
NMEA0183SetHDT(a) ==
  Sentence("HDT", AddDoubleField(a.Heading, radToDeg) \o AddStrField("T"))
NMEA0183SetHDM(a) ==
  Sentence("HDM", AddDoubleField(a.Heading, radToDeg) \o AddStrField("M"))

NMEA0183SetHDG(a) ==
  Sentence("HDG", AddDoubleField(a.Heading, radToDeg) \o AddSideField(a.Deviation)
                    \o AddSideField(a.Variation))

\* One fragment of one has no message id.  VDO differs in its code only.
NMEA0183SetVDM(code, a) ==
  Sentence(code, AddUInt32Field(a.count) \o AddUInt32Field(a.number)
    \o (IF a.number.n = 1 /\ a.count.n = 1 THEN AddEmptyField ELSE AddUInt32Field(a.id))
    \o AddStrField(a.channel.u) \o <<a.bitstream>> \o AddUInt32Field(a.fillbits))

\* The wind angle is the one angle in degrees.
NMEA0183SetMWV(a) ==
  Sentence("MWV", AddDoubleField(a.WindAngle, Same("deg"))
    \o AddStrField(IF a.Reference.u = "T" THEN "T" ELSE "R")
    \o AddDoubleField(a.WindSpeed, Same("m/s")) \o AddStrField("M") \o AddStrField("A"))

Satellite(s) == AddUInt32Field(s.SVID) \o AddUInt32Field(s.Elevation)
                  \o AddUInt32Field(s.Azimuth) \o AddUInt32Field(s.SNR)
NMEA0183SetGSV(a) ==
  Sentence("GSV", AddUInt32Field(a.totalMSG) \o AddUInt32Field(a.thisMSG)
    \o AddUInt32Field(a.SatelliteCount) \o Satellite(a.sats[1]) \o Satellite(a.sats[2])
    \o Satellite(a.sats[3]) \o Satellite(a.sats[4]))

\* The date in three numbers; here the day counts, month and year with it.
NMEA0183SetZDA(a) ==
  Sentence("ZDA", AddTimeField(a.GPSTime) \o <<a.GPSDay, a.GPSMonth, a.GPSYear>>
                    \o <<a.LZD, a.LZMD>>)

\* Angles are multiplied whether they are available or not.
NMEA0183SetSHR(a) ==
  LET Angle(v) == AddDoubleField(Times(v, radToDeg), Same("deg"))
  IN Sentence("SHR", AddTimeField(a.GPSTime) \o Angle(a.Heading) \o AddStrField("T")
       \o Angle(a.Roll) \o Angle(a.Pitch) \o AddDoubleField(a.Heave, Same("m"))
       \o Angle(a.RollAccuracy) \o Angle(a.PitchAccuracy) \o Angle(a.HeadingAccuracy)
       \o AddUInt32Field(a.GPSQualityIndicator) \o AddUInt32Field(a.INSStatusFlag))

-----------------------------------------------------------------------------
(* What each Parse function reads, or Refused: too few fields *)

Refused == [refused |-> TRUE]
Need(msg, n, read) == IF FieldCount(msg) >= n THEN read ELSE Refused

F(msg, i) == Field(msg, i)                          \* short, for the lists below
LatLonAt(msg, i) == LatLonToDouble(Field(msg, i), Field(msg, i + 1))

\* A version before 3.0 of the standard has no range.
NMEA0183ParseDPT_nc(msg) ==
  Need(msg, 2, [DepthBelowTransducer |-> NMEA0183GetDouble(F(msg, 0)),
                Offset |-> NMEA0183GetDouble(F(msg, 1)),
                Range |-> IF FieldCount(msg) > 2 THEN NMEA0183GetDouble(F(msg, 2)) ELSE NA])

NMEA0183ParseGGA_nc(msg) ==
  Need(msg, 14,
    [GPSTime |-> NMEA0183GPTimeToSeconds(F(msg, 0)), Latitude |-> LatLonAt(msg, 1),
     Longitude |-> LatLonAt(msg, 3), GPSQualityIndicator |-> Atoi(F(msg, 5)),
     SatelliteCount |-> Atoi(F(msg, 6)), HDOP |-> NMEA0183GetDouble(F(msg, 7)),
     Altitude |-> NMEA0183GetDouble(F(msg, 8)),
     GeoidalSeparation |-> NMEA0183GetDouble(F(msg, 10)),
     DGPSAge |-> NMEA0183GetDouble(F(msg, 12)), DGPSReferenceStationID |-> Atoi(F(msg, 13))])

NMEA0183ParseGLL_nc(msg) ==
  Need(msg, 6, [Latitude |-> LatLonAt(msg, 0), Longitude |-> LatLonAt(msg, 2),
                GPSTime |-> NMEA0183GPTimeToSeconds(F(msg, 4)), status |-> F(msg, 5)])

\* To the left is negative in NMEA 2000.
NMEA0183ParseRMB_nc(msg) ==
  LET xte == Times(Atof(F(msg, 1), "nm"), nmTom)
  IN Need(msg, 13,
       [status |-> F(msg, 0), xte |-> IF F(msg, 2).u = "R" THEN Negative(xte) ELSE xte,
        originID |-> F(msg, 3), destID |-> F(msg, 4), Latitude |-> LatLonAt(msg, 5),
        Longitude |-> LatLonAt(msg, 7), dtw |-> Times(Atof(F(msg, 9), "nm"), nmTom),
        btw |-> Times(Atof(F(msg, 10), "deg"), degToRad),
        vmg |-> Times(Atof(F(msg, 11), "kn"), knToms), arrivalAlarm |-> F(msg, 12)])

\* The date with the whole seconds of the time, in days again.
NMEA0183ParseRMC_nc(msg) ==
  LET time == NMEA0183GPTimeToSeconds(F(msg, 0))
      date == NMEA0183GPSDateTimetotime_t(F(msg, 8))
      lDT  == IF time # NA THEN [date EXCEPT !.n = @ + time.n] ELSE date
      size == GetScaled(F(msg, 9), degToRad)
  IN Need(msg, 11,
       [GPSTime |-> time, Status |-> F(msg, 1), Latitude |-> LatLonAt(msg, 2),
        Longitude |-> LatLonAt(msg, 4), SOG |-> Times(Atof(F(msg, 6), "kn"), knToms),
        TrueCOG |-> Times(Atof(F(msg, 7), "deg"), degToRad),
        DaysSince1970 |-> IF date = NA THEN NA ELSE elapsedDaysSince1970(lDT),
        Variation |-> IF size # NA /\ F(msg, 10).u = "W" THEN Negative(size) ELSE size])

\* The speed in km/h, or in knots where there is none.
Speed(msg) == IF F(msg, 6) # Empty THEN GetScaled(F(msg, 6), kmhToms)
              ELSE GetScaled(F(msg, 4), knToms)

NMEA0183ParseVTG_nc(msg) ==
  Need(msg, 8, [TrueCOG |-> GetScaled(F(msg, 0), degToRad),
                MagneticCOG |-> GetScaled(F(msg, 2), degToRad), SOG |-> Speed(msg)])

NMEA0183ParseVHW_nc(msg) ==
  Need(msg, 8, [TrueHeading |-> GetScaled(F(msg, 0), degToRad),
                MagneticHeading |-> GetScaled(F(msg, 2), degToRad), BoatSpeed |-> Speed(msg)])

NMEA0183ParseROT_nc(msg) == Need(msg, 2, [RateOfTurn |-> GetScaled(F(msg, 0), degToRad)])
NMEA0183ParseHDT_nc(msg) == Need(msg, 2, [Heading |-> GetScaled(F(msg, 0), degToRad)])
NMEA0183ParseHDM_nc(msg) == Need(msg, 2, [Heading |-> GetScaled(F(msg, 0), degToRad)])

\* (The payload has room in the caller's buffer.)
NMEA0183ParseVDM_nc(msg) ==
  LET c == F(msg, 3).u
  IN Need(msg, 6,
       [bitstream |-> F(msg, 4), fillbits |-> Atoi(F(msg, 5)), id |-> Atoi(F(msg, 2)),
        number |-> Atoi(F(msg, 1)), count |-> Atoi(F(msg, 0)),
        channel |-> Letter(CASE c = "1" -> "A" [] c = "2" -> "B" [] OTHER -> c)])

NMEA0183ParseRTE_nc(msg) ==
  Need(msg, 4, [nrOfsentences |-> Atoi(F(msg, 0)), currSentence |-> Atoi(F(msg, 1)),
                type |-> F(msg, 2), routeID |-> Atoi(F(msg, 3)),
                wp |-> SubSeq(msg.fields, 5, FieldCount(msg))])

NMEA0183ParseWPL_nc(msg) ==
  Need(msg, 5, [Latitude |-> LatLonAt(msg, 0), Longitude |-> LatLonAt(msg, 2),
                name |-> F(msg, 4)])

NMEA0183ParseBOD_nc(msg) ==
  Need(msg, 6, [trueBearing |-> Times(Atof(F(msg, 0), "deg"), degToRad),
                magBearing |-> Times(Atof(F(msg, 2), "deg"), degToRad),
                destID |-> F(msg, 4), originID |-> F(msg, 5)])

\* The angle stays in degrees.  The speed is multiplied whether it is
\* available or not; another unit is taken for metres per second.
NMEA0183ParseMWV_nc(msg) ==
  LET v == NMEA0183GetDouble(F(msg, 2))
      unit == F(msg, 3).u
  IN Need(msg, 4,
       [WindAngle |-> NMEA0183GetDouble(F(msg, 0)),
        Reference |-> Letter(IF F(msg, 1).u = "T" THEN "T" ELSE "R"),
        WindSpeed |-> CASE unit = "K" -> Times(v, kmhToms)
                        [] unit = "N" -> Times(v, knToms)
                        [] OTHER -> v])

\* The satellites after the last field are read from the empty field.
NMEA0183ParseGSV_nc(msg) ==
  LET sat(i) == [SVID |-> Atoi(F(msg, 4 * i - 1)), Elevation |-> NMEA0183GetDouble(F(msg, 4 * i)),
                 Azimuth |-> NMEA0183GetDouble(F(msg, 4 * i + 1)),
                 SNR |-> NMEA0183GetDouble(F(msg, 4 * i + 2))]
  IN Need(msg, 7,
       [totalMSG |-> Atoi(F(msg, 0)), thisMSG |-> Atoi(F(msg, 1)),
        SatelliteCount |-> Atoi(F(msg, 2)), sats |-> [i \in 1..4 |-> sat(i)]])

NMEA0183ParseZDA(msg) ==
  Need(msg, 6, [GPSTime |-> NMEA0183GPTimeToSeconds(F(msg, 0)), GPSDay |-> Atoi(F(msg, 1)),
                GPSMonth |-> Atoi(F(msg, 2)), GPSYear |-> Atoi(F(msg, 3)),
                LZD |-> Atoi(F(msg, 4)), LZMD |-> Atoi(F(msg, 5))])

\* Angles and the distance are multiplied whether they are available or
\* not; a distance in another unit than miles is refused.
NMEA0183ParseAPB_nc(msg) ==
  LET angle(i) == Times(NMEA0183GetDouble(F(msg, i)), degToRad)
      xte == Times(NMEA0183GetDouble(F(msg, 2)), nmTom)
  IN IF F(msg, 4).u # "N" THEN Refused
     ELSE Need(msg, 14,
       [status |-> F(msg, 0), cycleLockWarning |-> F(msg, 1),
        xte |-> IF F(msg, 3).u = "R" THEN Negative(xte) ELSE xte,
        arrivalAlarm |-> F(msg, 5), perpendicularPassed |-> F(msg, 6),
        botw |-> angle(7), botwMode |-> F(msg, 8), destID |-> F(msg, 9),
        btw |-> angle(10), btwMode |-> F(msg, 11),
        headingToSteer |-> angle(12), headingToSteerMode |-> F(msg, 13)])

-----------------------------------------------------------------------------
(* The forms of the readers that look at the code of the sentence first;   *)
(* ZDA has none                                                             *)

IsMessageCode(msg, code) == msg.code = code
Coded(msg, code, read) == IF IsMessageCode(msg, code) THEN read ELSE Refused

NMEA0183ParseDPT(msg) == Coded(msg, "DPT", NMEA0183ParseDPT_nc(msg))
NMEA0183ParseGGA(msg) == Coded(msg, "GGA", NMEA0183ParseGGA_nc(msg))
NMEA0183ParseGLL(msg) == Coded(msg, "GLL", NMEA0183ParseGLL_nc(msg))
NMEA0183ParseRMB(msg) == Coded(msg, "RMB", NMEA0183ParseRMB_nc(msg))
NMEA0183ParseRMC(msg) == Coded(msg, "RMC", NMEA0183ParseRMC_nc(msg))
NMEA0183ParseVTG(msg) == Coded(msg, "VTG", NMEA0183ParseVTG_nc(msg))
NMEA0183ParseVHW(msg) == Coded(msg, "VHW", NMEA0183ParseVHW_nc(msg))
NMEA0183ParseROT(msg) == Coded(msg, "ROT", NMEA0183ParseROT_nc(msg))
NMEA0183ParseHDT(msg) == Coded(msg, "HDT", NMEA0183ParseHDT_nc(msg))
NMEA0183ParseHDM(msg) == Coded(msg, "HDM", NMEA0183ParseHDT_nc(msg))
NMEA0183ParseVDM(msg) == Coded(msg, "VDM", NMEA0183ParseVDM_nc(msg))
NMEA0183ParseRTE(msg) == Coded(msg, "RTE", NMEA0183ParseRTE_nc(msg))
NMEA0183ParseWPL(msg) == Coded(msg, "WPL", NMEA0183ParseWPL_nc(msg))
NMEA0183ParseBOD(msg) == Coded(msg, "BOD", NMEA0183ParseBOD_nc(msg))
NMEA0183ParseMWV(msg) == Coded(msg, "MWV", NMEA0183ParseMWV_nc(msg))
NMEA0183ParseGSV(msg) == Coded(msg, "GSV", NMEA0183ParseGSV_nc(msg))
NMEA0183ParseAPB(msg) == Coded(msg, "APB", NMEA0183ParseAPB_nc(msg))
=============================================================================
