\* Two slots for three lines, a sequence counter that wraps at 2, frames lost
\* or repeated, and a clock that passes the time-out.
CONSTANTS
  MaxN2kCANMsgs = 2
  MaxN2kMsgBufTime = 1
  Lines = {"gnss", "route", "heading"}
  FastLines = {"gnss", "route"}
  Lengths <- LengthsOf
  Dests <- DestsOf
  SeqModulus = 2
  MaxMsgs <- MsgsOf
  MaxFaults = 2
  MaxTime = 2
SPECIFICATION Spec
CHECK_DEADLOCK FALSE
INVARIANT ReassemblyInv
INVARIANT IntactDelivered
PROPERTY TakeoverInTime
