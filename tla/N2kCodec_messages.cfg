\* All messages with a Set function, their fields one at a time at the ends
\* of their ranges; waypoints with names of 0, 9 and 90 characters, appended
\* until the message is full; messages cut before any item.  Forwarded
\* with two headers; sentences of up to 46 characters (eight data bytes)
\* damaged at any place by a digit, a letter that is none, or a star.
CONSTANTS
  PGNs <- AllPGNs
  NameLengths = {0, 9, 90}
  Headers <- MCHeaders
  BufferSize = 470
  DamagedLength = 46
  Noise = {48, 71, 42}
  SingleFrameMessages <- NoLists
  FastPacketMessages <- NoLists
SPECIFICATION Spec
INVARIANT ReadBack
INVARIANT ShortReadsUnavailable
INVARIANT ListsKept
INVARIANT SentAsReceived
INVARIANT FormsKept
