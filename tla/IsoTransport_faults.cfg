\* Three messages, those of three packets in windows of two, those of one
\* refused as too long.  Two slots for the transfers and another node's fast
\* packet; one frame is lost or refused, or the fast packet comes.  The
\* sender's timer runs out at any time.
CONSTANTS
  MaxN2kCANMsgs = 2
  MaxN2kMsgBufTime = 1
  Pgns = {"p", "q"}
  Sizes = {1, 3}
  TooLong = {1}
  TpMaxFrames = 2
  MaxMsgs = 3
  MaxFaults = 1
  MaxTime = 1
SPECIFICATION FairSpec
CHECK_DEADLOCK FALSE
INVARIANT TransportInv
INVARIANT OnlyLateAnswersHarm
PROPERTY TransferEnds
