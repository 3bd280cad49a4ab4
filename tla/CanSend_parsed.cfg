\* An application that calls ParseMessages() when it likes and at last
\* periodically, as the library asks.  Two PGNs are fast packets; whichever
\* is sent second shares the common sequence counter.
CONSTANTS
  RingSize = 3
  Pgns = {"heading", "gnss"}
  ProductPgn = "product"
  FastPgns = {"gnss", "product"}
  FrameCount <- Frames1to3
  CounterSlots = 1
  SeqModulus = 2
  ParsesMessages = TRUE
  MaxMsgs = 3
  MaxRefusals = 4
SPECIFICATION FairSpec
CHECK_DEADLOCK FALSE
INVARIANT SendInv
INVARIANT FastPacketContiguous
INVARIANT SentMeansComplete
PROPERTY CanFifo
PROPERTY NothingStaysPending
