\* The life of a reader, up to its destruction, with datagrams coming in.
CONSTANTS
  HasHandler = TRUE
  BufferSize = 2
  Sizes <- SmallSizes
  MaxDatagrams = 3
  MaxFailures = 1
SPECIFICATION FairSpec
CHECK_DEADLOCK FALSE
INVARIANT ReaderInv
PROPERTY ReadsUntilStopped
