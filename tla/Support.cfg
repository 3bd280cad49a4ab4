\* The classes the rest is built on, each by itself.
CONSTANTS
  Producers = {p1, p2}
  Consumers = {c1, c2}
  NoThread = NoThread
  MaxPuts = 2
  RequestedSize = 4
  RequestedPriorities = 2
  Buses = {b1, b2}
  Handlers = {"a0", "b0", "c5", "d5"}
  HandlerPGN <- MCHandlerPGN
  PGNs = {5, 9}
  MaxChanges = 2
  UserGroup = {"u0", "u5", "u6"}
  OwnGroup <- MCOwnGroup
  None = None
  Bodies <- MCBodies
  Messages <- MCMessages
  MaxLen = 10
  MsgOutBufSize = 4
  MaxRoom = 2
  MaxBytes = 6
  Main = main
  Workers = {w1}
  Texts <- MCTexts
  MaxCalls = 3
  MaxInstances = 2
  DeviceCount = 2
  Default = 3
  DefaultOffset = 1
  MinInterval = 2
  MaxInterval = 4
  KeepCurrent = KeepCurrent
  Restore = Restore
  ShortKeep = 3
  Intervals = {0, 5, Restore}
  Offsets = {KeepCurrent, 1, 3}
  MaxSequence = 1
  Disabled = 1000
  MaxTime = 7
  MaxOdd = 2
SPECIFICATION SupportSpec
CHECK_DEADLOCK FALSE
INVARIANT QueueInv
INVARIANT HandlersServed
INVARIANT LinesPass
INVARIANT NoLineTwice
INVARIANT EachPeriodBeats
PROPERTY QueueDelivers
PROPERTY RingsAreQueues
