\* Datagrams dispatched while handlers come and go.
CONSTANTS
  NHandlers = 2
  Headers = {"$", "$GP"}
  MaxSize = 3
  MaxDatagrams = 1
SPECIFICATION FairSpec
CHECK_DEADLOCK FALSE
INVARIANT NoCallAfterUnSubscribe
INVARIANT RoundsInv
PROPERTY DispatchEnds
