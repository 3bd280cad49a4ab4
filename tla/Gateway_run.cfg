\* The gateway from its start, with datagrams coming in.
CONSTANTS
  Datagrams <- OneOrTwo
  MaxDatagrams = 3
SPECIFICATION FairSpec
CHECK_DEADLOCK FALSE
INVARIANT OrderInv
PROPERTY SentencesConverted
