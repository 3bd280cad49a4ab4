\* A node with two devices and one with one, three addresses; both nodes
\* begin at the second.  NAMEs all different or two the same.
CONSTANTS
  Devices = {"a0", "a1", "b"}
  NodeOf <- Nodes3
  Index <- Places
  UidChoices <- Names
  InstModulus = 4
  MaxAddress = 2
  RestartAddress = 1
  FirstAddresses = {1}
  MaxInst = 1
  MaxCommands = 1
  MaxRestarts = 1
  MaxLosses = 2
  MaxOdd = 2
SPECIFICATION FairSpec
CHECK_DEADLOCK FALSE
INVARIANT ClaimInv
PROPERTY SmallestNameStays
PROPERTY ClaimsEndWell
