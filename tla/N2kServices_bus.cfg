\* Two nodes and a list of three addresses, two odd events of different kinds:
\* a question and a loss, a question and a full buffer, two losses of which one
\* is a move ...  A block of four bytes holds a description, two requests of a
\* kind are made.
CONSTANTS
  StrLen = 1
  ConfStrLen = 4
  DefaultHeartbeatInterval = 60000
  MaxHeartbeatInterval = 655320
  MinHeartbeatInterval = 1000
  NoString = NoString
  MaxBusDevices = 3
  MaxNameRequests = 2
  MaxRequests = 2
  NoDevice = NoDevice
  NoName = NoName
  NoInformation = NoInformation
  Nodes = {"a", "b"}
  FirstNode <- TwoNodes
  Me = 9
  Questions <- AllQuestions
  Mixed <- MixedQuestions
  Leftovers <- StackBytes
  AskedBy = "b"
  MaxOdd = 2
  MaxBus = 2
SPECIFICATION FairSpec
INVARIANT AddressBook
PROPERTY QuestionsAnswered
PROPERTY CommandsObeyed
PROPERTY EventuallyListed
