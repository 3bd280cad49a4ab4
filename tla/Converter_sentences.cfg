\* Three sentences of every kind, one of them with empty fields, with negative
\* numbers or without its end, the clock one
\* unit before midnight.
CONSTANTS
  Turn = 8
  Day = 4
  MaxSentences = 3
  MaxOdd = 1
  Codes <- AllCodes
  Start = 43
  Steps = {0, 1}
SPECIFICATION Spec
CHECK_DEADLOCK FALSE
INVARIANT SentenceReadBack
INVARIANT FixHonest
INVARIANT NumbersHonest
