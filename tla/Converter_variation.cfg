\* One sentence: the variation that HandleVTG saves.
CONSTANTS
  Turn = 8
  Day = 4
  MaxSentences = 1
  MaxOdd = 1
  Codes = {"VTG"}
  Start = 43
  Steps = {0, 1}
SPECIFICATION Spec
INVARIANT VariationSaved
CHECK_DEADLOCK FALSE
