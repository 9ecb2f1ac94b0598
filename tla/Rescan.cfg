CONSTANTS
  Entries = {1, 2, 3, 4, 5, 6}
  Odd = {3}
  PageSizes = {1, 3, 4}
  SmallPage = 2
  MaxPages = 4
  RescanFaults = {"limited", "fail", "cancel"}
SPECIFICATION FairRescanSpec
INVARIANTS NoGap Complete
PROPERTY EveryRequestEnds
