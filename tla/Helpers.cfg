CONSTANTS
  MinSize = 2
  Minute = 3
  MaxLength = 9
  MaxSize = 5
  MaxCalls = 5
  Keys <- FourKeys
  Locations <- Hosts
  Limits = {1, 2}
  Addresses = {"a", "b"}
  Pauses = {0, 1, 3}
  Papers = {p1, p2}
  MaxAttempts = 3
  Faults = {"start", "crash", "fail"}
SPECIFICATION HelpersAndScoring
INVARIANTS ChunksCover FirstSeedOnly FeedsMatch RateBound ColumnsAgree
PROPERTY EveryPaperSettles
