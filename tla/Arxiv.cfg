CONSTANTS
  PageSize = 2
  Faults = {"watcher", "dedup", "db", "arxiv"}
  MaxFaults = 1
  MaxEntries = 3
  MaxTime = 2
SPECIFICATION FairSpec
INVARIANT NothingPassed
PROPERTIES CursorAdvances EveryEntryReceived
CHECK_DEADLOCK FALSE
