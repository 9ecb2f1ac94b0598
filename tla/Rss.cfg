CONSTANTS
  Feeds = 3
  Dead = {2}
  Keys = 3
  Dates <- SomeUndated
  Faults = {"watcher", "dedup", "db", "fetch"}
  MaxFaults = 1
SPECIFICATION FairSpec
INVARIANT NothingSkipped
PROPERTIES CursorAdvances EveryItemReceived
CHECK_DEADLOCK FALSE
