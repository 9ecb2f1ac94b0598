CONSTANTS
  Links = {l1, l2}
  Items <- Six
  Keys <- SixKeys
  Label <- SixLabel
  Manual = {"typed"}
  Admitted = {"preprint", "revision", "entry1", "entry2"}
  Faults = {"dedup", "keyword", "db"}
  MaxFrames = 3
  MaxFaults = 2
  MaxConns = 3
SPECIFICATION FairSpec
INVARIANTS NothingLost LabelsKept NilOnlyAfterCut
PROPERTIES EveryItemStored
CHECK_DEADLOCK FALSE
