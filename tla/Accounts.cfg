CONSTANTS
  Names = {n1, n2}
  Slugs = {s1}
  Handlers = {h1, h2}
  Faults = {"db"}
  MaxUsers = 2
  MaxSessions = 2
  MaxProfiles = 2
  MaxJobs = 1
SPECIFICATION Spec
SYMMETRY Symmetry
INVARIANTS AdminsExplained NothingOutlives ChecksHold
PROPERTY OnlyTheirOwn
CHECK_DEADLOCK FALSE
