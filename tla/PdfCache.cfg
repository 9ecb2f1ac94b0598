CONSTANTS
  Profiles = {c1, c2}
  Papers = {p1}
  Handlers = {h1, h2}
  NoPaper = NoPaper
  Faults = {"crash", "disconnect"}
  Keep = 1
  MaxJobs = 2
  MaxRetries = 1
SPECIFICATION FairSpec
INVARIANTS EachLikeTracked
PROPERTIES JobsSettle UnreferencedCollected
