CONSTANTS
  Profiles = {c1}
  Papers = {p1, p2}
  Handlers = {h1, h2}
  NoPaper = NoPaper
  Faults = {"crash", "db", "disconnect"}
  Keep = 1
  MaxJobs = 2
  MaxRetries = 1
SPECIFICATION PublicSpec
SYMMETRY Symmetry
INVARIANTS ReadyHasFile EachLikeTracked FilesAccounted MissingIsExplained
PROPERTIES ReadyIsStable ImplementsLifecycle
