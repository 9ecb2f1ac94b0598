CONSTANTS
  watcher = watcher
  rescan1 = rescan1
  rescan2 = rescan2
  rescan3 = rescan3
  Procs = {"arxiv-watcher", "api"}
  Callers = {watcher, rescan1, rescan2, rescan3}
  ProcOf <- Homes
  PoolSize = 2
  MaxAttempts = 2
  Gap = 1
  GapLimited = 2
  GapFailed = 1
  MaxRetryAfter = 2
  Faults = {"crash", "session", "cancel"}
SPECIFICATION ThreeOfFour
INVARIANT OneInFlight
PROPERTIES Polite EveryoneServed
