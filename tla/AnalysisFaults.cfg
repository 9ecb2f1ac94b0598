CONSTANTS
  preprint = preprint
  post = post
  Profiles = {c1}
  Papers = {preprint}
  Source <- SourceOf
  Phrases <- PhrasesOf
  Configs <- KeywordConfigs
  ArxivFeeds = {"cs.rss"}
  Decided = {preprint}
  Readers = {r1}
  Handlers = {h1}
  Ask = "paper"
  Faults = {"crash", "keyword", "start", "db", "disconnect"}
  Offered = {"update", "delete", "backfill", "analyze", "verify", "like", "retry"}
  MaxRequests = 3
SPECIFICATION Spec
INVARIANT DoneHasRow
PROPERTY DecisionPreserved
