CONSTANTS
  preprint = preprint
  post = post
  Profiles = {c1}
  Papers = {preprint, post}
  Source <- SourceOf
  Phrases <- PhrasesOf
  Configs <- SourceConfigs
  ArxivFeeds = {"cs.rss"}
  Decided = {}
  Readers = {r1}
  Handlers = {h1, h2}
  Ask = "paper"
  Faults = {}
  Offered = {"update", "delete", "backfill", "analyze"}
  MaxRequests = 2
SPECIFICATION FairSpec
INVARIANT EveryOwedQueued
PROPERTIES ReloadQueues EveryOwedAnalysed
