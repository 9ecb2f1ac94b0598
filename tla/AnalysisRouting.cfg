CONSTANTS
  preprint = preprint
  post = post
  Profiles = {c1}
  Papers = {preprint}
  Source <- SourceOf
  Phrases <- PhrasesOf
  Configs <- ArxivConfigs
  ArxivFeeds = {"cs.rss"}
  Decided = {}
  Readers = {r1}
  Handlers = {h1}
  Ask = "paper"
  Faults = {}
  Offered = {}
  MaxRequests = 1
SPECIFICATION FairSpec
PROPERTY SourceMatchedQueued
