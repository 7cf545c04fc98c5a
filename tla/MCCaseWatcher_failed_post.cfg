SPECIFICATION FairSpec
CONSTANTS
  NumCases = 1
  Watcher = watcher
  Tools = {}
  Pipelines = {}
  MaxClock = 2
  MaxDrop = 1
  MaxRestart = 0
  Drafts = {"pending"}
  CoarseClock = FALSE
PROPERTY PendingAnnounced
