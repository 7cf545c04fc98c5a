SPECIFICATION FairSpec
CONSTANTS
  NumCases = 2
  Watcher = watcher
  Tools = {}
  Pipelines = {p1}
  MaxClock = 4
  MaxDrop = 0
  MaxRestart = 1
  Drafts = {"pending"}
  CoarseClock = FALSE
INVARIANT SummariesAdvance
PROPERTIES PendingAnnounced ReportSummarised
