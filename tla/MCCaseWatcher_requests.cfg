SPECIFICATION Spec
CONSTANTS
  NumCases = 1
  Watcher = watcher
  Tools = {t1, t2}
  Pipelines = {}
  MaxClock = 4
  MaxDrop = 1
  MaxRestart = 1
  Drafts = {"pending", "approved", "undecodable"}
  CoarseClock = TRUE
SYMMETRY Symmetry
INVARIANTS TypeOK RequestsAdvance ToolsSummaryInThread
