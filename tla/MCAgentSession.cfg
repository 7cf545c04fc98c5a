SPECIFICATION Spec
CONSTANTS
  Terminals = {t1}
  Clicks = {c1}
  MaxAgents = 2
  MaxRuns = 3
  MaxCrash = 1
INVARIANTS TypeOK OneAgent PromptedFirst
PROPERTY ResumeEnds
CHECK_DEADLOCK FALSE
