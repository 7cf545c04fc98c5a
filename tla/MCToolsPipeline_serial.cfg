SPECIFICATION FairSpec
CONSTANTS
  Runs = {r1, r2, r3}
  N = 2
  Records = 2
  Unique <- MCUnique
  Overlap = FALSE
  NoReport = NoReport
  TornReport = TornReport
INVARIANTS TypeOK ReportExact RerunIsClean StepsClosed
PROPERTIES Ends ImplementsReports
CHECK_DEADLOCK FALSE
