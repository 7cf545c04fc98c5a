SPECIFICATION Spec
CONSTANTS
  Cases <- MCCases
  LegacyCases <- MCLegacyCases
  Opened <- MCOpened
  Disks <- MCDisks
  Writable <- MCWritable
  Targets <- MCTargets
  Reading <- MCReading
  StepReports <- MCSteps
  MaxBuffer = 1
  MaxFetch = 2
  MaxText = 0
  MaxTools = 0
  MaxRuns = 1
  MaxSteps = 1
  MaxSwitch = 1
  MaxWire = 1
  MaxLost = 0
  MaxSilent = 1
  MaxLinks = 1
INVARIANTS TypeOK ActiveIsNext
PROPERTY RailSettles
CHECK_DEADLOCK FALSE
