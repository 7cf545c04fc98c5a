SPECIFICATION Spec
CONSTANTS
  Cases <- MCCases
  LegacyCases <- MCLegacyCases
  Opened <- MCOpened
  Disks <- MCApproved
  Writable <- MCNoFiles
  Targets <- MCTargets
  Reading <- MCReading
  StepReports <- MCOkStep
  MaxBuffer = 5
  MaxFetch = 0
  MaxText = 3
  MaxTools = 1
  MaxRuns = 2
  MaxSteps = 1
  MaxSwitch = 0
  MaxWire = 2
  MaxLost = 1
  MaxSilent = 0
  MaxLinks = 1
INVARIANT FeedFaithful
CHECK_DEADLOCK FALSE
