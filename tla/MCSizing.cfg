SPECIFICATION Spec
CONSTANTS
  Colls <- MCColls
  Samples <- MCSamples
  Inputs <- MCInputs
  MaxPages = 2
  MaxIndex = 2
  Unit = 36
  StablePolls = 2
INVARIANTS TypeOK SettledConsistent SettledCalm SettledAgrees DiskHolds
PROPERTY WaitEnds
CHECK_DEADLOCK FALSE
