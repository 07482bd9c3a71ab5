SPECIFICATION Spec
CONSTANTS
  Blocks <- MCBlocks
  InitialTips <- MCInitialTips
  MaxCrashes = 1
  MaxFaults = 1
  WindowFaults = FALSE
INVARIANTS IndexComplete
PROPERTIES UpToDateOnReturn CatchesUp
CHECK_DEADLOCK FALSE
