SPECIFICATION Spec
CONSTANTS
  Blocks <- MCBlocks
  InitialTips <- MCInitialTips
  MaxCrashes = 1
  MaxFaults = 0
  WindowFaults = TRUE
INVARIANT IndexComplete
CHECK_DEADLOCK FALSE
