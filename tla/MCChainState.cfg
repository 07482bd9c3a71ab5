SPECIFICATION FairSpec
CONSTANTS
  Blocks <- Short
  Genesis <- MCGenesis
  ChainWork <- HeavyD
  Addr <- MCAddr
  BadBlock <- OnlyH
  BadConnect <- MCBadConnect
  Invalidated <- AandD
  Reconsidered <- OnlyAB
  Precious <- OnlyD
  MaxPrecious = 1
INVARIANTS CheckBlockIndex QuietTipBest ChainValid
PROPERTIES NoRegress 
