SPECIFICATION Spec
CONSTANTS
  o0 = o0
  o1 = o1
  o2 = o2
  o3 = o3
  Blocks <- MCBlocks
  Genesis <- G
  Txs <- MCTxs
  Outpoints <- MCOutpoints
  Spent = Spent
  MaxCrashes = 2
INVARIANTS DiskConsistent ReplayExact TipCoinsExact
PROPERTY FlushCompletes
