SPECIFICATION Spec
CONSTANTS
  Txs <- MCTxs
  vin <- MCvin
  Coinbase <- MCCoinbase
  Size <- MCSize
  Fee <- MCFee
  SignalsOptInRBF <- MCOptIn
  FinalFrom <- MCFinalFrom
  Bodies <- MCBodies
  Deltas <- MCDeltas
  MaxHeight = 3
  MaxConnected = 1
  MaxDelta = 2
  LimitAncestors = 3
  LimitDescendants = 3
  MaxReplaced = 2
  MaxEntries = 4
  MaxDisconnected = 3
  IncrementalRelayFee = 1
INVARIANTS  AncestorLimit
