SPECIFICATION Spec
CONSTANTS
  c1 = c1
  c2 = c2
  r = r
  Outpoints = {o1, o2}
  Coins <- MCCoins
  Unspendable <- MCUnspendable
  Usage <- MCUsage
  Blocks = {b1, b2}
  Spent = Spent
  NoEntry = NoEntry
  NullBlock = NullBlock
INVARIANTS FreshSound NoLogicError UsageExact
PROPERTY StoreSpec
