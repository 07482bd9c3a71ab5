SPECIFICATION FairSpec
CONSTANTS
  Services = {s1, s2}
  Validators = {v1}
  Waiters = {r}
  LoadBlock = {}
  Shutoff = shutoff
  NoThread = NoThread
  MaxPending = 0
  MaxEvents = 2
INVARIANTS SyncDrains FlushComplete
PROPERTIES SerialSpec SyncReturns ShutdownEnds
CHECK_DEADLOCK FALSE
