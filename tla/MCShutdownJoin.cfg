SPECIFICATION FairSpec
CONSTANTS
  Services = {s1}
  Validators = {v1}
  Waiters = {r}
  LoadBlock = {v1}
  Shutoff = shutoff
  NoThread = NoThread
  MaxPending = 1
  MaxEvents = 3
PROPERTY ShutdownEnds
CHECK_DEADLOCK FALSE
