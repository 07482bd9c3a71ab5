SPECIFICATION FairSpec
CONSTANTS
  Threads = {t1, t2}
  Tasks = {once, every}
  Repeating = {every}
  Delays = {0, 2}
  Interval = 1
  NoTask = NoTask
  MaxTime = 2
INVARIANT DestructorSafe
PROPERTIES NotEarly TasksRun StopReturns
CHECK_DEADLOCK FALSE
