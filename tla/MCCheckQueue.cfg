SPECIFICATION FairSpec
CONSTANTS
  Workers = {w1, w2}
  Master = m
  Checks = {c1, c2, c3, bad}
  Good = {c1, c2, c3}
  BatchSize = 2
INVARIANTS ResultExact TodoExact QuietWhenIdle
PROPERTIES WaitReturns StopEnds
