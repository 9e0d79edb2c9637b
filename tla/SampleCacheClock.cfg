SPECIFICATION Spec
CONSTANTS
  QueryDelay = 2
  SampleInterval = 1
  MinLatency = 1
  MinInterval = 1
  MinStaleAfter = 2
  IntMax = 15
  LagStreak = 3
  Compensated = FALSE
  CheckEvery = 2
  CheckDeadline = 4
  TickSize = 2
  MaxTime = 8
  MaxReads = 6
  Steps <- Backward
INVARIANT StaleWhenOld
CHECK_DEADLOCK FALSE
