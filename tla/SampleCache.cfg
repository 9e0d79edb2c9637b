SPECIFICATION Spec
CONSTANTS
  QueryDelay = 2
  SampleInterval = 3
  MinLatency = 1
  MinInterval = 1
  MinStaleAfter = 1
  IntMax = 7
  LagStreak = 2
  Compensated = TRUE
  CheckEvery = 2
  CheckDeadline = 8
  TickSize = 2
  MaxTime = 16
  MaxReads = 5
  Steps <- BothWays
INVARIANTS TypeOK HealthTrue WarnedIffLagging OnTimeIsOk
PROPERTY ReplyYoung
CHECK_DEADLOCK FALSE
