SPECIFICATION FairSpec
CONSTANTS
  t1 = t1
  t2 = t2
  Tasks <- TwoTasks
  NoTask = NoTask
  MaxStarts = 2
INVARIANTS TypeOK NoOrphanedCaller BooksBalance
PROPERTIES ImplementsSerialBus EveryCallReturns StopReturns
