SPECIFICATION FairSpec
CONSTANTS
  t1 = t1
  t2 = t2
  t3 = t3
  NULL = NULL
  Tasks <- ThreeTasks
  GRAN = 1
  MAX_LAG = 3
  BUDDIES = TRUE
INVARIANTS PicksQueuedTask StockUnlessHeldBack
PROPERTIES HolderRuns RunnableRuns
