SPECIFICATION FairSpec
CONSTANTS
  t1 = t1
  t2 = t2
  t3 = t3
  l1 = l1
  l2 = l2
  NULL = NULL
  Threads <- ThreeThreads
  Locks <- OneLock
  UNLOCKED = 1
  LOCKED = 0
  WITH_AUTOLOCK = TRUE
  WITH_YIELD = TRUE
  WITH_FUTEX = TRUE
  PAUSE_ITERS = 0
  YIELD_ITERS = 0
  TSO = FALSE
  CREATE_MAY_FAIL = FALSE
INVARIANTS TypeOK WaitersCounted NoLostWakeup
PROPERTIES ImplementsLock
