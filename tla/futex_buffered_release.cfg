SPECIFICATION Spec
CONSTANTS
  t1 = t1
  t2 = t2
  t3 = t3
  l1 = l1
  l2 = l2
  NULL = NULL
  Threads <- TwoThreads
  Locks <- OneLock
  UNLOCKED = 1
  LOCKED = 0
  WITH_AUTOLOCK = TRUE
  WITH_YIELD = FALSE
  WITH_FUTEX = TRUE
  PAUSE_ITERS = 0
  YIELD_ITERS = 0
  TSO = TRUE
  CREATE_MAY_FAIL = FALSE
INVARIANTS NoLostWakeup
