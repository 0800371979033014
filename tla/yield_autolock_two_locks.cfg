SPECIFICATION Spec
CONSTANTS
  t1 = t1
  t2 = t2
  t3 = t3
  l1 = l1
  l2 = l2
  NULL = NULL
  Threads <- ThreeThreads
  Locks <- TwoLocks
  UNLOCKED = 0
  LOCKED = 1
  WITH_AUTOLOCK = TRUE
  WITH_YIELD = TRUE
  WITH_FUTEX = FALSE
  PAUSE_ITERS = 1
  YIELD_ITERS = 1
  TSO = TRUE
  CREATE_MAY_FAIL = TRUE
CHECK_DEADLOCK FALSE
SYMMETRY Symmetry
INVARIANTS MutualExclusion LockedIffOwned HeldBackForARunnableHolder
