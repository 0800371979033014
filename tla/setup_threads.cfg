SPECIFICATION Spec
CONSTANTS
  t1 = t1
  t2 = t2
  t3 = t3
  p1 = p1
  p2 = p2
  NULL = NULL
  ERR = ERR
  Tasks <- ThreeTasks
  FirstTask = t1
  Pages <- TwoPages
  FORKS = FALSE
  EXECS = FALSE
  DESTROYS = FALSE
  FDS_RUN_OUT = TRUE
  MMAP_MAY_FAIL = TRUE
SYMMETRY Symmetry
INVARIANTS TypeOK OwnPage HeldBackByOwnWait
CHECK_DEADLOCK FALSE
