SPECIFICATION Spec
CONSTANTS
  t1 = t1
  t2 = t2
  t3 = t3
  p1 = p1
  p2 = p2
  NULL = NULL
  ERR = ERR
  Tasks <- TwoTasks
  FirstTask = t1
  Pages <- TwoPages
  FORKS = FALSE
  EXECS = TRUE
  DESTROYS = FALSE
  FDS_RUN_OUT = FALSE
  MMAP_MAY_FAIL = FALSE
INVARIANTS CanRegister
CHECK_DEADLOCK FALSE
