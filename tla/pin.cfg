SPECIFICATION Spec
CONSTANTS
  t1 = t1
  t2 = t2
  p1 = p1
  p2 = p2
  f1 = f1
  f2 = f2
  f3 = f3
  NULL = NULL
  Tasks <- TwoTasks
  UserPages <- TwoPages
  Frames <- ThreeFrames
  MAX_PINS = 2
  Machines <- AnyFaults
SYMMETRY Symmetry
INVARIANTS AddressesSynced ReadsTheWatchedWord PinsAccounted
CHECK_DEADLOCK FALSE
