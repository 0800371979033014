SPECIFICATION Spec
CONSTANTS
  t1 = t1
  t2 = t2
  p1 = p1
  p2 = p2
  f1 = f1
  f2 = f2
  f3 = f3
  NULL = NULL
  Tasks <- OneTask
  UserPages <- TwoPages
  Frames <- TwoFrames
  MAX_PINS = 3
  Machines <- FailingPins
INVARIANTS PageSynced
CHECK_DEADLOCK FALSE
