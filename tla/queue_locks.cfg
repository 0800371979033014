SPECIFICATION Spec
CONSTANTS
  t1 = t1
  t2 = t2
  t3 = t3
  n1 = n1
  n2 = n2
  n3 = n3
  n4 = n4
  NULL = NULL
  Threads <- ThreeThreads
  Kinds = {"ticket", "clh", "aepfl", "cptltkt", "spin", "rseq", "lock_ops"}
  COUNTS = 4
  ARRAY_COUNTS = 6
  Nodes <- FourNodes
  Sockets <- TwoSockets
  SocketsOf <- HomeSockets
  RAW_ITERS = 2
  YIELD_ITERS = 1
  LOCAL_COUNTS = 2
  TICKET_COUNTS = 3
  MAX_THREADS = 3
  BATCH_COUNT = 1
  Migrating = {t2}
  RSEQ_REGISTERED = TRUE
  BUFFERED = TRUE
  TRYLOCKS = FALSE
INVARIANTS MutualExclusion HeldBackBeforeTurn NodesAccounted OneFlagSet SocketGrantIsOwned BatchIsBounded
PROPERTIES FirstComeFirstServed
CHECK_DEADLOCK FALSE
