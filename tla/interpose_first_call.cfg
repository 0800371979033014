SPECIFICATION Programs
CONSTANTS
  t1 = t1
  t2 = t2
  NULL = NULL
  END = END
  Kinds = {"interpose"}
  Threads <- TwoThreads
  I_WARMUP_CALLS = 1
  I_COOLDOWN_CALLS = 2
  MAX_CALLS = 3
  num_threads = 3
  num_trials = 2
  outer_iter = 2
  cs_iter = 2
  contention_mask = 1
  MAX_STATE = 14
  nprocs = 4
  PhysCpuId <- HalfIsPhysical
  CpuOptions <- SomeOptions
  CpuIds <- Pairs
  Benches <- BothBenches
  Argvs <- SomeArgvs
  lock_list <- Locks
  MatchOf <- Patterns
  Wild <- Wildcards
  NumberOf <- Numbers
  OtherDashed <- DashedWords
  WIDTH = 8
  Times <- TrialTimes
  CSV_TRIALS = 2
  WITH_DBG_PRINT = FALSE
INVARIANT MutualExclusion
CHECK_DEADLOCK FALSE
