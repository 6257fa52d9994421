SPECIFICATION Spec
CONSTANTS
  c1 = c1
  c2 = c2
  c3 = c3
  N = 2
  Convs = {c1}
  MaxTurns = 1
  CacheSizes = {1}
  MaxBatches = 1
  Ranks = {1, 2}
  Ports = {1, 2, 3}
  Foreign = {3}
  SchedulerFails = FALSE
INVARIANT
  ReadyIsAlive
CHECK_DEADLOCK FALSE
