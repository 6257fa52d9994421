SPECIFICATION Spec
CONSTANTS
  c1 = c1
  c2 = c2
  c3 = c3
  N = 2
  Convs = {c1, c2}
  MaxTurns = 3
  CacheSizes = {1, 2}
  MaxBatches = 2
  Ranks = {1, 2}
  Ports = {1, 2, 3}
  Foreign = {3}
  SchedulerFails = TRUE
INVARIANTS
  StartTypeOK
  AddressIsCurrent
  ChatTypeOK
  Balanced
  Remembered
  AsleepIdle
PROPERTIES
  StartEnds
  StaysOnServer
  GenerationEnds
CHECK_DEADLOCK FALSE
