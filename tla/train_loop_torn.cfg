SPECIFICATION Spec
CONSTANTS
  r1 = r1
  r2 = r2
  Ranks = {r1, r2}
  UseCritic = TRUE
  Keep <- KeepTwo
  EpochLen = 3
  TotalEpochs = 2
  TotalSteps = 7
  SaveFreq = 2
  CriticWarmup = 3
  ResumeModes = {"auto"}
  NameBound = TRUE
  MaxRuns = 4
INVARIANT
  NeverFails
CHECK_DEADLOCK FALSE
