SPECIFICATION Spec
CONSTANTS
  r1 = r1
  r2 = r2
  t1 = t1
  t2 = t2
  Reqs = {r1, r2}
  Tools = {t1, t2}
  ToolsOf <- BothAndOne
  Calls <- OneOrTwo
  PromptLen = 3
  Cuts = {0, 5}
  CutTails = {"suffix", "other"}
  PrefixLen = 2
  GenLens = {1, 4}
  ToolLen = 1
  MaxTurns = 3
  EngineLen = 18
  ModelLen = 15
  Modes = {"train", "validate"}
  MaxBatches = 2
INVARIANTS
  RolloutTypeOK
  ToolsHeld
  FinishKnown
  CallsAnswered
  SentAsRecorded
  RoomToGenerate
PROPERTIES
  BatchEnds
CHECK_DEADLOCK FALSE
