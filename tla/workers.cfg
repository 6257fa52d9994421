SPECIFICATION Spec
CONSTANTS
  Nodes <- Two
  Jobs <- AllJobs
  MaxRuns = 2
INVARIANTS
  JobTypeOK
  FilesFound
  EngineCurrent
  RoomForCache
  NoiseAsConfigured
  SamplesAlike
PROPERTIES
  JobEnds
CHECK_DEADLOCK FALSE
