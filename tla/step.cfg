SPECIFICATION Spec
CONSTANT Setups <- Jobs
INVARIANTS
  FlowTypeOK
  GroupsTogether
  RanksBalanced
  MicroBatchesEven
  RaisesOnlyThere
  TrainedOnce
PROPERTIES
  Implements
  StepEnds
