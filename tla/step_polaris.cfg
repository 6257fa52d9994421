SPECIFICATION Spec
CONSTANT Setups <- PolarisJob
INVARIANT ScoreOfResponses
