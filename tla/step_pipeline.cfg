SPECIFICATION Spec
CONSTANT Setups <- PipelineJob
INVARIANT CollectedInOrder
