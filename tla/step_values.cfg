SPECIFICATION Spec
CONSTANT Setups <- CriticJob
INVARIANT ValuesMaskedOnResponse
