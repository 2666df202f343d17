SPECIFICATION Spec
CONSTANTS
    MaxSamples = 1
    PipeCapacity = 1
INVARIANTS
    DeliversFilledSamples
