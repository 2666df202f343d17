SPECIFICATION LiveSinkSpec
CONSTANTS
    MaxSamples = 3
    PipeCapacity = 2
INVARIANTS
    TypeOK
    SampleIntegrity
    QuietWhenStopped
PROPERTIES
    InOrder
    CallsReturn
