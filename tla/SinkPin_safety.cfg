SPECIFICATION Spec
CONSTANTS
    w1 = w1
    w2 = w2
    Writer <- MCWriter
    MaxSamples = 3
    PipeCapacity = 2
INVARIANTS
    TypeOK
    AtMostOneWriter
    ServerOwnsPipe
    Framing
    NoThreadAfterDelete
PROPERTIES
    InOrder
