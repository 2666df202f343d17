SPECIFICATION Spec
CONSTANTS
    w1 = w1
    w2 = w2
    Writer <- MCWriter
    MaxSamples = 1
    PipeCapacity = 1
INVARIANTS
    ListenerReleased
