SPECIFICATION MCSpec
CONSTANTS
    NThreads = 2
    MaxBuffers = 2
    MaxSemaphore = 2
    Readers <- MCReaders
    MaxCalls = 3
    Callers = {1, 2}
    MaxUsers = 2
    MaxSwitches = 3
CHECK_DEADLOCK FALSE
INVARIANTS
    BuffersAccounted
    Contiguous
    NoLostWakeUp
    BlockStateValid
    CompleteOnce
PROPERTIES
    CallsReturn
