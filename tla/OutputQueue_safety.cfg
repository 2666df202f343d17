SPECIFICATION FairSpec
CONSTANTS
    BatchSize = 2
    Configurations <- MCConfigurations
CHECK_DEADLOCK FALSE
INVARIANTS
    EachSampleOnce
    InOrder
    NothingStale
PROPERTIES
    GetsThrough
