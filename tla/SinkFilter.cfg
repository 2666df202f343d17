SPECIFICATION FairSpec
CONSTANTS
    MaxPins = 3
    PipeCapacity = 2
    Renames = TRUE
CHECK_DEADLOCK FALSE
INVARIANTS
    AllocatorOfConnectedPin
    CatalogueComplete
PROPERTIES
    CallsReturn
