SPECIFICATION MCSpec
CONSTANT
    Notifies = TRUE
    N = 2
    Clocks = {"clock1", "clock2"}
    Graphs = {"graph1", "graph2"}
    ActiveFails = FALSE
    MaxTime = 1
    MaxRefs = 1
    FilterPins = {"p1", "p2"}
    Enumerators = {"e1", "e2"}
    InitialPins = 1
    MaxPinVersion = 2
    MaxTypes = 3
    MaxTypeVersion = 3
    MaxSkip = 5
    Types = {"a", "b", "c"}
    InTypes <- MCInTypes
    OutTypes <- MCOutTypes
    TryMine = TRUE
    MaxAllocators = 4
    MaxFailures = 2
    MaxConnects = 2
CHECK_DEADLOCK FALSE
INVARIANTS
    EnumeratedOnce
    ConnectionAgreed
    ReferencesCounted
    PinsFollowFilter
