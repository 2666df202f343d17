SPECIFICATION MCSpec
CONSTANTS
    MaxPins = 4
    MaxCatalogue = 2
    MaxBusy = 1
    MaxGap = 3
    WaitForKey = 2
    MostLate = 3
    Lates = {0, 2, 4}
    MediaTypes = {"t1", "t2"}
    MaxConnections = 3
    MaxWindows = 2
    MaxChanges = 2
    LastTime = 3
    Samples <- MCSamples
    Cycle = 3
    FirstTick = 2
    MaxTicks = 4
    AdviseTimes = {3, 4}
    MaxCalls = 2
    Posters = {1, 2}
    MaxMessages = 3
    Timeout = 2
CHECK_DEADLOCK FALSE
INVARIANTS
    OrderKept
    ListsAgree
    PinsOfCatalogue
PROPERTIES
    CallsReturn
