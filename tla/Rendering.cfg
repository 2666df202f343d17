SPECIFICATION MCSpec
CONSTANTS
    Callers = {"a1", "a2"}
    MaxPosition = 1
    Commands = {1, 2}
    MaxTime = 2
    Axes = {1}
    Extent = 1
    Origin <- MCOrigin
    DWord = 2
    Videos <- MCVideos
    VideoCoordinates <- MCVideoCoordinates
    MaxNodes = 3
    CacheSize = 1
    Objects = {"a", "b"}
    InSize = 2
    OutSizes = {1, 2}
    Types = {"t1"}
    Formats <- MCFormats
    MaxCount = 2
    MaxPalettes = 2
    Displays <- MCDisplays
    Inputs <- MCInputs
    MaxFrames = 5
    MaxRuns = 1
    Elapsed = {20, 1200}
    Lateness <- MCLateness
    Durations = {40}
    DrawTimes = {60}
    Proportions = {0}
    LongMax = 2147483647
CHECK_DEADLOCK FALSE
INVARIANTS
    ReleasedOnce
    ImagesRight
    
PROPERTIES
    ListsKept
