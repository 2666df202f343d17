SPECIFICATION FairSpec
CONSTANTS
    w1 = w1
    w2 = w2
    Writer = {w1}
    MaxSamples = 2
    PipeCapacity = 1
PROPERTIES
    CallsReturn
    ClientCanReturn
    QueuedSampleIsTaken
