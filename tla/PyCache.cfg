SPECIFICATION PySpec
CONSTANTS
    Threads = {reader, other}
    Engines = {engine}
    Null = Null
    Sizes = {1, 2, 3}
    GilThreshold = 1
    ProbePeriod = 2
    ProbedGet = 2
    Reader = reader
    StackSize = 1
    MaxFreelistCapacity = 2
    MaxAttempts = 1
INVARIANTS
    PyTypeOK
    EngineOpenDuringCalls
    ActiveCallsCounted
    EnginesOwned
    NeverWritesHeld
    BufferFits
    GetReturnsPrefix
PROPERTIES
    CloseReturns
