SPECIFICATION CleanSpec
CONSTANTS
    NumProbationary = 1
    NumMain = 1
    TableSize = 4
    HashLows = {0, 3}
    Offsets = {0, 1, 2, 3, 4, 5, 6, 7, 8, 9, 10, 11}
    MaxU32 = 99
    SlabSize = 12
    Keys <- TwoKeys
    Values <- ManySizes
    HashLow <- TwoHashLow
    TailThreshold = 8
    ReclaimBudget = 4
INVARIANTS
    ShardTypeOK
    Tiling
    LiveBlocksOwned
    IndexFindsKey
PROPERTIES
    ImplementsCache
    ReadYourWrite
    SetTerminates
