SPECIFICATION ShardSpec
CONSTANTS
    NumProbationary = 1
    NumMain = 2
    TableSize = 8
    HashLows = {0, 7}
    Offsets = {0, 1, 2, 3, 4, 5, 6, 7, 8, 9, 10}
    MaxU32 = 99
    SlabSize = 11
    Keys <- MCKeys
    Values <- TwoSizes
    HashLow <- MCHashLow
    TailThreshold = 8
    ReclaimBudget = 4
PROPERTIES
    ReadYourWrite
