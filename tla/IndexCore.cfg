SPECIFICATION Spec
CONSTANTS
    NumProbationary = 1
    NumMain = 2
    TableSize = 8
    HashLows = {0, 6}
    Offsets = {3}
    MaxU32 = 99
INVARIANTS
    TypeOK
    NoPanic
    PositionsPointBack
    LiveIffIndexed
    ProbeChains
    TombstonesCounted
    EmptyEntryExists
PROPERTIES
    SetTerminates
