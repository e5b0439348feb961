SPECIFICATION Spec
CONSTANTS
    Readers = {r1}
    Keys = {k1}
    Values <- FullValues
    Absent = Absent
    Words = {1, 2}
    Blocks = {b1, b2}
    NoBlock = NoBlock
    Capacities = {2}
    SeqMod = 8
    FirstSeq = 6
    MaxAttempts = 2
    MaxSets = 3
    Weak = TRUE
SYMMETRY Symmetry
INVARIANTS
    GetLinearizable
