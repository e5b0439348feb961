SPECIFICATION Spec
CONSTANTS
    Readers = {r1}
    Keys = {k1, k2}
    Values <- MCValues
    Absent = Absent
    Words = {1, 2}
    Blocks = {b1, b2}
    NoBlock = NoBlock
    Capacities = {1, 2}
    SeqMod = 8
    FirstSeq = 6
    MaxAttempts = 2
    MaxSets = 3
    Weak = FALSE
SYMMETRY Symmetry
INVARIANTS
    TypeOK
    EvenMeansCommitted
    GetLinearizable
