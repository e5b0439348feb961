SPECIFICATION Spec
CONSTANTS
    Readers = {r1}
    Keys = {k1}
    Values <- EmptyValues
    Absent = Absent
    Words = {1}
    Blocks = {b1, b2}
    NoBlock = NoBlock
    Capacities = {1}
    SeqMod = 8
    FirstSeq = 6
    MaxAttempts = 2
    MaxSets = 3
    Weak = FALSE
SYMMETRY Symmetry
INVARIANTS
    LockedLinearizable
