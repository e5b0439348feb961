SPECIFICATION Spec
CONSTANTS
    Runtimes = {"node"}
    Keys = {"e-acute"}
    OneByte = {"e-acute"}
    Ascii = {"a"}
    Latin1 <- MCLatin1
    Utf8 <- MCUtf8
    a = a
    b = b
    c = c
    huge = huge
    Values = {a, b, c, huge}
    Length <- MCLength
    Rooms = {1, 72}
    NodeScratch = 2
    BunScratch = 1
    BunMaxScratch = 3
    MinCapacity = 1
    Null = Null
INVARIANTS
    ReadsLatest
CHECK_DEADLOCK FALSE
