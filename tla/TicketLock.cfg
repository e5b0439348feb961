SPECIFICATION Spec
CONSTANTS
    Threads = {t1, t2, t3}
    TicketMod = 3
INVARIANTS
    TypeOK
    MutualExclusion
    TicketWindow
PROPERTIES
    NoStarvation
    ImplementsFifo
