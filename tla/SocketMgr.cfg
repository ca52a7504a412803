SPECIFICATION FairSpec
CONSTANTS
    ThreadCount = 2
    Clients = {c1, c2}
    NonBlockingFails = TRUE
CHECK_DEADLOCK FALSE
INVARIANTS
    Balanced
PROPERTIES
    ClientAccepted
    StopEnds
