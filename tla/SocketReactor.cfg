SPECIFICATION FairSpec
CONSTANTS
    UseIOCP = FALSE
    MaxPackets = 3
    PacketSizes = {0, 3}
    SndBuf = 3
    TransientErrors = TRUE
CHECK_DEADLOCK FALSE
INVARIANTS
    StreamIntact
    NothingVanishes
PROPERTIES
    ImplementsSession
    QuietAfterClose
    PacketsFlushed
    DrainThenClose
