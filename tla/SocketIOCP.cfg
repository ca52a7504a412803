SPECIFICATION FairSpec
CONSTANTS
    UseIOCP = TRUE
    MaxPackets = 3
    PacketSizes = {0, 3}
    SndBuf = 3
    TransientErrors = TRUE
CHECK_DEADLOCK FALSE
INVARIANTS
    StreamIntact
    SingleWrite
PROPERTIES
    PacketsFlushed
