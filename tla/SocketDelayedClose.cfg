SPECIFICATION FairSpec
CONSTANTS
    UseIOCP = FALSE
    MaxPackets = 1
    PacketSizes = {1}
    SndBuf = 1
    TransientErrors = FALSE
PROPERTIES
    DelayedCloseHonoured

CHECK_DEADLOCK FALSE
