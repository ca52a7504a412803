SPECIFICATION FairSpec
CONSTANTS
    MaxPackets = 2
    PacketSizes = {2}
    SndBuf = 2
    TransientErrors = TRUE
CHECK_DEADLOCK FALSE
PROPERTIES
    ImplementsNetworkThread
    AnswersFlushed
    SessionReleased
