SPECIFICATION Spec
CONSTANTS
    MaxMessages = 4
    ProtocolCells = 1
    BufferCells = 8
    UseIOCP = TRUE
CHECK_DEADLOCK FALSE
INVARIANTS
    AuthedByFirstMessage
    AcceptedOnce
    LossOnlyCut
PROPERTIES
    ImplementsSession
