CONSTANTS
    LoggerNames <- MCLoggerNames
    Types <- MCTypes
    SinkNames = {"Console", "Auth"}
    Levels = {2}
    MaxLoads = 1
SPECIFICATION Spec
CHECK_DEADLOCK FALSE
INVARIANTS SinksLinked
