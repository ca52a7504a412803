CONSTANTS
    Names = {"ServerPort", "Sink.Console"}
    LoggingNames = {"Sink.Console"}
    Values = {"word", "zero", "port", "large"}
    MaxLines = 2
    IntOf <- MCIntOf
    LoggerNames <- MCLoggerNames
    Types <- MCTypes
    SinkNames = {"Console", "Auth"}
    Levels = {2, 6, 7}
    MaxLoads = 2
    Buffers = {"a", "b"}
    Bytes = {1, 2}
    MaxSize = 3
    Half = 4
    MaxTick = 7
    MaxPeriod = 3
    MaxNow = 26
    Minute = 2
    Hour = 4
    Hours = 3
    MaxTime = 16
    MaxClock = 17
    Offsets <- MCOffsets
    PackedDays = 1
SPECIFICATION UtilitiesSpec
INVARIANTS
    ConfigLayered
    PortAsConfigured
    MessagesJudged
    SinksServed
    UnreadKept
    BytesComeBack
    TimersExact
    TextExact
CHECK_DEADLOCK FALSE
