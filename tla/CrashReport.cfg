SPECIFICATION FairSpec
CONSTANTS
    Info <- MCInfo
    Symbols <- MCSymbols
    Objects = {20, 40, 60}
    MaxNesting = 4
    MaxElements = 3
    Threads = {t1, t2}
    MaxFrames = 1
CHECK_DEADLOCK FALSE
INVARIANTS
    NestingBounded
    ParentsFirst
    ReportWhole
PROPERTIES
    CrashEnds
