SPECIFICATION FairSpec
CONSTANTS
    Threads = {t1}
    Sessions = {c1, c2, c3}
CHECK_DEADLOCK FALSE
INVARIANTS
    CounterExact
    OpenTracked
    NoSessionOutlivesContext
PROPERTIES
    ClosedRemoved
