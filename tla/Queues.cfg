SPECIFICATION QueuesFairSpec
CONSTANTS
    Producers = {p1, p2, p3}
    Consumer = Consumer
    Items = {x1, x2, x3}
    Nodes = {n1, n2, n3, n4}
    Dummy = Dummy
    Null = Null
    Garbage = Garbage
    MaxEnqueues = 4
    MaxItems = 4
    Consumers = {c1, c2, c3}
INVARIANTS
    NothingStaleOrLeft
    LockedInOrder
    NoLostWakeUp
PROPERTIES
    ImplementsFifo
    CancelReleases
CHECK_DEADLOCK FALSE
