CONSTANTS
    Producers = {p1, p2}
    Joined = {p1}
    MaxLines = 3
    QueueSize = 2
    W = 4
    StartId = 13
    FlushEvery = 2
SPECIFICATION LiveSpec
CHECK_DEADLOCK FALSE
INVARIANTS
    OutputInOrder
    DrainedAtExit
PROPERTIES
    RefusedForCause
    EventuallyFlushed
    LoggerEnds
