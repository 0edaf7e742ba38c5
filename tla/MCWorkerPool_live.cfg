CONSTANTS
    NWorkers = 2
    NSlots = 1
    QueueSize = 2
    SweepEvery = 2
    EventsMax = 2
    MaxConns = 2
    MaxDisturb = 1
    Faults = {"init"}
SPECIFICATION LiveSpec
CHECK_DEADLOCK FALSE
INVARIANT QueuedOnlyWhenSomeFull
PROPERTIES
    QueueDrains
    ExpiredIsSwept
    ShutdownCompletes
