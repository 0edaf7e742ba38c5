CONSTANTS
    NWorkers = 3
    NSlots = 1
    QueueSize = 2
    SweepEvery = 2
    EventsMax = 2
    MaxConns = 0
    MaxDisturb = 0
    Faults = {"init"}
SPECIFICATION LiveSpec
CHECK_DEADLOCK FALSE
PROPERTY ShutdownCompletes
