CONSTANTS
    NWorkers = 2
    NSlots = 2
    QueueSize = 2
    SweepEvery = 2
    EventsMax = 2
    MaxConns = 3
    MaxDisturb = 1
    Faults = {"create", "init", "wait"}
SPECIFICATION Spec
CHECK_DEADLOCK FALSE
INVARIANTS
    OnePlace
    SlotsAccounted
    BatchNotStale
