CONSTANTS
    Workers = {w1, w2}
    Fields = {"fd", "peer"}
    Capacity = 4
    MaxConns = 6
SPECIFICATION LiveSpec
INVARIANTS
    ClaimsDistinct
    Delivery
PROPERTIES
    ImplementsFifo
    EventuallyHanded
