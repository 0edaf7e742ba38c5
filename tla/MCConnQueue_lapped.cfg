CONSTANTS
    Workers = {w1, w2}
    Fields = {"fd"}
    Capacity = 2
    MaxConns = 3
SPECIFICATION Spec
INVARIANT HandedOnce
