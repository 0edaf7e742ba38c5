SPECIFICATION Spec
CONSTANTS
  Paths = {p1, p2, p3}
  Conns = {c1, c2}
  CacheSlots = 2
  RetiredSlots = 1
  Hash <- LastSlot
  NFds = 3
  MaxVersion = 4
  Irregular = {4}
SYMMETRY Symmetry
INVARIANTS UsesExact OneOwner Reachable EditShowsUp
CHECK_DEADLOCK FALSE
