CONSTANTS
  Delayables = {a, b, c, d}
  Composites = {g, h}
  Nobody = nobody
  MaxParts = 3
  MaxCalls = 1
  NestChains = TRUE
SPECIFICATION Spec
INVARIANTS PerformedInOrder
CHECK_DEADLOCK FALSE
SYMMETRY Symmetry
