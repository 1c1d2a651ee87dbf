CONSTANTS
  Delayables = {a, b, c, d}
  Composites = {g, h}
  Nobody = nobody
  MaxParts = 3
  MaxCalls = 1
  NestChains = FALSE
SPECIFICATION Spec
INVARIANTS TypeOK PerformedInOrder NeverStuck
CHECK_DEADLOCK FALSE
SYMMETRY Symmetry
