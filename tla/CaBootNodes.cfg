SPECIFICATION Spec
CONSTANTS
  Serials <- MCSerials
  RingNumbers = {1, 3}
  NumBootNodes = 2
  Ids = {a, b, c, d}
  Nil = nil
  Handlers = {h1, h2}
  MaxRuns = 2
SYMMETRY Symmetric
INVARIANT StoresBootNodes
CHECK_DEADLOCK FALSE
