SPECIFICATION FairSpec
CONSTANTS
  Callers = {a}
  Entries = {e1, e2}
  Pausers = {p}
  HandlerStops = TRUE
INVARIANTS NoPanic QuietAfterStop
PROPERTIES StopReturns AllEnd 
CHECK_DEADLOCK FALSE
