SPECIFICATION FairSpec
CONSTANTS
  Calls = {c1, c2}
  Peers = {p}
  Workers = 1
  Readers = {c1}
  MaxDials = 2
  None = none
PROPERTY Answered
CHECK_DEADLOCK FALSE
