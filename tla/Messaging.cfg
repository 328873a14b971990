SPECIFICATION FairSpec
CONSTANTS
  Calls = {c1, c2, c3}
  Peers = {p}
  Workers = 2
  Readers = {c1, c2, c3}
  MaxDials = 3
  None = none
INVARIANTS OpenArePooled 
PROPERTY Answered
CHECK_DEADLOCK FALSE
