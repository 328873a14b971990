CONSTANTS
  a = a
  b = b
  c = c
  d = d
  Nodes <- MCNodes
  NumRings = 1
  Hash <- MCHash
  Founders <- MCFounders
  Contacts <- MCContacts
  TextIds = {}
  PingLimit = 1
  Crashers = {c}
  MaxFaults = 1
  MaxRounds = 2
SPECIFICATION FairSpec
INVARIANTS AccusationCurrent  NotesArePublished
 
