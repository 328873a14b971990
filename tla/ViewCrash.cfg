CONSTANTS
  a = a
  b = b
  n = n
  Others <- MCOthers
  Self = n
  NumRings = 1
  Hash <- MCHash
  MaxEpoch = 2
  EnabledRings <- MCEnabled
  Notes <- NotesOfBoth
  Accusations <- AccsOfA
  Contacts = {b}
  PingLimit = 2
  Crashed = {a}
  Gossipers = {"gossip"}
  Spreaders = {}
  Monitors = {"monitor"}
  Checkers = {"timeouts"}
SPECIFICATION FairSpec
PROPERTIES
  CrashedLeaves
