CONSTANTS
  a = a
  b = b
  n = n
  Others <- MCOthers
  Self = n
  NumRings = 2
  Hash <- MCHash
  MaxEpoch = 2
  EnabledRings <- MCEnabled
  Notes <- NotesOfA
  Accusations <- AccsOfA
  Contacts = {b}
  PingLimit = 1
  Crashed = {}
  Gossipers = {"gossip"}
  Spreaders = {"spread"}
  Monitors = {"monitor"}
  Checkers = {"timeouts"}
SPECIFICATION FairSpec
PROPERTIES
  AddedBackUnaccused
