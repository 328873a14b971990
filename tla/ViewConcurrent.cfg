CONSTANTS
  a = a
  b = b
  n = n
  Others <- MCOthers
  Self = n
  NumRings = 4
  Hash <- MCHash
  MaxEpoch = 2
  EnabledRings <- MCEnabled
  Notes <- NotesOfA
  Accusations <- AccsOnRing2
  Contacts = {b}
  PingLimit = 1
  Crashed = {}
  Gossipers = {"gossip"}
  Spreaders = {"spread"}
  Monitors = {"monitor"}
  Checkers = {}
SPECIFICATION Spec
INVARIANTS
  LiveHasNote
  AccusationsNotAhead
  AcceptedOnEnabledRing
PROPERTIES
  NotesOnlyGrow
