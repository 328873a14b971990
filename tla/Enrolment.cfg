SPECIFICATION ESpec
CONSTANTS
  Serials <- MCSerials
  CaSerials <- MCSerials
  RingNumbers = {1, 3}
  GroupRings = {1, 3}
  NumBootNodes = 2
  Ids = {a, b, c}
  CertIds = {a, b, c}
  Nil = nil
  Handlers = {h1, h2}
  MaxRuns = 3
  MaxKeys = 2
  MaxFaults = 1
SYMMETRY Symmetric
INVARIANTS
  TrustedIsListed IdsDistinct RingsAgree SavedBeforeServing NamesThisRun
   IdentityIsStable AnswersCovered
CHECK_DEADLOCK FALSE
