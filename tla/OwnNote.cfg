CONSTANTS
  NumRings = 6
  WordSize = 8
  MaxEpoch = 7
SPECIFICATION OwnSpec
INVARIANTS
  CounterIsExact
  PublishedNotesAreValid
  PublishedNotesOverlap
PROPERTIES
  ProtectionNeverShrinks
