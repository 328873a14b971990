CONSTANTS
  Ids <- MCIds
  self = 3
  None = None
SPECIFICATION RSSpec
INVARIANTS
  ListMatchesMap
  NeighboursAreNearest
  AcceptsItsNeighbours
  AnswersAgree
PROPERTIES
  Terminates
  ImplementsRing
  ImplementsRingSet
