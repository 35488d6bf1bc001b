SPECIFICATION Spec
CONSTANTS
  Deliveries = {d1, d2}
  i1 = i1
  Ids <- MCIds
  Contracts <- Bare
  NoCommit = NoCommit
  Foreign = Foreign
CONSTRAINT RaceBounds
SYMMETRY Symmetry
INVARIANTS
  AnnouncedIffPublished
PROPERTIES
  ImplementsStore
CHECK_DEADLOCK FALSE
