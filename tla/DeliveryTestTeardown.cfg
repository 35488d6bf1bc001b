SPECIFICATION Spec
CONSTANTS
  Deliveries = {d1}
  i1 = i1
  Ids <- MCIds
  Contracts <- AllShapes
  NoCommit = NoCommit
  Foreign = Foreign
PROPERTY NoRemovalUnderTimedOutTest
CHECK_DEADLOCK FALSE
