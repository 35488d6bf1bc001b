SPECIFICATION FairSpec
CONSTANTS
  Deliveries = {d1}
  i1 = i1
  Ids <- MCIds
  Contracts <- AllShapes
  NoCommit = NoCommit
  Foreign = Foreign
INVARIANTS
  LeftoverReported
  PublishedOnlyAfterCleanup
  VerdictSound
PROPERTIES
  NoRemovalUnderCommand
  EvidenceKept
  EveryDeliveryEnds
CHECK_DEADLOCK FALSE
