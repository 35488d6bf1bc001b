SPECIFICATION FairSpec
INVARIANTS
  TypeOK
  RefusedMeansOver
PROPERTIES
  ImplementsStore
  RefusalIsTold
CHECK_DEADLOCK FALSE
