SPECIFICATION FairSpec
CONSTANT Grace <- MCGrace
INVARIANTS
  SafeMeansGone
  NoPiLeftBehind
PROPERTIES
  SignalReachesPi
  TeardownEnds
CHECK_DEADLOCK FALSE
