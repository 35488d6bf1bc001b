SPECIFICATION Spec
CONSTANTS
  p = p
  q = q
  a = a
  b = b
  Nothing = Nothing
  Paths <- MCPaths
  Contents <- MCContents
  Edits <- MCEdits
  Writable <- MCWritable
  WINDOW = 3
  THRESHOLD = 2
  CONSECUTIVE_BLOCK_LIMIT = 2
SYMMETRY Alike
INVARIANTS
  WindowHolds
  RepeatsEndTheTurn
  RevisionIsTrue
  RefusalsAreHonest
PROPERTY NoBlindOverwrite
CHECK_DEADLOCK FALSE
