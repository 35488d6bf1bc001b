SPECIFICATION Spec
CONSTANTS
  Lines = 2
  Messages = 2
  Room = 1
  Stalls = 1
  Wants = {"patch", "transcript"}
INVARIANTS
  LinesStayTogether
  OneLineSpoiltAtMost
  ReturnIsHonest
  ArtifactsPrecedeVerdict
  LeftoversAreNamed
PROPERTIES
  TakesOnlyFreePaths
  AttemptEnds
CHECK_DEADLOCK FALSE
