SPECIFICATION SessionSpec
CONSTANTS
  MaxGeneration <- MCMaxGeneration
  MaxResumes <- MCMaxResumes
  Timeout = 2
  Floor = 1
  Deadline = 5
INVARIANTS
  EndsJudged
  FollowUpsBounded
  PassIsEarned
  DeadlineIsForStartup
PROPERTIES
  AskedIsAnswered
  ToldOncePerGeneration
  SteerIsDeserved
CHECK_DEADLOCK FALSE
