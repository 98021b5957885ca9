SPECIFICATION FairSpec
CONSTANTS
  None = None
  MaxChunk = 6
  MaxLog = 2
  Scripts <- Asked
INVARIANTS
  AnswersFit
  BrokenEarly
  LaunchedRuns
PROPERTIES
  BodyAsAnnounced
  Answered
CHECK_DEADLOCK FALSE
