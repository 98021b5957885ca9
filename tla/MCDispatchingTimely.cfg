SPECIFICATION FairSpec
CONSTANTS
  Order <- TwoOrders
  Task <- OneTask
  Proc <- FiveProcs
  NoProc = NoProc
  c1 = c1
  c2 = c2
  t1 = t1
  t2 = t2
  RowSize = 2
  MaxOwn = 1
  MaxCrash = 1
  PidInTime = TRUE
  WindowShut = TRUE
INVARIANTS
  OneExecutor
  ProcessedPersisted
PROPERTIES
  
  MessagesTaken
CHECK_DEADLOCK FALSE
