SPECIFICATION Spec
CONSTANTS
  Order <- OneOrder
  Task <- OneTask
  Proc <- ThreeProcs
  NoProc = NoProc
  c1 = c1
  c2 = c2
  t1 = t1
  t2 = t2
  RowSize = 2
  MaxOwn = 1
  MaxCrash = 1
  PidInTime = FALSE
  WindowShut = FALSE
INVARIANTS
  FilesKept
CHECK_DEADLOCK FALSE
