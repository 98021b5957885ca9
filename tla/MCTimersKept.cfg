SPECIFICATION FairSpec
CONSTANTS
  n1 = n1
  n2 = n2
  n3 = n3
  NoNid = NoNid
  Nid <- ThreeNids
  Ts <- ThreeTs
  MaxNow = 3
  MaxCrash = 1
INVARIANTS
  IndexIsFresh
  OneLostPerCrash
PROPERTIES
  FiresAsOrdered
  NothingDueIsLeft
  WaitsEnd
CHECK_DEADLOCK FALSE
