SPECIFICATION FairSpec
CONSTANTS
  n1 = n1
  n2 = n2
  n3 = n3
  NoNid = NoNid
  Nid <- ThreeNids
  Ts <- ThreeTs
  MaxNow = 3
  MaxCrash = 0
PROPERTIES
  MatchingTriggered
CHECK_DEADLOCK FALSE
