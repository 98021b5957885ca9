SPECIFICATION FairSpec
CONSTANTS
  Nid <- EndingNid
  Root = "0"
  Kids <- EndingKids
  Inst <- EndingInst
  Anc <- EndingAnc
  NoNid = NoNid
  MaxFiles = 1
PROPERTIES
  FlowTerminates
CHECK_DEADLOCK FALSE
