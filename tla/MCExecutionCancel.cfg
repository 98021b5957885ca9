SPECIFICATION FairSpec
CONSTANTS
  Nid <- StallNid
  Root = "0"
  Kids <- StallKids
  Inst <- StallInst
  Anc <- StallAnc
  NoNid = NoNid
  MaxFiles = 1
PROPERTIES
  CancelledTerminates
CHECK_DEADLOCK FALSE
