SPECIFICATION Spec
CONSTANTS
  Nid <- MixedNid
  Root = "0"
  Kids <- MixedKids
  Inst <- MixedInst
  Anc <- MixedAnc
  NoNid = NoNid
  MaxFiles = 2
INVARIANTS
  TokenUnique
  OneChildAtATime
  NoReplyLost
  
  NeverStuck
  NoTimerLeftBehind
PROPERTIES
  TokensGoToParent
CHECK_DEADLOCK FALSE
