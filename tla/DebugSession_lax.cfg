SPECIFICATION FairSpec
CONSTANTS
  Sites <- OneSite
  Tables <- NoneOrStop
  MaxDepth = 2
  Rerun = FALSE
  Trappable = TRUE
  StrictClient = FALSE
INVARIANT ParkedIsAnswerable
PROPERTIES
  NoClaimAfterDetach
  DetachFreesTheDebuggee
  ReleasedDebuggeeLeaves
