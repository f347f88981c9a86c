SPECIFICATION Spec
CONSTANTS
  Sites <- TwoFiles
  Tables <- NoneOrStop
  MaxDepth = 2
  Rerun = TRUE
  Trappable = TRUE
  StrictClient = TRUE
INVARIANT CapturedFramesAreLive
