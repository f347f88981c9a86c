SPECIFICATION FairStepSpec
CONSTANTS
  Sites <- TwoLines
  Tables <- FirstLineTables
  MaxDepth = 2
  Rerun = TRUE
  Trappable = FALSE
  StrictClient = TRUE
INVARIANTS
  TypeOK
  ToldIsStopped
  OverLeavesNothing
PROPERTIES
  StepOutStopsAfterReturn
  StepOverSkipsCallees
  ImplementsStopProtocol
