SPECIFICATION Spec
CONSTANTS
  Sessions = {1, 2}
  MaxLaunches = 2
CHECK_DEADLOCK FALSE
INVARIANTS LiveSessionKeepsItsHook HeldIsAnswerable OverLeavesNoHook
