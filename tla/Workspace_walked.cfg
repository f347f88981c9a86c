SPECIFICATION Spec
CONSTANTS
  Paths = {"main", "game", "lib"}
  Project = {"main", "game"}
  Sources = {"main"}
  Texts = {"plain", "uses"}
  Includes <- MCIncludes
  FirstDisks <- MCDisks
  Moves <- MCMoves
  Orderly = TRUE
  MaxChanges = 1
CHECK_DEADLOCK FALSE
PROPERTY WalkedTextIsDisk
