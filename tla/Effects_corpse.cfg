SPECIFICATION Spec
CONSTANTS
  Fighters = {1, 2, 3}
  Team <- MCTeam
  Summoner <- MCSummoner
  Pins <- MCPins
  Armed = {}
  Areas <- MCAreas
  MaxTurns = 4
  MaxUses = 3
  Items <- MCDoping
  MaxLife = 2
  MaxAmount = 2
  MaxValue = 2
  MaxEffects = 3
INVARIANT TheDeadCarryNothing
