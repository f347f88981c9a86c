SPECIFICATION Spec
CONSTANTS
  Fighters = {1, 2, 3}
  Team <- MCTeam
  Summoner <- MCSummoner
  Pins <- MCPins
  Armed = {1}
  Areas <- MCAreas
  MaxTurns = 2
  MaxUses = 3
  Items <- MCItems
  MaxLife = 2
  MaxAmount = 1
  MaxValue = 2
  MaxEffects = 3
INVARIANTS TypeOK ListsAgree TotalsAreTheEffects TheDeadLaunchNothing
PROPERTY DeadStayDead
