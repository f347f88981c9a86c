SPECIFICATION Spec
CONSTANTS
  Width = 4
  Height = 1
  Zone = 2
  Summons <- BulbsAndPlants
  SUMMON_LIMIT = 1
  MAX_TURNS = 2
  MaxFighters = 3
  MaxPath = 2
  MaxCalls = 2
INVARIANT EntityOnIsLiving
