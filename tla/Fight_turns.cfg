SPECIFICATION Spec
CONSTANTS
  Width = 4
  Height = 1
  Zone = 2
  Summons <- PlantsOnly
  SUMMON_LIMIT = 1
  MAX_TURNS = 2
  MaxFighters = 4
  MaxPath = 2
  MaxCalls = 2
INVARIANTS
  TypeOK
  OrderIsTheLiving
  CursorFollowsTheActor
  NobodyPlaysTwice
  AwakeningsAreDrained
  BoardAgrees
PROPERTIES
  NobodyIsSkipped
  OneAwakeningPerTurn
