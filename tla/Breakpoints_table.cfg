SPECIFICATION Spec
CONSTANTS
  Files <- MCFiles
  Safepoints <- MCSafepoints
  Requests <- PlainRequests
  MaxId = 4
  MaxHits = 2
CHECK_DEADLOCK FALSE
INVARIANTS
  TypeOK
  VerifiedLineIsArmed
  ArmedIsVerified
  ArmedCountsEveryHit
