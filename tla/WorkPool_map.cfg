SPECIFICATION FairSpec
CONSTANTS
  Indices <- ShuffledList
  Jobs = 3
  Batch = 2
  Keeps <- EvenAndNine
  Panics <- SevenOrTwo
  SpawnFails = TRUE
  Modulus = 16
INVARIANTS
  TypeOK
  ClaimsAreDisjoint
  ResultIsSerial
  PanicIsRaised
PROPERTY MapEnds
