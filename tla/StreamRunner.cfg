CONSTANTS
  Bodies <- MCBodies
  MaxChunk = 5
  Capacity = 2
SPECIFICATION FairSpec
INVARIANTS TypeOK OneResponseWhole HeardAsMeant SendsBounded
PROPERTY RequestEnds
CHECK_DEADLOCK FALSE
