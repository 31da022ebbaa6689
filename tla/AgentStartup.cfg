SPECIFICATION StartupFairSpec
CONSTANTS
  Worlds <- MCWorlds
  Roots <- MCRoots
  MaxEdits = 1
  MaxPrompts = 2
  Interval = 5
  SlowDown = 5
  ExpiresIn = 12
  Waits = {0, 4}
INVARIANTS StartupTypeOK ConfigExact AssetsExact
PROPERTY StartsSettle
CHECK_DEADLOCK FALSE
