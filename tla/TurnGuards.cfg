SPECIFICATION FairSpec
CONSTANTS
  Failures = {"a", "b"}
  Malformed = {"x", "y"}
  None = None
  MaxTurns = 13
  MalformedLimit = 3
  FailureLimits = {0, 3}
CHECK_DEADLOCK FALSE
INVARIANTS
  TypeOK
  BreakersExact
PROPERTY
  RunEnds
