SPECIFICATION Spec
CONSTANTS
  SafeTools = {"read"}
  UnsafeTools = {"write"}
  Grants = {"write"}
  AllowList = {}
  MaxRound = 3
  MaxCalls = 4
CHECK_DEADLOCK FALSE
INVARIANTS
  TypeOK
  RoundAnswered
  RunsWithLeave
