SPECIFICATION Spec
CONSTANTS
  Unlimited = Unlimited
  Budgets = {0, 2}
  Shapes = {"ok", "noid", "noname", "neither"}
  MaxCalls = 2
  MaxPerRound = 2
  MaxRuns = 2
  MaxSaveFailures = 1
  MaxCrashes = 1
CHECK_DEADLOCK FALSE
INVARIANTS
  TypeOK
  SavedBeforeAwait
  RequestsPaired
  RunEndsInOrder
