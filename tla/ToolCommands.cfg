SPECIFICATION MCSpec
CONSTANTS
  MaxChunks = 1
  HookConfigs <- MCHookConfigs
  Skills = {"lint", "remote", "greedy", "forked", "spy"}
  SkillOf <- MCSkillOf
  Denied = {}
  Allowed = {"lint", "spy"}
  AutoApprove = FALSE
  Files = {"code", "notes"}
  MaxCalls = 2
CHECK_DEADLOCK FALSE
INVARIANTS
  TypeOK
  ResultIsTrue
  OnlyPassedCallsRun
  SkillsStayBounded
PROPERTY
  CommandReturns
