SPECIFICATION McpFairSpec
CONSTANTS
  child = child
  stream = stream
  added = added
  Conns = {child, stream, added}
  Deployments <- MCDeployments
  ServerName <- MCServerName
  Transport <- MCTransport
  Offers = {{"x", "Read", "Skill"}}
  Builtin = {"Read"}
  LateBuiltin = {"Skill"}
  MaxRequests = 4
  MaxFaults = 1
  Nil = Nil
CHECK_DEADLOCK FALSE
INVARIANTS
  McpTypeOK
  AnswerIsOwn
  PlainNamesUnique
PROPERTY
  NoWaitOfItsOwn
