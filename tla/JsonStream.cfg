SPECIFICATION FairSpec
CONSTANTS
  m1 = m1
  m2 = m2
  t1 = t1
  t2 = t2
  MsgIds = {m1, m2}
  CallIds = {t1, t2}
  CallCategory <- MCCategory
  AllowListed = {}
  Updates <- MCUpdates
  Servers = {"srv"}
  Kinds = {"message", "approve", "deny", "set_mode", "set_config", "add_mcp", "stop", "ping", "init_history", "eof"}
  MaxCommands = 3
  MaxRound = 2
  Waiters = {"engine"}
  None = None
CHECK_DEADLOCK FALSE
INVARIANTS
  TypeOK
  OnlyApprovedCallsRun
  PendingOnlyWhileWaiting
  EveryStreamEndsOnce
  WaiterHasOneSender
PROPERTIES
  SettingsAsAnnounced
  ImplementsAuthority
  ClientIsServed
