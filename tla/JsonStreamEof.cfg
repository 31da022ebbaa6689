SPECIFICATION FairSpec
CONSTANTS
  m1 = m1
  m2 = m2
  t1 = t1
  t2 = t2
  MsgIds = {m1}
  CallIds = {t1, t2}
  CallCategory <- MCCategory
  AllowListed = {}
  Updates = {}
  Servers = {}
  Kinds = {"message", "approve", "deny", "stop", "ping", "eof"}
  MaxCommands = 3
  MaxRound = 2
  Waiters = {"engine"}
  None = None
CHECK_DEADLOCK FALSE
PROPERTY
  ExitsAfterEof
