SPECIFICATION MCSpec
CONSTANTS
  Clients = {c1, c2}
  Sessions = {s1, s2}
  Processes = {p1, p2}
  MaxSessions = 1
  MaxClock = 2
  MaxVersion = 1
SYMMETRY Interchange
INVARIANT
  TypeOK
PROPERTY
  ImplementsRegister
