SPECIFICATION Spec
CONSTANTS
  notes = notes
  code = code
  Files = {notes, code}
  Ranges = {"all", "part"}
  Sizes = {1, 2}
  MaxEntries = 2
  MaxBytes = 2
  KeepRecent = 1
  MaxWrites = 2
  MaxClock = 1
  MaxCalls = 3
  None = None
SYMMETRY MCSymmetry
CHECK_DEADLOCK FALSE
INVARIANTS
  TypeOK
  CacheAgreesWithModel
