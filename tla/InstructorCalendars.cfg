CONSTANTS
  Instructors = {i1, i2}
  Learners = {i1, i2}
  SessionIds = {s1, s2}
  Txns = {t1, t2}
  None = None
  Ops = {"book", "create", "move", "block"}
  LastHour = 2
  Lengths = {1}
  WindowStart = 0
  WindowEnd = 2
  Slot = 1
  Buffer = 1
  DbBuffer = 1
  MaxBlocks = 1
SPECIFICATION Spec
SYMMETRY Symmetry
INVARIANTS CInv CalendarKept  OffersAgree
CHECK_DEADLOCK FALSE
