CONSTANTS
  Instructors = {i1}
  Learners = {l1, l2}
  SessionIds = {s1, s2}
  Txns = {t1, t2}
  None = None
  Ops = {"book"}
  LastHour = 3
  Lengths = {1}
  WindowStart = 0
  WindowEnd = 3
  Slot = 1
  Buffer = 1
  DbBuffer = 1
  MaxBlocks = 0
SPECIFICATION Spec
SYMMETRY Symmetry
INVARIANTS OfferedIsBookable
CHECK_DEADLOCK FALSE
