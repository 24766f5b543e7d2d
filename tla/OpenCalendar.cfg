CONSTANTS
  Instructors = {i1}
  Learners = {l1}
  SessionIds = {s1, s2}
  Txns = {t1, t2}
  None = None
  Ops = {"book", "cancel_booking", "create", "draft", "resize", "publish", "update"}
  LastHour = 3
  Lengths = {1, 2}
  WindowStart = 0
  WindowEnd = 3
  Slot = 1
  Buffer = 1
  DbBuffer = 1
  MaxBlocks = 1
SPECIFICATION Spec
SYMMETRY Symmetry
INVARIANTS NobodyTwiceAtOnce
CHECK_DEADLOCK FALSE
