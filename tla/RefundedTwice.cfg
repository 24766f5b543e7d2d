CONSTANTS
  Learners = {l1, l2}
  Sessions = {s1}
  BookingIds = {b1, b2}
  Txns = {t1, t2}
  None = None
  Starts = {1}
  Duration = 1
  RefundHours = 0
  MaxNow = 0
  MaxNet = 0
  Seats = {1}
  Prices = {1}
  Balances = {2}
SPECIFICATION Spec
SYMMETRY Symmetry
INVARIANTS RefundedAtMostOnce
CHECK_DEADLOCK FALSE
