CONSTANTS
  Learners = {l1, l2}
  Sessions = {s1}
  BookingIds = {b1, b2}
  Txns = {t1, t2}
  None = None
  Starts = {1}
  Duration = 1
  RefundHours = 0
  MaxNow = 3
  MaxNet = 0
  Seats = {1}
  Prices = {1}
  Balances = {1}
  AdminOps = {"cancel_session", "delete", "publish", "complete", "adjust"}
  MaxBalance = 1
  Adjustments <- MCAdjustments
SPECIFICATION AdminSpec
SYMMETRY Symmetry
INVARIANTS IInv SeatInv
PROPERTIES CancelledIsFinal
CHECK_DEADLOCK FALSE
