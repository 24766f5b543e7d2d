CONSTANTS
  Learners = {l1, l2}
  Sessions = {s1}
  BookingIds = {b1, b2}
  Txns = {t1, t2}
  None = None
  Starts = {1, 2}
  Duration = 1
  RefundHours = 2
  MaxNow = 0
  MaxNet = 0
  Seats = {1, 2}
  Prices = {0, 1}
  Balances = {1}
  AdminOps = {"capacity", "price", "reschedule", "attended"}
  MaxBalance = 1
  Adjustments <- MCAdjustments
SPECIFICATION AdminSpec
SYMMETRY Symmetry
INVARIANTS ClaimInv
PROPERTIES RefundIsAllOrNothing
CHECK_DEADLOCK FALSE
