CONSTANTS
  Learners = {l1, l2, l3}
  Pair = {l1, l2}
  Sessions = {s1, s2}
  Second = s2
  BookingIds = {b1, b2, b3, b4}
  Txns = {t1, t2}
  None = None
  Starts = {1, 2}
  Duration = 1
  RefundHours = 1
  MaxNow = 1
  MaxNet = 0
  Seats = {1}
  Prices = {1}
  Balances = {0, 1}
SPECIFICATION ShapedSpec
SYMMETRY ShapedSymmetry
INVARIANTS TypeOK SeatsNeverOversell SeatIsPaidFor WaitlistIsOrdered BalanceNeverNegative
PROPERTIES FreedSeatIsRefilled PromotedInOrder Implements
CHECK_DEADLOCK FALSE
