CONSTANTS
  Users = {u1}
  PaymentIds = {p1}
  Txns = {t1, t2}
  None = None
  Copies = 2
  Outcomes = {"paid"}
  MaxFailures = 1
  LateFailures = FALSE
SPECIFICATION FairSpec
PROPERTIES PaidIsCredited
CHECK_DEADLOCK FALSE
