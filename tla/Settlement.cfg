CONSTANTS
  Users = {u1}
  PaymentIds = {p1, p2}
  Txns = {t1, t2}
  None = None
  Copies = 1
  Outcomes = {"paid", "paid_other"}
  MaxFailures = 1
  LateFailures = TRUE
SPECIFICATION Spec
SYMMETRY Symmetry
INVARIANTS AInv GrantedOnce RewardedOnce
PROPERTIES PaidIsFinal RecordedMeansApplied
CHECK_DEADLOCK FALSE
