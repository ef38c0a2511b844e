SPECIFICATION FairSpec
CONSTANTS
  Bills = {b1}
  Coupons = {}
  Payments = {p1}
  Requests = {r1, r2}
  Workers = {w1}
  None = None
CHECK_DEADLOCK FALSE
PROPERTIES
  PaidIsCredited
  OccupiedIsReleased
