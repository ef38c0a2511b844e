SPECIFICATION Spec
CONSTANTS
  Bills = {b1}
  Coupons = {c1}
  Payments = {p1, p2}
  Requests = {r1, r2}
  Workers = {}
  None = None
SYMMETRY Symmetry
CHECK_DEADLOCK FALSE
INVARIANTS
  TypeOK
  LedgersAgree
  CouponAccounted
  AckedIsCredited
  PaidIsNotWrittenOff
  CollectedOnce
PROPERTIES
  FinalIsFinal
  ImplementsLedger
