SPECIFICATION AfterSpec
CONSTANTS
  Payments = {p1}
  WithCoupon = {p1}
  Handlers = {h1, h2}
  Clerks = {c1}
  Jobs = {}
  Take = 1
  None = None
  Generated = {water}
  Imported = {parking}
  Last = 3
  Requests = {h1, h2}
  Absent = Absent
  Trades = {z1}
  Reconcilers = {h1, h2}
  ProcessIds = {n1, n2}
  Unowned = Unowned
SYMMETRY Symmetry
CHECK_DEADLOCK FALSE
INVARIANTS
  AfterTypeOK
  LedgersAgree
  CouponGivenBackOnce
  InvoiceIsVoidedUnlessCrossed
  OneLiveUnlessForgotten
  CompletedIsItemisedUnlessOverlapped
PROPERTIES
  ImplementsMoneyBack
  DecisionsAreKept
