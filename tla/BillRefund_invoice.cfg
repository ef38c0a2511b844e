SPECIFICATION Spec
CONSTANTS
  Payments = {p1}
  WithCoupon = {}
  Handlers = {h1, h2}
  Clerks = {c1}
  Jobs = {}
  Take = 1
  None = None
CHECK_DEADLOCK FALSE
INVARIANTS
  InvoiceIsVoided
