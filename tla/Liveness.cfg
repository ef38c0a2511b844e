SPECIFICATION LivenessSpec
CONSTANTS
  Payments = {p1}
  WithCoupon = {}
  Handlers = {h1}
  Clerks = {}
  Jobs = {j1}
  Take = 1
  None = None
  Topics = {t1}
  Owners = {o1}
  Dispatchers = {w1, w2}
  Reminders = {}
  BatchSize = 1
  MaxAttempts = 2
  Nobody = Nobody
  NoTopic = NoTopic
CHECK_DEADLOCK FALSE
PROPERTIES
  RefundsEnd
  EventIsClosed
