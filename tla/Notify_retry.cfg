SPECIFICATION NotifySpec
CONSTANTS
  Topics = {t1}
  Owners = {o1, o2}
  Dispatchers = {w1}
  Reminders = {}
  BatchSize = 1
  MaxAttempts = 2
  Nobody = Nobody
  NoTopic = NoTopic
CHECK_DEADLOCK FALSE
INVARIANT
  FailedIsRetried
