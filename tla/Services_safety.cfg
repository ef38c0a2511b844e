SPECIFICATION ServicesSpec
CONSTANTS
  Topics = {t1}
  Owners = {o1}
  Dispatchers = {w1, w2}
  Reminders = {r1}
  BatchSize = 1
  MaxAttempts = 2
  Nobody = Nobody
  NoTopic = NoTopic
  Calls = {q1, q2, q3}
  Keys = {k1}
  Payloads = {x, y}
  NoCall = NoCall
  Customers = {o1, o2}
  Claims = {d1, d2}
  PerUserLimit = 2
  MaxStock = 2
  Requests = {i1, i2}
  Files = {"both", "one"}
  Residences = {h1, h2}
  RowsOf <- HousesOfFile
  Layers = {"platform", "tenant", "community"}
  Checked <- CheckedLayers
  Orders = {s1, s2}
  Users = {u1}
  Phones = {p1, p2}
  Handlers = {a1, a2}
  NoPhone = NoPhone
  NoUser = NoUser
  Emitters = {e1, e2}
  Operators = {b1}
  MaxOccurrences = 3
  LastPeriod = 2
  MaxValue = 2
  RunsAtOnce = 1
  Readers = {a1, a2}
  Clients = {a1, a2}
  Homes = {h1, h2, h3}
  Areas = {0, 1, 2, 5}
  Pools <- SomePools
  Prices <- SomePrices
  Amounts <- SomeAmounts
  Months = {1, 12}
  MaxRequests = 3
SYMMETRY Symmetry
CHECK_DEADLOCK FALSE
INVARIANTS
  ServicesTypeOK
  SentOnceUnlessExcused
  IdempotentCalls
  ClaimsAreCounted
  ImportIsSound
  PausedTakesNoOrder
  FailuresStayVisible
  EndsOnceUnlessOvertaken
  AmountsAreExact
  PaymentIsClear
  BindingFollowsContactsUnlessCrossed
  UsageAddsUpUnlessDoubtful
PROPERTIES
  ClosedIsFinal
  DecisionIsNotOverruledUnlessCrossed
