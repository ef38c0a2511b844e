-------------------------------- MODULE MCServices --------------------------------
(***************************************************************************)
(* Small instances of the services around payment, each with its own       *)
(* state, for TLC.  They share no variable, so nothing is learnt from      *)
(* their interleavings: a behaviour chooses one of them at the start and   *)
(* takes its steps.                                                        *)
(***************************************************************************)
EXTENDS Notify, Idempotency, CouponClaim, BillImport, CollectionPolicy,
        Binding, Incidents, Meter, Desk, Engine, PayPage, TLC

VARIABLE active  \* the service that takes steps

allVars == <<active, notifyVars, idempotencyVars, couponVars, importVars, policyVars,
             bindingVars, incidentVars, meterVars, deskVars, engineVars, payPageVars>>

Services == {"notify", "idempotency", "coupon", "import", "policy",
             "binding", "incidents", "meter", "desk", "engine", "page"}

\* A step of service s leaves the others alone.
Others(s) ==
  /\ UNCHANGED active
  /\ s # "notify" => UNCHANGED notifyVars
  /\ s # "idempotency" => UNCHANGED idempotencyVars
  /\ s # "coupon" => UNCHANGED couponVars
  /\ s # "import" => UNCHANGED importVars
  /\ s # "policy" => UNCHANGED policyVars
  /\ s # "binding" => UNCHANGED bindingVars
  /\ s # "incidents" => UNCHANGED incidentVars
  /\ s # "meter" => UNCHANGED meterVars
  /\ s # "desk" => UNCHANGED deskVars
  /\ s # "engine" => UNCHANGED engineVars
  /\ s # "page" => UNCHANGED payPageVars

Some(S) == CHOOSE x \in S : TRUE

\* Where the start of a service is open it is fixed for those that take no steps.
ServicesInit ==
  /\ active \in Services
  /\ NotifyInit /\ BindingInit /\ IncidentInit /\ MeterInit /\ DeskInit /\ PayPageInit
  /\ IdempotencyInit
  /\ active # "idempotency" => \A c \in Calls : call[c].key = Some(Keys) /\ call[c].payload = Some(Payloads)
  /\ CouponInit
  /\ active # "coupon" => totalQty = Some(Quantities) /\ \A c \in Claims : claim[c].owner = Some(Customers)
  /\ ImportInit
  /\ active # "import" => /\ \A h \in Residences : ruleBill[h] = "NONE"
                          /\ \A r \in Requests : request[r].file = Some(Files)
  /\ PolicyInit
  /\ active # "policy" => paused = {}
  /\ EngineInit
  /\ active # "engine" => input = Some(AmountInputs)

-----------------------------------------------------------------------------
NotifyStep ==
  \/ \E e \in Topics :
       \/ active = "notify" /\ Enqueue(e) /\ Others("notify")
       \/ active = "notify" /\ LeaseExpires(e) /\ Others("notify")
       \/ active = "notify" /\ BecomesDue(e) /\ Others("notify")
  \/ \E w \in Dispatchers :
       \/ active = "notify" /\ Sweep(w) /\ Others("notify")
       \/ active = "notify" /\ ClaimBatch(w) /\ Others("notify")
       \/ active = "notify" /\ CloseEvent(w) /\ Others("notify")
       \/ active = "notify" /\ Report(w) /\ Others("notify")
  \/ \E r \in Reminders : active = "notify" /\ EndReminder(r) /\ Others("notify")
  \/ \E r \in Reminders, e \in Topics : active = "notify" /\ Remind(r, e) /\ Others("notify")
  \/ \E s \in Senders :
       \/ active = "notify" /\ StartTopic(s) /\ Others("notify")
       \/ active = "notify" /\ ReadRecipients(s) /\ Others("notify")
       \/ active = "notify" /\ SendMessage(s) /\ Others("notify")
       \/ active = "notify" /\ SendDenied(s) /\ Others("notify")
       \/ active = "notify" /\ SendFails(s) /\ Others("notify")
       \/ active = "notify" /\ LogSent(s) /\ Others("notify")
       \/ active = "notify" /\ Throw(s) /\ Others("notify")
       \/ active = "notify" /\ Crash(s) /\ Others("notify")

IdempotencyStep ==
  \/ \E c \in Calls :
       \/ active = "idempotency" /\ FindRecord(c) /\ Others("idempotency")
       \/ active = "idempotency" /\ CreateRecord(c) /\ Others("idempotency")
       \/ active = "idempotency" /\ RereadRecord(c) /\ Others("idempotency")
       \/ active = "idempotency" /\ DoWork(c) /\ Others("idempotency")
       \/ active = "idempotency" /\ Complete(c) /\ Others("idempotency")
       \/ active = "idempotency" /\ CompleteThrows(c) /\ Others("idempotency")
       \/ active = "idempotency" /\ Fail(c) /\ Others("idempotency")
       \/ active = "idempotency" /\ Die(c) /\ Others("idempotency")

CouponStep ==
  \/ \E c \in Claims :
       \/ active = "coupon" /\ SoldOut(c) /\ Others("coupon")
       \/ active = "coupon" /\ Grant(c) /\ Others("coupon")
       \/ active = "coupon" /\ SeqTaken(c) /\ Others("coupon")
       \/ active = "coupon" /\ CodeTaken(c) /\ Others("coupon")
       \/ active = "coupon" /\ ClaimThrows(c) /\ Others("coupon")
  \/ \E c \in Claims, o \in Customers : active = "coupon" /\ BeginClaim(c, o) /\ Others("coupon")
  \/ \E n \in Quantities : active = "coupon" /\ SetStock(n) /\ Others("coupon")

ImportStep ==
  \/ \E r \in Requests :
       \/ active = "import" /\ Validate(r) /\ Others("import")
       \/ active = "import" /\ InsertBatch(r) /\ Others("import")
       \/ active = "import" /\ ImportFails(r) /\ Others("import")
       \/ active = "import" /\ PublishImport(r) /\ Others("import")
       \/ active = "import" /\ CancelImport(r) /\ Others("import")
  \/ \E h \in Residences : active = "import" /\ PayRuleBill(h) /\ Others("import")
  \/ \E h \in Residences, status \in PaidOrBack :
       active = "import" /\ RefundRuleBill(h, status) /\ Others("import")
  \/ \E h \in Residences, r \in Requests : active = "import" /\ PayImported(r, h) /\ Others("import")

PolicyStep ==
  \/ \E l \in Layers : active = "policy" /\ SetPolicy(l) /\ Others("policy")
  \/ \E o \in Orders :
       \/ active = "policy" /\ CheckLayer(o) /\ Others("policy")
       \/ active = "policy" /\ CommitOrder(o) /\ Others("policy")
       \/ active = "policy" /\ OrderRollsBack(o) /\ Others("policy")

BindingStep ==
  \/ active = "binding" /\ SetConfig /\ Others("binding")
  \/ \E u \in Users :
       \/ active = "binding" /\ Revoke(u) /\ Others("binding")
       \/ active = "binding" /\ DeleteAccount(u) /\ Others("binding")
  \/ \E h \in Handlers :
       \/ active = "binding" /\ MatchContacts(h) /\ Others("binding")
       \/ active = "binding" /\ ReadExisting(h) /\ Others("binding")
       \/ active = "binding" /\ ReadBinding(h) /\ Others("binding")
       \/ active = "binding" /\ WriteBinding(h) /\ Others("binding")
       \/ active = "binding" /\ ReleaseMatch(h) /\ Others("binding")
       \/ active = "binding" /\ NoHolder(h) /\ Others("binding")
       \/ active = "binding" /\ Apply(h) /\ Others("binding")
       \/ active = "binding" /\ ReadApplicant(h) /\ Others("binding")
       \/ active = "binding" /\ GrantContact(h) /\ Others("binding")
       \/ active = "binding" /\ CommitGrant(h) /\ Others("binding")
       \/ active = "binding" /\ CommitRemoval(h) /\ Others("binding")
       \/ active = "binding" /\ HandlerDies(h) /\ Others("binding")
  \/ \E h \in Handlers, p \in Phones :
       \/ active = "binding" /\ AddContact(h, p) /\ Others("binding")
       \/ active = "binding" /\ RemoveContact(h, p) /\ Others("binding")
       \/ active = "binding" /\ ImportContact(h, p) /\ Others("binding")
  \/ \E h \in Handlers, u \in Users :
       \/ active = "binding" /\ BeginApply(h, u) /\ Others("binding")
       \/ active = "binding" /\ FindHolder(h, u) /\ Others("binding")
  \/ \E h \in Handlers, u \in Users, approve \in BOOLEAN : active = "binding" /\ Review(h, u, approve) /\ Others("binding")
  \/ \E h \in Handlers, u \in Users, p \in Phones : active = "binding" /\ BindPhone(h, u, p) /\ Others("binding")

IncidentsStep ==
  \/ \E e \in Emitters :
       \/ active = "incidents" /\ FindAlert(e) /\ Others("incidents")
       \/ active = "incidents" /\ WriteAlert(e) /\ Others("incidents")
       \/ active = "incidents" /\ FindIncident(e) /\ Others("incidents")
       \/ active = "incidents" /\ WriteIncident(e) /\ Others("incidents")
       \/ active = "incidents" /\ SetAlertStatus(e) /\ Others("incidents")
       \/ active = "incidents" /\ EmitterDies(e) /\ Others("incidents")
  \/ \E e \in Emitters, ok \in BOOLEAN : active = "incidents" /\ Deliver(e, ok) /\ Others("incidents")
  \/ \E a \in Operators : active = "incidents" /\ Transit(a) /\ Others("incidents")
  \/ \E a \in Operators, status \in {"ACKNOWLEDGED", "RESOLVED"} : active = "incidents" /\ LoadIncident(a, status) /\ Others("incidents")

MeterStep ==
  \/ \E r \in Readers :
       \/ active = "meter" /\ ReadNext(r) /\ Others("meter")
       \/ active = "meter" /\ CheckBilled(r) /\ Others("meter")
       \/ active = "meter" /\ WriteReading(r) /\ Others("meter")
       \/ active = "meter" /\ UpdateNext(r) /\ Others("meter")
       \/ active = "meter" /\ ReaderDies(r) /\ Others("meter")
  \/ \E r \in Readers, p \in Periods, v \in Figures : active = "meter" /\ BeginReading(r, p, v) /\ Others("meter")
  \/ \E p \in Periods :
       \/ active = "meter" /\ ReadUsage(p) /\ Others("meter")
       \/ active = "meter" /\ CancelUsage(p) /\ Others("meter")
  \/ \E p \in Periods, u \in Figures :
       \/ active = "meter" /\ InsertBill(p, u) /\ Others("meter")
       \/ active = "meter" /\ RunDies(p, u) /\ Others("meter")

DeskStep ==
  \/ \E c \in Clients :
       \/ active = "desk" /\ Update(c) /\ Others("desk")
       \/ active = "desk" /\ ClientGivesUp(c) /\ Others("desk")
  \/ \E c \in Clients, m \in Moves : active = "desk" /\ Look(c, m) /\ Others("desk")
  \/ active = "desk" /\ DayEnds /\ Others("desk")
  \/ active = "desk" /\ LazyExpire /\ Others("desk")

EngineStep ==
  \/ active = "engine" /\ AllocateShare /\ Others("engine")
  \/ active = "engine" /\ CalcOne /\ Others("engine")

PageStep ==
  \/ active = "page" /\ SubmitPay /\ Others("page")
  \/ active = "page" /\ CreateFails /\ Others("page")
  \/ active = "page" /\ OpenCashier /\ Others("page")
  \/ active = "page" /\ OrderInDoubt /\ Others("page")
  \/ active = "page" /\ Pays /\ Others("page")
  \/ active = "page" /\ CashierFails /\ Others("page")
  \/ active = "page" /\ CancelAnswered /\ Others("page")
  \/ active = "page" /\ CancelLost /\ Others("page")
  \/ \E k \in RequestIds :
       \/ active = "page" /\ Receive(k) /\ Others("page")
       \/ active = "page" /\ Decide(k) /\ Others("page")
  \/ \E k \in RequestIds, outcome \in {"PARAMS", "UNKNOWN", "FAILED"} : active = "page" /\ Prepay(k, outcome) /\ Others("page")

ServicesNext ==
  \/ NotifyStep \/ IdempotencyStep \/ CouponStep \/ ImportStep
  \/ PolicyStep \/ BindingStep \/ IncidentsStep
  \/ MeterStep \/ DeskStep \/ EngineStep \/ PageStep

ServicesSpec == ServicesInit /\ [][ServicesNext]_allVars

-----------------------------------------------------------------------------
(* Values of the constants *)

CheckedLayers == <<"platform", "tenant", "community">>
HousesOfFile == [f \in Files |-> IF f = "both" THEN Residences ELSE {Some(Residences)}]
SomePools   == {0, 1, 7, 100, 101}
SomePrices  == {15, 49, 140}
SomeAmounts == {33, 10024, 13070}

\* Every variable of the service that takes steps has its type.
ServicesTypeOK ==
  /\ active \in Services
  /\ active = "notify" => NotifyTypeOK
  /\ active = "idempotency" => IdempotencyTypeOK
  /\ active = "coupon" => CouponTypeOK
  /\ active = "import" => ImportTypeOK
  /\ active = "policy" => PolicyTypeOK
  /\ active = "binding" => BindingTypeOK
  /\ active = "incidents" => IncidentTypeOK
  /\ active = "meter" => MeterTypeOK
  /\ active = "desk" => DeskTypeOK
  /\ active = "engine" => EngineTypeOK
  /\ active = "page" => PayPageTypeOK

\* The same two people read meters, work at the desk and decide on bindings, and are
\* interchangeable in every property; so are the phone numbers.
Symmetry == Permutations(Clients) \cup Permutations(Phones)
=============================================================================
