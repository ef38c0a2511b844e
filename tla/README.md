# A TLA+ model of the property-fee service

The repository is a property-management SaaS: a NestJS API with a MySQL database
(`apps/api`), an admin web application (`apps/admin`), a WeChat mini program
(`apps/miniprogram`) and shared packages. Its core is the money path: bills are generated
or imported, published, paid through WeChat Pay or at the desk, canceled, refunded,
reissued. Nothing in it holds a lock across a call to WeChat; correctness rests on
conditional `UPDATE`s whose counts are checked, on unique keys and on jobs that ask again.
That is what the modules here model. Where an update asks for the id alone (bindings,
incidents, meter readings, the service desk), nothing protects what was read before it;
there reads and writes are separate steps, in a transaction too.

## 1. Inventory

Paths are below `src/apps/api/src` unless they say otherwise.

| component | state it keeps | operations | talks to | properties that make it correct |
|---|---|---|---|---|
| Payments `payment/payment.service.ts`, `wxpay-*.ts` | `Payment`, `PaymentBill`, `Bill.paymentId` | createPayment, callback, syncWxPay, cancelWxPay, reconcileStaleWxPay, resolveActiveOrder, force-sync | WeChat Pay; coupons; idempotency; bill workflow | a bill has one live order; money taken is credited once; 200 SUCCESS only after credit |
| Payment recovery `payment/payment-recovery.service.ts` | `Payment.lastSyncedAt` (lease) | closeStaleOrders, every 2 minutes | payments | an occupied bill is decided, money is credited without a callback |
| Offline payments `payment/offline-payment.service.ts` | `Payment`, `Refund` | settleOffline, reverseOffline | payments (order closer) | never beside an order that can still be paid |
| Refunds `payment/refund*.ts` | `Refund`, `Payment`, `Bill` | createRefund, callback (changes nothing), look-up, recovery | WeChat Pay; coupons; invoices | one refund per payment; stale answers do not revive a bill |
| Collection policy `payment/collection-policy.service.ts` | platform, tenant and community switches | open, pause, assertOpenForUpdate | payments | a pause stops new orders, at every layer |
| Bill generation `billing/bill-run.service.ts`, `schedule.service.ts` | `BillBatch`, `Bill`, `BillRun` | generate (manual, nightly) | engine, share pools, meters | a house is billed once per rule and period, a shared cost is divided once |
| Bill workflow `billing/bill-workflow.service.ts` | `BillBatch`, `Bill` | publishBatch, cancelBatch, cancelBill, reissueBill | payments; outbox; audit | closed batches stay closed; one live bill per fee |
| Bill import `billing/bill-import.service.ts` | `BillBatch`, `Bill` | preview, confirm | bill workflow | a confirmed row conflicts with no existing bill |
| Engine `billing/engine/*.ts`, `period.ts` | none | calcOne, allocateShare, money, periods | bill generation | parts add up to the pool; periods do not overlap |
| Share pools, fee rules, house standards | configuration rows | upsert | bill generation | a run reads a complete configuration |
| Coupons `coupons/coupons.service.ts` | `Coupon`, `UserCoupon` | claim, autoGrant, verify, spend | payments | a claimed coupon is used once; limits hold |
| Invoices `invoice/invoice.service.ts` | `InvoiceApplication` | apply, transition, onPaymentRefunded | refunds | no valid invoice for refunded money |
| Idempotency `common/idempotency.service.ts` | `IdempotencyRecord` | reserve, complete, fail | every write above | one execution per key; a crash does not block the key for ever |
| Outbox `notify/outbox.service.ts` | `OutboxEvent` | enqueue, claimBatch, markPublished, markFailed | notify | each event is delivered or parked |
| Reconciliation `reconciliation/*.ts` | `ReconciliationRun`, items | nightly and forced comparison, resolveItem | payments (lookup) | a completed run has every difference; decisions survive |
| Operations `operations/alert.service.ts`, `incident.service.ts` | `OperationalAlert`, `AlertAttempt`, `Incident` | emit, openOrReopen, acknowledge, resolve | all jobs | a recurrence is counted and not hidden behind a decision |
| Binding `binding/`, `auth/auth.service.ts`, `admin/bindings*`, `admin/house-contacts*`, `owner/owner-houses*` | `HouseBinding`, `HouseContact`, `WxUser.phone` | bindPhone, contacts, apply, review, revoke, delete account | payments (who may pay) | bound means listed; an administrator's no is final |
| Meters `billing/meter.controller.ts` | `MeterReading` | createReading | bill generation | each unit is charged once |
| Service desk `tickets/`, `services/`, `visitors/` | status of tickets, orders, passes | process, accept, verify, cancel, expire | notify | one end for each; one entry per pass |
| Audit trail, pilot metrics, rate limit | append-only rows, counters in memory | append, count | all | decide nothing |
| Auth, tenants, administration, work logs, announcements, upload | sessions, tenants, forms | login, configure | all | access control |
| Payment page `apps/miniprogram/pages/pay-confirm` | requestId, order | submitPay | payments | the owner is told the truth and pays once |
| the rest of `src/apps/admin`, `src/apps/miniprogram`, `src/packages/shared` | UI state | requests | API | the environment of the models |

The hard behaviours, listed line by line under `hazards` in `PROJECT.json`: several tasks
between each other's read and conditional update; an answer of WeChat that is true when
given and false when used; a notification that is late, repeated or lost; a prepay call
whose result is unknown; a crash between a commit and the call that follows it; a run that
writes to a batch while it is published; sequences of legal calls (fail, return coupon,
pay again; fail a run, enter the pool, run again; cancel, reissue, cancel, reissue).

## 2. Modules

| module | models | extends / instantiates |
|---|---|---|
| `BillLedger` | abstract: what may happen to a bill and its holder | - |
| `BillPayment` | orders, callbacks, lookups, recovery job, desk, coupon, WeChat | instantiates `BillLedger` |
| `BillPaymentProofs` | theorems about `BillPayment` | `BillPayment`, `TLAPS` |
| `BillRun` | generate, publishBatch, cancelBatch, cancelBill, share pool | - |
| `BillRunProofs` | theorems about `BillRun` | `BillRun`, `TLAPS` |
| `BillReissue` | reissueBill over chains of bills | - |
| `MoneyBack` | abstract: what may happen to the money and the coupon of a payment | - |
| `BillRefund` | refund requests, WeChat, recovery job, look-up, invoice applications | instantiates `MoneyBack` |
| `BillRefundProofs` | theorems about `BillRefund` | `BillRefund`, `TLAPS` |
| `Notify` | outbox, dispatchers, send, reminders | - |
| `Idempotency` | reserve, complete, fail by concurrent calls | - |
| `CollectionPolicy` | the three switches and the orders that check them | - |
| `CouponClaim` | claims against stock and limit | - |
| `Reconciliation` | the run of a day, its items and their handling | - |
| `Binding` | every way a binding of a house changes | - |
| `Incidents` | emit, openOrReopen, acknowledge, resolve | - |
| `BillImport` | confirm, publication and cancellation of imports, payments in between | - |
| `Meter` | createReading, and the runs that read, compute and bill | - |
| `Desk` | tickets, service orders, visitor passes | - |
| `Engine` | allocateShare, calcOne | - |
| `PayPage` | the payment page and what it sees of the server | - |
| `MCBillPayment`, `MCBillRun` | symmetry sets for TLC | the module they are named after |
| `MCBillRefund`, `MCServices`, `MCLiveness` | several modules in one run, see section 3 | those modules |
| `NotifyProofs` | theorems about `Notify` | `Notify`, `TLAPS` |
| `CheckoutProofs` | theorems about `CollectionPolicy`, `Idempotency`, `PayPage` | the three, `TLAPS` |
| `BillingProofs` | theorems about `BillImport`, `Meter`, `Engine` | the three, `TLAPS` |
| `AfterPaymentProofs` | theorems about `BillReissue`, `Reconciliation` and the composition | `MCBillRefund`, `BillRefundProofs` |
| `ServiceProofs` | theorems about `CouponClaim`, `Incidents`, `Binding`, `Desk` and the composition | `MCServices`, `NotifyProofs`, `CheckoutProofs`, `BillingProofs` |

Each definition's source lines are in `PROJECT.json` under `map`. Operators preceded by
"Fault:" are plausible bugs; no behaviour uses them. Each property has one that breaks it
(`mutants`); a property that is a conjunction has one for most of its conjuncts, of which
`mutants` names one.

### BillPayment

A transaction of the code is one action. It consists of conditional updates on rows it then
keeps locked, so it is atomic for the rows it touches; its reads outside are separate
actions wherever another task may run in between. A handler or a job instance is a record in
`task`: which operation, which step comes next, and what it remembers (`order`, bill, the
status it decided to write). WeChat is three variables: `sent` (prepay requests on their
way), `trade` (its own view of an order) and the owner's `handed` payParams. `Abort` ends a
task at any step: a crash, a rolled-back transaction or a call that throws.

| state | code |
|---|---|
| `billStatus`, `billPayment` | `Bill.status`, `Bill.paymentId` |
| `payStatus`, `order` | `Payment.status`; its `billId`, `userCouponId`, `channel` |
| `couponStatus`, `deskUsed` | `UserCoupon.status`, redeemed by `verify` |
| `acked` | notifications answered 200 SUCCESS |
| `early` | history: orders an administrator looked up while their prepay call was under way |

Decisions that a reader should know:

* Two reads that follow each other are one action where the second can only refuse what the
  first allowed: the bill and the occupied check of createPayment, the two reads of the
  order in resolveActiveOrder and reconcileStaleWxPay.
* The crediting commit and the callback's answer are one action. A crash in between only
  makes WeChat notify again, and `BeginNotify` may fire again anyway.
* REVOKED is treated as PAYERROR; a trade state REFUND throws, which is `Abort`.
* The recovery job's ages (2 and 30 minutes) are a choice, except that both exceed the 15
  seconds a call to WeChat may take: `BeginRecover` requires that the order's prepay call is
  over. The 90-second lease is left out; it only removes behaviours.
* `BillPayment` has no DRAFT bills; cancelBill of a draft is in `BillRun`.
* Left out: amounts, MOCK channel, collection policy and coupon eligibility (more ways to
  throw), idempotency records (a task is one admitted request), coupon expiry, autoGrant
  after settlement, audit rows and events, the maintenance purge.

### BillRun

generate is not a transaction. A run opens its batch and selects houses (`StartRun`), for a
shared cost checks the pool and earlier bills (`CheckShare`) or fails its batch
(`FailBatch`), inserts drafts (`FlushBills`), writes totals back and removes an empty batch
(`FinishRun`). Publication and cancellation of a batch are transactions and hold the batch
row from their first statement, so the foreign-key check of a concurrent insert waits for
them. `createMany` with `skipDuplicates` is `INSERT IGNORE`: it skips a house that has a
row, and also ignores a violated foreign key, so nothing is inserted into a batch another
run has deleted. The batch of one house is named by the house, the rule's batch is 1, the
supplements are 2 to `Last`. GENERATING and READY are never written by the code and left
out. `crossed` records that two runs were both past the check for an earlier division.
The scan of openSupplementaryBatch is one step: the statuses it skips are terminal.

### BillReissue

One house and period. Each fee starts with one bill, generated by a rule or imported. A
reissue reads the bill outside, the live siblings inside its transaction without a lock
(a snapshot read), then inserts. `ruleId` of a reissue is null and its snapshot remembers
the *column* of the bill it replaces, which is null again for the next in the chain.

### BillRefund

A request finds or creates the one Refund row of its payment, or revives a failed one, locks
the bill as REFUNDING, and asks WeChat outside any transaction; its answer, the recovery job
and an administrator's look-up conclude the same row. The callback is no action: the
event it inserts first (recordRefundEvidence, `refund.service.ts:499-521`) names a payment and
a refund, `PaymentEvent_target_chk` (`finance_expand/migration.sql:413-417`) allows one of
them, so its transaction rolls back, WeChat is answered 401, and nothing has changed.
An answer is remembered by the task that got it (`saw` of a
task) and used later, when it may be wrong. The transaction that records a success locks
refund, payment and bill but reads the invoice application without a lock, so it is two
actions with the row locks held in between. WeChat keeps `wechat` (its view of the refund),
and requests that arrive late (`LateArrival`). `MoneyBack` says what this promises: the money is returned in the
books only after
WeChat sent it back, for ever, and together with the coupon.

### The services around payment

* `Notify`. The key of an event is its type and bill, and so is the key of the log: one
  *topic*. Lease, back-off and the terminal date are sets of topics. A sender is a
  dispatcher or a reminder job and goes through send one recipient at a time; it may die or
  throw anywhere. `excused` collects the topics for which a second message cannot be helped:
  a sender stopped between sending and logging, or two were past the duplicate check.
* `Idempotency`. Calls with one key race for the unique row; the owner of the row works,
  completes or fails, and may die. Any write of the program may stand for the work.
* `CollectionPolicy`. Orders read the three rows FOR SHARE one by one; a switch waits for
  the readers of its row only.
* `CouponClaim`. Each claim tries the sequence numbers in turn with the stock it read at
  first; `clashed` are owners who lost a number to a collision of random codes.
* `BillImport`. The file hash, the validation, and the insert are separate steps, with
  payments and refunds between them; a bill that is paid, or on its way back (REFUNDING),
  refuses its house; `raced` are houses that paid between validation and insert.
* `Reconciliation`. Claim, clear, download, compare, persist, notify by several workers that
  may share a process number; `overlapped` remembers two past the claim.
* `Binding`. applyPhoneMatch, grantContact and revokeContact read in a snapshot and write
  WHERE id alone: `ReadBinding` and `WriteBinding`, `ReadGrant` and `CommitGrant`,
  `RemoveContact` and `CommitRemoval`, with anything in between. Only the row of a number in
  `HouseContact` is held from the first statement on (`MayInsert`, `MayDelete`). bindPhone
  reads twice before its transaction; an import holds nothing together. What a request has
  read is its `create`, `change` and `undecided`. `stale` are users somebody was binding, by
  what had been read before, when the number was removed, changed or deleted with the
  account, and those whose bindPhone was cut short.
* `Incidents`. Each read and each update is a step; `crossed` remembers that a recurrence
  was written in the middle of a decision, or the reverse. `due` counts the occurrences that
  found the alert, or the incident, there, less those whose emitter died before it counted
  them; one that lost the creation of the row is not due and is lost in the code.
* `Meter`. createReading is five calls without a transaction, and a run reads the readings
  (`ReadUsage`) long before it inserts its bills (`InsertBill`); `billing` is what runs have
  computed meanwhile. `doubtful` remembers that a request died before its last call or met
  another, or a run that read or inserted; `revised` are periods whose own reading was
  replaced after a run had read it, `outrun` those whose prevValue was.
* `Desk`. Look, compare, update WHERE id; `overtaken` are rows written on an old look.
* `Engine`. A state is one call of allocateShare or calcOne; the properties are its
  reference definition.
* `PayPage`. The page, the cashier and the server cut down to orders and idempotency
  records; requests and answers may be lost.

## 3. Runs

| run | instance | shows |
|---|---|---|
| `payment_safety` | 1 bill, 1 coupon, 2 orders, 2 handlers | `LedgersAgree`, `CouponAccounted`, `AckedIsCredited`, `PaidIsNotWrittenOff`, `CollectedOnce`, `FinalIsFinal`, and that the code implements `BillLedger` |
| `payment_recovery` | 1 bill, 1 order, 2 handlers, 1 job instance, fairness | `PaidIsCredited`, `OccupiedIsReleased` |
| `payment_early_lookup` | as safety | violated: `PaidIsNeverWrittenOff` |
| `payment_returned_coupon` | as safety | violated: `ReturnedCouponIsSpendable` |
| `billrun_safety` | 2 houses, batches 1 and 2 and one per house, 3 runs | `DividedOnce`, `BatchesAreSound`, `ClosedStaysClosed`, `PublishedIsFrozen` |
| `billrun_failed` | 2 houses, 2 runs | violated: `FailedRunCanBeRepeated` |
| `refund_safety` | 1 payment with a coupon, 2 handlers, 1 invoice clerk; and 1 generated and 1 imported fee, 3 reissues, 2 requests; and 1 trade, 2 workers, 2 process numbers | `LedgersAgree`, `CouponGivenBackOnce`, `InvoiceIsVoidedUnlessCrossed`, `ImplementsMoneyBack`; `OneLiveUnlessForgotten`; `CompletedIsItemisedUnlessOverlapped`, `DecisionsAreKept` |
| `reissue_chain` | 1 generated fee, 3 reissues, 1 request | violated: `OneLivePerFee` |
| `refund_invoice` | 1 payment, 2 handlers, 1 clerk | violated: `InvoiceIsVoided` |
| `services_safety` | eleven services, see below | one property for each, two for `Notify` and `Binding` |
| `services_liveness` | 1 refund with 1 handler and 1 job; 1 event with 2 dispatchers and 2 attempts; fairness | `RefundsEnd`, `EventIsClosed` |
| `notify_retry` | 1 event, 2 owners, 1 dispatcher | violated: `FailedIsRetried` |

`MCBillRefund`, `MCServices` and `MCLiveness` put modules that share no variable into one
run. Nothing could be learnt from their interleavings, so a behaviour takes the steps of one
of them, chosen at the start, and the others keep their first state; a property of a module
is checked over exactly the behaviours of that module. Actors of different modules that are
interchangeable have the same names, so that one symmetry set serves them all.

| service | instance in `services_safety` | property |
|---|---|---|
| `Notify` | 1 topic, 1 owner, 2 dispatchers, 1 reminder job, 2 attempts | `SentOnceUnlessExcused`, `ClosedIsFinal` |
| `Idempotency` | 3 calls, 1 key, 2 payloads | `IdempotentCalls` |
| `CouponClaim` | 2 owners, 2 claims at a time, limit 2, stock up to 2 | `ClaimsAreCounted` |
| `BillImport` | 2 requests, 2 files, 2 houses | `ImportIsSound` |
| `CollectionPolicy` | 3 layers, 2 orders | `PausedTakesNoOrder` |
| `Binding` | 1 user, 2 phone numbers, 2 handlers | `BindingFollowsContactsUnlessCrossed`, `DecisionIsNotOverruledUnlessCrossed` |
| `Incidents` | 2 emitters, 1 administrator, 3 occurrences | `FailuresStayVisible` |
| `Meter` | 2 periods, values up to 2, 2 administrators, a run per period at a time (`RunsAtOnce`) | `UsageAddsUpUnlessDoubtful` |
| `Desk` | 1 row of each kind, 2 clients | `EndsOnceUnlessOvertaken` |
| `Engine` | 3 houses, areas 0, 1, 2, 5, pools to 101 cents; prices and amounts at rounding boundaries, 1 and 12 months | `AmountsAreExact` |
| `PayPage` | 3 attempts | `PaymentIsClear` |

Why the bounds suffice. A conflict over a bill needs two tasks; a second order for the same
bill is what double charging and a returned coupon need; a third task adds no new pair of
steps, and the theorems below cover any number. Three runs are what a supplement beside a
first run and a rival needs (first run, publication, two supplements). Two houses tell a
division among all from one among some. Three reissues contain the shortest chain that loses
a rule. `LastBatch = 2` means the scan for a third supplement is not exercised; the theorems
cover it. In the services two actors make every race between a read and a write, a third
call (`Idempotency`) comes after two that raced, a third occurrence (`Incidents`) lets two
emitters race over a row that exists (one administrator answers them: two would race only
with each other, over a status both may set; the proof covers any number), two attempts are one retry and the last, and three
attempts to pay (`PayPage`) are one that failed, one whose cancel was lost, and one more.
One run per period (`RunsAtOnce` = 1) can read before and insert after any
request; two that hold the same period insert one bill, and the proof has any number.
Constants shared by modules (owners, handlers) have the sizes the larger needs.
CHECK_DEADLOCK is off everywhere: tasks, orders, runs and rows are finite and the system may
rest.

Fairness of payments (`BillPayment!Fairness`, only in `payment_recovery`). A call to WeChat returns
(15-second limit, `wxpay-direct.provider.ts`) and its request is delivered or dropped: weak
fairness of `PrepayReturns` and of delivery. The job runs every 2 minutes, takes every
unfinished order and reaches the age at which it may close it: strong fairness of
`BeginRecover(t, p, "reconcile")`, because the order is not available to it while another
task works on it or while an instance is busy. A run that cannot go on throws: weak fairness
of a worker's `Abort`. A step retried for ever does not fail for ever: strong fairness of the
worker's query, close, finish, apply and settle steps. Nothing is assumed of notifications,
owners or administrators.

Fairness of refunds and notifications (`MCLiveness!Fair`). The recovery job runs every two
minutes, reaches each queryable refund again and again (strong fairness of `BeginRecover`),
and neither WeChat, the database nor the process fails every time (strong fairness of its
steps). A task that cannot go on throws (weak fairness of `Abort`), and refunds get old. The
job takes the 100 oldest refunds; the instance has one, which is where `RefundsEnd` needs
care, see the observations. Leases of the outbox expire, retries fall due, the cron sweeps
once a minute, and an event that can be claimed again and again is claimed. Of what follows
a claim only weak fairness is assumed: a dispatcher may throw or die each time, and the
event still ends, because attempts run out.

### What the violations say

* `payment_early_lookup`. resolveActiveOrder and force-sync look an order up whatever its
  age and may declare it failed. During the prepay call WeChat answers ORDER_NOT_EXIST: the
  order becomes FAILED and the bill is released, then the prepay succeeds, the owner pays
  and the callback is refused. `PaidIsNotWrittenOff` and `CollectedOnce` hold for all other
  orders.
* `payment_returned_coupon`. finishUnpaidPayment returns the coupon but the failed order
  keeps it in the unique column `userCouponId`; spending it again always fails.
* `billrun_failed`. A shared-cost run before its pool is entered makes the batch FAILED. The
  repeated run uses that batch, nothing takes it out of FAILED, and publishBatch and
  cancelBatch refuse it.
* `reissue_chain`. Cancel A, reissue as B, cancel, reissue as C, reissue A again as D: C has
  lost its rule, so D is created beside it and the owner can pay both.
* `refund_invoice`. An application that read its payment as SUCCESS is inserted after the
  refund has looked for one; the returned payment keeps an application that can be issued.
* `notify_retry`. send looks for any SENT row of the bill. One owner reached, another failed:
  the retry finds the first owner's row, skips, and the event is PUBLISHED.

One finding is about a passing run. `payment_safety` shows that a settled bill is never
reopened (`ImplementsLedger`): reverseOffline leaves the bill REFUNDED, where it can be neither
paid nor canceled, only reissued. A comment of the endpoint (`admin-payment.controller.ts:238`)
says that the bill goes back to unpaid (账单回到未缴). The pilot design and a test agree with the
code and with `BillLedger`: the comment is wrong.

### Observations

Observed and not run: drafts flushed after their batch was closed stay in it; a canceled row
keeps the unique key, so the advice "cancel the batch, then generate again"
(`bill-run.service.ts:394-396`) has no effect for the same houses; two SHARE runs that are
both past the check may divide a pool twice (`runsCrossed`); so may two reissues.
Further, each within what the named module shows:

* `BillRefund`. Every refund notification is refused, because of the check of the database
  above; a refund is recorded when somebody looks it up, at the latest by the recovery job
  (`RefundsEnd`). The comment of handleRefundNotification (line 408) says that it advances the
  refund; the notes at lines 447-453 and 533 about refunds without events or callbacks fit what
  the code does.
* `Binding`. bindPhone, a contact added or an import read the binding as a match that had been
  released; meanwhile the owner applies and is rejected (or is approved and revoked); the update
  WHERE id (`binding-sync.service.ts:111-113`) makes it ACTIVE again, which the comment of
  `BindingSyncService` (lines 14-15) says may happen nowhere.
  `DecisionIsNotOverruledUnlessCrossed` excepts exactly the requests that had read the binding
  before anybody decided on it; without the exception TLC finds this behaviour.
* `Meter`. A run has read March when February is entered late: createReading sees no bill of
  March (it promises to refuse a change below one, `meter.controller.ts:71-73`) and lowers the
  difference, the run inserts the old one, and February's part is charged twice.
  `UsageAddsUpUnlessDoubtful` excepts such periods (`outrun`).
* `BillRefund`. A FAILED refund stays queryable for ever and the job takes the 100 oldest
  (`refund-recovery.service.ts:55`), so old failures can starve younger refunds. The local
  status is never CLOSED or ABNORMAL.
* `Idempotency`. A call that dies after reserving leaves PROCESSING for ever (no caller gives
  `expiresAt`, so the purge deletes nothing); a `complete` that throws after the work was
  committed records FAILED, and the same requestId then fails for ever.
* `Notify`. The sweep in claimBatch gives an event up without the alert that
  `outbox.service.ts:334` says exhausted retries must raise; send does not look at the status
  of the bill; the cron expression runs once a minute where comments say every 30 seconds.
* `Reconciliation`. The claiming update does not ask for the lease again, and two containers
  may share `process.pid`, so the lease does not exclude two workers (`overlapped`).
* `BillImport`. A file whose batch was canceled is answered with that batch for ever.
* `Binding`. bindPhone reads the contacts before its transaction and stores the number
  without asking `deletedAt`; applyBinding may take an ACTIVE binding back to PENDING; an
  approval and the contact it grants are two transactions. A grant or an import that has read
  the users of a number binds one who changes the number meanwhile, and a bindPhone that has
  read the contacts binds by a number removed meanwhile (`stale`), though the class comment
  says that removing a number revokes at once. `add` reports a listed number as an error after
  its transaction has committed, bindings included.
* `Incidents`. A stale acknowledge makes RESOLVED ACKNOWLEDGED, a stale resolve hides a
  recurrence (`crossed`); of two concurrent emits the second throws after it has delivered,
  because the attempt number is taken. Of two that create the alert, or the incident, one
  loses the unique key and its occurrence is lost; at the alert it does not reach the
  incident, so that a resolved one is not reopened for it. A test
  (`state-transitions.spec.ts:34`) calls a missed count harmless.
* `Meter`. The reading of a period that was itself billed, or that a run has read, may be
  replaced (`revised`).
* `Desk`. Except for the gate, updates ask only for the id: an accepted order can be
  canceled, a used pass set to CANCELED, by a stale request.
* `PayPage`. After PREPAY_UNKNOWN the page keeps its requestId and gets the same answer until
  it is entered anew.
* `Engine`. calc.ts rounds to cents and then to yuan, twice in all.

## 4. Proofs

`BillPaymentProofs` proves, for any sets of bills, coupons, orders, handlers and job
instances, `[]TypeOK`, `[]LedgersAgree`, `[]CouponAccounted`, `[]AckedIsCredited`,
`[]PaidIsNotWrittenOff`, `[]CollectedOnce`, `FinalIsFinal` and `ImplementsLedger`. The
assumptions are `NoneAssumption` (NULL is no bill, coupon or order) and `TasksAssumption`
(handlers are not job instances). The invariants are not inductive by themselves:
`LedgersAgree` needs to know what a task remembers (`TasksOK`) and what columns an order of
each status has (`OrdersOK`); `PaidIsNotWrittenOff` needs `EndedIsCutOff`: an order that
ended unpaid, or that a task is about to end unpaid, is closed at WeChat, or unknown there
with no prepay request on its way, except those in `early`. Every step of `Next` is first
classified by its effect on the database (`DatabaseStep`: claim, doubt, end unpaid, credit,
credit offline, void, reverse, redeem, or nothing) and by its effect at WeChat
(`WeChatStep`); the invariant and the refinement follow from the classes, and only what
concerns a task's memory is proved action by action. The refinement maps a bill to
`[state, holder]` and shows that each class is a step of the ledger or a stutter.

`BillRefundProofs` proves, for any payments, coupons, handlers, clerks and jobs,
`[]LedgersAgree`, `[]CouponGivenBackOnce`, `[]InvoiceIsVoidedUnlessCrossed` and `ImplementsMoneyBack`. The invariant adds what a task
remembers of its refund (`TasksOK`), that one task at most holds the locks of a payment
(`LocksOK`), and what WeChat's state says about the row (`WeChatOK`). Every action is shown to
keep it, and to be a step of `MoneyBack` or a stutter.

`BillRunProofs` proves `[]DividedOnce`, `[]BatchesAreSound`, `ClosedStaysClosed` and
`PublishedIsFrozen` for any houses, runs and number of supplements. Its invariant adds that
rows and runs name a batch that can exist (`NamesBatch`), that below an open batch all are
closed (`OpenedInOrder`), that only a shared cost is divided (`Undivided`), and that, unless
two runs crossed, the run past the check is alone and sees no live bill (`OnePastCheck`).

`NotifyProofs` proves `[]SentOnceUnlessExcused` and `ClosedIsFinal` for any events, owners,
dispatchers and reminder jobs. As long as a topic is not excused, one sender at most is past
the duplicate check (`OneSender`), what has arrived is logged or being logged
(`ArrivedIsLogged`), and whom a sender still has before it has got nothing (`LeftIsUnsent`).

`AfterPaymentProofs` proves `[]ReissueTypeOK` and `[]OneLiveUnlessForgotten` for any fees,
requests and any number of reissues, from `LastReissueAssumption` and
`ReissueNamesAssumption`. The
invariant adds that a row tells the truth about its rule (`RowsOK`), that a request works on
a closed bill (`RequestsOK`), and, while no two checks crossed, that a request past its check
still sees no live bill of its fee and that no two such requests have the same fee. The
lemma `ClashesMeansSameFee` is the heart: the code's comparison by rule or title is sameness
of fee exactly for bills that did not lose their rule. It also proves
`[]CompletedIsItemisedUnlessOverlapped` and `DecisionsAreKept`: without an overlap one worker
is past the claim, and what it has compared is settled or in its drafts.

`CheckoutProofs` proves what stands between an owner and a second charge.
`[]IdempotentCalls`: a working call owns the row of its key, work is done by the owner only,
and a succeeded row carries an answer of work that was done. `[]PausedTakesNoOrder` for any
list of layers: what an order has checked is open, because the switch waits for it.
`[]PaymentIsClear` for any number of attempts: the server's half (`ServerInv`) says that one
order at most is live, that what was paid is a live order whose payParams were handed out,
and that an order exists just when its idempotency record says so; the page's half
(`PageInv`) says that at the cashier or while canceling the page holds the order of its
current requestId, that only orders that are over are dead ends, and that what the page says
is still so.

`BillingProofs` proves what decides the amounts.

* `[]ImportIsSound`, for any files, requests and houses. `ImportInv` adds that a
  request which is not done has inserted nothing, that without a batch there are no bills,
  that a file has one batch, and that a house which a request validated and somebody has
  paid for since is in `raced`.
* `[]UsageAddsUpUnlessDoubtful`, for any number of periods, values, administrators and runs.
  createReading is five calls without a transaction, so the property speaks of the meter at
  rest only: a request breaks it on the way. `MeterInv` says, as long as nothing is
  doubtful, that one request at most is under way, what it has read at each step and that
  this still stands (`ReaderHolds`, `ReadersAim`), that readings do not fall (`ValuesRise`),
  that each starts where the one before it ends *except* the one the request is about to
  adjust (`ChainHolds`), and that what a run has computed (`BillingHolds`) and what a bill
  charges (`ChargesHold`) is the difference of two recorded values unless its reading was
  revised or outrun after the run had read it.
* `[]AmountsAreExact`, for any finite set of houses, any areas, pools, prices and amounts.
  The sums are folds over sets. The library's induction theorems take an operator as a
  parameter, which no installed prover can instantiate; but induction over the subsets of
  one finite set needs none: `SubsetInduction` takes the *set* of subsets for which the
  claim holds, and rests on a minimal subset among those outside it (`Smallest`). From it come
  the type and the sign of a sum, the sum of quotients and remainders
  (`SumsDivide`), the count of the houses that get a cent more, and with them that the
  shares add up, that each is less than a cent off, and that a larger area never pays less.
  One step is not arithmetic: nobody whose exact share is whole gets the extra cent, since
  the remainders of fewer houses could not make up the cents that are missing.

`ServiceProofs` proves `[]ClaimsAreCounted`, `[]FailuresStayVisible`,
`[]BindingFollowsContactsUnlessCrossed`, `DecisionIsNotOverruledUnlessCrossed` and
`[]EndsOnceUnlessOvertaken`, each with an invariant of its own:
what a claim passed over is taken; an occurrence that was counted is in the row and one that was
due and is not counted was found late, by an emitter that lost the unique key (the conservation
law `OccurrencesAreCounted`), and while nothing crossed, an emitter that saw the incident
open finds it so; a request that may bind a user who is not stale does so by the number the
user has, what it has read still stands, and no request is taking that number away without
the user's binding (`Sure`, `Covered`); what a request is going to overwrite was undecided
when it read it (`Aimed`), which is all the code guarantees and exactly what the exception of
the action property says; a client
whose look at the desk is fresh finds the row as it saw it, and a row that no stale write
overtook was ended once if it is at an end and never if it is not.

The compositions TLC runs are proved about as well. `EachServiceIsItself`
(`ServiceProofs`) and `EachPartIsItself` (`AfterPaymentProofs`) say that a behaviour of
`MCServices` or `MCBillRefund` is, for each module in it, a behaviour of that module: the
choice at the start adds nothing to any of them, so a theorem about a module is a theorem
about the run. With them `[]ServicesTypeOK` and `[]AfterTypeOK` are proved, the type
invariants of all modules at once. Two of these types are not obvious: the recurrences of an
incident stay below the number of occurrences only because every emitter on its way to count
one has had its own (`IncidentBound`), and the largest stock is the maximum of a set.

The assumptions are the named ones of each module: marks for "none" are no members of the
sets they stand in for, limits are natural numbers, job instances are not handlers, the
houses of an import or a pool are finitely many.

Every invariant and every action property of section 3 that a run expects to hold is
stated by a theorem. Only model-checked are the four liveness properties
(`PaidIsCredited`, `OccupiedIsReleased`, `RefundsEnd`, `EventIsClosed`), since fairness and
ENABLED are out of the prover's reach, and that the stated exceptions are needed, which the
violated properties show.

## 5. Not modelled

* The user interfaces except the payment page, DTO classes, list and export endpoints,
  statistics: most of the repository's lines. They read, format and send; a model of them
  would say nothing a property could be about. This is why the mapped share of all lines
  stays small although the services that change state are covered.
* Authentication, tenants and administration: access control by guards without state of its
  own, orthogonal to what the modules say. Rate limit: a counter in memory. Audit trail and
  pilot metrics: written or read inside the modelled steps, they decide nothing.
* Formulas (a third-party parser) and the periods of `period.ts`: pure functions with unit
  tests; the drift of an anniversary's label is a note in `BillRun`.
* Coupon eligibility and expiry, fee rules and house standards: configuration that only
  narrows which calls succeed.
* Drafts flushed after their batch was closed (`bill-run.service.ts:347`) stay drafts. The
  code knows it and keeps them, so no property forbids it.
* What would come next: eligibility in `CouponClaim`, compareRefunds in `Reconciliation`.
