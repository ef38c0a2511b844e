-------------------------------- MODULE BillRefund --------------------------------
(***************************************************************************)
(* The refund of a WeChat payment: an administrator's request, the         *)
(* recovery job and an administrator's look-up all decide the same Refund  *)
(* row (refund.service.ts, refund-recovery.service.ts), while the owner    *)
(* applies for an invoice for the payment and an administrator works on    *)
(* the application (invoice.service.ts).                                   *)
(*                                                                         *)
(* WeChat's callback (handleRefundNotification) is no action: its first    *)
(* write, an event that names a payment and a refund, is forbidden by      *)
(* PaymentEvent_target_chk (finance_expand/migration.sql:413-417), so its  *)
(* transaction changes nothing and the notification is answered 401.       *)
(*                                                                         *)
(* A transaction is one action, except the one that records a success: it  *)
(* locks the refund, payment and bill, reads the invoice application       *)
(* without a lock, and then updates it, so it is LockForSuccess followed   *)
(* by CommitSuccess.  An answer of WeChat is remembered by the task that   *)
(* got it and used in a later step, when it may no longer be true.  A task *)
(* may die or fail at any point (Abort).                                   *)
(*                                                                         *)
(* Left out: amounts (a refund is always full), payments that were not     *)
(* made through WeChat (they are reversed in BillPayment), RefundAttempt   *)
(* and audit rows, which decide nothing, the event of a look-up, whose     *)
(* refusal is caught, and idempotency records (a task is one admitted      *)
(* request).  CLOSED and ABNORMAL are never written to Refund.status.      *)
(***************************************************************************)
EXTENDS Naturals, Sequences, FiniteSets

CONSTANTS
  Payments,    \* payments made through WeChat, each with its bill
  WithCoupon,  \* those that spent a coupon
  Handlers,    \* concurrent HTTP handlers of administrators
  Clerks,      \* concurrent HTTP handlers of invoice applications: owner, administrator
  Jobs,        \* instances of the refund recovery job
  Take,        \* how many refunds a round of the job looks at (100 in the code)
  None

ASSUME CouponsAssumption == WithCoupon \subseteq Payments
ASSUME TakeAssumption == Take \in Nat
ASSUME TasksAssumption == Jobs \cap (Handlers \cup Clerks) = {}
ASSUME NoneAssumption == None \notin Payments

VARIABLES
  refundStatus,  \* Refund.status, "NONE" before the row exists
  requested,     \* refunds in the order of requestedAt
  payStatus,     \* Payment.status
  billStatus,    \* Bill.status of the bill the payment settled
  couponStatus,  \* UserCoupon.status of the coupon the payment spent
  deskUsed,      \* coupons redeemed at the desk after they were given back
  invoice,       \* InvoiceApplication.status, "NONE" before the row exists
  crossed,       \* history: payments whose application was written while or after the refund read it
  wechat,        \* the refund at WeChat, "NONE" while WeChat knows no such refund number
  sent,          \* refund requests that outlive the caller's patience
  old,           \* refunds older than EXHAUST_MS
  alerted,       \* refunds with a STALE_REFUND alert
  task           \* what each handler or job is doing

database == <<refundStatus, requested, payStatus, billStatus, couponStatus, deskUsed>>
invoices == <<invoice, crossed>>
outside  == <<wechat, sent>>
ages     == <<old, alerted>>
vars     == <<database, invoices, outside, ages, task>>

Tasks          == Handlers \cup Clerks \cup Jobs
Open           == {"CREATED", "PROCESSING"}          \* OPEN_REFUND_STATUSES
\* Fault: a refund that failed here is not looked at any more.
StillOpen      == Open
Queryable      == Open \cup {"FAILED"}               \* QUERYABLE_REFUND_STATUSES
RefundStatuses == Open \cup {"NONE", "FAILED", "SUCCESS"}
Failures       == {"CLOSED", "ABNORMAL"}
Finals         == Failures \cup {"SUCCESS"}
WeChatStatuses == Finals \cup {"NONE", "PROCESSING"}
Answers        == WeChatStatuses \cup {"REJECTED", "UNKNOWN"}
Invoices       == {"NONE", "SUBMITTED", "PROCESSING", "ISSUED", "REJECTED", "CANCELED",
                   "REVERSAL_REQUIRED", "REVERSED"}
Pending        == {"SUBMITTED", "PROCESSING"}
Ops            == {"none", "refund", "lookup", "recover", "apply", "transition"}
Steps          == {"idle", "find", "open", "revive", "mark", "send", "query", "conclude",
                   "commit", "alert", "submit", "transit"}

TaskRecords == [op : Ops, step : Steps, pay : Payments \cup {None},
                saw : Answers \cup Invoices, goal : Invoices]

Idle == [op |-> "none", step |-> "idle", pay |-> None, saw |-> "NONE", goal |-> "NONE"]

TypeOK ==
  /\ refundStatus \in [Payments -> RefundStatuses]
  /\ requested \in Seq(Payments)
  /\ payStatus \in [Payments -> {"SUCCESS", "REFUNDED"}]
  /\ billStatus \in [Payments -> {"PAID", "REFUNDING", "REFUNDED"}]
  /\ couponStatus \in [Payments -> {"NONE", "USED", "UNUSED"}]
  /\ deskUsed \in SUBSET Payments
  /\ invoice \in [Payments -> Invoices]
  /\ crossed \in SUBSET Payments
  /\ wechat \in [Payments -> WeChatStatuses]
  /\ sent \in SUBSET Payments
  /\ old \in SUBSET Payments
  /\ alerted \in SUBSET Payments
  /\ task \in [Tasks -> TaskRecords]

Init ==
  /\ refundStatus = [p \in Payments |-> "NONE"]
  /\ requested = << >>
  /\ payStatus = [p \in Payments |-> "SUCCESS"]
  /\ billStatus = [p \in Payments |-> "PAID"]
  /\ couponStatus = [p \in Payments |-> IF p \in WithCoupon THEN "USED" ELSE "NONE"]
  /\ deskUsed = {}
  /\ invoice = [p \in Payments |-> "NONE"]
  /\ crossed = {}
  /\ wechat = [p \in Payments |-> "NONE"]
  /\ sent = {}
  /\ old = {}
  /\ alerted = {}
  /\ task = [t \in Tasks |-> Idle]

-----------------------------------------------------------------------------
(* Tasks *)

At(t, step) == task[t].step = step
Pay(t)      == task[t].pay

Begin(t, op, step, p, saw, goal) ==
  /\ At(t, "idle")
  /\ task' = [task EXCEPT ![t] = [op |-> op, step |-> step, pay |-> p, saw |-> saw, goal |-> goal]]

Goto(t, step)    == task' = [task EXCEPT ![t].step = step]
Heard(t, answer) == task' = [task EXCEPT ![t].step = "conclude", ![t].saw = answer]
End(t)           == task' = [task EXCEPT ![t] = Idle]

\* The job goes on to the age of the refund, whatever came of the look-up.
Leave(t) == IF task[t].op = "recover" THEN Goto(t, "alert") ELSE End(t)

\* A transaction that records the success of p holds its rows.
Locked(p) == \E t \in Tasks : At(t, "commit") /\ Pay(t) = p

\* The process dies, the transaction rolls back, or a call throws.
Abort(t) ==
  /\ ~At(t, "idle")
  /\ End(t)
  /\ UNCHANGED <<database, invoices, outside, ages>>

\* Fault: an exception ends the round.
LookupThrowsOut(t) ==
  /\ task[t].op = "recover" /\ task[t].step \in {"query", "conclude", "commit"}
  /\ End(t)
  /\ UNCHANGED <<database, invoices, outside, ages>>

\* The job catches what the look-up of one refund throws.
LookupThrows(t) ==
  /\ task[t].op = "recover" /\ task[t].step \in {"query", "conclude", "commit"}
  /\ Goto(t, "alert")
  /\ UNCHANGED <<database, invoices, outside, ages>>

-----------------------------------------------------------------------------
(* An administrator asks for the money back: createRefund *)

BeginRefund(t, p) ==
  /\ payStatus[p] = "SUCCESS"
  /\ Begin(t, "refund", "find", p, "NONE", "NONE")
  /\ UNCHANGED <<database, invoices, outside, ages>>

FindAggregate(t) ==
  /\ At(t, "find")
  /\ CASE refundStatus[Pay(t)] = "NONE"    -> Goto(t, "open")
       [] refundStatus[Pay(t)] = "FAILED"  -> Goto(t, "revive")
       [] refundStatus[Pay(t)] = "SUCCESS" -> End(t)
       [] OTHER                            -> Goto(t, "mark")
  /\ UNCHANGED <<database, invoices, outside, ages>>

\* Fault: the bill is given the refund's status.
LockBillAsRefund(p) == billStatus' = [billStatus EXCEPT ![p] = "PROCESSING"]
\* Fault: the bill is left alone.
LockBillNot(p) == billStatus' = billStatus
LockBill(p) == billStatus' = [billStatus EXCEPT ![p] = IF @ = "PAID" THEN "REFUNDING" ELSE @]

\* The unique paymentId lets one of two concurrent requests create the row.
CreateAggregate(t) ==
  LET p == Pay(t) IN
  /\ At(t, "open")
  /\ refundStatus[p] = "NONE"
  /\ refundStatus' = [refundStatus EXCEPT ![p] = "CREATED"]
  /\ requested' = Append(requested, p)
  /\ LockBill(p)
  /\ Goto(t, "mark")
  /\ UNCHANGED <<payStatus, couponStatus, deskUsed, invoices, outside, ages>>

ReviveAggregate(t) ==
  LET p == Pay(t) IN
  /\ At(t, "revive")
  /\ ~Locked(p)
  /\ IF refundStatus[p] = "FAILED"
     THEN /\ refundStatus' = [refundStatus EXCEPT ![p] = "PROCESSING"]
          /\ LockBill(p)
     ELSE UNCHANGED <<refundStatus, billStatus>>
  /\ Goto(t, "mark")
  /\ UNCHANGED <<requested, payStatus, couponStatus, deskUsed, invoices, outside, ages>>

MarkProcessing(t) ==
  LET p == Pay(t) IN
  /\ At(t, "mark")
  /\ ~Locked(p)
  /\ refundStatus' = [refundStatus EXCEPT ![p] = IF @ = "CREATED" THEN "PROCESSING" ELSE @]
  /\ Goto(t, "send")
  /\ UNCHANGED <<requested, payStatus, billStatus, couponStatus, deskUsed, invoices, outside, ages>>

-----------------------------------------------------------------------------
(* WeChat *)

\* A request for a refund number WeChat is working on, or has finished, changes nothing.
Accepted(s) == IF s \in {"PROCESSING", "SUCCESS"} THEN s ELSE "PROCESSING"

\* The call that asks for the refund: it is taken, or turned down with a 4xx, which may also be
\* about something else than the refund (a rate limit), or it times out and arrives later or never.
RequestRefund(t) ==
  LET p == Pay(t) IN
  /\ At(t, "send")
  /\ \/ /\ wechat' = [wechat EXCEPT ![p] = Accepted(@)]
        /\ Heard(t, Accepted(wechat[p]))
        /\ UNCHANGED sent
     \/ Heard(t, "REJECTED") /\ UNCHANGED <<wechat, sent>>
     \/ Heard(t, "UNKNOWN") /\ sent' = sent \cup {p} /\ UNCHANGED wechat
  /\ UNCHANGED <<database, invoices, ages>>

LateArrival(p) ==
  /\ p \in sent
  /\ sent' = sent \ {p}
  /\ \/ wechat' = [wechat EXCEPT ![p] = Accepted(@)]
     \/ UNCHANGED wechat
  /\ UNCHANGED <<database, invoices, ages, task>>

\* WeChat finishes a refund, and a merchant may have it take up again one that came to nothing.
WeChatDecides(p, s) ==
  /\ wechat[p] = "PROCESSING"
  /\ wechat' = [wechat EXCEPT ![p] = s]
  /\ UNCHANGED <<database, invoices, sent, ages, task>>

MerchantRepeats(p) ==
  /\ wechat[p] \in Failures
  /\ wechat' = [wechat EXCEPT ![p] = "PROCESSING"]
  /\ UNCHANGED <<database, invoices, sent, ages, task>>

-----------------------------------------------------------------------------
(* The other ways to learn what became of a refund *)

\* forceQuery, and the job's recoverRefund, read the status before they ask WeChat.
BeginLookup(t, p) ==
  /\ refundStatus[p] \in Queryable
  /\ Begin(t, "lookup", "query", p, "NONE", "NONE")
  /\ UNCHANGED <<database, invoices, outside, ages>>

Older(i) == {j \in 1 .. i - 1 : refundStatus[requested[j]] \in Queryable}

\* A round takes the oldest undecided refunds, FAILED ones again and again.
BeginRecover(t, p) ==
  /\ refundStatus[p] \in Queryable
  /\ \E i \in DOMAIN requested : requested[i] = p /\ Cardinality(Older(i)) < Take
  /\ Begin(t, "recover", "query", p, "NONE", "NONE")
  /\ UNCHANGED <<database, invoices, outside, ages>>

\* WeChat answers a query for a number it does not know with 404, which throws (Abort).
QueryRefund(t) ==
  /\ At(t, "query")
  /\ wechat[Pay(t)] # "NONE"
  /\ Heard(t, wechat[Pay(t)])
  /\ UNCHANGED <<database, invoices, outside, ages>>

-----------------------------------------------------------------------------
(* The common end: finalizeSuccess and finalizeFailure *)

Conclude(t) ==
  LET p == Pay(t) IN
  /\ At(t, "conclude")
  /\ \/ /\ task[t].saw \in {"PROCESSING", "UNKNOWN"}
        /\ Leave(t)
        /\ UNCHANGED <<refundStatus, billStatus>>
     \/ /\ task[t].saw \in Failures \cup {"REJECTED"}
        /\ ~Locked(p)
        /\ IF refundStatus[p] \in Open
           THEN /\ refundStatus' = [refundStatus EXCEPT ![p] = "FAILED"]
                /\ billStatus' = [billStatus EXCEPT ![p] = IF @ = "REFUNDING" THEN "PAID" ELSE @]
           ELSE UNCHANGED <<refundStatus, billStatus>>
        /\ Leave(t)
  /\ UNCHANGED <<requested, payStatus, couponStatus, deskUsed, invoices, outside, ages>>

\* Fault: a request that was taken counts as a refund that was made.
SucceededIfTaken(answer) == answer \in {"SUCCESS", "PROCESSING"}
Succeeded(answer) == answer = "SUCCESS"

\* The first statements of the success transaction: the refund, payment and bill are locked, and
\* then the application is read as it was committed.
LockForSuccess(t) ==
  LET p == Pay(t) IN
  /\ At(t, "conclude")
  /\ Succeeded(task[t].saw)
  /\ ~Locked(p)
  /\ IF refundStatus[p] \in Queryable
     THEN task' = [task EXCEPT ![t].step = "commit", ![t].goal = invoice[p]]
     ELSE Leave(t)
  /\ UNCHANGED <<database, invoices, outside, ages>>

\* Fault: an application somebody works on is forgotten.
VoidedIfNew(s, s0) ==
  IF s # s0 THEN s0
  ELSE IF s = "SUBMITTED" THEN "CANCELED" ELSE IF s = "ISSUED" THEN "REVERSAL_REQUIRED" ELSE s0

\* onPaymentRefunded, for an application read as s and now s0.
Voided(s, s0) ==
  IF s # s0 THEN s0
  ELSE IF s \in Pending THEN "CANCELED" ELSE IF s = "ISSUED" THEN "REVERSAL_REQUIRED" ELSE s0

\* Fault: the coupon is kept.
ReleasedNot(status) == status
Released(status) == IF status = "USED" THEN "UNUSED" ELSE status

CommitSuccess(t) ==
  LET p == Pay(t) IN
  /\ At(t, "commit")
  /\ refundStatus' = [refundStatus EXCEPT ![p] = "SUCCESS"]
  /\ payStatus' = [payStatus EXCEPT ![p] = "REFUNDED"]
  /\ billStatus' = [billStatus EXCEPT ![p] = "REFUNDED"]
  /\ couponStatus' = [couponStatus EXCEPT ![p] = Released(@)]
  /\ invoice' = [invoice EXCEPT ![p] = Voided(task[t].goal, @)]
  /\ Leave(t)
  /\ UNCHANGED <<requested, deskUsed, crossed, outside, ages>>

\* verify at the desk, after the coupon was given back.
Redeem(p) ==
  /\ couponStatus[p] = "UNUSED"
  /\ couponStatus' = [couponStatus EXCEPT ![p] = "USED"]
  /\ deskUsed' = deskUsed \cup {p}
  /\ UNCHANGED <<refundStatus, requested, payStatus, billStatus, invoices, outside, ages, task>>

-----------------------------------------------------------------------------
(* The recovery job's alert *)

GetsOld(p) ==
  /\ refundStatus[p] # "NONE" /\ p \notin old
  /\ old' = old \cup {p}
  /\ UNCHANGED <<database, invoices, outside, alerted, task>>

RaiseAlert(t) ==
  /\ At(t, "alert")
  /\ alerted' = IF Pay(t) \in old THEN alerted \cup {Pay(t)} ELSE alerted
  /\ End(t)
  /\ UNCHANGED <<database, invoices, outside, old>>

-----------------------------------------------------------------------------
(* Invoice applications: apply and transition *)

\* The payment is read before, and outside, the transaction that inserts the application.
BeginApply(t, p) ==
  /\ payStatus[p] = "SUCCESS"
  /\ invoice[p] = "NONE"
  /\ Begin(t, "apply", "submit", p, "NONE", "NONE")
  /\ UNCHANGED <<database, invoices, outside, ages>>

\* The foreign key waits for a transaction that holds the payment; the payment's status is not
\* compared.
SubmitApplication(t) ==
  LET p == Pay(t) IN
  /\ At(t, "submit")
  /\ invoice[p] = "NONE" /\ ~Locked(p)
  /\ invoice' = [invoice EXCEPT ![p] = "SUBMITTED"]
  /\ crossed' = IF payStatus[p] = "REFUNDED" THEN crossed \cup {p} ELSE crossed
  /\ End(t)
  /\ UNCHANGED <<database, outside, ages>>

Allowed(s) ==
  CASE s = "SUBMITTED"         -> {"PROCESSING", "ISSUED", "REJECTED"}
    [] s = "PROCESSING"        -> {"ISSUED", "REJECTED"}
    [] s = "REVERSAL_REQUIRED" -> {"REVERSED"}
    [] OTHER                   -> {}

BeginTransition(t, p, to) ==
  /\ to \in Allowed(invoice[p])
  /\ Begin(t, "transition", "transit", p, invoice[p], to)
  /\ UNCHANGED <<database, invoices, outside, ages>>

CommitTransition(t) ==
  LET p == Pay(t) IN
  /\ At(t, "transit")
  /\ invoice[p] = task[t].saw
  /\ invoice' = [invoice EXCEPT ![p] = task[t].goal]
  /\ crossed' = IF Locked(p) THEN crossed \cup {p} ELSE crossed
  /\ End(t)
  /\ UNCHANGED <<database, outside, ages>>

-----------------------------------------------------------------------------

Next ==
  \/ \E t \in Handlers, p \in Payments : BeginRefund(t, p) \/ BeginLookup(t, p)
  \/ \E t \in Clerks, p \in Payments :
       BeginApply(t, p) \/ \E to \in Invoices : BeginTransition(t, p, to)
  \/ \E t \in Jobs, p \in Payments : BeginRecover(t, p)
  \/ \E t \in Tasks : \/ FindAggregate(t) \/ CreateAggregate(t) \/ ReviveAggregate(t)
                      \/ MarkProcessing(t) \/ RequestRefund(t) \/ QueryRefund(t)
                      \/ LookupThrows(t) \/ Conclude(t) \/ LockForSuccess(t) \/ CommitSuccess(t)
                      \/ RaiseAlert(t) \/ SubmitApplication(t) \/ CommitTransition(t) \/ Abort(t)
  \/ \E p \in Payments : \/ LateArrival(p) \/ MerchantRepeats(p) \/ Redeem(p) \/ GetsOld(p)
                         \/ \E s \in Finals : WeChatDecides(p, s)

Spec == Init /\ [][Next]_vars

-----------------------------------------------------------------------------
(* Properties *)

\* The refund, the payment and the bill tell the same story: returned in all three or in none,
\* and the bill is REFUNDING exactly while the refund is open, so that a bill is never left locked
\* by a refund that was given up, nor payable as PAID while money is on its way back.
LedgersAgree ==
  \A p \in Payments :
    /\ payStatus[p] = "REFUNDED" <=> refundStatus[p] = "SUCCESS"
    /\ billStatus[p] = "REFUNDED" <=> refundStatus[p] = "SUCCESS"
    /\ billStatus[p] = "REFUNDING" <=> refundStatus[p] \in Open

\* The coupon of a returned payment is back with its owner or redeemed at the desk; no second
\* conclusion of the refund gives a redeemed one back again.
CouponGivenBackOnce ==
  \A p \in Payments :
    /\ couponStatus[p] = "UNUSED" => payStatus[p] = "REFUNDED" /\ p \notin deskUsed
    /\ couponStatus[p] = "USED" => (payStatus[p] = "REFUNDED" <=> p \in deskUsed)

\* No application for an invoice stays valid once its payment is returned.  The code does not keep
\* this when the application is submitted or moved while the refund succeeds.
InvoiceIsVoided ==
  \A p \in Payments : payStatus[p] = "REFUNDED" => invoice[p] \notin Pending \cup {"ISSUED"}

\* The same, except for applications that were written after the refund read them.
InvoiceIsVoidedUnlessCrossed ==
  \A p \in Payments \ crossed :
    payStatus[p] = "REFUNDED" => invoice[p] \notin Pending \cup {"ISSUED"}

Charge(p) ==
  IF payStatus[p] = "REFUNDED" THEN "returned"
  ELSE IF billStatus[p] = "REFUNDING" THEN "asked"
  ELSE IF refundStatus[p] = "NONE" THEN "kept" ELSE "refused"

Voucher(p) ==
  IF couponStatus[p] = "NONE" THEN "none"
  ELSE IF couponStatus[p] = "UNUSED" THEN "free"
  ELSE IF p \in deskUsed THEN "redeemed" ELSE "spent"

Books == INSTANCE MoneyBack WITH
           charge <- [p \in Payments |-> Charge(p)],
           sentBack <- {p \in Payments : wechat[p] = "SUCCESS"},
           coupon <- [p \in Payments |-> Voucher(p)]

\* Every step is a step of MoneyBack or leaves its variables alone: returned only after WeChat
\* sent the money back, for ever, and together with the coupon.
ImplementsMoneyBack == Books!Spec

\* Money that WeChat has sent back is recorded in the end, without any notification and whatever
\* the books believed before.
MoneyBackIsRecorded ==
  \A p \in Payments : wechat[p] = "SUCCESS" ~> refundStatus[p] = "SUCCESS"

\* An open refund is decided or an alert is raised for it, also when its request never reached
\* WeChat.
OpenIsDecidedOrReported ==
  \A p \in Payments : refundStatus[p] \in Open ~> (refundStatus[p] \notin Open \/ p \in alerted)

RefundsEnd == MoneyBackIsRecorded /\ OpenIsDecidedOrReported
=============================================================================
