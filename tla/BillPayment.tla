------------------------------- MODULE BillPayment -------------------------------
(***************************************************************************)
(* One bill, one payment: how an owner's WeChat order, an administrator's  *)
(* offline settlement and a bill cancellation compete for an unpaid bill   *)
(* (payment.service.ts, offline-payment.service.ts, payment-recovery.      *)
(* service.ts, bill-workflow.service.ts:cancelBill, coupons.service.ts:    *)
(* verify).                                                                *)
(*                                                                         *)
(* A database transaction is one action: each consists of conditional      *)
(* updates whose counts are checked, on rows it then keeps locked.  Every  *)
(* await between two transactions, or around a call to WeChat, is a point  *)
(* where other tasks run: a task remembers what it read in its record and  *)
(* acts on it later.  A task may also die or fail at any point (Abort).    *)
(*                                                                         *)
(* Left out: amounts (an order is charged what its row says, and no        *)
(* operation edits the amount of an issued bill), the three-layer          *)
(* collection policy and coupon eligibility (they only add ways for the    *)
(* reserving transaction to throw, which Abort covers), the idempotency    *)
(* records (a task is one admitted request), audit rows and events, the    *)
(* MOCK channel (development only), refunds through WeChat.                *)
(***************************************************************************)

CONSTANTS
  Bills,       \* issued bills
  Coupons,     \* claimed coupons (UserCoupon rows) of the owner
  Payments,    \* the order numbers that may be used: bounds how many orders are created
  Requests,    \* concurrent HTTP handlers: owner, WeChat callback, administrator
  Workers,     \* instances of the payment-recovery job
  None         \* SQL NULL

ASSUME NoneAssumption == None \notin Bills \cup Coupons \cup Payments
ASSUME TasksAssumption == Requests \cap Workers = {}

VARIABLES
  billStatus,    \* Bill.status
  billPayment,   \* Bill.paymentId: the order that occupies or settled the bill
  payStatus,     \* Payment.status, "NONE" before the row exists
  order,         \* the columns of Payment that never change: bill, coupon, channel
  couponStatus,  \* UserCoupon.status
  deskUsed,      \* coupons redeemed at the desk rather than by an order
  sent,          \* prepay requests on their way to WeChat
  trade,         \* the order's state at WeChat, "ABSENT" while WeChat knows no such order
  handed,        \* orders whose payParams were returned to the owner
  acked,         \* orders whose notification was answered 200 SUCCESS
  early,         \* history: orders an administrator looked up during their prepay call
  task           \* what each handler or worker is doing

database == <<billStatus, billPayment, payStatus, order, couponStatus, deskUsed>>
wechat   == <<sent, trade, handed, acked, early>>
vars     == <<database, wechat, task>>

Tasks          == Requests \cup Workers
BillStatuses   == {"UNPAID", "PAID", "CANCELED", "REFUNDED"}
ActiveStatuses == {"CREATED", "PREPAY_UNKNOWN"}
PayStatuses    == ActiveStatuses \cup {"NONE", "SUCCESS", "FAILED", "CLOSED", "REFUNDED"}
Trades         == {"ABSENT", "NOTPAY", "SUCCESS", "CLOSED", "PAYERROR"}
AdminOps       == {"settleOffline", "cancelBill"}
Ops            == AdminOps \cup {"none", "create", "notify", "sync", "cancel", "poll", "reconcile"}
Steps          == {"idle", "reserve", "prepay", "resolve", "query", "close", "finish",
                   "apply", "settle", "verify", "reload", "commit"}

Orders == [bill : Bills \cup {None}, coupon : Coupons \cup {None},
           channel : {"WXPAY", "OFFLINE", "NONE"}]
NoOrder == [bill |-> None, coupon |-> None, channel |-> "NONE"]

TaskStates == [op : Ops, step : Steps, bill : Bills \cup {None}, coupon : Coupons \cup {None},
               pay : Payments \cup {None}, verdict : {"CLOSED", "FAILED", "NONE"}]
Idle == [op |-> "none", step |-> "idle", bill |-> None, coupon |-> None,
         pay |-> None, verdict |-> "NONE"]

TypeOK ==
  /\ billStatus \in [Bills -> BillStatuses]
  /\ billPayment \in [Bills -> Payments \cup {None}]
  /\ payStatus \in [Payments -> PayStatuses]
  /\ order \in [Payments -> Orders]
  /\ couponStatus \in [Coupons -> {"UNUSED", "USED"}]
  /\ deskUsed \in SUBSET Coupons
  /\ sent \in SUBSET Payments
  /\ trade \in [Payments -> Trades]
  /\ handed \in SUBSET Payments
  /\ acked \in SUBSET Payments
  /\ early \in SUBSET Payments
  /\ task \in [Tasks -> TaskStates]

Init ==
  /\ billStatus = [b \in Bills |-> "UNPAID"]
  /\ billPayment = [b \in Bills |-> None]
  /\ payStatus = [p \in Payments |-> "NONE"]
  /\ order = [p \in Payments |-> NoOrder]
  /\ couponStatus = [c \in Coupons |-> "UNUSED"]
  /\ deskUsed = {}
  /\ sent = {}
  /\ trade = [p \in Payments |-> "ABSENT"]
  /\ handed = {}
  /\ acked = {}
  /\ early = {}
  /\ task = [t \in Tasks |-> Idle]

-----------------------------------------------------------------------------
(* Tasks *)

At(t, step) == task[t].step = step
Begin(t, op, step, b, c, p) ==
  /\ At(t, "idle")
  /\ task' = [task EXCEPT ![t] = [op |-> op, step |-> step, bill |-> b, coupon |-> c,
                                  pay |-> p, verdict |-> "NONE"]]
Goto(t, step) == task' = [task EXCEPT ![t].step = step]
End(t)        == task' = [task EXCEPT ![t] = Idle]

\* The task is to end the order unpaid, as CLOSED or as FAILED.
ToFinish(t, v) == task' = [task EXCEPT ![t].step = "finish", ![t].verdict = v]

\* The task has created order p.
ToPrepay(t, p) == task' = [task EXCEPT ![t].step = "prepay", ![t].pay = p]

\* The order was looked up without an error: an administrator's handler reads the
\* bill again, every other task is done.
Return(t) ==
  IF task[t].op \in AdminOps
  THEN task' = [task EXCEPT ![t].step = "reload", ![t].pay = None, ![t].verdict = "NONE"]
  ELSE End(t)

\* The process dies, the transaction rolls back, or a call throws: the request ends
\* with an error and whatever was committed stays.
Abort(t) ==
  /\ ~At(t, "idle")
  /\ End(t)
  /\ UNCHANGED <<database, wechat>>

-----------------------------------------------------------------------------
(* Conditions of the conditional updates *)

Exists(p)     == payStatus[p] # "NONE"
Unfinished(p) == payStatus[p] \in ActiveStatuses
\* Fault: the bill's paymentId is not compared.
UnclaimedByStatus(b) == billStatus[b] = "UNPAID"
Unclaimed(b)  == billStatus[b] = "UNPAID" /\ billPayment[b] = None
Holds(p, b)   == billStatus[b] = "UNPAID" /\ billPayment[b] = p

\* Fault: a coupon is guarded by the unique Payment.userCouponId alone.
SpendableByRow(c) == c # None => \A p \in Payments : order[p].coupon # c

\* The coupon is UNUSED and no Payment row carries it (Payment.userCouponId is unique).
Spendable(c) == c # None => /\ couponStatus[c] = "UNUSED"
                            /\ \A p \in Payments : order[p].coupon # c

\* The prepay call of p has not returned, or its request has not reached WeChat.
InPrepay(p) == p \in sent \/ \E t \in Requests : At(t, "prepay") /\ task[t].pay = p

-----------------------------------------------------------------------------
(* createPayment *)

\* The bill is read UNPAID and no unfinished order lists it; the coupon is as asked.
BeginCreate(t, b, c) ==
  /\ billStatus[b] = "UNPAID"
  /\ \A p \in Payments : order[p].bill = b => ~Unfinished(p)
  /\ Begin(t, "create", "reserve", b, c, None)
  /\ UNCHANGED <<database, wechat>>

\* The reserving transaction: coupon USED, order CREATED, bill claimed, all or nothing.
\* Its commit is followed by the prepay request.
ReserveBill(t) ==
  LET b == task[t].bill
      c == task[t].coupon
  IN
  /\ At(t, "reserve")
  /\ Spendable(c)
  /\ Unclaimed(b)
  /\ \E p \in Payments :
       /\ ~Exists(p)
       /\ payStatus' = [payStatus EXCEPT ![p] = "CREATED"]
       /\ order' = [order EXCEPT ![p] = [bill |-> b, coupon |-> c, channel |-> "WXPAY"]]
       /\ billPayment' = [billPayment EXCEPT ![b] = p]
       /\ sent' = sent \cup {p}
       /\ ToPrepay(t, p)
  /\ couponStatus' = [d \in Coupons |-> IF d = c THEN "USED" ELSE couponStatus[d]]
  /\ UNCHANGED <<billStatus, deskUsed, trade, handed, acked, early>>

\* Fault: an order is ended whatever its status.
FinishUnpaidAnyway(p, status) ==
  /\ payStatus' = [payStatus EXCEPT ![p] = status]
  /\ billPayment' = [b \in Bills |-> IF Holds(p, b) THEN None ELSE billPayment[b]]
  /\ couponStatus' = [c \in Coupons |-> IF c = order[p].coupon THEN "UNUSED" ELSE couponStatus[c]]
  /\ UNCHANGED <<billStatus, order, deskUsed>>

\* finishUnpaidPayment: the order ends unpaid, and in the same transaction its bill is
\* released and its coupon returned; nothing happens to an order that has ended.
FinishUnpaid(p, status) ==
  IF Unfinished(p)
  THEN /\ payStatus' = [payStatus EXCEPT ![p] = status]
       /\ billPayment' = [b \in Bills |-> IF Holds(p, b) THEN None ELSE billPayment[b]]
       /\ couponStatus' = [c \in Coupons |-> IF c = order[p].coupon THEN "UNUSED"
                                             ELSE couponStatus[c]]
       /\ UNCHANGED <<billStatus, order, deskUsed>>
  ELSE UNCHANGED database

\* WeChat answers with a prepay_id: the owner gets payParams, whatever has become of
\* the order since it was created.
PrepayAccepted(t) ==
  /\ At(t, "prepay")
  /\ trade[task[t].pay] # "ABSENT"
  /\ handed' = handed \cup {task[t].pay}
  /\ End(t)
  /\ UNCHANGED <<database, sent, trade, acked, early>>

\* WeChat answers 4xx: it has not created the order.
PrepayRejected(t) ==
  /\ At(t, "prepay")
  /\ trade[task[t].pay] = "ABSENT"
  /\ task[t].pay \notin sent
  /\ FinishUnpaid(task[t].pay, "FAILED")
  /\ End(t)
  /\ UNCHANGED wechat

\* Timeout, network error or 5xx: the bill stays claimed until a query decides.
PrepayUncertain(t) ==
  /\ At(t, "prepay")
  /\ payStatus' = [payStatus EXCEPT ![task[t].pay] = IF @ = "CREATED" THEN "PREPAY_UNKNOWN" ELSE @]
  /\ End(t)
  /\ UNCHANGED <<billStatus, billPayment, order, couponStatus, deskUsed, wechat>>

-----------------------------------------------------------------------------
(* WeChat Pay and the owner's cashier: external *)

WeChatAccepts(p) ==
  /\ p \in sent
  /\ sent' = sent \ {p}
  /\ trade' = [trade EXCEPT ![p] = "NOTPAY"]
  /\ UNCHANGED <<database, handed, acked, early, task>>

\* The request is refused, or lost on the way.
WeChatDrops(p) ==
  /\ p \in sent
  /\ sent' = sent \ {p}
  /\ UNCHANGED <<database, trade, handed, acked, early, task>>

\* Only an owner who received payParams can open the cashier.
OwnerPays(p) ==
  /\ p \in handed
  /\ trade[p] = "NOTPAY"
  /\ \E s \in {"SUCCESS", "PAYERROR"} : trade' = [trade EXCEPT ![p] = s]
  /\ UNCHANGED <<database, sent, handed, acked, early, task>>

\* WeChat closes an order nobody paid.
WeChatExpires(p) ==
  /\ trade[p] = "NOTPAY"
  /\ trade' = [trade EXCEPT ![p] = "CLOSED"]
  /\ UNCHANGED <<database, sent, handed, acked, early, task>>

-----------------------------------------------------------------------------
(* Where a decision about an order starts *)

\* handleWxPayNotification: WeChat says p is paid, once, several times, late or never.
BeginNotify(t, p) ==
  /\ trade[p] = "SUCCESS"
  /\ Begin(t, "notify", "apply", None, None, p)
  /\ UNCHANGED <<database, wechat>>

\* syncWxPay: the owner's page asks after the cashier returns.
BeginSync(t, p) ==
  /\ order[p].channel = "WXPAY"
  /\ payStatus[p] # "SUCCESS"
  /\ Begin(t, "sync", "query", None, None, p)
  /\ UNCHANGED <<database, wechat>>

\* cancelWxPay: the owner left the cashier.
BeginCancel(t, p) ==
  /\ order[p].channel = "WXPAY"
  /\ payStatus[p] = "CREATED"
  /\ Begin(t, "cancel", "query", None, None, p)
  /\ UNCHANGED <<database, wechat>>

\* Fault: the job forgets the orders whose prepay call succeeded.
BeginRecoverUncertain(t, p, op) ==
  /\ order[p].channel = "WXPAY"
  /\ payStatus[p] = "PREPAY_UNKNOWN"
  /\ ~InPrepay(p)
  /\ Begin(t, op, "query", None, None, p)
  /\ UNCHANGED <<database, wechat>>

\* closeStaleOrders: an instance looks an unfinished order up ("poll") once it is 2 minutes
\* old, and may also close it or declare it failed ("reconcile") once it is 30 minutes old.
\* Time is a choice here, except that both ages are far beyond the 15-second limit of a call
\* to WeChat.  The 90-second lease on the order only makes rare what the model allows: two
\* instances at the same order.
BeginRecover(t, p, op) ==
  /\ order[p].channel = "WXPAY"
  /\ Unfinished(p)
  /\ ~InPrepay(p)
  /\ Begin(t, op, "query", None, None, p)
  /\ UNCHANGED <<database, wechat>>

\* History: an administrator's handler looks p up while its prepay call is in progress.
NoteEarly(p) == early' = IF InPrepay(p) THEN early \cup {p} ELSE early

\* forceSync: an administrator has an unfinished order looked up at once, whatever its age.  (The
\* daily reconciliation starts the same lookup for an order on WeChat's list of paid ones.)
BeginForceSync(t, p) ==
  /\ order[p].channel = "WXPAY"
  /\ Unfinished(p)
  /\ Begin(t, "reconcile", "query", None, None, p)
  /\ NoteEarly(p)
  /\ UNCHANGED <<database, sent, trade, handed, acked>>

\* settleOffline and cancelBill: the bill is read UNPAID; an order that occupies it is
\* resolved first (resolveActiveOrder).
BeginAdmin(t, op, b) ==
  /\ billStatus[b] = "UNPAID"
  /\ Begin(t, op, IF billPayment[b] = None THEN "commit" ELSE "resolve", b, None, billPayment[b])
  /\ UNCHANGED <<database, wechat>>

\* resolveActiveOrder reads the order: an unfinished one is looked up at WeChat.
Resolve(t) ==
  /\ At(t, "resolve")
  /\ IF Unfinished(task[t].pay) THEN Goto(t, "query") ELSE Return(t)
  /\ NoteEarly(task[t].pay)
  /\ UNCHANGED <<database, sent, trade, handed, acked>>

-----------------------------------------------------------------------------
(* reconcileStaleWxPay, cancelWxPay, syncWxPay: query, then act on the answer.  "poll"  *)
(* is reconcileStaleWxPay with allowClose = false, "reconcile" and an administrator's   *)
(* operations run it with allowClose = true.                                            *)

Deciders == AdminOps \cup {"reconcile"}

\* The answer s makes op close the order at WeChat first.
MustClose(op, s) == \/ s = "NOTPAY" /\ op \in Deciders \cup {"cancel"}
                    \/ s = "PAYERROR" /\ op = "cancel"

\* Faults: WeChat's state is stored as it is; an order is ended though it is still payable; an
\* order WeChat does not know is never ended.
VerdictAsAnswered(op, s) == IF s = "NOTPAY" THEN "NONE" ELSE s
VerdictStillPayable(op, s) == CASE s \in {"CLOSED", "NOTPAY"} -> "CLOSED"
                                [] s = "PAYERROR" /\ op # "cancel" -> "FAILED"
                                [] s = "ABSENT" /\ op \in Deciders -> "FAILED"
                                [] OTHER -> "NONE"
VerdictNotOfAbsent(op, s) == CASE s = "CLOSED" -> "CLOSED"
                               [] s = "PAYERROR" /\ op # "cancel" -> "FAILED"
                               [] OTHER -> "NONE"

\* The terminal status that the answer s lets op write, "NONE" if it lets it write none.
Verdict(op, s) == CASE s = "CLOSED" -> "CLOSED"
                    [] s = "PAYERROR" /\ op # "cancel" -> "FAILED"
                    [] s = "ABSENT" /\ op \in Deciders -> "FAILED"
                    [] OTHER -> "NONE"

QueryPaid(t) ==
  /\ At(t, "query")
  /\ trade[task[t].pay] = "SUCCESS"
  /\ Goto(t, "apply")
  /\ UNCHANGED <<database, wechat>>

QueryUnpaid(t) ==
  /\ At(t, "query")
  /\ MustClose(task[t].op, trade[task[t].pay])
  /\ Goto(t, "close")
  /\ UNCHANGED <<database, wechat>>

QueryEnded(t) ==
  LET v == Verdict(task[t].op, trade[task[t].pay])
  IN
  /\ At(t, "query")
  /\ v # "NONE"
  /\ ToFinish(t, v)
  /\ UNCHANGED <<database, wechat>>

\* NOTPAY to a task that must not close, ABSENT to "poll": left as it is.  (ABSENT makes
\* "sync" and "cancel" throw: Abort.)
QueryUndecided(t) ==
  /\ At(t, "query")
  /\ \/ trade[task[t].pay] = "NOTPAY" /\ task[t].op \in {"sync", "poll"}
     \/ trade[task[t].pay] = "ABSENT" /\ task[t].op = "poll"
  /\ End(t)
  /\ UNCHANGED <<database, wechat>>

\* Fault: WeChat's refusal to close is swallowed.
CloseOrderIgnoringRefusal(t) ==
  /\ At(t, "close")
  /\ trade' = [trade EXCEPT ![task[t].pay] = IF @ = "SUCCESS" THEN @ ELSE "CLOSED"]
  /\ ToFinish(t, "CLOSED")
  /\ UNCHANGED <<database, sent, handed, acked, early>>

\* provider.close: WeChat refuses to close a paid order, and the refusal throws (Abort).
CloseOrder(t) ==
  /\ At(t, "close")
  /\ trade[task[t].pay] # "SUCCESS"
  /\ trade' = [trade EXCEPT ![task[t].pay] = "CLOSED"]
  /\ ToFinish(t, "CLOSED")
  /\ UNCHANGED <<database, sent, handed, acked, early>>

Finish(t) ==
  /\ At(t, "finish")
  /\ FinishUnpaid(task[t].pay, task[t].verdict)
  /\ Return(t)
  /\ UNCHANGED wechat

-----------------------------------------------------------------------------
(* applyWxPaySuccess, settleWxPayInTenant *)

\* A notification that ends without an error is answered 200 SUCCESS.
Acknowledge(t) ==
  acked' = IF task[t].op = "notify" THEN acked \cup {task[t].pay} ELSE acked

\* The order is read SUCCESS: already credited.  (Any other finished status throws.)
ApplyAgain(t) ==
  /\ At(t, "apply")
  /\ payStatus[task[t].pay] = "SUCCESS"
  /\ Acknowledge(t)
  /\ Return(t)
  /\ UNCHANGED <<database, sent, trade, handed, early>>

Apply(t) ==
  /\ At(t, "apply")
  /\ Unfinished(task[t].pay)
  /\ Goto(t, "settle")
  /\ UNCHANGED <<database, wechat>>

\* The crediting transaction: order SUCCESS and its bill PAID, or neither.
Settle(t) ==
  LET p == task[t].pay
      b == order[p].bill
  IN
  /\ At(t, "settle")
  /\ Unfinished(p)
  /\ Holds(p, b)
  /\ payStatus' = [payStatus EXCEPT ![p] = "SUCCESS"]
  /\ billStatus' = [billStatus EXCEPT ![b] = "PAID"]
  /\ Acknowledge(t)
  /\ Return(t)
  /\ UNCHANGED <<billPayment, order, couponStatus, deskUsed, sent, trade, handed, early>>

\* The conditional update matched no row: somebody else finished the order meanwhile.
SettleSkipped(t) ==
  /\ At(t, "settle")
  /\ ~Unfinished(task[t].pay)
  /\ Goto(t, "verify")
  /\ UNCHANGED <<database, wechat>>

\* Fault: no row matched, so somebody else must have credited it.
VerifySkippedNot(t) ==
  /\ At(t, "verify")
  /\ Acknowledge(t)
  /\ Return(t)
  /\ UNCHANGED <<database, sent, trade, handed, early>>

\* It is read again outside the transaction: only SUCCESS counts.  (Otherwise throws.)
VerifySkipped(t) ==
  /\ At(t, "verify")
  /\ payStatus[task[t].pay] = "SUCCESS"
  /\ Acknowledge(t)
  /\ Return(t)
  /\ UNCHANGED <<database, sent, trade, handed, early>>

-----------------------------------------------------------------------------
(* The administrator's and the desk's own transactions *)

\* The bill is read again after its order was resolved.
Reload(t) ==
  /\ At(t, "reload")
  /\ billStatus[task[t].bill] # "PAID"
  /\ billPayment[task[t].bill] = None
  /\ Goto(t, "commit")
  /\ UNCHANGED <<database, wechat>>

\* settleOffline: an OFFLINE order is created paid and settles the bill.
SettleOffline(t) ==
  LET b == task[t].bill
  IN
  /\ At(t, "commit")
  /\ task[t].op = "settleOffline"
  /\ Unclaimed(b)
  /\ \E p \in Payments :
       /\ ~Exists(p)
       /\ payStatus' = [payStatus EXCEPT ![p] = "SUCCESS"]
       /\ order' = [order EXCEPT ![p] = [bill |-> b, coupon |-> None, channel |-> "OFFLINE"]]
       /\ billPayment' = [billPayment EXCEPT ![b] = p]
  /\ billStatus' = [billStatus EXCEPT ![b] = "PAID"]
  /\ End(t)
  /\ UNCHANGED <<couponStatus, deskUsed, wechat>>

CancelBill(t) ==
  /\ At(t, "commit")
  /\ task[t].op = "cancelBill"
  /\ Unclaimed(task[t].bill)
  /\ billStatus' = [billStatus EXCEPT ![task[t].bill] = "CANCELED"]
  /\ End(t)
  /\ UNCHANGED <<billPayment, payStatus, order, couponStatus, deskUsed, wechat>>

\* Fault: the bill is reopened with its order still named.
ReverseOfflineReopens(p) ==
  /\ order[p].channel = "OFFLINE"
  /\ payStatus[p] = "SUCCESS"
  /\ payStatus' = [payStatus EXCEPT ![p] = "REFUNDED"]
  /\ billStatus' = [b \in Bills |-> IF billPayment[b] = p /\ billStatus[b] = "PAID"
                                    THEN "UNPAID" ELSE billStatus[b]]
  /\ UNCHANGED <<billPayment, order, couponStatus, deskUsed, wechat, task>>

\* reverseOffline: one transaction; a second reversal fails on Refund.paymentId.
ReverseOffline(p) ==
  /\ order[p].channel = "OFFLINE"
  /\ payStatus[p] = "SUCCESS"
  /\ payStatus' = [payStatus EXCEPT ![p] = "REFUNDED"]
  /\ billStatus' = [b \in Bills |-> IF billPayment[b] = p /\ billStatus[b] = "PAID"
                                    THEN "REFUNDED" ELSE billStatus[b]]
  /\ UNCHANGED <<billPayment, order, couponStatus, deskUsed, wechat, task>>

\* verify: the desk redeems a coupon.
RedeemAtDesk(c) ==
  /\ couponStatus[c] = "UNUSED"
  /\ couponStatus' = [couponStatus EXCEPT ![c] = "USED"]
  /\ deskUsed' = deskUsed \cup {c}
  /\ UNCHANGED <<billStatus, billPayment, payStatus, order, wechat, task>>

-----------------------------------------------------------------------------
Query(t) == QueryPaid(t) \/ QueryUnpaid(t) \/ QueryEnded(t) \/ QueryUndecided(t)

LookUp(t) ==
  \/ Query(t) \/ CloseOrder(t) \/ Finish(t)
  \/ ApplyAgain(t) \/ Apply(t) \/ Settle(t) \/ SettleSkipped(t) \/ VerifySkipped(t)

PrepayReturns(t) == PrepayAccepted(t) \/ PrepayRejected(t) \/ PrepayUncertain(t)

RequestStep(t) ==
  \/ \E b \in Bills, c \in Coupons \cup {None} : BeginCreate(t, b, c)
  \/ \E p \in Payments : BeginNotify(t, p) \/ BeginSync(t, p) \/ BeginCancel(t, p) \/ BeginForceSync(t, p)
  \/ \E b \in Bills, op \in AdminOps : BeginAdmin(t, op, b)
  \/ ReserveBill(t) \/ PrepayReturns(t)
  \/ Resolve(t) \/ Reload(t) \/ SettleOffline(t) \/ CancelBill(t)

Next ==
  \/ \E t \in Requests : RequestStep(t)
  \/ \E t \in Workers, p \in Payments, op \in {"poll", "reconcile"} : BeginRecover(t, p, op)
  \/ \E t \in Tasks : LookUp(t) \/ Abort(t)
  \/ \E p \in Payments :
       \/ WeChatAccepts(p) \/ WeChatDrops(p) \/ OwnerPays(p) \/ WeChatExpires(p)
       \/ ReverseOffline(p)
  \/ \E c \in Coupons : RedeemAtDesk(c)

Spec == Init /\ [][Next]_vars

\* Fairness.  A call to WeChat returns within 15 seconds and its request is delivered or
\* dropped; no run of the job waits for ever, one that cannot go on throws; the job visits every
\* unfinished order every 2 minutes, one that stays unfinished reaches 30 minutes, and a step
\* of the job that is retried for ever does not fail for ever.  Nothing is assumed of
\* notifications, of the owner or of administrators.
Fairness ==
  /\ \A t \in Requests : WF_vars(PrepayReturns(t))
  /\ \A p \in Payments : WF_vars(WeChatAccepts(p) \/ WeChatDrops(p))
  /\ \A t \in Workers, p \in Payments :
       /\ WF_vars(Abort(t))
       /\ SF_vars(BeginRecover(t, p, "reconcile"))
       /\ SF_vars(task[t].pay = p /\ task[t].op = "reconcile" /\ Query(t))
       /\ SF_vars(task[t].pay = p /\ CloseOrder(t))
       /\ SF_vars(task[t].pay = p /\ Finish(t))
       /\ SF_vars(task[t].pay = p /\ Apply(t))
       /\ SF_vars(task[t].pay = p /\ Settle(t))

FairSpec == Spec /\ Fairness

-----------------------------------------------------------------------------
(* Properties *)

\* The two tables tell one story.  A PAID bill names the order that paid it; an UNPAID bill
\* names nothing or an unfinished order for it; a void bill names nothing.  Read the other
\* way, an unfinished order holds its bill and a successful one has settled it, so no bill
\* has two live orders.  (Every transaction updates the two tables by separate conditions.)
LedgersAgree ==
  /\ \A b \in Bills :
       LET p == billPayment[b]
       IN
       /\ billStatus[b] = "PAID" => p # None /\ payStatus[p] = "SUCCESS" /\ order[p].bill = b
       /\ billStatus[b] = "REFUNDED" => p # None /\ payStatus[p] = "REFUNDED" /\ order[p].bill = b
       /\ billStatus[b] = "UNPAID" => p = None \/ (Unfinished(p) /\ order[p].bill = b)
       /\ billStatus[b] = "CANCELED" => p = None
  /\ \A p \in Payments :
       /\ Unfinished(p) => order[p].bill \in Bills /\ Holds(p, order[p].bill)
       /\ payStatus[p] = "SUCCESS" => /\ order[p].bill \in Bills
                                     /\ billStatus[order[p].bill] = "PAID"
                                     /\ billPayment[order[p].bill] = p

\* A coupon is USED exactly while one unfinished or successful order carries it or because
\* the desk redeemed it: it is neither spent twice nor returned while its order is paid.
CouponAccounted ==
  \A c \in Coupons :
    LET spending == {p \in Payments : order[p].coupon = c /\ (Unfinished(p) \/ payStatus[p] = "SUCCESS")}
    IN
    /\ couponStatus[c] = "USED" => spending # {} \/ c \in deskUsed
    /\ spending # {} => couponStatus[c] = "USED" /\ c \notin deskUsed
    /\ \A p, q \in spending : p = q
    /\ c \in deskUsed => couponStatus[c] = "USED"

\* WeChat stops calling back once it is told 200 SUCCESS, so that answer is given only for an
\* order that is credited: "count = 0" is never taken for "somebody else credited it".
AckedIsCredited == \A p \in acked : payStatus[p] = "SUCCESS"

\* A final status is final: a failed or closed order stays as it is, a successful one can only
\* be refunded, whatever stale answer a task still carries.
FinalIsFinal ==
  [][\A p \in Payments :
       /\ payStatus[p] \in {"FAILED", "CLOSED", "REFUNDED"} => payStatus'[p] = payStatus[p]
       /\ payStatus[p] = "SUCCESS" => payStatus'[p] \in {"SUCCESS", "REFUNDED"}
       /\ Exists(p) => order'[p] = order[p]]_vars

\* Money taken by WeChat is never orphaned: an order paid there is not written off here, so a
\* later callback or query can still credit it.
CreditableOrCredited(p) == Unfinished(p) \/ payStatus[p] = "SUCCESS"
PaidIsNeverWrittenOff == \A p \in Payments : trade[p] = "SUCCESS" => CreditableOrCredited(p)

\* The same but for the orders an administrator had looked up during their prepay call.
PaidIsNotWrittenOff ==
  \A p \in Payments \ early : trade[p] = "SUCCESS" => CreditableOrCredited(p)

\* The owner is charged once per bill: of the orders of one bill, at most one has been paid,
\* at WeChat or at the desk (the same orders excepted).
Collected(p) == trade[p] = "SUCCESS" \/ (order[p].channel = "OFFLINE" /\ payStatus[p] = "SUCCESS")
CollectedOnce ==
  \A p, q \in Payments \ early :
    Collected(p) /\ Collected(q) /\ order[p].bill = order[q].bill => p = q

\* A coupon shown as UNUSED can be spent: the coupon of an order that failed or was closed is
\* given back to the owner.
ReturnedCouponIsSpendable == \A c \in Coupons : couponStatus[c] = "UNUSED" => Spendable(c)

\* Money taken by WeChat is credited, though no notification ever arrives (the same orders
\* excepted).
PaidIsCredited ==
  \A p \in Payments : trade[p] = "SUCCESS" ~> (payStatus[p] = "SUCCESS" \/ p \in early)

\* A bill is not occupied for ever: its order settles it or releases it.
OccupiedIsReleased == \A p \in Payments : Unfinished(p) ~> (Exists(p) /\ ~Unfinished(p))

\* BillPayment implements the ledger.
Entry(b) ==
  [state |-> CASE billStatus[b] = "PAID" -> "settled"
               [] billStatus[b] = "REFUNDED" -> "returned"
               [] billStatus[b] = "CANCELED" -> "void"
               [] billStatus[b] = "UNPAID" /\ billPayment[b] = None -> "open"
               [] OTHER -> "held",
   holder |-> billPayment[b]]
Ledger == INSTANCE BillLedger WITH entry <- [b \in Bills |-> Entry(b)], used <- {p \in Payments : Exists(p)}

\* Each step of the code opens, holds, releases, settles, voids or gives back one bill as the
\* ledger allows, or leaves the ledger alone.  The ledger is that of the code and of the design
\* document, where the bill of a reversed payment is REFUNDED and stays so; the comment of the
\* reversal (admin-payment.controller.ts:238), that the bill goes back to unpaid, is wrong.
ImplementsLedger == Ledger!Spec
=============================================================================
