---------------------------- MODULE BillPaymentProofs ----------------------------
(***************************************************************************)
(* The inductive invariant of BillPayment and, from it, its safety         *)
(* properties, for any sets of bills, coupons, orders, handlers, workers.  *)
(***************************************************************************)
EXTENDS BillPayment, TLAPS

\* Steps of a task that work on an order, and on a bill.
PaySteps  == {"prepay", "resolve", "query", "close", "finish", "apply", "settle", "verify"}
BillSteps == {"reserve", "resolve", "reload", "commit"}

\* A task has what its step needs.
TaskOK(t) ==
  /\ task[t].step \in PaySteps => task[t].pay \in Payments /\ order[task[t].pay].channel = "WXPAY"
  /\ task[t].step \in BillSteps \/ task[t].op \in AdminOps => task[t].bill \in Bills
  /\ task[t].step = "finish" => task[t].verdict # "NONE"
  /\ task[t].step = "close" => trade[task[t].pay] # "ABSENT"

TasksOK == \A t \in Tasks : TaskOK(t)

\* What a row of Payment holds, by its status and channel.
RowOK(p) ==
  /\ ~Exists(p) => order[p] = NoOrder
  /\ Exists(p) => order[p].bill \in Bills /\ order[p].channel \in {"WXPAY", "OFFLINE"}
  /\ order[p].channel = "OFFLINE" => order[p].coupon = None /\ payStatus[p] \in {"SUCCESS", "REFUNDED"}
  /\ payStatus[p] = "REFUNDED" => order[p].channel = "OFFLINE"

\* WeChat knows only orders sent to it, and each prepay request is delivered once.
PrepayOK(p) ==
  /\ p \in sent \/ trade[p] # "ABSENT" \/ p \in acked => order[p].channel = "WXPAY"
  /\ p \in sent => trade[p] = "ABSENT"

OrdersOK == \A p \in Payments : RowOK(p) /\ PrepayOK(p)

\* WeChat will never take money for p: it closed the order, or has none and will get none.
CutOff(p) == trade[p] \in {"CLOSED", "PAYERROR"} \/ (trade[p] = "ABSENT" /\ p \notin sent)

\* A task that is about to end an order unpaid has seen it cut off; one that may conclude from
\* ABSENT started after the prepay request had landed.
CautiousTask(t) ==
  task[t].pay \notin early =>
    /\ task[t].step = "finish" => CutOff(task[t].pay)
    /\ task[t].step = "query" /\ task[t].op \in Deciders => task[t].pay \notin sent

\* An order that ended unpaid, or that a task is about to end unpaid, is cut off at WeChat.
EndedIsCutOff ==
  /\ \A p \in Payments \ early : payStatus[p] \in {"FAILED", "CLOSED"} => CutOff(p)
  /\ \A t \in Tasks : CautiousTask(t)

IInv == TypeOK /\ TasksOK /\ OrdersOK /\ LedgersAgree /\ CouponAccounted /\ AckedIsCredited /\ EndedIsCutOff

-----------------------------------------------------------------------------
(* Type correctness *)

\* Init gives every variable its type.
LEMMA InitTypeOK == Init => TypeOK
BY DEF Init, TypeOK, BillStatuses, PayStatuses, ActiveStatuses, Orders, NoOrder, Trades,
       TaskStates, Idle, Ops, Steps, AdminOps

\* Each helper that writes a task's record writes a task's record.
LEMMA BeginType ==
  ASSUME task \in [Tasks -> TaskStates], NEW t, NEW op \in Ops, NEW step \in Steps,
         NEW b \in Bills \cup {None}, NEW c \in Coupons \cup {None}, NEW p \in Payments \cup {None},
         Begin(t, op, step, b, c, p)
  PROVE  task' \in [Tasks -> TaskStates]
BY DEF Begin, TaskStates

LEMMA GotoType ==
  ASSUME task \in [Tasks -> TaskStates], NEW t, NEW step \in Steps, Goto(t, step)
  PROVE  task' \in [Tasks -> TaskStates]
BY DEF Goto, TaskStates

LEMMA EndType ==
  ASSUME task \in [Tasks -> TaskStates], NEW t, End(t)
  PROVE  task' \in [Tasks -> TaskStates]
BY DEF End, Idle, TaskStates, Ops, Steps

LEMMA ReturnType ==
  ASSUME task \in [Tasks -> TaskStates], NEW t, Return(t)
  PROVE  task' \in [Tasks -> TaskStates]
BY DEF Return, End, Idle, TaskStates, Ops, Steps

LEMMA ToFinishType ==
  ASSUME task \in [Tasks -> TaskStates], NEW t, NEW v \in {"CLOSED", "FAILED", "NONE"}, ToFinish(t, v)
  PROVE  task' \in [Tasks -> TaskStates]
<1>1. "finish" \in Steps
  BY DEF Steps
<1> QED
  BY <1>1 DEF ToFinish, TaskStates

LEMMA ToPrepayType ==
  ASSUME task \in [Tasks -> TaskStates], NEW t, NEW p \in Payments, ToPrepay(t, p)
  PROVE  task' \in [Tasks -> TaskStates]
<1>1. "prepay" \in Steps
  BY DEF Steps
<1> QED
  BY <1>1 DEF ToPrepay, TaskStates

\* Ending an order unpaid keeps the types of the rows it writes.
LEMMA FinishUnpaidType ==
  ASSUME TypeOK, NEW p \in Payments, NEW status \in {"CLOSED", "FAILED", "NONE"}, FinishUnpaid(p, status)
  PROVE  /\ billStatus' \in [Bills -> BillStatuses]
         /\ billPayment' \in [Bills -> Payments \cup {None}]
         /\ payStatus' \in [Payments -> PayStatuses]
         /\ order' \in [Payments -> Orders]
         /\ couponStatus' \in [Coupons -> {"UNUSED", "USED"}]
         /\ deskUsed' \in SUBSET Coupons
BY DEF TypeOK, FinishUnpaid, Unfinished, ActiveStatuses, PayStatuses, database

\* A step keeps every variable in its type.
LEMMA TypeStep == ASSUME IInv, [Next]_vars PROVE TypeOK'
<1> USE DEF IInv
<1>1. CASE UNCHANGED vars
  BY <1>1 DEF TypeOK, vars, database, wechat
<1>2. ASSUME NEW t \in Requests, RequestStep(t) PROVE TypeOK'
  <2> t \in Tasks
    BY DEF Tasks
  <2>1. ASSUME NEW b \in Bills, NEW c \in Coupons \cup {None}, BeginCreate(t, b, c) PROVE TypeOK'
    BY <2>1, BeginType, "create" \in Ops, "reserve" \in Steps
       DEF BeginCreate, TypeOK, database, wechat, Ops, Steps
  <2>2. ASSUME NEW p \in Payments, BeginNotify(t, p) \/ BeginSync(t, p) \/ BeginCancel(t, p) \/ BeginForceSync(t, p)
        PROVE  TypeOK'
    <3>1. {"notify", "sync", "cancel", "reconcile"} \subseteq Ops /\ {"apply", "query"} \subseteq Steps
      BY DEF Ops, Steps
    <3>2. task' \in [Tasks -> TaskStates]
      BY <2>2, <3>1, BeginType DEF TypeOK, BeginNotify, BeginSync, BeginCancel, BeginForceSync
    <3> QED
      BY <2>2, <3>2 DEF BeginNotify, BeginSync, BeginCancel, BeginForceSync, NoteEarly, TypeOK, database, wechat
  <2>3. ASSUME NEW b \in Bills, NEW op \in AdminOps, BeginAdmin(t, op, b) PROVE TypeOK'
    <3>1. op \in Ops /\ {"commit", "resolve"} \subseteq Steps /\ billPayment[b] \in Payments \cup {None}
      BY DEF Ops, Steps, TypeOK
    <3>2. task' \in [Tasks -> TaskStates]
      BY <2>3, <3>1, BeginType DEF TypeOK, BeginAdmin
    <3> QED
      BY <2>3, <3>2 DEF BeginAdmin, TypeOK, database, wechat
  <2>4. CASE ReserveBill(t)
    <3>1. PICK p \in Payments : /\ payStatus' = [payStatus EXCEPT ![p] = "CREATED"]
                               /\ order' = [order EXCEPT ![p] = [bill |-> task[t].bill, coupon |-> task[t].coupon, channel |-> "WXPAY"]]
                               /\ billPayment' = [billPayment EXCEPT ![task[t].bill] = p]
                               /\ sent' = sent \cup {p}
                               /\ ToPrepay(t, p)
      BY <2>4 DEF ReserveBill
    <3>2. task[t] \in TaskStates
      BY DEF TypeOK
    <3>3. task' \in [Tasks -> TaskStates]
      BY <3>1, ToPrepayType DEF TypeOK
    <3>4. order' \in [Payments -> Orders]
      BY <3>1, <3>2 DEF TypeOK, Orders, TaskStates
    <3>5. payStatus' \in [Payments -> PayStatuses]
      BY <3>1 DEF TypeOK, PayStatuses, ActiveStatuses
    <3> QED
      BY <2>4, <3>1, <3>3, <3>4, <3>5 DEF ReserveBill, TypeOK
  <2>5. CASE PrepayReturns(t)
    <3>1. task[t].step = "prepay"
      BY <2>5 DEF PrepayReturns, PrepayAccepted, PrepayRejected, PrepayUncertain, At
    <3>2. task[t].pay \in Payments
      BY <3>1 DEF TasksOK, TaskOK, PaySteps
    <3>3. task' \in [Tasks -> TaskStates]
      BY <2>5, EndType DEF TypeOK, PrepayReturns, PrepayAccepted, PrepayRejected, PrepayUncertain
    <3>4. CASE PrepayAccepted(t)
      BY <3>2, <3>3, <3>4 DEF PrepayAccepted, TypeOK, database
    <3>5. CASE PrepayRejected(t)
      BY <3>2, <3>3, <3>5, FinishUnpaidType DEF PrepayRejected, TypeOK, wechat
    <3>6. CASE PrepayUncertain(t)
      BY <3>2, <3>3, <3>6 DEF PrepayUncertain, TypeOK, wechat, PayStatuses, ActiveStatuses
    <3> QED
      BY <2>5, <3>4, <3>5, <3>6 DEF PrepayReturns
  <2>6. CASE Resolve(t)
    <3>1. task[t].pay \in Payments
      BY <2>6 DEF Resolve, At, TasksOK, TaskOK, PaySteps
    <3>2. task' \in [Tasks -> TaskStates]
      BY <2>6, GotoType, ReturnType, "query" \in Steps DEF Resolve, TypeOK, Steps
    <3> QED
      BY <2>6, <3>1, <3>2 DEF Resolve, NoteEarly, TypeOK, database
  <2>7. CASE Reload(t)
    BY <2>7, GotoType, "commit" \in Steps DEF Reload, TypeOK, database, wechat, Steps
  <2>8. CASE SettleOffline(t)
    <3>1. task[t].bill \in Bills
      BY <2>8 DEF SettleOffline, At, TasksOK, TaskOK, BillSteps
    <3>2. task' \in [Tasks -> TaskStates]
      BY <2>8, EndType DEF SettleOffline, TypeOK
    <3>3. PICK p \in Payments : /\ payStatus' = [payStatus EXCEPT ![p] = "SUCCESS"]
                               /\ order' = [order EXCEPT ![p] = [bill |-> task[t].bill, coupon |-> None, channel |-> "OFFLINE"]]
                               /\ billPayment' = [billPayment EXCEPT ![task[t].bill] = p]
      BY <2>8 DEF SettleOffline
    <3>4. order' \in [Payments -> Orders]
      BY <3>1, <3>3 DEF TypeOK, Orders
    <3> QED
      BY <2>8, <3>2, <3>3, <3>4 DEF SettleOffline, TypeOK, wechat, PayStatuses, BillStatuses
  <2>9. CASE CancelBill(t)
    BY <2>9, EndType DEF CancelBill, TypeOK, wechat, BillStatuses
  <2> QED
    BY <1>2, <2>1, <2>2, <2>3, <2>4, <2>5, <2>6, <2>7, <2>8, <2>9 DEF RequestStep
<1>3. ASSUME NEW t \in Workers, NEW p \in Payments, NEW op \in {"poll", "reconcile"}, BeginRecover(t, p, op)
      PROVE TypeOK'
  <2>1. op \in Ops /\ "query" \in Steps
    BY DEF Ops, Steps
  <2> QED
    BY <1>3, <2>1, BeginType DEF BeginRecover, TypeOK, database, wechat
<1>4. ASSUME NEW t \in Tasks, LookUp(t) PROVE TypeOK'
  <2>1. task[t].pay \in Payments
    BY <1>4 DEF LookUp, Query, QueryPaid, QueryUnpaid, QueryEnded, QueryUndecided, CloseOrder, Finish,
                ApplyAgain, Apply, Settle, SettleSkipped, VerifySkipped, At, TasksOK, TaskOK, PaySteps
  <2>2. {"apply", "close", "finish", "settle", "verify"} \subseteq Steps
    BY DEF Steps
  <2>3. CASE Query(t)
    <3>1. task' \in [Tasks -> TaskStates]
      <4>1. CASE QueryEnded(t)
        <5>1. Verdict(task[t].op, trade[task[t].pay]) \in {"CLOSED", "FAILED", "NONE"}
          BY DEF Verdict
        <5> QED
          BY <4>1, <5>1, ToFinishType DEF QueryEnded, TypeOK
      <4> QED
        BY <2>2, <2>3, <4>1, GotoType, EndType DEF Query, QueryPaid, QueryUnpaid, QueryUndecided, TypeOK
    <3> QED
      BY <2>3, <3>1 DEF Query, QueryPaid, QueryUnpaid, QueryEnded, QueryUndecided, TypeOK, database, wechat
  <2>4. CASE CloseOrder(t)
    <3>1. task' \in [Tasks -> TaskStates]
      BY <2>4, ToFinishType DEF CloseOrder, TypeOK
    <3> QED
      BY <2>4, <2>1, <3>1 DEF CloseOrder, TypeOK, database, Trades
  <2>5. CASE Finish(t)
    <3>1. task[t].verdict \in {"CLOSED", "FAILED", "NONE"}
      BY DEF TypeOK, TaskStates
    <3> QED
      BY <2>5, <2>1, <3>1, FinishUnpaidType, ReturnType DEF Finish, TypeOK, wechat
  <2>6. CASE ApplyAgain(t)
    BY <2>6, <2>1, ReturnType DEF ApplyAgain, Acknowledge, TypeOK, database
  <2>7. CASE Apply(t)
    BY <2>7, <2>2, GotoType DEF Apply, TypeOK, database, wechat
  <2>8. CASE Settle(t)
    BY <2>8, <2>1, ReturnType DEF Settle, Acknowledge, TypeOK, PayStatuses, BillStatuses
  <2>9. CASE SettleSkipped(t)
    BY <2>9, <2>2, GotoType DEF SettleSkipped, TypeOK, database, wechat
  <2>10. CASE VerifySkipped(t)
    BY <2>10, <2>1, ReturnType DEF VerifySkipped, Acknowledge, TypeOK, database
  <2> QED
    BY <1>4, <2>3, <2>4, <2>5, <2>6, <2>7, <2>8, <2>9, <2>10 DEF LookUp
<1>5. ASSUME NEW t \in Tasks, Abort(t) PROVE TypeOK'
  BY <1>5, EndType DEF Abort, TypeOK, database, wechat
<1>6. ASSUME NEW p \in Payments,
             \/ WeChatAccepts(p) \/ WeChatDrops(p) \/ OwnerPays(p) \/ WeChatExpires(p) \/ ReverseOffline(p)
      PROVE TypeOK'
  BY <1>6 DEF WeChatAccepts, WeChatDrops, OwnerPays, WeChatExpires, ReverseOffline, TypeOK, database,
              wechat, Trades, PayStatuses, BillStatuses
<1>7. ASSUME NEW c \in Coupons, RedeemAtDesk(c) PROVE TypeOK'
  BY <1>7 DEF RedeemAtDesk, TypeOK, wechat
<1> QED
  BY <1>1, <1>2, <1>3, <1>4, <1>5, <1>6, <1>7 DEF Next

-----------------------------------------------------------------------------
(* What a step does to the database: nothing, or one of eight transactions *)

Reserves(p, b, c) ==
  /\ ~Exists(p) /\ Unclaimed(b) /\ Spendable(c)
  /\ payStatus' = [payStatus EXCEPT ![p] = "CREATED"]
  /\ order' = [order EXCEPT ![p] = [bill |-> b, coupon |-> c, channel |-> "WXPAY"]]
  /\ billPayment' = [billPayment EXCEPT ![b] = p]
  /\ couponStatus' = [d \in Coupons |-> IF d = c THEN "USED" ELSE couponStatus[d]]
  /\ UNCHANGED <<billStatus, deskUsed>>

EndsUnpaid(p, status) ==
  /\ status \in {"FAILED", "CLOSED"}
  /\ Unfinished(p)
  /\ FinishUnpaid(p, status)

Doubts(p) ==
  /\ payStatus[p] = "CREATED"
  /\ payStatus' = [payStatus EXCEPT ![p] = "PREPAY_UNKNOWN"]
  /\ UNCHANGED <<billStatus, billPayment, order, couponStatus, deskUsed>>

Credits(p, b) ==
  /\ Unfinished(p) /\ b = order[p].bill /\ Holds(p, b)
  /\ payStatus' = [payStatus EXCEPT ![p] = "SUCCESS"]
  /\ billStatus' = [billStatus EXCEPT ![b] = "PAID"]
  /\ UNCHANGED <<billPayment, order, couponStatus, deskUsed>>

CreditsOffline(p, b) ==
  /\ ~Exists(p) /\ Unclaimed(b)
  /\ payStatus' = [payStatus EXCEPT ![p] = "SUCCESS"]
  /\ order' = [order EXCEPT ![p] = [bill |-> b, coupon |-> None, channel |-> "OFFLINE"]]
  /\ billPayment' = [billPayment EXCEPT ![b] = p]
  /\ billStatus' = [billStatus EXCEPT ![b] = "PAID"]
  /\ UNCHANGED <<couponStatus, deskUsed>>

Voids(b) ==
  /\ Unclaimed(b)
  /\ billStatus' = [billStatus EXCEPT ![b] = "CANCELED"]
  /\ UNCHANGED <<billPayment, payStatus, order, couponStatus, deskUsed>>

DatabaseStep ==
  \/ UNCHANGED database
  \/ \E p \in Payments :
       \/ \E b \in Bills, c \in Coupons \cup {None} : Reserves(p, b, c)
       \/ \E status \in {"FAILED", "CLOSED"} : EndsUnpaid(p, status)
       \/ Doubts(p)
       \/ \E b \in Bills : Credits(p, b) \/ CreditsOffline(p, b)
       \/ ReverseOffline(p)
  \/ \E b \in Bills : Voids(b)
  \/ \E c \in Coupons : RedeemAtDesk(c)

\* finishUnpaidPayment either ends an unfinished order or writes nothing.
LEMMA FinishUnpaidStep ==
  ASSUME NEW p \in Payments, NEW status \in {"FAILED", "CLOSED"}, FinishUnpaid(p, status)
  PROVE  DatabaseStep
BY DEF FinishUnpaid, DatabaseStep, EndsUnpaid

\* Every step is one of these, with the guards its transaction checked.
LEMMA StepOnDatabase == ASSUME IInv, [Next]_vars PROVE DatabaseStep
<1> USE DEF IInv
<1>1. CASE UNCHANGED vars
  BY <1>1 DEF vars, DatabaseStep
<1>2. ASSUME NEW t \in Requests, RequestStep(t) PROVE DatabaseStep
  <2> t \in Tasks /\ task[t] \in TaskStates
    BY DEF Tasks, TypeOK
  <2>1. CASE ReserveBill(t)
    <3>1. task[t].bill \in Bills /\ task[t].coupon \in Coupons \cup {None}
      BY <2>1 DEF ReserveBill, At, TasksOK, TaskOK, BillSteps, TaskStates
    <3>2. PICK p \in Payments : Reserves(p, task[t].bill, task[t].coupon)
      BY <2>1 DEF ReserveBill, Reserves
    <3> QED
      BY <3>1, <3>2 DEF DatabaseStep
  <2>2. CASE PrepayReturns(t)
    <3>1. task[t].pay \in Payments
      BY <2>2 DEF PrepayReturns, PrepayAccepted, PrepayRejected, PrepayUncertain, At, TasksOK, TaskOK, PaySteps
    <3>2. CASE PrepayAccepted(t)
      BY <3>2 DEF PrepayAccepted, DatabaseStep
    <3>3. CASE PrepayRejected(t)
      BY <3>3, <3>1, FinishUnpaidStep DEF PrepayRejected
    <3>4. CASE PrepayUncertain(t)
      <4>1. CASE payStatus[task[t].pay] = "CREATED"
        BY <4>1, <3>1, <3>4 DEF PrepayUncertain, DatabaseStep, Doubts
      <4>2. CASE payStatus[task[t].pay] # "CREATED"
        BY <4>2, <3>1, <3>4 DEF PrepayUncertain, DatabaseStep, database, TypeOK
      <4> QED
        BY <4>1, <4>2
    <3> QED
      BY <2>2, <3>2, <3>3, <3>4 DEF PrepayReturns
  <2>3. CASE SettleOffline(t)
    <3>1. task[t].bill \in Bills
      BY <2>3 DEF SettleOffline, At, TasksOK, TaskOK, BillSteps
    <3>2. PICK p \in Payments : CreditsOffline(p, task[t].bill)
      BY <2>3 DEF SettleOffline, CreditsOffline
    <3> QED
      BY <3>1, <3>2 DEF DatabaseStep
  <2>4. CASE CancelBill(t)
    <3>1. task[t].bill \in Bills
      BY <2>4 DEF CancelBill, At, TasksOK, TaskOK, BillSteps
    <3> QED
      BY <2>4, <3>1 DEF CancelBill, Voids, DatabaseStep
  <2>5. CASE UNCHANGED database
    BY <2>5 DEF DatabaseStep
  <2> QED
    BY <1>2, <2>1, <2>2, <2>3, <2>4, <2>5
       DEF RequestStep, BeginCreate, BeginNotify, BeginSync, BeginCancel, BeginForceSync, BeginAdmin, Resolve, Reload
<1>3. ASSUME NEW t \in Tasks, LookUp(t) PROVE DatabaseStep
  <2>1. task[t].pay \in Payments
    BY <1>3 DEF LookUp, Query, QueryPaid, QueryUnpaid, QueryEnded, QueryUndecided, CloseOrder, Finish,
                ApplyAgain, Apply, Settle, SettleSkipped, VerifySkipped, At, TasksOK, TaskOK, PaySteps
  <2>2. CASE Finish(t)
    <3>1. task[t].verdict \in {"FAILED", "CLOSED"}
      BY <2>2 DEF Finish, At, TasksOK, TaskOK, TypeOK, TaskStates
    <3> QED
      BY <2>1, <2>2, <3>1, FinishUnpaidStep DEF Finish
  <2>3. CASE Settle(t)
    <3>1. order[task[t].pay].bill \in Bills
      BY <2>1, <2>3 DEF Settle, LedgersAgree
    <3> QED
      BY <2>1, <2>3, <3>1 DEF Settle, Credits, DatabaseStep
  <2>4. CASE UNCHANGED database
    BY <2>4 DEF DatabaseStep
  <2> QED
    BY <1>3, <2>2, <2>3, <2>4
       DEF LookUp, Query, QueryPaid, QueryUnpaid, QueryEnded, QueryUndecided, CloseOrder,
           ApplyAgain, Apply, SettleSkipped, VerifySkipped
<1> QED
  BY <1>1, <1>2, <1>3
     DEF Next, BeginRecover, Abort, WeChatAccepts, WeChatDrops, OwnerPays, WeChatExpires, DatabaseStep

-----------------------------------------------------------------------------
(* The two ledgers, and the coupons *)

\* Every transaction keeps the bills and the orders in agreement.
LEMMA LedgersStep == ASSUME IInv, DatabaseStep PROVE LedgersAgree'
<1> USE NoneAssumption DEF IInv, LedgersAgree, Unfinished, ActiveStatuses, Holds
<1>1. CASE UNCHANGED database
  BY <1>1 DEF database
<1>2. ASSUME NEW p \in Payments, NEW b \in Bills, NEW c \in Coupons \cup {None}, Reserves(p, b, c)
      PROVE LedgersAgree'
  BY <1>2 DEF Reserves, Unclaimed, Exists, TypeOK
<1>3. ASSUME NEW p \in Payments, NEW status \in {"FAILED", "CLOSED"}, EndsUnpaid(p, status)
      PROVE LedgersAgree'
  BY <1>3 DEF EndsUnpaid, FinishUnpaid, TypeOK
<1>4. ASSUME NEW p \in Payments, Doubts(p) PROVE LedgersAgree'
  BY <1>4 DEF Doubts, TypeOK
<1>5. ASSUME NEW p \in Payments, NEW b \in Bills, Credits(p, b) PROVE LedgersAgree'
  BY <1>5 DEF Credits, TypeOK
<1>6. ASSUME NEW p \in Payments, NEW b \in Bills, CreditsOffline(p, b) PROVE LedgersAgree'
  BY <1>6 DEF CreditsOffline, Unclaimed, Exists, TypeOK
<1>7. ASSUME NEW p \in Payments, ReverseOffline(p) PROVE LedgersAgree'
  BY <1>7 DEF ReverseOffline, TypeOK
<1>8. ASSUME NEW b \in Bills, Voids(b) PROVE LedgersAgree'
  BY <1>8 DEF Voids, Unclaimed, TypeOK
<1>9. ASSUME NEW c \in Coupons, RedeemAtDesk(c) PROVE LedgersAgree'
  BY <1>9 DEF RedeemAtDesk
<1> QED
  BY <1>1, <1>2, <1>3, <1>4, <1>5, <1>6, <1>7, <1>8, <1>9 DEF DatabaseStep

\* Every transaction keeps the coupons accounted for.
LEMMA CouponStep == ASSUME IInv, DatabaseStep PROVE CouponAccounted'
<1> USE NoneAssumption DEF IInv, CouponAccounted, Unfinished, ActiveStatuses
<1>1. CASE UNCHANGED database
  BY <1>1 DEF database
<1>2. ASSUME NEW p \in Payments, NEW b \in Bills, NEW c \in Coupons \cup {None}, Reserves(p, b, c)
      PROVE CouponAccounted'
  BY <1>2 DEF Reserves, Spendable, Exists, TypeOK
<1>3. ASSUME NEW p \in Payments, NEW status \in {"FAILED", "CLOSED"}, EndsUnpaid(p, status)
      PROVE CouponAccounted'
  BY <1>3 DEF EndsUnpaid, FinishUnpaid, TypeOK
<1>4. ASSUME NEW p \in Payments, Doubts(p) PROVE CouponAccounted'
  BY <1>4 DEF Doubts, TypeOK
<1>5. ASSUME NEW p \in Payments, NEW b \in Bills, Credits(p, b) PROVE CouponAccounted'
  BY <1>5 DEF Credits, TypeOK
<1>6. ASSUME NEW p \in Payments, NEW b \in Bills, CreditsOffline(p, b) PROVE CouponAccounted'
  BY <1>6 DEF CreditsOffline, Exists, TypeOK
<1>7. ASSUME NEW p \in Payments, ReverseOffline(p) PROVE CouponAccounted'
  BY <1>7 DEF ReverseOffline, OrdersOK, RowOK, TypeOK
<1>8. ASSUME NEW b \in Bills, Voids(b) PROVE CouponAccounted'
  BY <1>8 DEF Voids
<1>9. ASSUME NEW c \in Coupons, RedeemAtDesk(c) PROVE CouponAccounted'
  BY <1>9 DEF RedeemAtDesk, TypeOK
<1> QED
  BY <1>1, <1>2, <1>3, <1>4, <1>5, <1>6, <1>7, <1>8, <1>9 DEF DatabaseStep

-----------------------------------------------------------------------------
(* What a step does at WeChat *)

WeChatStep(p) ==
  /\ \/ trade'[p] = trade[p]
     \/ p \in sent /\ trade'[p] = "NOTPAY"
     \/ trade[p] = "NOTPAY" /\ trade'[p] # "ABSENT"
     \/ trade[p] # "ABSENT" /\ trade'[p] = "CLOSED"
  /\ p \in sent' => /\ trade'[p] = trade[p]
                    /\ p \in sent \/ (~Exists(p) /\ order'[p].channel = "WXPAY")
  /\ \/ p \notin acked'
     \/ p \in acked
     \/ payStatus'[p] = "SUCCESS" /\ order[p].channel = "WXPAY" /\ order'[p] = order[p]

\* WeChat learns of an order by its one prepay request, moves it on until it is closed or paid,
\* and is told 200 SUCCESS only after the order was read or made SUCCESS.
LEMMA StepAtWeChat == ASSUME IInv, [Next]_vars, NEW p \in Payments PROVE WeChatStep(p)
<1> USE DEF IInv, WeChatStep
<1>1. CASE UNCHANGED wechat
  BY <1>1 DEF wechat, OrdersOK, PrepayOK
<1>2. ASSUME NEW t \in Requests, RequestStep(t) PROVE WeChatStep(p)
  <2>1. CASE ReserveBill(t)
    <3>1. PICK q \in Payments : /\ ~Exists(q)
                               /\ order' = [order EXCEPT ![q] = [bill |-> task[t].bill, coupon |-> task[t].coupon, channel |-> "WXPAY"]]
                               /\ sent' = sent \cup {q}
      BY <2>1 DEF ReserveBill
    <3>2. UNCHANGED <<trade, acked>>
      BY <2>1 DEF ReserveBill
    <3> QED
      BY <3>1, <3>2 DEF TypeOK
  <2>2. CASE PrepayReturns(t)
    BY <2>2 DEF PrepayReturns, PrepayAccepted, PrepayRejected, PrepayUncertain, wechat
  <2>3. CASE UNCHANGED <<sent, trade, acked>>
    BY <2>3 DEF OrdersOK, PrepayOK
  <2> QED
    BY <1>2, <2>1, <2>2, <2>3
       DEF RequestStep, BeginCreate, BeginNotify, BeginSync, BeginCancel, BeginForceSync, BeginAdmin, Resolve, Reload,
           SettleOffline, CancelBill, wechat
<1>3. ASSUME NEW t \in Tasks, LookUp(t) PROVE WeChatStep(p)
  <2>1. task[t].pay \in Payments /\ order[task[t].pay].channel = "WXPAY"
    BY <1>3 DEF LookUp, Query, QueryPaid, QueryUnpaid, QueryEnded, QueryUndecided, CloseOrder, Finish,
                ApplyAgain, Apply, Settle, SettleSkipped, VerifySkipped, At, TasksOK, TaskOK, PaySteps
  <2>2. CASE CloseOrder(t)
    <3>1. trade[task[t].pay] # "ABSENT"
      BY <2>2 DEF CloseOrder, At, TasksOK, TaskOK
    <3> QED
      BY <2>1, <2>2, <3>1 DEF CloseOrder, TypeOK, OrdersOK, PrepayOK
  <2>3. CASE ApplyAgain(t)
    BY <2>1, <2>3 DEF ApplyAgain, Acknowledge, database
  <2>4. CASE VerifySkipped(t)
    BY <2>1, <2>4 DEF VerifySkipped, Acknowledge, database
  <2>5. CASE Settle(t)
    BY <2>1, <2>5 DEF Settle, Acknowledge, TypeOK
  <2>6. CASE UNCHANGED wechat
    BY <2>6, <1>1
  <2> QED
    BY <1>3, <2>2, <2>3, <2>4, <2>5, <2>6
       DEF LookUp, Query, QueryPaid, QueryUnpaid, QueryEnded, QueryUndecided, Finish, Apply, SettleSkipped
<1>4. ASSUME NEW q \in Payments, WeChatAccepts(q) \/ WeChatDrops(q) \/ OwnerPays(q) \/ WeChatExpires(q)
      PROVE WeChatStep(p)
  <2> p \in sent => trade[p] = "ABSENT"
    BY DEF OrdersOK, PrepayOK
  <2>1. CASE WeChatAccepts(q)
    BY <2>1 DEF WeChatAccepts, TypeOK
  <2>2. CASE WeChatDrops(q)
    BY <2>2 DEF WeChatDrops
  <2>3. CASE OwnerPays(q)
    BY <2>3 DEF OwnerPays, TypeOK
  <2>4. CASE WeChatExpires(q)
    BY <2>4 DEF WeChatExpires, TypeOK
  <2> QED
    BY <1>4, <2>1, <2>2, <2>3, <2>4
<1> QED
  BY <1>1, <1>2, <1>3, <1>4 DEF Next, BeginRecover, Abort, ReverseOffline, RedeemAtDesk, vars

\* An order that exists keeps its columns; its channel is the one it was created with.
LEMMA OrderStep == ASSUME IInv, DatabaseStep, NEW p \in Payments PROVE Exists(p) => order'[p] = order[p] /\ Exists(p)'
BY DEF IInv, TypeOK, DatabaseStep, Reserves, EndsUnpaid, FinishUnpaid, Doubts, Credits, CreditsOffline, Voids,
       ReverseOffline, RedeemAtDesk, Exists, Unfinished, ActiveStatuses, database

\* What the rows and WeChat say of each other is kept.
LEMMA OrdersStep == ASSUME IInv, [Next]_vars, DatabaseStep PROVE OrdersOK'
<1> USE DEF IInv
<1> SUFFICES ASSUME NEW p \in Payments PROVE RowOK(p)' /\ PrepayOK(p)'
  BY DEF OrdersOK
<1>1. RowOK(p)'
  <2> USE DEF OrdersOK, RowOK, TypeOK, Exists, Unfinished, ActiveStatuses, NoOrder
  <2>1. CASE UNCHANGED database
    BY <2>1 DEF database
  <2>2. ASSUME NEW q \in Payments, NEW b \in Bills, NEW c \in Coupons \cup {None}, Reserves(q, b, c)
        PROVE  RowOK(p)'
    BY <2>2 DEF Reserves
  <2>3. ASSUME NEW q \in Payments, NEW status \in {"FAILED", "CLOSED"}, EndsUnpaid(q, status)
        PROVE  RowOK(p)'
    BY <2>3 DEF EndsUnpaid, FinishUnpaid
  <2>4. ASSUME NEW q \in Payments, Doubts(q) \/ ReverseOffline(q) PROVE RowOK(p)'
    BY <2>4 DEF Doubts, ReverseOffline
  <2>5. ASSUME NEW q \in Payments, NEW b \in Bills, Credits(q, b) \/ CreditsOffline(q, b) PROVE RowOK(p)'
    BY <2>5 DEF Credits, CreditsOffline
  <2>6. CASE (\E b \in Bills : Voids(b)) \/ (\E c \in Coupons : RedeemAtDesk(c))
    BY <2>6 DEF Voids, RedeemAtDesk
  <2> QED
    BY <2>1, <2>2, <2>3, <2>4, <2>5, <2>6 DEF DatabaseStep
<1>2. PrepayOK(p)'
  <2>1. WeChatStep(p)
    BY StepAtWeChat
  <2>2. order[p].channel = "WXPAY" => order'[p] = order[p]
    BY OrderStep DEF OrdersOK, RowOK, NoOrder
  <2> QED
    BY <2>1, <2>2 DEF OrdersOK, RowOK, PrepayOK, WeChatStep, Exists, NoOrder
<1> QED
  BY <1>1, <1>2

\* An acknowledged order stays credited: only an offline order can be reversed.
LEMMA AckedStep == ASSUME IInv, [Next]_vars, DatabaseStep PROVE AckedIsCredited'
<1> USE DEF IInv
<1> SUFFICES ASSUME NEW p \in acked' PROVE payStatus'[p] = "SUCCESS"
  BY DEF AckedIsCredited
<1>1. p \in Payments
  BY TypeStep DEF TypeOK
<1>2. p \in acked => payStatus'[p] = "SUCCESS"
  BY <1>1 DEF AckedIsCredited, OrdersOK, RowOK, PrepayOK, TypeOK, DatabaseStep, Reserves, EndsUnpaid, FinishUnpaid, Doubts, Credits,
         CreditsOffline, Voids, ReverseOffline, RedeemAtDesk, Exists, Unfinished, ActiveStatuses, database
<1> QED
  BY <1>1, <1>2, StepAtWeChat DEF WeChatStep

-----------------------------------------------------------------------------
(* Orders that ended unpaid are cut off at WeChat *)

\* An order WeChat will not take money for never becomes payable, once its row exists.
LEMMA CutOffStays ==
  ASSUME IInv, [Next]_vars, NEW p \in Payments, Exists(p), CutOff(p)
  PROVE  CutOff(p)'
BY StepAtWeChat DEF IInv, OrdersOK, PrepayOK, WeChatStep, CutOff, Exists

\* The history of early resolutions only grows.
LEMMA EarlyGrows == ASSUME [Next]_vars PROVE early \subseteq early'
BY DEF Next, RequestStep, BeginCreate, BeginNotify, BeginSync, BeginCancel, BeginForceSync, NoteEarly, BeginAdmin,
       ReserveBill, PrepayReturns,
       PrepayAccepted, PrepayRejected, PrepayUncertain, Resolve, Reload, SettleOffline, CancelBill, BeginRecover,
       LookUp, Query, QueryPaid, QueryUnpaid, QueryEnded, QueryUndecided, CloseOrder, Finish, ApplyAgain, Apply, Settle,
       SettleSkipped, VerifySkipped, Abort, WeChatAccepts, WeChatDrops, OwnerPays, WeChatExpires, ReverseOffline,
       RedeemAtDesk, wechat, vars

\* Ending an order unpaid changes the status of no other order.
LEMMA FinishUnpaidOthers ==
  ASSUME NEW p \in Payments, NEW q \in Payments, NEW status, TypeOK, FinishUnpaid(p, status), payStatus'[q] # payStatus[q]
  PROVE  q = p
BY DEF FinishUnpaid, TypeOK, database

\* An order ends unpaid only if WeChat rejected its prepay request, or a task saw it cut off.
LEMMA EndedByKnowledge ==
  ASSUME IInv, [Next]_vars, NEW p \in Payments \ early, payStatus'[p] \in {"FAILED", "CLOSED"}
  PROVE  CutOff(p)
<1> USE DEF IInv
<1>1. CASE payStatus'[p] = payStatus[p]
  BY <1>1 DEF EndedIsCutOff
<1>2. CASE payStatus'[p] # payStatus[p]
  <2>1. ASSUME NEW t \in Requests, PrepayRejected(t) PROVE CutOff(p)
    <3>1. t \in Tasks /\ task[t].pay \in Payments
      BY <2>1 DEF Tasks, PrepayRejected, At, TasksOK, TaskOK, PaySteps
    <3>2. p = task[t].pay
      BY <1>2, <2>1, <3>1, FinishUnpaidOthers DEF PrepayRejected
    <3> QED
      BY <2>1, <3>2 DEF PrepayRejected, CutOff
  <2>2. ASSUME NEW t \in Tasks, Finish(t) PROVE CutOff(p)
    <3>1. task[t].pay \in Payments
      BY <2>2 DEF Finish, At, TasksOK, TaskOK, PaySteps
    <3>2. p = task[t].pay
      BY <1>2, <2>2, <3>1, FinishUnpaidOthers DEF Finish
    <3> QED
      BY <2>2, <3>2 DEF Finish, At, EndedIsCutOff, CautiousTask
  <2>3. ASSUME NEW t \in Requests, ReserveBill(t) \/ PrepayUncertain(t) \/ SettleOffline(t) PROVE FALSE
    BY <1>2, <2>3 DEF TypeOK, ReserveBill, PrepayUncertain, SettleOffline
  <2>4. ASSUME NEW t \in Tasks, Settle(t) PROVE FALSE
    BY <1>2, <2>4 DEF TypeOK, Settle
  <2>5. ASSUME NEW q \in Payments, ReverseOffline(q) PROVE FALSE
    BY <1>2, <2>5 DEF TypeOK, ReverseOffline
  <2> QED
    BY <1>2, <2>1, <2>2, <2>3, <2>4, <2>5
       DEF Next, RequestStep, BeginCreate, BeginNotify, BeginSync, BeginCancel, BeginForceSync, BeginAdmin, PrepayReturns,
           PrepayAccepted, Resolve, Reload, CancelBill, BeginRecover, LookUp, Query, QueryPaid, QueryUnpaid,
           QueryEnded, QueryUndecided, CloseOrder, ApplyAgain, Apply, SettleSkipped, VerifySkipped, Abort,
           WeChatAccepts, WeChatDrops, OwnerPays, WeChatExpires, RedeemAtDesk, database, vars
<1> QED
  BY <1>1, <1>2

-----------------------------------------------------------------------------
(* The tasks *)

\* What a task knows about its order stays true while others move.
LEMMA TaskKept ==
  ASSUME IInv, [Next]_vars, NEW t \in Tasks, task'[t] = task[t]
  PROVE  TaskOK(t)' /\ CautiousTask(t)'
<1> USE DEF IInv
<1>1. TaskOK(t) /\ CautiousTask(t)
  BY DEF TasksOK, EndedIsCutOff
<1>2. CASE task[t].step \in PaySteps
  <2>1. task[t].pay \in Payments /\ Exists(task[t].pay) /\ order[task[t].pay].channel = "WXPAY"
    BY <1>1, <1>2 DEF TaskOK, OrdersOK, RowOK, NoOrder
  <2>2. order'[task[t].pay] = order[task[t].pay]
    BY <2>1, StepOnDatabase, OrderStep
  <2>3. TaskOK(t)'
    BY <1>1, <2>1, <2>2, StepAtWeChat DEF TaskOK, WeChatStep
  <2>4. CautiousTask(t)'
    BY <1>1, <2>1, CutOffStays, EarlyGrows, StepAtWeChat DEF CautiousTask, WeChatStep
  <2> QED
    BY <2>3, <2>4
<1>3. CASE task[t].step \notin PaySteps
  BY <1>1, <1>3 DEF TaskOK, CautiousTask, PaySteps
<1> QED
  BY <1>2, <1>3

\* A task that ends, or returns to its administrator's handler, needs no more than it has.
LEMMA TaskEnds ==
  ASSUME IInv, NEW t \in Tasks, End(t) \/ Return(t)
  PROVE  TaskOK(t)' /\ CautiousTask(t)'
<1> USE DEF IInv, TaskOK, CautiousTask, PaySteps, BillSteps
<1>1. CASE End(t)
  BY <1>1 DEF End, Idle, AdminOps, TypeOK
<1>2. CASE Return(t) /\ task[t].op \in AdminOps
  <2>1. task[t] \in TaskStates /\ task[t].bill \in Bills
    BY <1>2 DEF TypeOK, TasksOK
  <2>2. task'[t].step = "reload" /\ task'[t].bill = task[t].bill
    BY <1>2, <2>1 DEF Return, TypeOK, TaskStates
  <2> QED
    BY <2>1, <2>2
<1> QED
  BY <1>1, <1>2 DEF Return

\* A task that starts.
LEMMA TaskBegins ==
  ASSUME IInv, NEW t \in Tasks,
         NEW op, NEW step, NEW b, NEW c, NEW p, Begin(t, op, step, b, c, p),
         step \in PaySteps => p \in Payments /\ order'[p].channel = "WXPAY",
         step \in BillSteps \/ op \in AdminOps => b \in Bills,
         step \notin {"finish", "close"},
         step = "query" /\ op \in Deciders => p \notin sent'
  PROVE  TaskOK(t)' /\ CautiousTask(t)'
<1>1. task'[t] = [op |-> op, step |-> step, bill |-> b, coupon |-> c, pay |-> p, verdict |-> "NONE"]
  BY DEF Begin, IInv, TypeOK
<1> QED
  BY <1>1 DEF TaskOK, CautiousTask

\* A task that goes on with the same order.
LEMMA TaskGoesOn ==
  ASSUME IInv, [Next]_vars, NEW t \in Tasks, NEW step, Goto(t, step), task[t].step \in PaySteps,
         step \in {"query", "close", "apply", "settle", "verify"},
         step = "close" => trade'[task[t].pay] # "ABSENT",
         step = "query" /\ task[t].op \in Deciders => task[t].pay \notin sent' \ early'
  PROVE  TaskOK(t)' /\ CautiousTask(t)'
<1>1. /\ task'[t].step = step /\ task'[t].op = task[t].op /\ task'[t].bill = task[t].bill
      /\ task'[t].pay = task[t].pay /\ task'[t].verdict = task[t].verdict
  BY DEF Goto, IInv, TypeOK, TaskStates
<1>2. task[t].pay \in Payments /\ Exists(task[t].pay) /\ order[task[t].pay].channel = "WXPAY"
  BY DEF IInv, TasksOK, TaskOK, OrdersOK, RowOK, NoOrder
<1>3. order'[task[t].pay] = order[task[t].pay]
  BY <1>2, StepOnDatabase, OrderStep
<1>4. step \notin BillSteps /\ (task[t].op \in AdminOps => task[t].bill \in Bills)
  BY DEF BillSteps, IInv, TasksOK, TaskOK
<1> QED
  BY <1>1, <1>2, <1>3, <1>4 DEF TaskOK, CautiousTask

\* A task that has seen its order cut off and is about to end it.
LEMMA TaskDecides ==
  ASSUME IInv, [Next]_vars, NEW t \in Tasks, NEW v \in {"CLOSED", "FAILED"}, ToFinish(t, v),
         task[t].step \in {"query", "close"},
         \A p \in Payments \ early : p = task[t].pay => CutOff(p)'
  PROVE  TaskOK(t)' /\ CautiousTask(t)'
<1>1. /\ task'[t].step = "finish" /\ task'[t].op = task[t].op /\ task'[t].bill = task[t].bill
      /\ task'[t].pay = task[t].pay /\ task'[t].verdict = v
  BY DEF ToFinish, IInv, TypeOK, TaskStates
<1>2. task[t].pay \in Payments /\ Exists(task[t].pay) /\ order[task[t].pay].channel = "WXPAY"
  BY DEF IInv, TasksOK, TaskOK, OrdersOK, RowOK, NoOrder, PaySteps
<1>3. order'[task[t].pay] = order[task[t].pay]
  BY <1>2, StepOnDatabase, OrderStep
<1>4. "finish" \notin BillSteps /\ (task[t].op \in AdminOps => task[t].bill \in Bills)
  BY DEF BillSteps, IInv, TasksOK, TaskOK
<1>5. TaskOK(t)'
  BY <1>1, <1>2, <1>3, <1>4 DEF TaskOK
<1>6. CautiousTask(t)'
  BY <1>1, <1>2, EarlyGrows DEF CautiousTask, CutOff
<1> QED
  BY <1>5, <1>6

\* Each step leaves the acting task, as every other, with what it needs.
LEMMA TaskStep ==
  ASSUME IInv, [Next]_vars, NEW t \in Tasks
  PROVE  TaskOK(t)' /\ CautiousTask(t)'
<1> USE DEF IInv
<1>1. CASE task'[t] = task[t]
  BY <1>1, TaskKept
<1>2. ASSUME NEW u \in Requests, RequestStep(u), task'[t] # task[t] PROVE TaskOK(t)' /\ CautiousTask(t)'
  <2>1. t = u
    BY <1>2 DEF RequestStep, BeginCreate, BeginNotify, BeginSync, BeginCancel, BeginForceSync, BeginAdmin, ReserveBill,
                PrepayReturns,
                PrepayAccepted, PrepayRejected, PrepayUncertain, Resolve, Reload, SettleOffline, CancelBill, Begin,
                Goto, ToPrepay, Return, End, TypeOK
  <2>2. ASSUME NEW b \in Bills, NEW c \in Coupons \cup {None}, BeginCreate(t, b, c)
        PROVE  TaskOK(t)' /\ CautiousTask(t)'
    BY <2>2, TaskBegins DEF BeginCreate, PaySteps
  <2>3. ASSUME NEW p \in Payments, BeginNotify(t, p) PROVE TaskOK(t)' /\ CautiousTask(t)'
    <3>1. order'[p].channel = "WXPAY"
      BY <2>3 DEF BeginNotify, OrdersOK, PrepayOK, database
    <3> QED
      BY <2>3, <3>1, TaskBegins DEF BeginNotify, BillSteps, AdminOps
  <2>4. ASSUME NEW p \in Payments, BeginSync(t, p) \/ BeginCancel(t, p) PROVE TaskOK(t)' /\ CautiousTask(t)'
    <3>1. order'[p].channel = "WXPAY"
      BY <2>4 DEF BeginSync, BeginCancel, database
    <3> QED
      BY <2>4, <3>1, TaskBegins DEF BeginSync, BeginCancel, BillSteps, AdminOps, Deciders
  <2>5. ASSUME NEW b \in Bills, NEW op \in AdminOps, BeginAdmin(t, op, b) PROVE TaskOK(t)' /\ CautiousTask(t)'
    <3>1. CASE billPayment[b] = None
      BY <2>5, <3>1, TaskBegins DEF BeginAdmin, PaySteps
    <3>2. CASE billPayment[b] # None
      <4>1. billPayment[b] \in Payments /\ order'[billPayment[b]].channel = "WXPAY"
        BY <2>5, <3>2 DEF BeginAdmin, LedgersAgree, OrdersOK, RowOK, Exists, Unfinished, ActiveStatuses, TypeOK, database
      <4> QED
        BY <2>5, <3>2, <4>1, TaskBegins DEF BeginAdmin
    <3> QED
      BY <3>1, <3>2
  <2>6. CASE ReserveBill(t)
    <3>1. PICK p \in Payments : /\ order' = [order EXCEPT ![p] = [bill |-> task[t].bill, coupon |-> task[t].coupon,
                                                               channel |-> "WXPAY"]]
                               /\ ToPrepay(t, p)
      BY <2>6 DEF ReserveBill
    <3>2. task'[t].step = "prepay" /\ task'[t].pay = p /\ task'[t].bill = task[t].bill
      BY <3>1 DEF ToPrepay, TypeOK, TaskStates
    <3>3. task[t].bill \in Bills
      BY <2>6 DEF ReserveBill, At, TasksOK, TaskOK, BillSteps
    <3>4. order'[p].channel = "WXPAY"
      BY <3>1 DEF TypeOK
    <3> QED
      BY <3>2, <3>3, <3>4 DEF TaskOK, CautiousTask
  <2>7. CASE PrepayReturns(t) \/ SettleOffline(t) \/ CancelBill(t)
    BY <2>7, TaskEnds DEF PrepayReturns, PrepayAccepted, PrepayRejected, PrepayUncertain, SettleOffline, CancelBill
  <2>8. CASE Resolve(t)
    <3>1. CASE Unfinished(task[t].pay)
      BY <2>8, <3>1, TaskGoesOn DEF Resolve, NoteEarly, At, PaySteps, InPrepay
    <3>2. CASE ~Unfinished(task[t].pay)
      BY <2>8, <3>2, TaskEnds DEF Resolve
    <3> QED
      BY <3>1, <3>2
  <2>9. CASE Reload(t)
    <3>1. task[t].bill \in Bills
      BY <2>9 DEF Reload, At, TasksOK, TaskOK, BillSteps
    <3>2. task'[t].step = "commit" /\ task'[t].bill = task[t].bill
      BY <2>9 DEF Reload, Goto, TypeOK, TaskStates
    <3> QED
      BY <3>1, <3>2 DEF TaskOK, CautiousTask, PaySteps
  <2>10. ASSUME NEW p \in Payments, BeginForceSync(t, p) PROVE TaskOK(t)' /\ CautiousTask(t)'
    <3>1. Begin(t, "reconcile", "query", None, None, p) /\ order'[p].channel = "WXPAY"
      BY <2>10 DEF BeginForceSync, database
    <3>2. task'[t].pay = p /\ (p \notin early' => p \notin sent')
      BY <2>10, <3>1 DEF BeginForceSync, NoteEarly, InPrepay, Begin, TypeOK
    <3>3. task'[t] = [op |-> "reconcile", step |-> "query", bill |-> None, coupon |-> None, pay |-> p, verdict |-> "NONE"]
      BY <3>1 DEF Begin, TypeOK
    <3> QED
      BY <3>1, <3>2, <3>3 DEF TaskOK, CautiousTask, BillSteps, AdminOps
  <2> QED
    BY <1>2, <2>1, <2>2, <2>3, <2>4, <2>5, <2>6, <2>7, <2>8, <2>9, <2>10 DEF RequestStep
<1>3. ASSUME NEW u \in Workers, NEW p \in Payments, NEW op \in {"poll", "reconcile"}, BeginRecover(u, p, op),
             task'[t] # task[t]
      PROVE  TaskOK(t)' /\ CautiousTask(t)'
  <2>1. t = u
    BY <1>3 DEF BeginRecover, Begin, TypeOK
  <2>2. order'[p].channel = "WXPAY" /\ p \notin sent'
    BY <1>3 DEF BeginRecover, InPrepay, database, wechat
  <2> QED
    BY <1>3, <2>1, <2>2, TaskBegins DEF BeginRecover, BillSteps, AdminOps
<1>4. ASSUME NEW u \in Tasks, LookUp(u), task'[t] # task[t] PROVE TaskOK(t)' /\ CautiousTask(t)'
  <2>1. t = u
    BY <1>4 DEF LookUp, Query, QueryPaid, QueryUnpaid, QueryEnded, QueryUndecided, CloseOrder, Finish, ApplyAgain,
                Apply, Settle, SettleSkipped, VerifySkipped, Goto, ToFinish, Return, End, TypeOK
  <2>2. CASE QueryPaid(t) \/ Apply(t) \/ SettleSkipped(t)
    BY <2>2, TaskGoesOn DEF QueryPaid, Apply, SettleSkipped, At, PaySteps
  <2>3. CASE QueryUnpaid(t)
    <3>1. trade'[task[t].pay] # "ABSENT"
      BY <2>3 DEF QueryUnpaid, MustClose, wechat
    <3> QED
      BY <2>3, <3>1, TaskGoesOn DEF QueryUnpaid, At, PaySteps
  <2>4. CASE QueryEnded(t)
    <3>1. PICK v \in {"CLOSED", "FAILED"} : v = Verdict(task[t].op, trade[task[t].pay]) /\ ToFinish(t, v)
      BY <2>4 DEF QueryEnded, Verdict
    <3>2. \/ trade[task[t].pay] \in {"CLOSED", "PAYERROR"}
          \/ trade[task[t].pay] = "ABSENT" /\ task[t].op \in Deciders
      BY <3>1 DEF Verdict
    <3>3. \A p \in Payments \ early : p = task[t].pay => CutOff(p)
      BY <2>4, <3>2 DEF QueryEnded, At, EndedIsCutOff, CautiousTask, CutOff
    <3>4. \A p \in Payments \ early : p = task[t].pay => CutOff(p)'
      BY <2>4, <3>3 DEF QueryEnded, CutOff, wechat
    <3> QED
      BY <2>4, <3>1, <3>4, TaskDecides DEF QueryEnded, At
  <2>5. CASE CloseOrder(t)
    <3>1. \A p \in Payments \ early : p = task[t].pay => CutOff(p)'
      BY <2>5 DEF CloseOrder, CutOff, TypeOK
    <3> QED
      BY <2>5, <3>1, TaskDecides DEF CloseOrder, At
  <2>6. CASE QueryUndecided(t) \/ Finish(t) \/ ApplyAgain(t) \/ Settle(t) \/ VerifySkipped(t)
    BY <2>6, TaskEnds DEF QueryUndecided, Finish, ApplyAgain, Settle, VerifySkipped
  <2> QED
    BY <1>4, <2>1, <2>2, <2>3, <2>4, <2>5, <2>6 DEF LookUp, Query
<1>5. ASSUME NEW u \in Tasks, Abort(u), task'[t] # task[t] PROVE TaskOK(t)' /\ CautiousTask(t)'
  <2>1. t = u
    BY <1>5 DEF Abort, End, TypeOK
  <2> QED
    BY <1>5, <2>1, TaskEnds DEF Abort
<1> QED
  BY <1>1, <1>2, <1>3, <1>4, <1>5
     DEF Next, WeChatAccepts, WeChatDrops, OwnerPays, WeChatExpires, ReverseOffline, RedeemAtDesk, vars

-----------------------------------------------------------------------------
(* The inductive invariant *)

\* The invariant holds at first.
LEMMA InitInv == Init => IInv
<1> SUFFICES ASSUME Init PROVE IInv
  OBVIOUS
<1>1. TypeOK
  BY InitTypeOK
<1>2. TasksOK /\ EndedIsCutOff
  BY DEF Init, TasksOK, TaskOK, EndedIsCutOff, CautiousTask, Idle, PaySteps, BillSteps, AdminOps
<1>3. OrdersOK
  BY DEF Init, OrdersOK, RowOK, PrepayOK, Exists, NoOrder
<1>4. LedgersAgree /\ CouponAccounted /\ AckedIsCredited
  BY DEF Init, LedgersAgree, CouponAccounted, AckedIsCredited, Unfinished, ActiveStatuses
<1> QED
  BY <1>1, <1>2, <1>3, <1>4 DEF IInv

\* Every step keeps it.
LEMMA StepInv == ASSUME IInv, [Next]_vars PROVE IInv'
<1>1. DatabaseStep
  BY StepOnDatabase
<1>2. TypeOK' /\ OrdersOK' /\ LedgersAgree' /\ CouponAccounted' /\ AckedIsCredited'
  BY <1>1, TypeStep, OrdersStep, LedgersStep, CouponStep, AckedStep
<1>3. Tasks' = Tasks
  BY DEF Tasks
<1>4. TasksOK' /\ (\A t \in Tasks : CautiousTask(t)')
  BY <1>3, TaskStep DEF TasksOK
<1>5. \A p \in Payments \ early' : payStatus'[p] \in {"FAILED", "CLOSED"} => CutOff(p)'
  <2> SUFFICES ASSUME NEW p \in Payments \ early', payStatus'[p] \in {"FAILED", "CLOSED"} PROVE CutOff(p)'
    OBVIOUS
  <2>1. p \in Payments \ early
    BY EarlyGrows
  <2>2. CutOff(p)
    BY <2>1, EndedByKnowledge
  <2>3. Exists(p)
    BY <1>1 DEF IInv, TypeOK, DatabaseStep, Reserves, EndsUnpaid, FinishUnpaid, Doubts, Credits, CreditsOffline, Voids,
                ReverseOffline, RedeemAtDesk, Exists, Unfinished, ActiveStatuses, database
  <2> QED
    BY <2>2, <2>3, CutOffStays
<1> QED
  BY <1>2, <1>4, <1>5 DEF IInv, EndedIsCutOff

-----------------------------------------------------------------------------
(* The theorems *)

\* IInv holds in every reachable state: the tables agree, the coupons are accounted for, and each
\* task's stale knowledge of WeChat is still good enough for what it is about to write.
THEOREM Invariance == Spec => []IInv
<1>1. Init => IInv
  BY InitInv
<1>2. IInv /\ [Next]_vars => IInv'
  BY StepInv
<1> QED
  BY <1>1, <1>2, PTL DEF Spec

\* Every variable has its type in every reachable state of the payment code.
THEOREM TypeCorrect == Spec => []TypeOK
<1>1. IInv => TypeOK
  BY DEF IInv
<1> QED
  BY <1>1, Invariance, PTL

\* The Bill and Payment tables agree in every reachable state, however createPayment, the
\* callback, the recovery job, offline settlement and cancellation interleave.
THEOREM TablesAgree == Spec => []LedgersAgree
<1>1. IInv => LedgersAgree
  BY DEF IInv
<1> QED
  BY <1>1, Invariance, PTL

\* No coupon is spent twice or lost, in payment.service.ts or at the desk.
THEOREM CouponsAccounted == Spec => []CouponAccounted
<1>1. IInv => CouponAccounted
  BY DEF IInv
<1> QED
  BY <1>1, Invariance, PTL

\* A notification is answered 200 SUCCESS only for an order that is, and stays, credited.
THEOREM AcknowledgedIsCredited == Spec => []AckedIsCredited
<1>1. IInv => AckedIsCredited
  BY DEF IInv
<1> QED
  BY <1>1, Invariance, PTL

\* An order whose money WeChat took, and that no administrator had looked up during its prepay call, is
\* unfinished or successful here.
LEMMA PaidIsLive ==
  ASSUME IInv, NEW p \in Payments \ early, trade[p] = "SUCCESS"
  PROVE  order[p].channel = "WXPAY" /\ CreditableOrCredited(p)
<1>1. order[p].channel = "WXPAY"
  BY DEF IInv, OrdersOK, PrepayOK
<1>2. payStatus[p] \notin {"NONE", "REFUNDED"}
  BY <1>1 DEF IInv, OrdersOK, RowOK, NoOrder, Exists
<1>3. payStatus[p] \notin {"FAILED", "CLOSED"}
  BY DEF IInv, EndedIsCutOff, CutOff
<1>4. payStatus[p] \in PayStatuses
  BY DEF IInv, TypeOK
<1> QED
  BY <1>1, <1>2, <1>3, <1>4 DEF CreditableOrCredited, Unfinished, PayStatuses

\* No query, close or late answer makes the code write off an order that WeChat was paid for, but
\* for the orders an administrator had looked up during their prepay call.
THEOREM PaidStaysCreditable == Spec => []PaidIsNotWrittenOff
<1>1. IInv => PaidIsNotWrittenOff
  BY PaidIsLive DEF PaidIsNotWrittenOff
<1> QED
  BY <1>1, Invariance, PTL

\* The owner is charged at most once for a bill, at WeChat and at the desk together (the same
\* orders excepted).
THEOREM ChargedOnce == Spec => []CollectedOnce
<1>1. ASSUME IInv, NEW p \in Payments \ early, Collected(p)
      PROVE  order[p].bill \in Bills /\ billPayment[order[p].bill] = p
  <2>1. Unfinished(p) \/ payStatus[p] = "SUCCESS"
    BY <1>1, PaidIsLive DEF Collected, CreditableOrCredited
  <2> QED
    BY <1>1, <2>1 DEF IInv, LedgersAgree, Holds
<1>2. IInv => CollectedOnce
  BY <1>1 DEF CollectedOnce
<1> QED
  BY <1>2, Invariance, PTL

\* A step never leaves FAILED, CLOSED or REFUNDED, never takes SUCCESS back other than by a refund,
\* and never moves an order to another bill, coupon or channel.
THEOREM FinalStaysFinal == Spec => FinalIsFinal
<1> DEFINE Final == \A p \in Payments :
       /\ payStatus[p] \in {"FAILED", "CLOSED", "REFUNDED"} => payStatus'[p] = payStatus[p]
       /\ payStatus[p] = "SUCCESS" => payStatus'[p] \in {"SUCCESS", "REFUNDED"}
       /\ Exists(p) => order'[p] = order[p]
<1>1. ASSUME IInv, [Next]_vars PROVE Final
  <2>1. DatabaseStep
    BY <1>1, StepOnDatabase
  <2>2. \A p \in Payments : Exists(p) => order'[p] = order[p]
    BY <1>1, <2>1, OrderStep
  <2>3. ASSUME NEW p \in Payments
        PROVE  /\ payStatus[p] \in {"FAILED", "CLOSED", "REFUNDED"} => payStatus'[p] = payStatus[p]
               /\ payStatus[p] = "SUCCESS" => payStatus'[p] \in {"SUCCESS", "REFUNDED"}
    BY <1>1, <2>1 DEF IInv, TypeOK, DatabaseStep, Reserves, EndsUnpaid, FinishUnpaid, Doubts, Credits,
         CreditsOffline, Voids, ReverseOffline, RedeemAtDesk, Exists, Unfinished, ActiveStatuses, database
  <2> QED
    BY <2>2, <2>3
<1>2. IInv /\ [Next]_vars => [Final]_vars
  BY <1>1
<1> QED
  BY <1>2, Invariance, PTL DEF Spec, FinalIsFinal

-----------------------------------------------------------------------------
(* BillPayment implements BillLedger *)

\* Each transaction is one step of the ledger, or none.
LEMMA LedgerStep == ASSUME IInv, DatabaseStep PROVE [Ledger!Next]_(Ledger!vars)
<1> USE DEF IInv, TypeOK, BillStatuses
<1>1. CASE UNCHANGED database
  BY <1>1 DEF database, Ledger!vars, Entry, Exists
<1>2. ASSUME NEW p \in Payments, NEW b \in Bills, NEW c \in Coupons \cup {None}, Reserves(p, b, c)
      PROVE  Ledger!Hold(b, p)
  <2>1. Entry(b) = [state |-> "open", holder |-> None] /\ ~Exists(p)
    BY <1>2 DEF Reserves, Unclaimed, Entry
  <2>2. \A d \in Bills : Entry(d)' = IF d = b THEN [state |-> "held", holder |-> p] ELSE Entry(d)
    BY <1>2, NoneAssumption DEF Reserves, Unclaimed, Entry
  <2>3. {q \in Payments : Exists(q)}' = {q \in Payments : Exists(q)} \cup {p}
    BY <1>2 DEF Reserves, Exists
  <2>4. Ledger!Write(b, "held", p)
    BY <2>2 DEF Ledger!Write
  <2>5. Ledger!Is(b, "open")
    BY <2>1 DEF Ledger!Is
  <2>6. p \notin {q \in Payments : Exists(q)}
    BY <2>1
  <2> QED
    BY <2>3, <2>4, <2>5, <2>6 DEF Ledger!Hold
<1>3. ASSUME NEW p \in Payments, NEW status \in {"FAILED", "CLOSED"}, EndsUnpaid(p, status)
      PROVE  Ledger!Release(order[p].bill) /\ order[p].bill \in Bills
  <2>1. order[p].bill \in Bills /\ Holds(p, order[p].bill)
    BY <1>3 DEF EndsUnpaid, LedgersAgree
  <2>2. \A b \in Bills : Holds(p, b) => b = order[p].bill
    BY NoneAssumption DEF LedgersAgree, Holds
  <2>3. billPayment' = [b \in Bills |-> IF b = order[p].bill THEN None ELSE billPayment[b]] /\ billStatus' = billStatus
    BY <1>3, <2>1, <2>2 DEF EndsUnpaid, FinishUnpaid
  <2>4. \A b \in Bills : Entry(b)' = IF b = order[p].bill THEN [state |-> "open", holder |-> None] ELSE Entry(b)
    BY <2>1, <2>3 DEF Entry, Holds
  <2>5. {q \in Payments : Exists(q)}' = {q \in Payments : Exists(q)}
    BY <1>3 DEF EndsUnpaid, FinishUnpaid, Exists, Unfinished, ActiveStatuses
  <2>6. Entry(order[p].bill).state = "held"
    BY <2>1, NoneAssumption DEF Entry, Holds
  <2> QED
    BY <2>1, <2>4, <2>5, <2>6 DEF Ledger!Release, Ledger!Is, Ledger!Write
<1>4. ASSUME NEW p \in Payments, Doubts(p) PROVE UNCHANGED Ledger!vars
  BY <1>4 DEF Doubts, Ledger!vars, Entry, Exists
<1>5. ASSUME NEW p \in Payments, NEW b \in Bills, Credits(p, b) PROVE Ledger!Settle(b)
  BY <1>5, NoneAssumption DEF Credits, Holds, Exists, Unfinished, ActiveStatuses, Entry, Ledger!Settle, Ledger!Is, Ledger!Write
<1>6. ASSUME NEW p \in Payments, NEW b \in Bills, CreditsOffline(p, b) PROVE Ledger!SettleAtOnce(b, p)
  <2>1. Entry(b) = [state |-> "open", holder |-> None] /\ ~Exists(p)
    BY <1>6 DEF CreditsOffline, Unclaimed, Entry
  <2>2. \A d \in Bills : Entry(d)' = IF d = b THEN [state |-> "settled", holder |-> p] ELSE Entry(d)
    BY <1>6 DEF CreditsOffline, Entry
  <2>3. {q \in Payments : Exists(q)}' = {q \in Payments : Exists(q)} \cup {p}
    BY <1>6 DEF CreditsOffline, Exists
  <2>4. Ledger!Write(b, "settled", p)
    BY <2>2 DEF Ledger!Write
  <2>5. Ledger!Is(b, "open")
    BY <2>1 DEF Ledger!Is
  <2>6. p \notin {q \in Payments : Exists(q)}
    BY <2>1
  <2> QED
    BY <2>3, <2>4, <2>5, <2>6 DEF Ledger!SettleAtOnce
<1>7. ASSUME NEW p \in Payments, ReverseOffline(p) PROVE Ledger!GiveBack(order[p].bill) /\ order[p].bill \in Bills
  <2>1. /\ order[p].bill \in Bills
        /\ billStatus[order[p].bill] = "PAID" /\ billPayment[order[p].bill] = p
        /\ \A b \in Bills : billPayment[b] = p /\ billStatus[b] = "PAID" => b = order[p].bill
    BY <1>7 DEF ReverseOffline, LedgersAgree
  <2> QED
    BY <1>7, <2>1 DEF ReverseOffline, Exists, Entry, Ledger!GiveBack, Ledger!Is, Ledger!Write
<1>8. ASSUME NEW b \in Bills, Voids(b) PROVE Ledger!Cancel(b)
  BY <1>8 DEF Voids, Unclaimed, Exists, Entry, Ledger!Cancel, Ledger!Is, Ledger!Write
<1>9. ASSUME NEW c \in Coupons, RedeemAtDesk(c) PROVE UNCHANGED Ledger!vars
  BY <1>9 DEF RedeemAtDesk, Ledger!vars, Entry, Exists
<1> QED
  BY <1>1, <1>2, <1>3, <1>4, <1>5, <1>6, <1>7, <1>8, <1>9 DEF DatabaseStep, Ledger!Next

\* The payment code implements the abstract ledger: every step of every handler holds, releases,
\* settles, cancels or gives back one bill as the ledger allows, or leaves the ledger alone.
THEOREM Implements == Spec => ImplementsLedger
<1>1. Init => Ledger!Init
  BY DEF Init, Ledger!Init, Entry, Exists
<1>2. IInv /\ [Next]_vars => [Ledger!Next]_(Ledger!vars)
  BY StepOnDatabase, LedgerStep
<1> QED
  BY <1>1, <1>2, Invariance, PTL DEF Spec, ImplementsLedger, Ledger!Spec
=============================================================================
