----------------------------- MODULE BillRefundProofs -----------------------------
(***************************************************************************)
(* The inductive invariant of BillRefund, its safety invariants for any    *)
(* sets of payments, handlers and jobs, and the step simulation that makes *)
(* it an implementation of MoneyBack.                                      *)
(***************************************************************************)
EXTENDS BillRefund, TLAPS

\* Steps at which a task knows that the refund's row exists.
Based == {"revive", "mark", "send", "query", "conclude", "commit"}

\* What a task remembers is still true: the row it found, the success it heard of, the status
\* and the application it read under the lock.
TaskOK(t) ==
  /\ task[t].step # "idle" => Pay(t) \in Payments
  /\ task[t].step \in Based => refundStatus[Pay(t)] # "NONE"
  /\ task[t].step = "conclude" /\ task[t].saw = "SUCCESS" => wechat[Pay(t)] = "SUCCESS"
  /\ task[t].step = "commit" => /\ wechat[Pay(t)] = "SUCCESS"
                                /\ refundStatus[Pay(t)] \in Queryable
                                /\ Pay(t) \notin crossed => invoice[Pay(t)] = task[t].goal
  /\ task[t].step = "transit" => task[t].goal \in Allowed(task[t].saw)

TasksOK == \A t \in Tasks : TaskOK(t)

\* One transaction at a time records the success of a refund.
LocksOK == \A t, u \in Tasks : At(t, "commit") /\ At(u, "commit") /\ Pay(t) = Pay(u) => t = u

\* WeChat knows of a refund only what it was asked, and a success there is for ever.
WeChatOK ==
  \A p \in Payments :
    /\ wechat[p] # "NONE" \/ p \in sent => refundStatus[p] # "NONE"
    /\ refundStatus[p] = "SUCCESS" => wechat[p] = "SUCCESS"

Facts == LedgersAgree /\ CouponGivenBackOnce /\ InvoiceIsVoidedUnlessCrossed

IInv == TypeOK /\ Facts /\ TasksOK /\ LocksOK /\ WeChatOK

-----------------------------------------------------------------------------
\* The first state satisfies the invariant: nothing was asked for and no task is under way.
LEMMA InitInv == Init => IInv
<1> SUFFICES ASSUME Init PROVE IInv
  OBVIOUS
<1>1. TypeOK
  <2>1. requested \in Seq(Payments)
    BY DEF Init
  <2>2. task \in [Tasks -> TaskRecords]
    BY DEF Init, TaskRecords, Idle, Ops, Steps, Answers, WeChatStatuses, Invoices
  <2> QED
    BY <2>1, <2>2 DEF Init, TypeOK, RefundStatuses, WeChatStatuses, Invoices
<1>2. Facts
  BY DEF Init, Facts, LedgersAgree, CouponGivenBackOnce,
         InvoiceIsVoidedUnlessCrossed, Open, Pending
<1>3. TasksOK /\ LocksOK /\ WeChatOK
  BY DEF Init, TasksOK, TaskOK, LocksOK, At, Pay, WeChatOK, Idle, Based
<1> QED
  BY <1>1, <1>2, <1>3 DEF IInv

\* A step of one task that changes no row keeps the invariant when what the task now remembers is
\* true and no lock is taken twice.
LEMMA Elsewhere ==
  ASSUME IInv, NEW t \in Tasks, TypeOK', TaskOK(t)',
         UNCHANGED <<database, invoices, wechat, sent>>,
         \A u \in Tasks \ {t} : task'[u] = task[u],
         At(t, "commit")' => ~Locked(Pay(t)')
  PROVE  IInv'
<1>1. Facts'
  BY DEF IInv, Facts, database, invoices, LedgersAgree, CouponGivenBackOnce,
         InvoiceIsVoidedUnlessCrossed
<1>2. TasksOK'
  BY DEF IInv, TasksOK, TaskOK, Pay, database, invoices
<1>3. LocksOK'
  BY DEF IInv, LocksOK, Locked, At, Pay
<1>4. WeChatOK'
  BY DEF IInv, WeChatOK, database
<1> QED
  BY <1>1, <1>2, <1>3, <1>4 DEF IInv

\* A task that starts keeps the invariant.
LEMMA BeginStep ==
  ASSUME IInv, NEW t \in Tasks, NEW op \in Ops, NEW step \in Steps, NEW p \in Payments,
         NEW saw \in Answers \cup Invoices, NEW goal \in Invoices,
         Begin(t, op, step, p, saw, goal),
         UNCHANGED <<database, invoices, outside, ages>>,
         step \in Based => refundStatus[p] # "NONE" /\ step # "commit",
         step = "conclude" /\ saw = "SUCCESS" => wechat[p] = "SUCCESS",
         step = "transit" => goal \in Allowed(saw)
  PROVE  IInv'
<1>1. /\ task'[t] = [op |-> op, step |-> step, pay |-> p, saw |-> saw, goal |-> goal]
      /\ \A u \in Tasks \ {t} : task'[u] = task[u]
  BY DEF IInv, TypeOK, Begin
<1>2. TypeOK'
  <2>1. [op |-> op, step |-> step, pay |-> p, saw |-> saw, goal |-> goal] \in TaskRecords
    BY DEF TaskRecords
  <2>2. task' \in [Tasks -> TaskRecords]
    BY <2>1 DEF IInv, TypeOK, Begin
  <2> QED
    BY <2>2 DEF IInv, TypeOK, database, invoices, outside, ages
<1>3. TaskOK(t)'
  BY <1>1 DEF TaskOK, Pay, Based, database, outside
<1>4. ~At(t, "commit")'
  BY <1>1 DEF At, Based
<1> QED
  BY <1>1, <1>2, <1>3, <1>4, Elsewhere DEF outside

\* A task that ends, or goes on to a step at which it remembers nothing, keeps the invariant.
LEMMA LeaveStep ==
  ASSUME IInv, NEW t \in Tasks, ~At(t, "idle"),
         End(t) \/ Goto(t, "alert") \/ Goto(t, "open"),
         UNCHANGED <<database, invoices, wechat, sent>>, TypeOK'
  PROVE  IInv'
<1>1. \A u \in Tasks \ {t} : task'[u] = task[u]
  BY DEF IInv, TypeOK, End, Goto
<1>2. \/ task'[t] = Idle
      \/ task'[t].step \in {"alert", "open"} /\ task'[t].pay = Pay(t)
  BY DEF IInv, TypeOK, TaskRecords, End, Goto, Pay
<1>3. Pay(t) \in Payments
  BY DEF IInv, TasksOK, TaskOK, At
<1>4. TaskOK(t)' /\ ~At(t, "commit")'
  BY <1>2, <1>3 DEF TaskOK, Pay, At, Based, Idle
<1> QED
  BY <1>1, <1>4, Elsewhere

\* Going on, hearing an answer and ending keep the type of the tasks.
LEMMA TaskType ==
  ASSUME TypeOK, NEW t \in Tasks,
         \/ \E s \in Steps : Goto(t, s)
         \/ \E a \in Answers : Heard(t, a)
         \/ End(t)
         \/ Leave(t)
  PROVE  task' \in [Tasks -> TaskRecords]
<1>1. task \in [Tasks -> TaskRecords] /\ task[t] \in TaskRecords
  BY DEF TypeOK
<1>2. CASE \E s \in Steps : Goto(t, s)
  BY <1>1, <1>2 DEF Goto, TaskRecords
<1>3. CASE \E a \in Answers : Heard(t, a)
  <2>1. PICK a \in Answers : Heard(t, a)
    BY <1>3
  <2>2. [[task[t] EXCEPT !.step = "conclude"] EXCEPT !.saw = a] \in TaskRecords
    BY <1>1 DEF TaskRecords, Steps
  <2>3. task' = [task EXCEPT ![t] = [[task[t] EXCEPT !.step = "conclude"] EXCEPT !.saw = a]]
    BY <1>1, <2>1 DEF Heard, TaskRecords
  <2> QED
    BY <1>1, <2>2, <2>3
<1>4. CASE End(t)
  <2>1. Idle \in TaskRecords
    BY DEF Idle, TaskRecords, Ops, Steps, Answers, WeChatStatuses, Invoices
  <2> QED
    BY <1>1, <1>4, <2>1 DEF End
<1>5. CASE Leave(t)
  BY <1>2, <1>4, <1>5 DEF Leave, Steps
<1> QED
  BY <1>2, <1>3, <1>4, <1>5

\* A step of one task that changes an undecided refund nobody has locked keeps the invariant when
\* the bill follows the refund.
LEMMA RowStep ==
  ASSUME IInv, NEW t \in Tasks, NEW p \in Payments, ~Locked(p), TypeOK', TaskOK(t)',
         refundStatus[p] # "SUCCESS", refundStatus'[p] \in Queryable,
         \A q \in Payments \ {p} : refundStatus'[q] = refundStatus[q],
         LedgersAgree',
         UNCHANGED <<payStatus, couponStatus, deskUsed, invoices, outside>>,
         \A u \in Tasks \ {t} : task'[u] = task[u],
         ~At(t, "commit")'
  PROVE  IInv'
<1>1. Facts'
  BY DEF IInv, Facts, CouponGivenBackOnce, InvoiceIsVoidedUnlessCrossed,
         invoices, outside, TypeOK
<1>2. ASSUME NEW u \in Tasks \ {t} PROVE TaskOK(u)'
  <2>1. TaskOK(u) /\ task'[u] = task[u] /\ ~(At(u, "commit") /\ Pay(u) = p)
    BY DEF IInv, TasksOK, Locked
  <2>2. UNCHANGED <<invoice, crossed, wechat>>
    BY DEF invoices, outside
  <2>3. CASE Pay(u) = p
    BY <2>1, <2>2, <2>3 DEF TaskOK, At, Pay, Queryable, Open
  <2>4. CASE Pay(u) # p
    <3>1. Pay(u) \in Payments => refundStatus'[Pay(u)] = refundStatus[Pay(u)]
      BY <2>4
    <3> QED
      BY <2>1, <2>2, <3>1 DEF TaskOK, At, Pay, Based
  <2> QED
    BY <2>3, <2>4
<1>3. LocksOK'
  BY DEF IInv, LocksOK, At, Pay
<1>4. WeChatOK'
  BY DEF IInv, WeChatOK, Queryable, Open, outside
<1> QED
  BY <1>1, <1>2, <1>3, <1>4 DEF IInv, TasksOK

\* Looking for the refund's row keeps the invariant.
LEMMA FindStep ==
  ASSUME IInv, NEW t \in Tasks, FindAggregate(t)
  PROVE  IInv'
<1>1. At(t, "find") /\ Pay(t) \in Payments /\ UNCHANGED <<database, invoices, outside, ages>>
  BY DEF IInv, FindAggregate, TasksOK, TaskOK, At
<1>2. End(t) \/ Goto(t, "open") \/ Goto(t, "revive") \/ Goto(t, "mark")
  BY DEF FindAggregate
<1>3. TypeOK'
  <2>1. task' \in [Tasks -> TaskRecords]
    BY <1>2, TaskType DEF IInv, Steps
  <2> QED
    BY <1>1, <2>1 DEF IInv, TypeOK, database, invoices, outside, ages
<1>4. CASE End(t) \/ Goto(t, "open")
  BY <1>1, <1>3, <1>4, LeaveStep DEF At, outside
<1>5. CASE ~End(t) /\ ~Goto(t, "open")
  <2>1. refundStatus[Pay(t)] # "NONE"
    BY <1>5 DEF FindAggregate
  <2>2. \A u \in Tasks \ {t} : task'[u] = task[u]
    BY <1>2, <1>5 DEF IInv, TypeOK, Goto
  <2>3. task'[t].step \in {"revive", "mark"} /\ task'[t].pay = Pay(t)
    BY <1>2, <1>5 DEF IInv, TypeOK, TaskRecords, Goto, Pay
  <2>4. TaskOK(t)' /\ ~At(t, "commit")'
    BY <1>1, <2>1, <2>3 DEF TaskOK, Pay, At, Based, database
  <2> QED
    BY <1>1, <1>3, <2>2, <2>4, Elsewhere DEF outside
<1> QED
  BY <1>4, <1>5

\* Going on after a change of the row.
LEMMA GoOn ==
  ASSUME IInv, NEW t \in Tasks, NEW step \in {"mark", "send"}, Goto(t, step),
         Pay(t) \in Payments, refundStatus'[Pay(t)] # "NONE"
  PROVE  TaskOK(t)' /\ ~At(t, "commit")' /\ \A u \in Tasks \ {t} : task'[u] = task[u]
<1>1. task'[t].step = step /\ task'[t].pay = Pay(t)
  BY DEF IInv, TypeOK, TaskRecords, Goto, Pay
<1>2. \A u \in Tasks \ {t} : task'[u] = task[u]
  BY DEF IInv, TypeOK, Goto
<1> QED
  BY <1>1, <1>2 DEF TaskOK, At, Pay, Based

\* Creating the row keeps the invariant: the bill is locked with it.
LEMMA CreateStep ==
  ASSUME IInv, NEW t \in Tasks, CreateAggregate(t)
  PROVE  IInv'
<1> DEFINE p == Pay(t)
<1>1. /\ p \in Payments /\ refundStatus[p] = "NONE" /\ Goto(t, "mark") /\ LockBill(p)
      /\ refundStatus' = [refundStatus EXCEPT ![p] = "CREATED"]
      /\ requested' = Append(requested, p)
      /\ UNCHANGED <<payStatus, couponStatus, deskUsed, invoices, outside, ages>>
  BY DEF IInv, CreateAggregate, TasksOK, TaskOK, At
<1>2. ~Locked(p)
  BY <1>1 DEF IInv, TasksOK, TaskOK, Locked, At, Based
<1>3. TypeOK'
  <2>1. task' \in [Tasks -> TaskRecords]
    BY <1>1, TaskType DEF IInv, Steps
  <2>2. requested' \in Seq(Payments)
    BY <1>1 DEF IInv, TypeOK
  <2>3. /\ refundStatus' \in [Payments -> RefundStatuses]
        /\ billStatus' \in [Payments -> {"PAID", "REFUNDING", "REFUNDED"}]
    BY <1>1 DEF IInv, TypeOK, RefundStatuses, Open, LockBill
  <2> QED
    BY <1>1, <2>1, <2>2, <2>3 DEF IInv, TypeOK, invoices, outside, ages
<1>4. LedgersAgree'
  BY <1>1 DEF IInv, TypeOK, Facts, LedgersAgree, LockBill, Open
<1>5. refundStatus'[p] = "CREATED" /\ \A q \in Payments \ {p} : refundStatus'[q] = refundStatus[q]
  BY <1>1 DEF IInv, TypeOK
<1>6. TaskOK(t)' /\ ~At(t, "commit")' /\ \A u \in Tasks \ {t} : task'[u] = task[u]
  BY <1>1, <1>5, GoOn
<1> QED
  BY <1>1, <1>2, <1>3, <1>4, <1>5, <1>6, RowStep DEF Queryable, Open

\* Taking up a failed refund keeps the invariant: the bill, which is PAID again, is locked again.
LEMMA ReviveStep ==
  ASSUME IInv, NEW t \in Tasks, ReviveAggregate(t)
  PROVE  IInv'
<1> DEFINE p == Pay(t)
<1>1. /\ p \in Payments /\ refundStatus[p] # "NONE" /\ Goto(t, "mark") /\ ~Locked(p)
      /\ UNCHANGED <<requested, payStatus, couponStatus, deskUsed, invoices, outside, ages>>
  BY DEF IInv, ReviveAggregate, TasksOK, TaskOK, At, Based
<1>2. task' \in [Tasks -> TaskRecords]
  BY <1>1, TaskType DEF IInv, Steps
<1>3. CASE refundStatus[p] = "FAILED"
  <2>1. LockBill(p) /\ refundStatus' = [refundStatus EXCEPT ![p] = "PROCESSING"]
    BY <1>3 DEF ReviveAggregate
  <2>2. /\ refundStatus'[p] = "PROCESSING"
        /\ \A q \in Payments \ {p} : refundStatus'[q] = refundStatus[q]
    BY <1>1, <2>1 DEF IInv, TypeOK
  <2>3. TypeOK'
    <3>1. /\ refundStatus' \in [Payments -> RefundStatuses]
          /\ billStatus' \in [Payments -> {"PAID", "REFUNDING", "REFUNDED"}]
      BY <1>1, <2>1 DEF IInv, TypeOK, RefundStatuses, Open, LockBill
    <3> QED
      BY <1>1, <1>2, <3>1 DEF IInv, TypeOK, invoices, outside, ages
  <2>4. LedgersAgree'
    BY <1>1, <1>3, <2>1 DEF IInv, TypeOK, Facts, LedgersAgree, LockBill, Open
  <2>5. TaskOK(t)' /\ ~At(t, "commit")' /\ \A u \in Tasks \ {t} : task'[u] = task[u]
    BY <1>1, <2>2, GoOn
  <2> QED
    BY <1>1, <1>3, <2>2, <2>3, <2>4, <2>5, RowStep DEF Queryable, Open
<1>4. CASE refundStatus[p] # "FAILED"
  <2>1. UNCHANGED <<refundStatus, billStatus>>
    BY <1>4 DEF ReviveAggregate
  <2>2. TypeOK'
    BY <1>1, <1>2, <2>1 DEF IInv, TypeOK, invoices, outside, ages
  <2>3. TaskOK(t)' /\ ~At(t, "commit")' /\ \A u \in Tasks \ {t} : task'[u] = task[u]
    BY <1>1, <2>1, GoOn
  <2> QED
    BY <1>1, <2>1, <2>2, <2>3, Elsewhere DEF database, outside
<1> QED
  BY <1>3, <1>4

\* Marking the refund as under way keeps the invariant.
LEMMA MarkStep ==
  ASSUME IInv, NEW t \in Tasks, MarkProcessing(t)
  PROVE  IInv'
<1> DEFINE p == Pay(t)
<1>1. /\ p \in Payments /\ refundStatus[p] # "NONE" /\ Goto(t, "send") /\ ~Locked(p)
      /\ refundStatus' = [refundStatus EXCEPT ![p] = IF @ = "CREATED" THEN "PROCESSING" ELSE @]
      /\ UNCHANGED <<requested, payStatus, billStatus, couponStatus, deskUsed, invoices, outside, ages>>
  BY DEF IInv, MarkProcessing, TasksOK, TaskOK, At, Based
<1>2. TypeOK'
  <2>1. task' \in [Tasks -> TaskRecords]
    BY <1>1, TaskType DEF IInv, Steps
  <2>2. refundStatus' \in [Payments -> RefundStatuses]
    BY <1>1 DEF IInv, TypeOK, RefundStatuses, Open
  <2> QED
    BY <1>1, <2>1, <2>2 DEF IInv, TypeOK, invoices, outside, ages
<1>3. /\ refundStatus'[p] = IF refundStatus[p] = "CREATED" THEN "PROCESSING" ELSE refundStatus[p]
      /\ \A q \in Payments \ {p} : refundStatus'[q] = refundStatus[q]
  BY <1>1 DEF IInv, TypeOK
<1>4. TaskOK(t)' /\ ~At(t, "commit")' /\ \A u \in Tasks \ {t} : task'[u] = task[u]
  BY <1>1, <1>3, GoOn
<1>5. CASE refundStatus[p] = "CREATED"
  <2>1. LedgersAgree'
    BY <1>1, <1>5 DEF IInv, TypeOK, Facts, LedgersAgree, Open
  <2> QED
    BY <1>1, <1>2, <1>3, <1>4, <1>5, <2>1, RowStep DEF Queryable, Open
<1>6. CASE refundStatus[p] # "CREATED"
  <2>1. refundStatus' = refundStatus
    BY <1>1, <1>6 DEF IInv, TypeOK
  <2> QED
    BY <1>1, <1>2, <1>4, <2>1, Elsewhere DEF database, outside
<1> QED
  BY <1>5, <1>6

-----------------------------------------------------------------------------
\* What happens at WeChat keeps the invariant when a success there stays and nothing is heard of
\* refunds nobody asked for.
LEMMA OutsideStep ==
  ASSUME IInv, TypeOK', UNCHANGED <<database, invoices, task>>,
         \A p \in Payments : wechat[p] = "SUCCESS" => wechat'[p] = "SUCCESS",
         \A p \in Payments : wechat[p] = "NONE" /\ p \notin sent => wechat'[p] = "NONE" /\ p \notin sent'
  PROVE  IInv'
<1>1. Facts'
  BY DEF IInv, Facts, LedgersAgree, CouponGivenBackOnce,
         InvoiceIsVoidedUnlessCrossed, database, invoices
<1>2. TasksOK'
  BY DEF IInv, TasksOK, TaskOK, Pay, database, invoices
<1>3. LocksOK'
  BY DEF IInv, LocksOK, At, Pay
<1>4. WeChatOK'
  BY DEF IInv, WeChatOK, database
<1> QED
  BY <1>1, <1>2, <1>3, <1>4 DEF IInv

\* A late request, a decision and a repetition at WeChat keep the invariant.
LEMMA WeChatSteps ==
  ASSUME IInv, NEW p \in Payments,
         LateArrival(p) \/ MerchantRepeats(p) \/ \E s \in Finals : WeChatDecides(p, s)
  PROVE  IInv'
<1>1. CASE LateArrival(p)
  <2>1. /\ wechat' \in [Payments -> WeChatStatuses]
        /\ \A q \in Payments : /\ wechat[q] = "SUCCESS" => wechat'[q] = "SUCCESS"
                               /\ wechat[q] = "NONE" /\ q \notin sent => wechat'[q] = "NONE"
    BY <1>1 DEF IInv, TypeOK, LateArrival, Accepted, WeChatStatuses, Finals
  <2>2. sent' \in SUBSET sent /\ UNCHANGED <<database, invoices, ages, task>>
    BY <1>1 DEF LateArrival
  <2>3. TypeOK'
    BY <2>1, <2>2 DEF IInv, TypeOK, database, invoices, ages
  <2> QED
    BY <2>1, <2>2, <2>3, OutsideStep
<1>2. CASE MerchantRepeats(p)
  <2>1. /\ wechat[p] \in Failures /\ wechat' = [wechat EXCEPT ![p] = "PROCESSING"]
        /\ UNCHANGED <<database, invoices, sent, ages, task>>
    BY <1>2 DEF MerchantRepeats
  <2>2. TypeOK'
    BY <2>1 DEF IInv, TypeOK, WeChatStatuses, database, invoices, ages
  <2>3. \A q \in Payments : /\ wechat[q] = "SUCCESS" => wechat'[q] = "SUCCESS"
                            /\ wechat[q] = "NONE" => wechat'[q] = "NONE"
    BY <2>1 DEF IInv, TypeOK, Failures
  <2> QED
    BY <2>1, <2>2, <2>3, OutsideStep
<1>3. CASE \E s \in Finals : WeChatDecides(p, s)
  <2>1. PICK s \in Finals : WeChatDecides(p, s)
    BY <1>3
  <2>2. /\ wechat[p] = "PROCESSING" /\ wechat' = [wechat EXCEPT ![p] = s]
        /\ UNCHANGED <<database, invoices, sent, ages, task>>
    BY <2>1 DEF WeChatDecides
  <2>3. TypeOK'
    BY <2>2 DEF IInv, TypeOK, WeChatStatuses, database, invoices, ages
  <2>4. \A q \in Payments : /\ wechat[q] = "SUCCESS" => wechat'[q] = "SUCCESS"
                            /\ wechat[q] = "NONE" => wechat'[q] = "NONE"
    BY <2>2 DEF IInv, TypeOK
  <2> QED
    BY <2>2, <2>3, <2>4, OutsideStep
<1> QED
  BY <1>1, <1>2, <1>3

\* The answer to a task's own request or query keeps the invariant: a success it hears is one.
LEMMA HearStep ==
  ASSUME IInv, NEW t \in Tasks, RequestRefund(t) \/ QueryRefund(t)
  PROVE  IInv'
<1> DEFINE p == Pay(t)
<1>1. /\ p \in Payments /\ refundStatus[p] # "NONE"
      /\ UNCHANGED <<database, invoices, ages>>
  BY DEF IInv, RequestRefund, QueryRefund, TasksOK, TaskOK, At, Based, outside
<1>2. PICK a \in Answers : Heard(t, a) /\ (a = "SUCCESS" => wechat'[p] = "SUCCESS")
  BY <1>1 DEF IInv, TypeOK, RequestRefund, QueryRefund, Accepted, Answers, WeChatStatuses, Finals, outside
<1>3. /\ wechat' \in [Payments -> WeChatStatuses] /\ sent' \in SUBSET Payments
      /\ \A q \in Payments : wechat[q] = "SUCCESS" => wechat'[q] = "SUCCESS"
      /\ \A q \in Payments \ {p} : wechat'[q] = wechat[q] /\ (q \in sent' <=> q \in sent)
  BY <1>1 DEF IInv, TypeOK, RequestRefund, QueryRefund, Accepted, WeChatStatuses, Finals, outside
<1>4. TypeOK'
  <2>1. task' \in [Tasks -> TaskRecords]
    BY <1>2, TaskType DEF IInv
  <2> QED
    BY <1>1, <1>3, <2>1 DEF IInv, TypeOK, database, invoices, ages
<1>5. /\ task'[t].step = "conclude" /\ task'[t].saw = a /\ task'[t].pay = p
      /\ \A u \in Tasks \ {t} : task'[u] = task[u]
  BY <1>2 DEF IInv, TypeOK, TaskRecords, Heard, Pay
<1>6. Facts'
  BY <1>1 DEF IInv, Facts, LedgersAgree, CouponGivenBackOnce,
         InvoiceIsVoidedUnlessCrossed, database, invoices
<1>7. TaskOK(t)'
  BY <1>1, <1>2, <1>5 DEF TaskOK, Pay, Based, database
<1>8. ASSUME NEW u \in Tasks \ {t} PROVE TaskOK(u)'
  BY <1>1, <1>3, <1>5 DEF IInv, TasksOK, TaskOK, Pay, Based, database, invoices
<1>9. LocksOK'
  BY <1>5 DEF IInv, LocksOK, At, Pay
<1>10. WeChatOK'
  BY <1>1, <1>3 DEF IInv, WeChatOK, database
<1> QED
  BY <1>4, <1>6, <1>7, <1>8, <1>9, <1>10 DEF IInv, TasksOK

-----------------------------------------------------------------------------
\* Leaving keeps the type of the tasks and is one of the two ways of LeaveStep.
LEMMA LeaveForms ==
  ASSUME IInv, NEW t \in Tasks, Leave(t)
  PROVE  /\ End(t) \/ Goto(t, "alert")
         /\ task' \in [Tasks -> TaskRecords]
         /\ \A u \in Tasks \ {t} : task'[u] = task[u]
         /\ task'[t] = Idle \/ (task'[t].step = "alert" /\ task'[t].pay = Pay(t))
BY TaskType DEF IInv, TypeOK, TaskRecords, Leave, End, Goto, Pay

\* An answer that is not a success keeps the invariant: an open refund is given up with its bill,
\* another one is left alone.
LEMMA ConcludeStep ==
  ASSUME IInv, NEW t \in Tasks, Conclude(t)
  PROVE  IInv'
<1> DEFINE p == Pay(t)
<1>1. /\ p \in Payments /\ refundStatus[p] # "NONE" /\ Leave(t) /\ ~At(t, "idle")
      /\ UNCHANGED <<requested, payStatus, couponStatus, deskUsed, invoices, outside, ages>>
  BY DEF IInv, Conclude, TasksOK, TaskOK, At, Based
<1>2. task' \in [Tasks -> TaskRecords]
  BY <1>1, LeaveForms
<1>3. CASE UNCHANGED <<refundStatus, billStatus>>
  <2>1. TypeOK'
    BY <1>1, <1>2, <1>3 DEF IInv, TypeOK, invoices, outside, ages
  <2> QED
    BY <1>1, <1>3, <2>1, LeaveForms, LeaveStep DEF database, outside
<1>4. CASE ~UNCHANGED <<refundStatus, billStatus>>
  <2>1. /\ ~Locked(p) /\ refundStatus[p] \in Open
        /\ refundStatus' = [refundStatus EXCEPT ![p] = "FAILED"]
        /\ billStatus' = [billStatus EXCEPT ![p] = IF @ = "REFUNDING" THEN "PAID" ELSE @]
    BY <1>4 DEF Conclude
  <2>2. TypeOK'
    <3>1. /\ refundStatus' \in [Payments -> RefundStatuses]
          /\ billStatus' \in [Payments -> {"PAID", "REFUNDING", "REFUNDED"}]
      BY <1>1, <2>1 DEF IInv, TypeOK, RefundStatuses
    <3> QED
      BY <1>1, <1>2, <3>1 DEF IInv, TypeOK, invoices, outside, ages
  <2>3. LedgersAgree'
    BY <1>1, <2>1 DEF IInv, TypeOK, Facts, LedgersAgree, Open
  <2>4. /\ refundStatus'[p] = "FAILED"
        /\ \A q \in Payments \ {p} : refundStatus'[q] = refundStatus[q]
    BY <1>1, <2>1 DEF IInv, TypeOK
  <2>5. TaskOK(t)' /\ ~At(t, "commit")' /\ \A u \in Tasks \ {t} : task'[u] = task[u]
    BY <1>1, LeaveForms DEF TaskOK, At, Pay, Based, Idle
  <2> QED
    BY <1>1, <2>1, <2>2, <2>3, <2>4, <2>5, RowStep DEF Queryable, Open
<1> QED
  BY <1>3, <1>4

\* Taking the locks keeps the invariant: the task has read the application as it is, and a refund
\* that is decided already is a success that was recorded.
LEMMA LockStep ==
  ASSUME IInv, NEW t \in Tasks, LockForSuccess(t)
  PROVE  IInv'
<1> DEFINE p == Pay(t)
<1>1. /\ p \in Payments /\ refundStatus[p] # "NONE" /\ wechat[p] = "SUCCESS"
      /\ ~Locked(p) /\ ~At(t, "idle")
      /\ UNCHANGED <<database, invoices, outside, ages>>
  BY DEF IInv, LockForSuccess, Succeeded, TasksOK, TaskOK, At, Based
<1>2. CASE refundStatus[p] \in Queryable
  <2>1. task' = [task EXCEPT ![t] = [[task[t] EXCEPT !.step = "commit"] EXCEPT !.goal = invoice[p]]]
    BY <1>2 DEF IInv, TypeOK, TaskRecords, LockForSuccess
  <2>2. [[task[t] EXCEPT !.step = "commit"] EXCEPT !.goal = invoice[p]] \in TaskRecords
    BY <1>1 DEF IInv, TypeOK, TaskRecords, Steps
  <2>3. task' \in [Tasks -> TaskRecords]
    BY <2>1, <2>2 DEF IInv, TypeOK
  <2>4. TypeOK'
    BY <1>1, <2>1, <2>3 DEF IInv, TypeOK, database, invoices, outside, ages
  <2>5. /\ task'[t].step = "commit" /\ task'[t].pay = p /\ task'[t].goal = invoice[p]
        /\ \A u \in Tasks \ {t} : task'[u] = task[u]
    BY <2>1 DEF IInv, TypeOK, TaskRecords, Pay
  <2>6. TaskOK(t)'
    BY <1>1, <1>2, <2>5 DEF TaskOK, Pay, database, invoices, outside
  <2> QED
    BY <1>1, <2>4, <2>5, <2>6, Elsewhere DEF Pay, outside
<1>3. CASE refundStatus[p] \notin Queryable
  <2>1. Leave(t)
    BY <1>3 DEF LockForSuccess
  <2>2. TypeOK'
    BY <1>1, <2>1, LeaveForms DEF IInv, TypeOK, database, invoices, outside, ages
  <2> QED
    BY <1>1, <2>1, <2>2, LeaveForms, LeaveStep DEF outside
<1> QED
  BY <1>2, <1>3

\* Recording the success keeps the invariant: nobody else records it, and the application is the
\* one that was read, or it was crossed.
LEMMA CommitStep ==
  ASSUME IInv, NEW t \in Tasks, CommitSuccess(t)
  PROVE  IInv'
<1> DEFINE p == Pay(t)
<1>1. /\ p \in Payments /\ At(t, "commit") /\ wechat[p] = "SUCCESS" /\ refundStatus[p] \in Queryable
      /\ p \notin crossed => invoice[p] = task[t].goal
  BY DEF IInv, CommitSuccess, TasksOK, TaskOK, At, Based, Pay
<1>2. /\ refundStatus' = [refundStatus EXCEPT ![p] = "SUCCESS"]
      /\ payStatus' = [payStatus EXCEPT ![p] = "REFUNDED"]
      /\ billStatus' = [billStatus EXCEPT ![p] = "REFUNDED"]
      /\ couponStatus' = [couponStatus EXCEPT ![p] = Released(@)]
      /\ invoice' = [invoice EXCEPT ![p] = Voided(task[t].goal, @)]
      /\ Leave(t)
      /\ UNCHANGED <<requested, deskUsed, crossed, wechat, sent, ages>>
  BY DEF CommitSuccess, outside
<1>3. /\ task' \in [Tasks -> TaskRecords] /\ task'[t].step # "commit" /\ TaskOK(t)'
      /\ \A u \in Tasks \ {t} : task'[u] = task[u]
  BY <1>1, <1>2, LeaveForms DEF TaskOK, Pay, Based, Idle
<1>4. /\ refundStatus'[p] = "SUCCESS" /\ payStatus'[p] = "REFUNDED" /\ billStatus'[p] = "REFUNDED"
      /\ couponStatus'[p] = Released(couponStatus[p]) /\ invoice'[p] = Voided(task[t].goal, invoice[p])
      /\ \A q \in Payments \ {p} :
           /\ refundStatus'[q] = refundStatus[q] /\ payStatus'[q] = payStatus[q]
           /\ billStatus'[q] = billStatus[q] /\ couponStatus'[q] = couponStatus[q]
           /\ invoice'[q] = invoice[q]
  BY <1>1, <1>2 DEF IInv, TypeOK
<1>5. TypeOK'
  <2>1. invoice[p] \in Invoices /\ couponStatus[p] \in {"NONE", "USED", "UNUSED"}
    BY <1>1 DEF IInv, TypeOK
  <2>2. Voided(task[t].goal, invoice[p]) \in Invoices /\ Released(couponStatus[p]) \in {"NONE", "USED", "UNUSED"}
    BY <2>1 DEF Voided, Released, Invoices
  <2>3. /\ refundStatus' \in [Payments -> RefundStatuses]
        /\ payStatus' \in [Payments -> {"SUCCESS", "REFUNDED"}]
        /\ billStatus' \in [Payments -> {"PAID", "REFUNDING", "REFUNDED"}]
        /\ couponStatus' \in [Payments -> {"NONE", "USED", "UNUSED"}]
        /\ invoice' \in [Payments -> Invoices]
    BY <1>2, <2>2 DEF IInv, TypeOK, RefundStatuses
  <2> QED
    BY <1>1, <1>2, <1>3, <2>3 DEF IInv, TypeOK, ages
<1>6. LedgersAgree'
  BY <1>2, <1>4 DEF IInv, Facts, LedgersAgree, Open
<1>7. CouponGivenBackOnce'
  <2>1. payStatus[p] # "REFUNDED"
    BY <1>1 DEF IInv, Facts, LedgersAgree, Queryable, Open
  <2>2. (couponStatus[p] # "UNUSED" /\ p \notin deskUsed) \/ couponStatus[p] = "NONE"
    BY <1>1, <2>1 DEF IInv, TypeOK, Facts, CouponGivenBackOnce
  <2>3. couponStatus'[p] = "UNUSED" => p \notin deskUsed
    BY <1>4, <2>2 DEF Released
  <2>4. couponStatus'[p] # "USED"
    BY <1>4 DEF Released
  <2> QED
    BY <1>2, <1>4, <2>3, <2>4 DEF IInv, Facts, CouponGivenBackOnce
<1>8. InvoiceIsVoidedUnlessCrossed'
  <2>1. p \notin crossed => invoice'[p] \notin Pending \cup {"ISSUED"}
    BY <1>1, <1>4 DEF Voided, Pending
  <2> QED
    BY <1>2, <1>4, <2>1 DEF IInv, Facts, InvoiceIsVoidedUnlessCrossed
<1>9. ASSUME NEW u \in Tasks \ {t} PROVE TaskOK(u)'
  <2>1. TaskOK(u) /\ task'[u] = task[u] /\ ~(At(u, "commit") /\ Pay(u) = p)
    BY <1>1, <1>3 DEF IInv, TasksOK, LocksOK
  <2>2. CASE Pay(u) = p
    BY <1>2, <1>4, <2>1, <2>2 DEF TaskOK, At, Pay
  <2>3. CASE Pay(u) # p
    BY <1>2, <1>4, <2>1, <2>3 DEF TaskOK, At, Pay, Based
  <2> QED
    BY <2>2, <2>3
<1>10. LocksOK'
  BY <1>3 DEF IInv, LocksOK, At, Pay
<1>11. WeChatOK'
  BY <1>1, <1>2, <1>4 DEF IInv, WeChatOK
<1> QED
  BY <1>3, <1>5, <1>6, <1>7, <1>8, <1>9, <1>10, <1>11 DEF IInv, Facts, TasksOK

-----------------------------------------------------------------------------
\* Redeeming a coupon that was given back keeps the invariant.
LEMMA RedeemStep ==
  ASSUME IInv, NEW p \in Payments, Redeem(p)
  PROVE  IInv'
<1>1. /\ couponStatus[p] = "UNUSED" /\ couponStatus' = [couponStatus EXCEPT ![p] = "USED"]
      /\ deskUsed' = deskUsed \cup {p}
      /\ UNCHANGED <<refundStatus, requested, payStatus, billStatus, invoices, outside, ages, task>>
  BY DEF Redeem
<1>2. TypeOK'
  BY <1>1 DEF IInv, TypeOK, invoices, outside, ages
<1>3. CouponGivenBackOnce'
  BY <1>1 DEF IInv, TypeOK, Facts, CouponGivenBackOnce
<1>4. LedgersAgree' /\ InvoiceIsVoidedUnlessCrossed'
  BY <1>1 DEF IInv, Facts, LedgersAgree, InvoiceIsVoidedUnlessCrossed, invoices, outside
<1>5. TasksOK' /\ LocksOK' /\ WeChatOK'
  BY <1>1 DEF IInv, TasksOK, TaskOK, LocksOK, At, Pay, WeChatOK, invoices, outside
<1> QED
  BY <1>2, <1>3, <1>4, <1>5 DEF IInv, Facts

\* Growing old, the alert, an exception and the death of a task keep the invariant.
LEMMA AlertSteps ==
  ASSUME IInv,
         \/ \E p \in Payments : GetsOld(p)
         \/ \E t \in Tasks : RaiseAlert(t) \/ LookupThrows(t) \/ Abort(t)
  PROVE  IInv'
<1>1. CASE \E p \in Payments : GetsOld(p)
  <2>1. UNCHANGED <<database, invoices, outside, alerted, task>> /\ old' \in SUBSET Payments
    BY <1>1 DEF IInv, TypeOK, GetsOld
  <2>2. TypeOK' /\ Facts'
    BY <2>1 DEF IInv, TypeOK, Facts, LedgersAgree, CouponGivenBackOnce,
                InvoiceIsVoidedUnlessCrossed, database, invoices, outside
  <2>3. TasksOK' /\ LocksOK' /\ WeChatOK'
    BY <2>1 DEF IInv, TasksOK, TaskOK, LocksOK, At, Pay, WeChatOK, database, invoices, outside
  <2> QED
    BY <2>2, <2>3 DEF IInv
<1>2. CASE \E t \in Tasks : RaiseAlert(t) \/ LookupThrows(t) \/ Abort(t)
  <2>1. PICK t \in Tasks : RaiseAlert(t) \/ LookupThrows(t) \/ Abort(t)
    BY <1>2
  <2>2. /\ ~At(t, "idle") /\ (End(t) \/ Goto(t, "alert")) /\ UNCHANGED <<database, invoices, outside, old>>
    BY <2>1 DEF RaiseAlert, LookupThrows, Abort, At, ages
  <2>3. TypeOK'
    <3>1. task' \in [Tasks -> TaskRecords]
      BY <2>2, TaskType DEF IInv, Steps
    <3>2. Pay(t) \in Payments
      BY <2>2 DEF IInv, TasksOK, TaskOK, At
    <3>3. alerted' \in SUBSET Payments
      BY <2>1, <3>2 DEF IInv, TypeOK, RaiseAlert, LookupThrows, Abort, ages
    <3> QED
      BY <2>2, <3>1, <3>3 DEF IInv, TypeOK, database, invoices, outside
  <2> QED
    BY <2>2, <2>3, LeaveStep DEF outside
<1> QED
  BY <1>1, <1>2

\* Writing an application keeps the invariant: while the success of its refund is being recorded,
\* or after that, the payment counts as crossed.
LEMMA InvoiceStep ==
  ASSUME IInv, NEW t \in Tasks, SubmitApplication(t) \/ CommitTransition(t)
  PROVE  IInv'
<1> DEFINE p == Pay(t)
<1>1. p \in Payments /\ End(t) /\ UNCHANGED <<database, outside, ages>>
  BY DEF IInv, SubmitApplication, CommitTransition, TasksOK, TaskOK, At
<1>2. PICK new \in Invoices : invoice' = [invoice EXCEPT ![p] = new]
  BY DEF IInv, TypeOK, TaskRecords, SubmitApplication, CommitTransition, Invoices
<1>3. /\ crossed' \in {crossed, crossed \cup {p}}
      /\ Locked(p) => p \in crossed'
  BY DEF SubmitApplication, CommitTransition
<1>4. /\ task' \in [Tasks -> TaskRecords] /\ task'[t] = Idle
      /\ \A u \in Tasks \ {t} : task'[u] = task[u]
  BY <1>1, TaskType DEF IInv, TypeOK, End
<1>5. TypeOK'
  BY <1>1, <1>2, <1>3, <1>4 DEF IInv, TypeOK, database, outside, ages
<1>6. LedgersAgree' /\ CouponGivenBackOnce'
  BY <1>1 DEF IInv, Facts, LedgersAgree, CouponGivenBackOnce, database, outside
<1>7. payStatus[p] = "REFUNDED" /\ p \notin crossed' => new \notin Pending \cup {"ISSUED"}
  <2>1. CASE SubmitApplication(t)
    BY <2>1 DEF SubmitApplication
  <2>2. CASE CommitTransition(t)
    <3>1. invoice[p] = task[t].saw /\ task[t].goal \in Allowed(invoice[p]) /\ invoice'[p] = task[t].goal
      BY <1>1, <2>2 DEF IInv, TypeOK, CommitTransition, TasksOK, TaskOK, At
    <3>2. new = task[t].goal
      BY <1>1, <1>2, <3>1 DEF IInv, TypeOK
    <3>3. payStatus[p] = "REFUNDED" /\ p \notin crossed => invoice[p] \notin Pending \cup {"ISSUED"}
      BY <1>1 DEF IInv, Facts, InvoiceIsVoidedUnlessCrossed
    <3> QED
      BY <1>3, <3>1, <3>2, <3>3 DEF Allowed, Pending
  <2> QED
    BY <2>1, <2>2
<1>8. InvoiceIsVoidedUnlessCrossed'
  BY <1>1, <1>2, <1>3, <1>7 DEF IInv, TypeOK, Facts, InvoiceIsVoidedUnlessCrossed, database
<1>9. TaskOK(t)'
  BY <1>4 DEF TaskOK, Idle, Based
<1>10. ASSUME NEW u \in Tasks \ {t} PROVE TaskOK(u)'
  <2>1. TaskOK(u) /\ task'[u] = task[u] /\ UNCHANGED <<refundStatus, wechat>>
    BY <1>1, <1>4 DEF IInv, TasksOK, database, outside
  <2>2. At(u, "commit") => (Pay(u) \notin crossed' => invoice'[Pay(u)] = task[u].goal)
    <3>1. CASE At(u, "commit") /\ Pay(u) = p
      BY <1>3, <3>1 DEF Locked
    <3>2. CASE At(u, "commit") /\ Pay(u) # p
      BY <1>2, <1>3, <2>1, <3>2 DEF IInv, TypeOK, TaskOK, At
    <3> QED
      BY <3>1, <3>2
  <2> QED
    BY <2>1, <2>2 DEF TaskOK, Pay, At
<1>11. LocksOK'
  BY <1>4 DEF IInv, LocksOK, At, Pay, Idle
<1>12. WeChatOK'
  BY <1>1 DEF IInv, WeChatOK, database, outside
<1> QED
  BY <1>5, <1>6, <1>8, <1>9, <1>10, <1>11, <1>12 DEF IInv, Facts, TasksOK

\* Starting any task keeps the invariant.
LEMMA BeginSteps ==
  ASSUME IInv, NEW t \in Tasks,
         \/ \E p \in Payments : BeginRefund(t, p) \/ BeginLookup(t, p) \/ BeginRecover(t, p) \/ BeginApply(t, p)
         \/ \E p \in Payments, to \in Invoices : BeginTransition(t, p, to)
  PROVE  IInv'
<1> USE DEF Answers, WeChatStatuses, Finals, Failures, Invoices, Ops, Steps, Based
<1>1. ASSUME NEW p \in Payments, BeginRefund(t, p) PROVE IInv'
  BY <1>1, BeginStep DEF BeginRefund
<1>2. ASSUME NEW p \in Payments, BeginLookup(t, p) PROVE IInv'
  BY <1>2, BeginStep DEF BeginLookup, Queryable, Open
<1>3. ASSUME NEW p \in Payments, BeginRecover(t, p) PROVE IInv'
  BY <1>3, BeginStep DEF BeginRecover, Queryable, Open
<1>4. ASSUME NEW p \in Payments, BeginApply(t, p) PROVE IInv'
  BY <1>4, BeginStep DEF BeginApply
<1>5. ASSUME NEW p \in Payments, NEW to \in Invoices, BeginTransition(t, p, to) PROVE IInv'
  <2>1. invoice[p] \in Invoices
    BY DEF IInv, TypeOK
  <2> QED
    <3>1. /\ Begin(t, "transition", "transit", p, invoice[p], to) /\ to \in Allowed(invoice[p])
          /\ UNCHANGED <<database, invoices, outside, ages>>
      BY <1>5 DEF BeginTransition
    <3>2. invoice[p] \in Answers \cup Invoices
      BY <2>1
    <3> HIDE DEF Answers, WeChatStatuses, Finals, Failures, Invoices
    <3> QED
      BY <2>1, <3>1, <3>2, BeginStep
<1> QED
  BY <1>1, <1>2, <1>3, <1>4, <1>5

-----------------------------------------------------------------------------
\* Every step keeps the invariant.
LEMMA StepInv == IInv /\ [Next]_vars => IInv'
<1> SUFFICES ASSUME IInv, [Next]_vars PROVE IInv'
  OBVIOUS
<1> USE DEF Tasks
<1>1. ASSUME NEW t \in Handlers, NEW p \in Payments, BeginRefund(t, p) \/ BeginLookup(t, p) PROVE IInv'
  BY <1>1, BeginSteps
<1>2. ASSUME NEW t \in Clerks, NEW p \in Payments,
             BeginApply(t, p) \/ \E to \in Invoices : BeginTransition(t, p, to) PROVE IInv'
  BY <1>2, BeginSteps
<1>3. ASSUME NEW t \in Jobs, NEW p \in Payments, BeginRecover(t, p) PROVE IInv'
  BY <1>3, BeginSteps
<1>4. ASSUME NEW t \in Tasks, FindAggregate(t) \/ CreateAggregate(t) \/ ReviveAggregate(t) \/ MarkProcessing(t)
      PROVE IInv'
  BY <1>4, FindStep, CreateStep, ReviveStep, MarkStep
<1>5. ASSUME NEW t \in Tasks, RequestRefund(t) \/ QueryRefund(t) PROVE IInv'
  BY <1>5, HearStep
<1>6. ASSUME NEW t \in Tasks, Conclude(t) \/ LockForSuccess(t) \/ CommitSuccess(t) PROVE IInv'
  BY <1>6, ConcludeStep, LockStep, CommitStep
<1>7. ASSUME NEW t \in Tasks, RaiseAlert(t) \/ LookupThrows(t) \/ Abort(t) PROVE IInv'
  BY <1>7, AlertSteps
<1>8. ASSUME NEW t \in Tasks, SubmitApplication(t) \/ CommitTransition(t) PROVE IInv'
  BY <1>8, InvoiceStep
<1>9. ASSUME NEW p \in Payments, LateArrival(p) \/ MerchantRepeats(p) \/ \E s \in Finals : WeChatDecides(p, s)
       PROVE IInv'
  BY <1>9, WeChatSteps
<1>10. ASSUME NEW p \in Payments, Redeem(p) \/ GetsOld(p) PROVE IInv'
  BY <1>10, RedeemStep, AlertSteps
<1>11. CASE UNCHANGED vars
  <2>1. TypeOK' /\ Facts'
    BY <1>11 DEF vars, database, invoices, outside, ages, IInv, TypeOK, Facts, LedgersAgree,
                 CouponGivenBackOnce, InvoiceIsVoidedUnlessCrossed
  <2>2. TasksOK' /\ LocksOK' /\ WeChatOK'
    BY <1>11 DEF vars, database, invoices, outside, IInv, TasksOK, TaskOK, LocksOK, At, Pay, WeChatOK
  <2> QED
    BY <2>1, <2>2 DEF IInv
<1> QED
  BY <1>1, <1>2, <1>3, <1>4, <1>5, <1>6, <1>7, <1>8, <1>9, <1>10, <1>11 DEF Next

\* The inductive invariant holds in every reachable state.
THEOREM Invariance == Spec => []IInv
BY InitInv, StepInv, PTL DEF Spec

\* Every variable keeps its type.
THEOREM TypeCorrect == Spec => []TypeOK
<1>1. IInv => TypeOK
  BY DEF IInv
<1> QED
  BY <1>1, Invariance, PTL

\* The refund, its payment and its bill agree, whatever the order of answers.
THEOREM LedgersCorrect == Spec => []LedgersAgree
<1>1. IInv => LedgersAgree
  BY DEF IInv, Facts
<1> QED
  BY <1>1, Invariance, PTL

\* The coupon of a returned payment is given back, once.
THEOREM CouponCorrect == Spec => []CouponGivenBackOnce
<1>1. IInv => CouponGivenBackOnce
  BY DEF IInv, Facts
<1> QED
  BY <1>1, Invariance, PTL

\* A returned payment has no valid invoice application, except one that was written behind the
\* back of the refund.
THEOREM InvoiceCorrect == Spec => []InvoiceIsVoidedUnlessCrossed
<1>1. IInv => InvoiceIsVoidedUnlessCrossed
  BY DEF IInv, Facts
<1> QED
  BY <1>1, Invariance, PTL

-----------------------------------------------------------------------------
\* The first state is one of MoneyBack.
LEMMA BooksInit == Init => Books!Init
BY DEF Init, Books!Init, Charge, Voucher

\* A step that changes neither the status of a refund, payment or bill, nor a coupon, nor a
\* success at WeChat, is a stutter of MoneyBack.
LEMMA Stutter ==
  ASSUME UNCHANGED <<refundStatus, payStatus, billStatus, couponStatus, deskUsed>>,
         \A p \in Payments : wechat'[p] = "SUCCESS" <=> wechat[p] = "SUCCESS"
  PROVE  UNCHANGED Books!vars
BY DEF Books!vars, Charge, Voucher

\* A step that changes only one payment's rows, in such a way that its charge moves as in an
\* action of MoneyBack, is that action.
LEMMA ChargeMoves ==
  ASSUME NEW p \in Payments,
         \A q \in Payments \ {p} : /\ refundStatus'[q] = refundStatus[q] /\ billStatus'[q] = billStatus[q]
                                   /\ payStatus'[q] = payStatus[q] /\ couponStatus'[q] = couponStatus[q]
                                   /\ (q \in deskUsed' <=> q \in deskUsed)
  PROVE  /\ [q \in Payments |-> Charge(q)]' = [[q \in Payments |-> Charge(q)] EXCEPT ![p] = Charge(p)']
         /\ [q \in Payments |-> Voucher(q)]' = [[q \in Payments |-> Voucher(q)] EXCEPT ![p] = Voucher(p)']
BY DEF Charge, Voucher

\* Creating or taking up the refund is Ask.
LEMMA AskStep ==
  ASSUME IInv, NEW t \in Tasks, CreateAggregate(t) \/ ReviveAggregate(t)
  PROVE  [Books!Next]_(Books!vars)
<1>1. PICK p \in Payments : p = Pay(t)
  BY DEF IInv, CreateAggregate, ReviveAggregate, TasksOK, TaskOK, At
<1>2. UNCHANGED <<payStatus, couponStatus, deskUsed, wechat>>
  BY DEF IInv, CreateAggregate, ReviveAggregate, TasksOK, TaskOK, At, outside
<1>3. CASE UNCHANGED <<refundStatus, billStatus>>
  BY <1>2, <1>3, Stutter
<1>4. CASE ~UNCHANGED <<refundStatus, billStatus>>
  <2>1. /\ refundStatus[p] \in {"NONE", "FAILED"} /\ LockBill(p)
        /\ \/ refundStatus' = [refundStatus EXCEPT ![p] = "CREATED"]
           \/ refundStatus' = [refundStatus EXCEPT ![p] = "PROCESSING"]
    BY <1>1, <1>4 DEF CreateAggregate, ReviveAggregate
  <2>2. billStatus[p] = "PAID" /\ payStatus[p] = "SUCCESS"
    BY <1>2, <2>1 DEF IInv, TypeOK, Facts, LedgersAgree, Open
  <2>3. /\ billStatus'[p] = "REFUNDING" /\ refundStatus'[p] # "NONE"
        /\ \A q \in Payments \ {p} : refundStatus'[q] = refundStatus[q] /\ billStatus'[q] = billStatus[q]
    BY <1>2, <2>1, <2>2 DEF IInv, TypeOK, LockBill
  <2>4. Charge(p) \in {"kept", "refused"} /\ Charge(p)' = "asked" /\ Voucher(p)' = Voucher(p)
    BY <1>2, <2>2, <2>3 DEF Charge, Voucher
  <2>5. Books!Ask(p)
    <3>1. [q \in Payments |-> Charge(q)]' = [[q \in Payments |-> Charge(q)] EXCEPT ![p] = "asked"]
      BY <1>2, <2>3, <2>4, ChargeMoves
    <3>2. [q \in Payments |-> Voucher(q)]' = [q \in Payments |-> Voucher(q)]
      BY <1>2 DEF Voucher
    <3> QED
      BY <1>2, <2>4, <3>1, <3>2 DEF Books!Ask
  <2> QED
    BY <1>2, <2>5 DEF Books!Next
<1> QED
  BY <1>3, <1>4

\* Giving the refund up is Refuse.
LEMMA RefuseStep ==
  ASSUME IInv, NEW t \in Tasks, Conclude(t)
  PROVE  [Books!Next]_(Books!vars)
<1>1. PICK p \in Payments : p = Pay(t)
  BY DEF IInv, Conclude, TasksOK, TaskOK, At
<1>2. UNCHANGED <<payStatus, couponStatus, deskUsed, wechat>>
  BY DEF IInv, Conclude, TasksOK, TaskOK, At, outside
<1>3. CASE UNCHANGED <<refundStatus, billStatus>>
  BY <1>2, <1>3, Stutter
<1>4. CASE ~UNCHANGED <<refundStatus, billStatus>>
  <2>1. /\ refundStatus[p] \in Open
        /\ refundStatus' = [refundStatus EXCEPT ![p] = "FAILED"]
        /\ billStatus' = [billStatus EXCEPT ![p] = IF @ = "REFUNDING" THEN "PAID" ELSE @]
    BY <1>1, <1>4 DEF Conclude
  <2>2. billStatus[p] = "REFUNDING" /\ payStatus[p] = "SUCCESS"
    BY <1>2, <2>1 DEF IInv, TypeOK, Facts, LedgersAgree, Open
  <2>3. /\ billStatus'[p] = "PAID" /\ refundStatus'[p] = "FAILED"
        /\ \A q \in Payments \ {p} : refundStatus'[q] = refundStatus[q] /\ billStatus'[q] = billStatus[q]
    BY <1>2, <2>1, <2>2 DEF IInv, TypeOK
  <2>4. Charge(p) = "asked" /\ Charge(p)' = "refused"
    BY <1>2, <2>2, <2>3 DEF Charge
  <2>5. Books!Refuse(p)
    <3>1. [q \in Payments |-> Charge(q)]' = [[q \in Payments |-> Charge(q)] EXCEPT ![p] = "refused"]
      BY <1>2, <2>3, <2>4, ChargeMoves
    <3>2. [q \in Payments |-> Voucher(q)]' = [q \in Payments |-> Voucher(q)]
      BY <1>2 DEF Voucher
    <3> QED
      BY <1>2, <2>4, <3>1, <3>2 DEF Books!Refuse
  <2> QED
    BY <1>2, <2>5 DEF Books!Next
<1> QED
  BY <1>3, <1>4

\* WeChat's success is SendBack: the refund was asked for and is not recorded yet.
LEMMA SendBackStep ==
  ASSUME IInv, NEW p \in Payments, NEW s \in Finals, WeChatDecides(p, s)
  PROVE  [Books!Next]_(Books!vars)
<1>1. /\ wechat[p] = "PROCESSING" /\ wechat' = [wechat EXCEPT ![p] = s]
      /\ UNCHANGED <<refundStatus, payStatus, billStatus, couponStatus, deskUsed>>
  BY DEF WeChatDecides, database
<1>2. wechat'[p] = s /\ \A q \in Payments \ {p} : wechat'[q] = wechat[q]
  BY <1>1 DEF IInv, TypeOK
<1>3. CASE s # "SUCCESS"
  BY <1>1, <1>2, <1>3, Stutter
<1>4. CASE s = "SUCCESS"
  <2>1. refundStatus[p] \notin {"NONE", "SUCCESS"} /\ payStatus[p] = "SUCCESS"
    BY <1>1 DEF IInv, TypeOK, Facts, LedgersAgree, WeChatOK
  <2>2. Charge(p) \in {"asked", "refused"}
    BY <2>1 DEF Charge
  <2>3. {q \in Payments : wechat[q] = "SUCCESS"}' = {q \in Payments : wechat[q] = "SUCCESS"} \cup {p}
    BY <1>2, <1>4
  <2>4. Books!SendBack(p)
    BY <1>1, <2>2, <2>3 DEF Books!SendBack, Charge, Voucher
  <2> QED
    BY <2>4 DEF Books!Next
<1> QED
  BY <1>3, <1>4

\* Recording the success is GiveBack, with the coupon.
LEMMA GiveBackStep ==
  ASSUME IInv, NEW t \in Tasks, CommitSuccess(t)
  PROVE  [Books!Next]_(Books!vars)
<1>1. PICK p \in Payments : p = Pay(t)
  BY DEF IInv, CommitSuccess, TasksOK, TaskOK, At
<1>2. wechat[p] = "SUCCESS" /\ refundStatus[p] \in Queryable
  BY <1>1 DEF IInv, CommitSuccess, TasksOK, TaskOK, At, Based, Pay
<1>3. /\ refundStatus' = [refundStatus EXCEPT ![p] = "SUCCESS"]
      /\ payStatus' = [payStatus EXCEPT ![p] = "REFUNDED"]
      /\ billStatus' = [billStatus EXCEPT ![p] = "REFUNDED"]
      /\ couponStatus' = [couponStatus EXCEPT ![p] = Released(@)]
      /\ UNCHANGED <<deskUsed, wechat>>
  BY <1>1 DEF CommitSuccess, outside
<1>4. /\ payStatus'[p] = "REFUNDED" /\ couponStatus'[p] = Released(couponStatus[p])
      /\ \A q \in Payments \ {p} :
           /\ refundStatus'[q] = refundStatus[q] /\ payStatus'[q] = payStatus[q]
           /\ billStatus'[q] = billStatus[q] /\ couponStatus'[q] = couponStatus[q]
  BY <1>2, <1>3 DEF IInv, TypeOK
<1>5. refundStatus[p] \notin {"NONE", "SUCCESS"} /\ payStatus[p] = "SUCCESS"
  BY <1>2 DEF IInv, TypeOK, Facts, LedgersAgree, Queryable, Open
<1>6. Charge(p) \in {"asked", "refused"} /\ Charge(p)' = "returned"
  BY <1>4, <1>5 DEF Charge
<1>7. /\ couponStatus[p] \in {"NONE", "USED"}
      /\ couponStatus[p] = "USED" => p \notin deskUsed
  BY <1>2, <1>5 DEF IInv, TypeOK, Facts, CouponGivenBackOnce
<1>8. Voucher(p)' = IF Voucher(p) = "spent" THEN "free" ELSE Voucher(p)
  BY <1>3, <1>4, <1>7 DEF Voucher, Released
<1>9. /\ [q \in Payments |-> Charge(q)]' = [[q \in Payments |-> Charge(q)] EXCEPT ![p] = "returned"]
      /\ [q \in Payments |-> Voucher(q)]'
           = [[q \in Payments |-> Voucher(q)] EXCEPT ![p] = IF @ = "spent" THEN "free" ELSE @]
  BY <1>2, <1>3, <1>4, <1>6, <1>8, ChargeMoves
<1>10. Books!GiveBack(p)
  BY <1>2, <1>3, <1>6, <1>9 DEF Books!GiveBack
<1> QED
  BY <1>2, <1>10 DEF Books!Next

\* Redeeming at the desk is Redeem.
LEMMA BooksRedeem ==
  ASSUME IInv, NEW p \in Payments, Redeem(p)
  PROVE  [Books!Next]_(Books!vars)
<1>1. /\ couponStatus[p] = "UNUSED" /\ couponStatus' = [couponStatus EXCEPT ![p] = "USED"]
      /\ deskUsed' = deskUsed \cup {p}
      /\ UNCHANGED <<refundStatus, payStatus, billStatus, wechat>>
  BY DEF Redeem, outside
<1>2. couponStatus'[p] = "USED" /\ \A q \in Payments \ {p} : couponStatus'[q] = couponStatus[q]
  BY <1>1 DEF IInv, TypeOK
<1>3. Voucher(p) = "free" /\ Voucher(p)' = "redeemed"
  BY <1>1, <1>2 DEF Voucher
<1>4. [q \in Payments |-> Voucher(q)]' = [[q \in Payments |-> Voucher(q)] EXCEPT ![p] = "redeemed"]
  BY <1>1, <1>2, <1>3, ChargeMoves
<1>5. Books!Redeem(p)
  BY <1>1, <1>3, <1>4 DEF Books!Redeem, Charge
<1> QED
  BY <1>5 DEF Books!Next

\* Every step of BillRefund is a step of MoneyBack or leaves its variables alone.
LEMMA Simulation == IInv /\ [Next]_vars => [Books!Next]_(Books!vars)
<1> SUFFICES ASSUME IInv, [Next]_vars PROVE [Books!Next]_(Books!vars)
  OBVIOUS
<1>1. ASSUME NEW t \in Tasks, CreateAggregate(t) \/ ReviveAggregate(t) \/ Conclude(t) \/ CommitSuccess(t)
      PROVE  [Books!Next]_(Books!vars)
  BY <1>1, AskStep, RefuseStep, GiveBackStep
<1>2. ASSUME NEW p \in Payments, NEW s \in Finals, WeChatDecides(p, s) PROVE [Books!Next]_(Books!vars)
  BY <1>2, SendBackStep
<1>3. ASSUME NEW p \in Payments, Redeem(p) PROVE [Books!Next]_(Books!vars)
  BY <1>3, BooksRedeem
<1>4. ASSUME NEW t \in Tasks, MarkProcessing(t) PROVE [Books!Next]_(Books!vars)
  <2>1. /\ Pay(t) \in Payments /\ refundStatus[Pay(t)] # "NONE"
        /\ UNCHANGED <<payStatus, billStatus, couponStatus, deskUsed, wechat>>
        /\ refundStatus' = [refundStatus EXCEPT ![Pay(t)] = IF @ = "CREATED" THEN "PROCESSING" ELSE @]
    BY <1>4 DEF IInv, MarkProcessing, TasksOK, TaskOK, At, Based, outside
  <2>2. \A q \in Payments : refundStatus'[q] = "NONE" <=> refundStatus[q] = "NONE"
    BY <2>1 DEF IInv, TypeOK
  <2> QED
    BY <2>1, <2>2 DEF Books!vars, Charge, Voucher
<1>5. ASSUME NEW t \in Tasks, RequestRefund(t) \/ QueryRefund(t) PROVE [Books!Next]_(Books!vars)
  <2>1. UNCHANGED database /\ \A q \in Payments : wechat'[q] = "SUCCESS" <=> wechat[q] = "SUCCESS"
    BY <1>5 DEF IInv, TypeOK, RequestRefund, QueryRefund, Accepted, outside
  <2> QED
    BY <2>1, Stutter DEF database
<1>6. ASSUME NEW p \in Payments, LateArrival(p) \/ MerchantRepeats(p) PROVE [Books!Next]_(Books!vars)
  <2>1. UNCHANGED database /\ \A q \in Payments : wechat'[q] = "SUCCESS" <=> wechat[q] = "SUCCESS"
    BY <1>6 DEF IInv, TypeOK, LateArrival, MerchantRepeats, Accepted, Failures
  <2> QED
    BY <2>1, Stutter DEF database
<1>7. ASSUME UNCHANGED <<database, wechat>> PROVE [Books!Next]_(Books!vars)
  BY <1>7, Stutter DEF database
<1>8. ASSUME NEW t \in Tasks,
             \/ FindAggregate(t) \/ LookupThrows(t) \/ LockForSuccess(t) \/ RaiseAlert(t) \/ Abort(t)
             \/ SubmitApplication(t) \/ CommitTransition(t)
      PROVE  UNCHANGED <<database, wechat>>
  BY <1>8 DEF FindAggregate, LookupThrows, LockForSuccess, RaiseAlert, Abort, SubmitApplication,
              CommitTransition, outside
<1>9. ASSUME NEW t \in Tasks, NEW p \in Payments,
             \/ BeginRefund(t, p) \/ BeginLookup(t, p) \/ BeginRecover(t, p) \/ BeginApply(t, p)
             \/ \E to \in Invoices : BeginTransition(t, p, to)
      PROVE  UNCHANGED <<database, wechat>>
  BY <1>9 DEF BeginRefund, BeginLookup, BeginRecover, BeginApply, BeginTransition, outside
<1>10. ASSUME NEW p \in Payments, GetsOld(p) PROVE UNCHANGED <<database, wechat>>
  BY <1>10 DEF GetsOld, outside
<1>11. ASSUME UNCHANGED vars PROVE UNCHANGED <<database, wechat>>
  BY <1>11 DEF vars, outside
<1> QED
  BY <1>1, <1>2, <1>3, <1>4, <1>5, <1>6, <1>7, <1>8, <1>9, <1>10, <1>11 DEF Next, Tasks

\* BillRefund implements MoneyBack: money is returned in the books only after WeChat sent it back,
\* and never again kept.
THEOREM Implements == Spec => ImplementsMoneyBack
<1>1. Init => Books!Init
  BY BooksInit
<1>2. IInv /\ [Next]_vars => [Books!Next]_(Books!vars)
  BY Simulation
<1> QED
  BY <1>1, <1>2, Invariance, PTL DEF Spec, ImplementsMoneyBack, Books!Spec
=============================================================================
