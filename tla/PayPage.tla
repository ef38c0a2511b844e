----------------------------------- MODULE PayPage -----------------------------------
(***************************************************************************)
(* The owner's side of a payment: the page that creates an order, opens    *)
(* WeChat's cashier and, when that fails, cancels the order                *)
(* (pay-confirm.js in the mini program), with requests that time out or    *)
(* whose answers are lost.  The page names each attempt with a requestId   *)
(* and decides when to take a new one.                                     *)
(*                                                                         *)
(* One bill, one page.  The server is the little of createPayment,         *)
(* cancelWxPay and the recovery job that the page can tell: BillPayment    *)
(* has them in full, Idempotency the records.  An order is named after the *)
(* requestId it was made for, and requestIds are numbered.                 *)
(***************************************************************************)
EXTENDS Naturals, FiniteSets

CONSTANT MaxRequests  \* a bound on the requestIds the page takes

ASSUME MaxRequestsAssumption == MaxRequests \in Nat \ {0}

RequestIds == 1..MaxRequests

VARIABLES
  requestId, \* the page's requestId
  page,      \* what the page is doing
  orderShown,\* the requestId of the order the page has in hand, 0 for none
  notice,    \* what the page says last: nothing, canceled, paid, in doubt
  deadEnds,  \* history: how often the page was given each order that is over, up to twice;
             \* from the start again when an answer to a cancel is lost
  sent,      \* requests to create that have not reached the server
  answer,    \* IdempotencyRecord of each requestId, as far as the page can tell
  order,     \* Payment.status of the order of each requestId
  paid       \* orders WeChat has been paid for

payPageVars == <<requestId, page, orderShown, notice, deadEnds, sent, answer, order, paid>>

PageSteps   == {"ready", "creating", "cashier", "canceling", "left"}
Notices     == {"none", "canceled", "paid", "in doubt"}
OrderStatuses == {"NONE", "CREATED", "PREPAY_UNKNOWN", "CLOSED", "SUCCESS"}
RecordStates  == {"NONE", "PROCESSING", "PARAMS", "UNKNOWN", "FAILED"}

PayPageTypeOK ==
  /\ requestId \in RequestIds /\ page \in PageSteps
  /\ orderShown \in {0} \cup RequestIds
  /\ notice \in Notices /\ deadEnds \in [RequestIds -> 0..2]
  /\ sent \in SUBSET RequestIds
  /\ answer \in [RequestIds -> RecordStates]
  /\ order \in [RequestIds -> OrderStatuses]
  /\ paid \in SUBSET RequestIds

PayPageInit ==
  /\ requestId = 1 /\ page = "ready" /\ orderShown = 0 /\ notice = "none"
  /\ deadEnds = [k \in RequestIds |-> 0]
  /\ sent = {}
  /\ answer = [k \in RequestIds |-> "NONE"]
  /\ order = [k \in RequestIds |-> "NONE"]
  /\ paid = {}

Ongoing == {k \in RequestIds : order[k] \in {"CREATED", "PREPAY_UNKNOWN"}}
Over(k) == order[k] = "CLOSED"

\* Fault: a finished attempt keeps its requestId.
SameRequestId == requestId
\* resetRequestId; at the bound the page is left.
FreshRequestId == requestId + 1
ResetRequestId ==
  IF requestId < MaxRequests THEN requestId' = FreshRequestId /\ page' = "ready"
  ELSE page' = "left" /\ UNCHANGED requestId

-----------------------------------------------------------------------------
(* The page *)

\* submitPay: POST /owner/payments.  "paying" keeps a second tap out.
SubmitPay ==
  /\ page = "ready"
  /\ page' = "creating" /\ orderShown' = 0 /\ notice' = "none"
  /\ sent' = sent \cup {requestId}
  /\ UNCHANGED <<requestId, deadEnds, answer, order, paid>>

\* The answer is a failure, or there is none in 12 seconds: the attempt is given up, with
\* an order in hand or not.
CreateFails ==
  /\ page = "creating"
  /\ ResetRequestId
  /\ UNCHANGED <<orderShown, notice, deadEnds, sent, answer, order, paid>>

\* POST /owner/payments was answered with an order.
Given(k) ==
  /\ page = "creating" /\ k = requestId /\ k \notin sent
  /\ deadEnds' = [deadEnds EXCEPT ![k] = IF ~Over(k) THEN @ ELSE IF @ = 0 THEN 1 ELSE 2]

\* An order with payParams opens the cashier.
OpenCashier ==
  /\ Given(requestId) /\ answer[requestId] = "PARAMS"
  /\ page' = "cashier" /\ orderShown' = requestId
  /\ UNCHANGED <<requestId, notice, sent, answer, order, paid>>

\* An order without: the page says that the result is in doubt, and keeps the requestId.
OrderInDoubt ==
  /\ Given(requestId) /\ answer[requestId] = "UNKNOWN"
  /\ page' = "ready" /\ notice' = "in doubt"
  /\ UNCHANGED <<requestId, orderShown, sent, answer, order, paid>>

\* The owner pays; WeChat refuses an order that is closed.  success: on to the next page.
Pays ==
  /\ page = "cashier" /\ ~Over(orderShown)
  /\ paid' = paid \cup {orderShown}
  /\ \/ page' = "left" /\ notice' = "paid"
     \/ page' = "canceling" /\ UNCHANGED notice       \* fail, though the money has gone
  /\ UNCHANGED <<requestId, orderShown, deadEnds, sent, answer, order>>

\* fail: the owner turns back, or the order is refused.
CashierFails ==
  /\ page = "cashier"
  /\ page' = "canceling"
  /\ UNCHANGED <<requestId, orderShown, notice, deadEnds, sent, answer, order, paid>>

\* cancelWxPay: what WeChat was paid is settled, the rest is closed.
Canceled(k) ==
  IF order[k] # "CREATED" THEN order
  ELSE [order EXCEPT ![k] = IF k \in paid THEN "SUCCESS" ELSE "CLOSED"]

\* Fault: the page takes the cashier's word.
ShownAlways(status) == "canceled"
\* SUCCESS leaves for the next page, CLOSED is canceled, PREPAY_UNKNOWN says nothing.
Shown(status) == IF status = "SUCCESS" THEN "paid" ELSE IF status = "CLOSED" THEN "canceled" ELSE notice

\* The answer of cancelWxPay arrives.
CancelAnswered ==
  LET status == Canceled(orderShown)[orderShown] IN
  /\ page = "canceling"
  /\ order' = Canceled(orderShown)
  /\ notice' = Shown(status)
  /\ IF status = "CLOSED" THEN ResetRequestId
     ELSE page' = (IF status = "SUCCESS" THEN "left" ELSE "ready") /\ UNCHANGED requestId
  /\ UNCHANGED <<orderShown, deadEnds, sent, answer, paid>>

\* The request is lost, or its answer: the result is in doubt, and the requestId stays.
CancelLost ==
  /\ page = "canceling"
  /\ page' = "ready" /\ notice' = "in doubt"
  /\ order' \in {order, Canceled(orderShown)}
  /\ deadEnds' = [k \in RequestIds |-> 0]
  /\ UNCHANGED <<requestId, orderShown, sent, answer, paid>>

-----------------------------------------------------------------------------
(* The server *)

\* createPayment up to the provider: a requestId that has a record creates nothing, a bill
\* that is paid or has an order under way refuses.
Receive(k) ==
  /\ k \in sent
  /\ sent' = sent \ {k}
  /\ IF answer[k] # "NONE" THEN UNCHANGED <<answer, order>>
     ELSE IF Ongoing # {} \/ \E j \in RequestIds : order[j] = "SUCCESS"
     THEN answer' = [answer EXCEPT ![k] = "FAILED"] /\ UNCHANGED order
     ELSE answer' = [answer EXCEPT ![k] = "PROCESSING"] /\ order' = [order EXCEPT ![k] = "CREATED"]
  /\ UNCHANGED <<requestId, page, orderShown, notice, deadEnds, paid>>

\* The provider answers, refuses, or its answer is lost.
Prepay(k, outcome) ==
  /\ answer[k] = "PROCESSING"
  /\ answer' = [answer EXCEPT ![k] = outcome]
  /\ order' = [order EXCEPT ![k] = IF @ # "CREATED" THEN @
                                   ELSE IF outcome = "PARAMS" THEN "CREATED"
                                   ELSE IF outcome = "UNKNOWN" THEN "PREPAY_UNKNOWN" ELSE "CLOSED"]
  /\ UNCHANGED <<requestId, page, orderShown, notice, deadEnds, sent, paid>>

\* Callback or recovery job: a paid order is settled, an unpaid one is closed in time.
Decide(k) ==
  /\ k \in Ongoing
  /\ order' = [order EXCEPT ![k] = IF k \in paid THEN "SUCCESS" ELSE "CLOSED"]
  /\ UNCHANGED <<requestId, page, orderShown, notice, deadEnds, sent, answer, paid>>

PayPageNext ==
  \/ SubmitPay \/ CreateFails \/ OpenCashier \/ OrderInDoubt
  \/ Pays \/ CashierFails \/ CancelAnswered \/ CancelLost
  \/ \E k \in RequestIds : \/ Receive(k) \/ Decide(k)
                           \/ \E outcome \in {"PARAMS", "UNKNOWN", "FAILED"} : Prepay(k, outcome)

PayPageSpec == PayPageInit /\ [][PayPageNext]_payPageVars

-----------------------------------------------------------------------------
(* Properties *)

\* The page says "canceled" only of an order that is closed and was never paid, and
\* "paid" only of one WeChat has been paid for; the bill is paid once, though requests
\* are repeated under old and new requestIds and their answers come late.
PageTellsTheTruth ==
  /\ notice = "canceled" => Over(orderShown) /\ orderShown \notin paid
  /\ notice = "paid" => orderShown \in paid
  /\ Cardinality(paid) <= 1

\* The cashier is not opened twice with the same order that is over: once it has failed the
\* page takes a new requestId, unless the answer to the cancel was lost.  (An order whose
\* prepay result is in doubt is another matter: the page keeps its requestId, and gets the
\* same answer after the recovery job has closed the order, until it is entered anew.)
NoDeadCashier == page = "cashier" => deadEnds[orderShown] <= 1

PaymentIsClear == PageTellsTheTruth /\ NoDeadCashier

=============================================================================
