------------------------------ MODULE MCBillRefund ------------------------------
(***************************************************************************)
(* Small instances, for TLC, of what follows a payment: BillRefund,        *)
(* BillReissue, which bills again what was refunded, and Reconciliation of *)
(* both with WeChat's bill.  They share no variable, so nothing is learnt  *)
(* from their interleavings: a behaviour takes the steps of one.           *)
(***************************************************************************)
EXTENDS BillRefund, BillReissue, Reconciliation, TLC

VARIABLE part  \* which of them takes steps

afterVars == <<part, vars, reissueVars, reconVars>>

Some(S) == CHOOSE x \in S : TRUE

\* Process numbers have no meaning, so one of them is some worker's; where the start of
\* Reconciliation is open it is fixed for the others.
AfterInit ==
  /\ part \in {"refund", "reissue", "reconciliation"}
  /\ Init /\ ReissueInit /\ ReconInit
  /\ \E w \in Reconcilers : processId[w] = Some(ProcessIds)
  /\ part # "reconciliation" => /\ channel = {} /\ \A t \in Trades : ledger[t] = "MISSING"
                                /\ \A w \in Reconcilers : processId[w] = Some(ProcessIds)

Refunding   == part = "refund" /\ UNCHANGED <<part, reissueVars, reconVars>>
Reissuing   == part = "reissue" /\ UNCHANGED <<part, vars, reconVars>>
Reconciling == part = "reconciliation" /\ UNCHANGED <<part, vars, reissueVars>>

AfterNext ==
  \/ \E t \in Handlers, p \in Payments : BeginRefund(t, p) /\ Refunding
  \/ \E t \in Handlers, p \in Payments : BeginLookup(t, p) /\ Refunding
  \/ \E t \in Clerks, p \in Payments : BeginApply(t, p) /\ Refunding
  \/ \E t \in Clerks, p \in Payments, to \in Invoices : BeginTransition(t, p, to) /\ Refunding
  \/ \E t \in Tasks : \/ FindAggregate(t) /\ Refunding
                      \/ CreateAggregate(t) /\ Refunding
                      \/ ReviveAggregate(t) /\ Refunding
                      \/ MarkProcessing(t) /\ Refunding
                      \/ RequestRefund(t) /\ Refunding
                      \/ QueryRefund(t) /\ Refunding
                      \/ Conclude(t) /\ Refunding
                      \/ LockForSuccess(t) /\ Refunding
                      \/ CommitSuccess(t) /\ Refunding
                      \/ SubmitApplication(t) /\ Refunding
                      \/ CommitTransition(t) /\ Refunding
                      \/ Abort(t) /\ Refunding
  \/ \E p \in Payments : \/ LateArrival(p) /\ Refunding
                         \/ MerchantRepeats(p) /\ Refunding
                         \/ Redeem(p) /\ Refunding
                         \/ GetsOld(p) /\ Refunding
  \/ \E p \in Payments, s \in Finals : WeChatDecides(p, s) /\ Refunding
  \/ \E r \in Requests, b \in Bills : BeginReissue(r, b) /\ Reissuing
  \/ \E r \in Requests : ReadSiblings(r) /\ Reissuing
  \/ \E r \in Requests : CreateReissue(r) /\ Reissuing
  \/ \E b \in Bills : Move(b, "UNPAID", "CANCELED") /\ Reissuing
  \/ \E b \in Bills : Move(b, "UNPAID", "PAID") /\ Reissuing
  \/ \E b \in Bills : Move(b, "PAID", "REFUNDED") /\ Reissuing
  \/ \E w \in Reconcilers, force \in BOOLEAN : FindRun(w, force) /\ Reconciling
  \/ \E w \in Reconcilers :
       \/ CreateRun(w) /\ Reconciling
       \/ ClaimRun(w) /\ Reconciling
       \/ ClearItems(w) /\ Reconciling
       \/ Download(w) /\ Reconciling
       \/ EndCompare(w) /\ Reconciling
       \/ Persist(w) /\ Reconciling
       \/ NotifyDifferences(w) /\ Reconciling
       \/ ReconThrows(w) /\ Reconciling
       \/ FailRun(w) /\ Reconciling
       \/ ReconDies(w) /\ Reconciling
  \/ \E w \in Reconcilers, t \in Trades : CompareTrade(w, t) /\ Reconciling
  \/ \E t \in Trades : LedgerSucceeds(t) /\ Reconciling
  \/ \E t \in Trades, status \in {"MANUALLY_CLOSED", "ESCALATED"} : ResolveItem(t, status) /\ Reconciling
  \/ RunLeaseExpires /\ Reconciling

\* The job is left to the run on liveness.
AfterSpec == AfterInit /\ [][AfterNext]_afterVars

\* The types of all three.
AfterTypeOK == TypeOK /\ ReissueTypeOK /\ ReconTypeOK

\* Handlers, requests to reissue and reconcilers have the same two names, and are
\* interchangeable in every safety property.
Symmetry == Permutations(Handlers)
=============================================================================
