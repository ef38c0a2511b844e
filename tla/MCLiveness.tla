------------------------------- MODULE MCLiveness -------------------------------
(***************************************************************************)
(* Refunds and notifications under fairness, for TLC.  BillRefund and      *)
(* Notify share no variable; a behaviour takes the steps of one of them,   *)
(* and the fairness of a step is that of the step within its module.       *)
(***************************************************************************)
EXTENDS BillRefund, Notify, TLC

VARIABLE notifying  \* Notify takes the steps

allVars == <<notifying, vars, notifyVars>>

Refunding == ~notifying /\ UNCHANGED <<notifying, notifyVars>>
Notifying == notifying /\ UNCHANGED <<notifying, vars>>

RefundStep ==
  \/ \E t \in Handlers, p \in Payments : BeginRefund(t, p) /\ Refunding
  \/ \E t \in Handlers, p \in Payments : BeginLookup(t, p) /\ Refunding
  \/ \E t \in Jobs, p \in Payments : BeginRecover(t, p) /\ Refunding
  \/ \E t \in Tasks : \/ FindAggregate(t) /\ Refunding
                      \/ CreateAggregate(t) /\ Refunding
                      \/ ReviveAggregate(t) /\ Refunding
                      \/ MarkProcessing(t) /\ Refunding
                      \/ RequestRefund(t) /\ Refunding
                      \/ QueryRefund(t) /\ Refunding
                      \/ LookupThrows(t) /\ Refunding
                      \/ Conclude(t) /\ Refunding
                      \/ LockForSuccess(t) /\ Refunding
                      \/ CommitSuccess(t) /\ Refunding
                      \/ RaiseAlert(t) /\ Refunding
                      \/ Abort(t) /\ Refunding
  \/ \E p \in Payments : \/ LateArrival(p) /\ Refunding
                         \/ MerchantRepeats(p) /\ Refunding
                         \/ GetsOld(p) /\ Refunding
  \/ \E p \in Payments, s \in Finals : WeChatDecides(p, s) /\ Refunding

NotifyStep ==
  \/ \E e \in Topics : \/ Enqueue(e) /\ Notifying
                       \/ LeaseExpires(e) /\ Notifying
                       \/ BecomesDue(e) /\ Notifying
  \/ \E w \in Dispatchers : \/ Sweep(w) /\ Notifying
                            \/ ClaimBatch(w) /\ Notifying
                            \/ CloseEvent(w) /\ Notifying
                            \/ Report(w) /\ Notifying
  \/ \E s \in Senders : \/ StartTopic(s) /\ Notifying
                        \/ ReadRecipients(s) /\ Notifying
                        \/ SendMessage(s) /\ Notifying
                        \/ SendDenied(s) /\ Notifying
                        \/ SendFails(s) /\ Notifying
                        \/ LogSent(s) /\ Notifying
                        \/ Throw(s) /\ Notifying
                        \/ Crash(s) /\ Notifying

\* A dispatcher that does not throw or die goes on with what it does.
GoesOn(w) ==
  \/ StartTopic(w) \/ ReadRecipients(w) \/ SendMessage(w) \/ SendDenied(w) \/ SendFails(w)
  \/ LogSent(w) \/ CloseEvent(w) \/ Report(w)

(***************************************************************************)
(* Refunds: the job runs every two minutes and its lease (90 seconds) has  *)
(* expired by then; neither WeChat, the database nor the process fails     *)
(* every time; a request ends after 15 seconds; time passes.  Nothing is   *)
(* assumed of owners, administrators or WeChat's notifications.            *)
(* Notifications: leases expire and retries fall due with time; the job    *)
(* runs every minute, so it sweeps, and claims an event that it can claim  *)
(* again and again; what it has begun it goes on with, unless it throws or *)
(* dies.                                                                   *)
(***************************************************************************)
Fair ==
  /\ \A t \in Jobs, p \in Payments : SF_allVars(BeginRecover(t, p) /\ Refunding)
  /\ \A t \in Jobs : /\ SF_allVars(QueryRefund(t) /\ Refunding)
                     /\ SF_allVars(LookupThrows(t) /\ Refunding)
                     /\ SF_allVars(Conclude(t) /\ Refunding)
                     /\ SF_allVars(LockForSuccess(t) /\ Refunding)
                     /\ SF_allVars(RaiseAlert(t) /\ Refunding)
  /\ \A t \in Tasks : SF_allVars(CommitSuccess(t) /\ Refunding) /\ WF_allVars(Abort(t) /\ Refunding)
  /\ \A p \in Payments : WF_allVars(GetsOld(p) /\ Refunding)
  /\ \A e \in Topics : WF_allVars(LeaseExpires(e) /\ Notifying) /\ WF_allVars(BecomesDue(e) /\ Notifying)
  /\ \A w \in Dispatchers : /\ WF_allVars(Sweep(w) /\ Notifying)
                            /\ SF_allVars(ClaimBatch(w) /\ Notifying)
                            /\ WF_allVars(GoesOn(w) /\ Notifying)

LivenessInit == notifying \in BOOLEAN /\ Init /\ NotifyInit

LivenessSpec ==
  /\ LivenessInit
  /\ [][RefundStep \/ NotifyStep]_allVars
  /\ Fair
=============================================================================
