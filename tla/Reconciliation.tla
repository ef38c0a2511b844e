------------------------------- MODULE Reconciliation -------------------------------
(***************************************************************************)
(* Reconciliation of one day's payments with WeChat's bill of that day     *)
(* (reconciliation.service.ts): the nightly job of each instance and       *)
(* administrators who run it by hand claim the one run of the day,         *)
(* compare, and write the differences; administrators handle them.         *)
(*                                                                         *)
(* claimRun reads the run and then claims it with a conditional update.    *)
(* The update does not ask for the lease again, and an instance is known   *)
(* by its process number, which two instances may share, so two workers    *)
(* can be past the claim; overlapped remembers that.  WeChat's bill of a   *)
(* day does not change.  An order has one kind of difference at a time, so *)
(* an item is named by its order.  Left out: amounts of matched orders,    *)
(* refunds (the same with other names), totals, audit rows.                *)
(***************************************************************************)
EXTENDS Naturals, FiniteSets

CONSTANTS
  Trades,      \* order numbers, of WeChat's bill or of the ledger
  Reconcilers, \* instances and administrators
  ProcessIds,  \* process numbers (workerId)
  Unowned      \* no leaseOwner

ASSUME UnownedAssumption == Unowned \notin ProcessIds

VARIABLES
  processId,  \* the process number of each worker
  channel,    \* trades in WeChat's bill
  ledger,     \* Payment.status: "MISSING", "OPEN" or "SUCCESS"
  run,        \* ReconciliationRun: status, leaseOwner and whether the lease is live
  items,      \* ReconciliationItem.status of each trade, "NONE" without one
  notified,   \* the alert RECONCILIATION_DIFFERENCE was sent
  overlapped, \* history: two workers were past the claim
  worker      \* what each worker is doing

reconVars == <<processId, channel, ledger, run, items, notified, overlapped, worker>>

RunStatuses  == {"NONE", "RUNNING", "COMPLETED", "FAILED"}
ItemStatuses == {"NONE", "OPEN", "AUTO_RESOLVED", "MANUALLY_CLOSED", "ESCALATED"}
Unhandled    == {"OPEN", "AUTO_RESOLVED"}        \* handledBy is null
Unsettled    == {"OPEN", "ESCALATED"}
ReconSteps   == {"idle", "create", "claim", "clear", "download", "compare", "persist", "fail", "notify"}
Past         == {"clear", "download", "compare", "persist", "fail"}
Drafts       == [Trades -> {"NONE", "OPEN", "AUTO_RESOLVED"}]
NoDrafts     == [t \in Trades |-> "NONE"]
WorkerRecords == [step : ReconSteps, force : BOOLEAN, left : SUBSET Trades, drafts : Drafts]
Unemployed   == [step |-> "idle", force |-> FALSE, left |-> {}, drafts |-> NoDrafts]

ReconTypeOK ==
  /\ processId \in [Reconcilers -> ProcessIds]
  /\ channel \in SUBSET Trades
  /\ ledger \in [Trades -> {"MISSING", "OPEN", "SUCCESS"}]
  /\ run \in [status : RunStatuses, owner : ProcessIds \cup {Unowned}, live : BOOLEAN]
  /\ items \in [Trades -> ItemStatuses]
  /\ notified \in BOOLEAN /\ overlapped \in BOOLEAN
  /\ worker \in [Reconcilers -> WorkerRecords]

ReconInit ==
  /\ processId \in [Reconcilers -> ProcessIds]
  /\ channel \in SUBSET Trades
  /\ ledger \in [Trades -> {"MISSING", "OPEN", "SUCCESS"}]
  /\ run = [status |-> "NONE", owner |-> Unowned, live |-> FALSE]
  /\ items = [t \in Trades |-> "NONE"]
  /\ notified = FALSE /\ overlapped = FALSE
  /\ worker = [w \in Reconcilers |-> Unemployed]

WorkerAt(w, step)   == worker[w].step = step
WorkerGoes(w, step) == worker' = [worker EXCEPT ![w].step = step]
Release(w)          == worker' = [worker EXCEPT ![w] = Unemployed]
Takes(w)            == [status |-> "RUNNING", owner |-> processId[w], live |-> TRUE]
Overlap(w)          == overlapped' = (overlapped \/ \E v \in Reconcilers \ {w} : worker[v].step \in Past)

-----------------------------------------------------------------------------
(* claimRun *)

Busy(w) == run.owner # Unowned /\ run.live /\ run.owner # processId[w]

\* Completed without force: alreadyDone.  Another's live lease: busy.
FindRun(w, force) ==
  /\ WorkerAt(w, "idle")
  /\ ~(run.status = "COMPLETED" /\ ~force) /\ ~Busy(w)
  /\ worker' = [worker EXCEPT ![w] = [Unemployed EXCEPT !.force = force,
                  !.step = IF run.status = "NONE" THEN "create" ELSE "claim"]]
  /\ UNCHANGED <<processId, channel, ledger, run, items, notified, overlapped>>

\* Who loses the unique key is busy.
CreateRun(w) ==
  /\ WorkerAt(w, "create")
  /\ IF run.status = "NONE"
     THEN run' = Takes(w) /\ Overlap(w) /\ WorkerGoes(w, IF worker[w].force THEN "clear" ELSE "download")
     ELSE Release(w) /\ UNCHANGED <<run, overlapped>>
  /\ UNCHANGED <<processId, channel, ledger, items, notified>>

ClaimRun(w) ==
  /\ WorkerAt(w, "claim")
  /\ IF run.status \in {"RUNNING", "FAILED"} \/ worker[w].force
     THEN run' = Takes(w) /\ Overlap(w) /\ WorkerGoes(w, IF worker[w].force THEN "clear" ELSE "download")
     ELSE Release(w) /\ UNCHANGED <<run, overlapped>>
  /\ UNCHANGED <<processId, channel, ledger, items, notified>>

\* Fault: a forced run removes what administrators have decided.
ClearedAll     == {t \in Trades : items[t] # "NONE"}
Cleared        == {t \in Trades : items[t] \in Unhandled}

\* A forced run first deletes the items nobody has handled.
ClearItems(w) ==
  /\ WorkerAt(w, "clear")
  /\ items' = [t \in Trades |-> IF t \in Cleared THEN "NONE" ELSE items[t]]
  /\ WorkerGoes(w, "download")
  /\ UNCHANGED <<processId, channel, ledger, run, notified, overlapped>>

-----------------------------------------------------------------------------
(* compareTrades *)

\* The bill is downloaded, and the successful payments of the day are read.
Download(w) ==
  /\ WorkerAt(w, "download")
  /\ worker' = [worker EXCEPT ![w].step = "compare", ![w].left = channel,
       ![w].drafts = [t \in Trades |-> IF t \notin channel /\ ledger[t] = "SUCCESS" THEN "OPEN" ELSE "NONE"]]
  /\ UNCHANGED <<processId, channel, ledger, run, items, notified, overlapped>>

\* Fault: what WeChat has and the ledger does not is passed over.
DifferenceKnown(t) == ledger[t] = "OPEN"
\* WeChat has the money; the ledger has no such order, or one that is not paid.
Difference(t) == ledger[t] # "SUCCESS"

\* One trade of the bill: equal, unknown or of another amount, or unpaid here.  The
\* unpaid one is looked up at WeChat (resolveActiveOrder), which may settle it.
CompareTrade(w, t) ==
  /\ WorkerAt(w, "compare") /\ t \in worker[w].left
  /\ \E outcome \in IF ~Difference(t) THEN {"NONE", "OPEN"}
                    ELSE IF ledger[t] = "OPEN" THEN {"OPEN", "AUTO_RESOLVED"} ELSE {"OPEN"} :
       /\ worker' = [worker EXCEPT ![w].left = @ \ {t}, ![w].drafts[t] = outcome]
       /\ ledger' = IF outcome = "AUTO_RESOLVED" THEN [ledger EXCEPT ![t] = "SUCCESS"] ELSE ledger
  /\ UNCHANGED <<processId, channel, run, items, notified, overlapped>>

EndCompare(w) ==
  /\ WorkerAt(w, "compare") /\ worker[w].left = {}
  /\ WorkerGoes(w, "persist")
  /\ UNCHANGED <<processId, channel, ledger, run, items, notified, overlapped>>

\* The transaction of persist; an item that exists is left as it is.
Persist(w) ==
  LET drafts == worker[w].drafts IN
  /\ WorkerAt(w, "persist")
  /\ items' = [t \in Trades |-> IF items[t] = "NONE" THEN drafts[t] ELSE items[t]]
  /\ run' = [status |-> "COMPLETED", owner |-> Unowned, live |-> FALSE]
  /\ IF \E t \in Trades : drafts[t] = "OPEN" THEN WorkerGoes(w, "notify") ELSE Release(w)
  /\ UNCHANGED <<processId, channel, ledger, notified, overlapped>>

NotifyDifferences(w) ==
  /\ WorkerAt(w, "notify")
  /\ notified' = TRUE
  /\ Release(w)
  /\ UNCHANGED <<processId, channel, ledger, run, items, overlapped>>

\* The download, a query or the transaction throws.
ReconThrows(w) ==
  /\ worker[w].step \in {"download", "compare", "persist"}
  /\ WorkerGoes(w, "fail")
  /\ UNCHANGED <<processId, channel, ledger, run, items, notified, overlapped>>

FailRun(w) ==
  /\ WorkerAt(w, "fail")
  /\ run' = IF run.status = "RUNNING" THEN [status |-> "FAILED", owner |-> Unowned, live |-> FALSE] ELSE run
  /\ Release(w)
  /\ UNCHANGED <<processId, channel, ledger, items, notified, overlapped>>

ReconDies(w) ==
  /\ ~WorkerAt(w, "idle")
  /\ Release(w)
  /\ UNCHANGED <<processId, channel, ledger, run, items, notified, overlapped>>

-----------------------------------------------------------------------------
(* The rest of the world *)

RunLeaseExpires ==
  /\ run.live
  /\ run' = [run EXCEPT !.live = FALSE]
  /\ UNCHANGED <<processId, channel, ledger, items, notified, overlapped, worker>>

\* resolveItem
ResolveItem(t, status) ==
  /\ items[t] \in Unsettled
  /\ items' = [items EXCEPT ![t] = status]
  /\ UNCHANGED <<processId, channel, ledger, run, notified, overlapped, worker>>

\* A late callback.
LedgerSucceeds(t) ==
  /\ ledger[t] = "OPEN" /\ t \in channel
  /\ ledger' = [ledger EXCEPT ![t] = "SUCCESS"]
  /\ UNCHANGED <<processId, channel, run, items, notified, overlapped, worker>>

ReconNext ==
  \/ \E w \in Reconcilers, force \in BOOLEAN : FindRun(w, force)
  \/ \E w \in Reconcilers : \/ CreateRun(w) \/ ClaimRun(w) \/ ClearItems(w) \/ Download(w)
       \/ EndCompare(w) \/ Persist(w) \/ NotifyDifferences(w) \/ ReconThrows(w) \/ FailRun(w) \/ ReconDies(w)
  \/ \E w \in Reconcilers, t \in Trades : CompareTrade(w, t)
  \/ \E t \in Trades : LedgerSucceeds(t)
  \/ \E t \in Trades, status \in {"MANUALLY_CLOSED", "ESCALATED"} : ResolveItem(t, status)
  \/ RunLeaseExpires

ReconSpec == ReconInit /\ [][ReconNext]_reconVars

-----------------------------------------------------------------------------
(* Properties *)

\* When the run says COMPLETED, whatever WeChat was paid and the ledger does not have is
\* an item, through failed, repeated and forced runs; unless two workers were past the
\* claim together, which the lease does not prevent.
CompletedIsItemisedUnlessOverlapped ==
  run.status = "COMPLETED" /\ ~overlapped
    => \A t \in channel : ledger[t] # "SUCCESS" => items[t] # "NONE"

\* What an administrator has decided about a difference survives every later run, also
\* one that overlaps (the comment on force in reconciliation.service.ts).
DecisionsAreKept ==
  [][\A t \in Trades : items[t] \in {"MANUALLY_CLOSED", "ESCALATED"}
       => items'[t] \in {"MANUALLY_CLOSED", "ESCALATED"}]_reconVars

=============================================================================
