---------------------------------- MODULE BillRun ----------------------------------
(***************************************************************************)
(* The bills of one fee rule in one period: runs that generate drafts into *)
(* batches, their publication and cancellation (bill-run.service.ts,       *)
(* bill-workflow.service.ts: publishBatch, cancelBatch, cancelBill).       *)
(*                                                                         *)
(* generate is not a transaction: each of its reads and writes is an       *)
(* action, and runs started by an administrator and by the nightly job     *)
(* overlap each other and the publication of the batch they write to.  A   *)
(* run that dies between two steps is one that takes no further step.      *)
(*                                                                         *)
(* @@unique([ruleId, houseId, period]) is the shape of houseBill: a house  *)
(* has at most one row, a canceled row included.  Left out are             *)
(* amounts, except the houses a shared cost was divided among; the BillRun *)
(* report row and the batch totals, which decide nothing; reissued bills;  *)
(* and the anniversary scheme's check for a period label that drifted.     *)
(***************************************************************************)
EXTENDS Integers

CONSTANTS
  Houses,      \* houses of the rule's community and type
  LastBatch,   \* the numbered batches: 1 is the rule's own, 2..LastBatch supplement it
  Runs,        \* the calls of generate, one run each: bounds how many there are
  NoBatch

ASSUME LastBatchAssumption == LastBatch \in Nat \ {0}
ASSUME BatchNamesAssumption ==
  Houses \cap (1 .. LastBatch) = {} /\ NoBatch \notin Houses \cup (1 .. LastBatch)

VARIABLES
  shared,      \* whether the rule divides a pool (SHARE) or prices each house by itself
  pool,        \* whether the period's shared cost has been entered
  houseBill,   \* the row of each house: status, batch, and whom its pool was divided among
  batch,       \* BillBatch.status of each batch, "NONE" where there is no row
  run,         \* what each run is doing
  runsCrossed  \* history: two runs were both past the check for an earlier division

runVars == <<shared, pool, houseBill, batch, run, runsCrossed>>
rows == <<houseBill, batch>>

\* The batch of a single house is named by the house.
Batches       == (1 .. LastBatch) \cup Houses
BatchStatuses == {"NONE", "DRAFT", "PUBLISHED", "FAILED", "CANCELED"}
\* UNPAID stands for every status of a published bill but CANCELED: none of the others is left
\* for DRAFT or CANCELED, and the check for an earlier division treats them alike.
BillStatuses  == {"NONE", "DRAFT", "UNPAID", "CANCELED"}
Modes         == {"full", "some", "one", "cron"}
Steps         == {"idle", "check", "fail", "flush", "finish", "done"}

NoRow == [status |-> "NONE", batch |-> NoBatch, among |-> {}]
\* A run's houses to bill, its batch, the houses a pool is divided among, and whether it removes
\* the batch again if it generates nothing.
NoRun == [step |-> "idle", houses |-> {}, batch |-> NoBatch, among |-> {}, tidy |-> FALSE]

RunTypeOK ==
  /\ shared \in BOOLEAN
  /\ pool \in BOOLEAN
  /\ houseBill \in [Houses -> [status : BillStatuses, batch : Batches \cup {NoBatch},
                               among : SUBSET Houses]]
  /\ batch \in [Batches -> BatchStatuses]
  /\ run \in [Runs -> [step : Steps, houses : SUBSET Houses, batch : Batches \cup {NoBatch},
                       among : SUBSET Houses, tidy : BOOLEAN]]
  /\ runsCrossed \in BOOLEAN

RunInit ==
  /\ shared \in BOOLEAN
  /\ pool = FALSE
  /\ houseBill = [h \in Houses |-> NoRow]
  /\ batch = [b \in Batches |-> "NONE"]
  /\ run = [r \in Runs |-> NoRun]
  /\ runsCrossed = FALSE

At(r, step)   == run[r].step = step
End(r)        == run' = [run EXCEPT ![r] = [NoRun EXCEPT !.step = "done"]]
In(b)         == {h \in Houses : houseBill[h].status # "NONE" /\ houseBill[h].batch = b}
Live(h)       == houseBill[h].status \in {"DRAFT", "UNPAID"}
Opened(b)     == [batch EXCEPT ![b] = IF @ = "NONE" THEN "DRAFT" ELSE @]

-----------------------------------------------------------------------------
(* generate *)

\* The first numbered supplement that does not exist or is still a draft.
Supplement(b) == /\ b \in 2 .. LastBatch
                 /\ batch[b] \in {"NONE", "DRAFT"}
                 /\ \A c \in 2 .. LastBatch : c < b => batch[c] \notin {"NONE", "DRAFT"}

\* Fault: chosen houses are supplemented as soon as the rule has a batch.
TargetNotPublished(b, mode) ==
  \/ mode = "one" /\ b \in Houses /\ batch[b] # "PUBLISHED"
  \/ mode # "one" /\ b = 1 /\ batch[b] # "PUBLISHED"
  \/ mode \in {"some", "cron"} /\ batch[1] # "NONE" /\ Supplement(b)

\* The batch a run writes to.  A run for one house has the house's own batch; the others have the
\* rule's batch, whatever its status, unless that is published: then a run for chosen houses and
\* the nightly job of an anniversary rule supplement it, and a run for all houses stops.
Target(b, mode) ==
  \/ mode = "one" /\ b \in Houses /\ batch[b] # "PUBLISHED"
  \/ mode # "one" /\ b = 1 /\ batch[b] # "PUBLISHED"
  \/ mode \in {"some", "cron"} /\ batch[1] = "PUBLISHED" /\ Supplement(b)

\* The houses a pool may be divided among: those the rule applies to at that moment.
Divisions == IF shared THEN SUBSET Houses ELSE {{}}

\* The houses without a row, of those the pool is divided among.
Unbilled(among) == {h \in Houses : houseBill[h].status = "NONE" /\ (shared => h \in among)}

\* A run starts for one house, for some chosen ones, for all ("full"; "cron", the nightly job of
\* an anniversary rule).  It opens its batch, selects the houses (selectTargets) and drops those
\* already billed; to bill are any of the rest, since the administrator may exclude some and some
\* may have no price.  The three steps are one here: a house that changes between them might as
\* well have changed before, and a row that appears is skipped by flushBills.
StartRun(r) ==
  \E mode \in Modes, b \in Batches :
    /\ At(r, "idle")
    /\ mode = "cron" => ~shared
    /\ Target(b, mode)
    /\ batch' = Opened(b)
    /\ \E among \in Divisions : \E houses \in SUBSET Unbilled(among) :
         /\ mode = "one" => houses \subseteq {b}
         /\ run' = [run EXCEPT ![r] = [step |-> IF shared THEN "check" ELSE "flush",
                                       houses |-> houses, batch |-> b, among |-> among,
                                       tidy |-> mode \in {"one", "cron"}]]
    /\ UNCHANGED <<shared, pool, houseBill, runsCrossed>>

\* Fault: published bills do not count as an earlier division.
ShareableDrafts == pool /\ \A h \in Houses : houseBill[h].status # "DRAFT"

\* The pool is known and no bill of an earlier division is alive.
Shareable == pool /\ \A h \in Houses : ~Live(h)

CheckShare(r) ==
  /\ At(r, "check")
  /\ run' = [run EXCEPT ![r] = IF Shareable THEN [@ EXCEPT !.step = "flush"]
                               ELSE [NoRun EXCEPT !.step = "fail", !.batch = run[r].batch]]
  /\ runsCrossed' = (runsCrossed \/ (Shareable /\ \E q \in Runs \ {r} : At(q, "flush")))
  /\ UNCHANGED <<shared, pool, rows>>

\* failBatchAndRun: the batch is FAILED, whatever it was.
FailBatch(r) ==
  /\ At(r, "fail")
  /\ batch[run[r].batch] # "NONE"
  /\ batch' = [batch EXCEPT ![run[r].batch] = "FAILED"]
  /\ End(r)
  /\ UNCHANGED <<shared, pool, houseBill, runsCrossed>>

Due(r) == {h \in run[r].houses : houseBill[h].status = "NONE" /\ batch[run[r].batch] # "NONE"}

\* flushBills: one createMany.  It skips a house that has a row; nothing is inserted into a batch
\* that was deleted meanwhile (the foreign key; INSERT IGNORE makes no error of it).
FlushBills(r) ==
  /\ At(r, "flush")
  /\ houseBill' = [h \in Houses |->
               IF h \in Due(r)
               THEN [status |-> "DRAFT", batch |-> run[r].batch, among |-> run[r].among]
               ELSE houseBill[h]]
  /\ run' = [run EXCEPT ![r] = [NoRun EXCEPT !.step = "finish", !.batch = run[r].batch,
                                            !.tidy = run[r].tidy /\ Due(r) = {}]]
  /\ UNCHANGED <<shared, pool, batch, runsCrossed>>

\* Fault: the status is written back whatever has become of the batch.
WrittenBackAnyway(b) == [batch EXCEPT ![b] = IF @ = "NONE" THEN @ ELSE "DRAFT"]

\* Fault: the batch is given the status of the run.
WrittenBackAsRun(b) == [batch EXCEPT ![b] = IF @ = "DRAFT" THEN "DONE" ELSE @]

\* The batch's totals and status DRAFT are written to a batch that is still a draft.
WrittenBack(b) == [batch EXCEPT ![b] = IF @ = "DRAFT" THEN "DRAFT" ELSE @]

\* Fault: the batch is removed though another run has filled it.
VainNonempty(r) == run[r].tidy /\ batch[run[r].batch] = "DRAFT"

\* The run generated nothing and its batch is an empty draft.  (It is counted and then deleted;
\* the foreign key refuses to delete a batch that was filled in between.)
Vain(r) == run[r].tidy /\ batch[run[r].batch] = "DRAFT" /\ In(run[r].batch) = {}

\* The totals are written and a batch opened in vain is removed again.
FinishRun(r) ==
  /\ At(r, "finish")
  /\ batch' = IF Vain(r) THEN [batch EXCEPT ![run[r].batch] = "NONE"] ELSE WrittenBack(run[r].batch)
  /\ End(r)
  /\ UNCHANGED <<shared, pool, houseBill, runsCrossed>>

-----------------------------------------------------------------------------
(* The administrator *)

\* The drafts of batch b become s and the batch becomes t, in one transaction.  (It holds the
\* batch row from its first statement, so no draft is inserted while it runs.)
CloseBatch(b, t, s) ==
  /\ batch' = [batch EXCEPT ![b] = t]
  /\ houseBill' = [h \in Houses |-> IF houseBill[h].batch = b /\ houseBill[h].status = "DRAFT"
                               THEN [houseBill[h] EXCEPT !.status = s] ELSE houseBill[h]]
  /\ UNCHANGED <<shared, pool, run, runsCrossed>>

\* Fault: a published batch is published again.
PublishBatchAgain(b) == batch[b] \in {"DRAFT", "PUBLISHED"} /\ CloseBatch(b, "PUBLISHED", "UNPAID")

PublishBatch(b) == batch[b] = "DRAFT" /\ CloseBatch(b, "PUBLISHED", "UNPAID")
CancelBatch(b)  == batch[b] = "DRAFT" /\ CloseBatch(b, "CANCELED", "CANCELED")

\* cancelBill: one draft or one unpaid bill.
CancelBill(h) ==
  /\ Live(h)
  /\ houseBill' = [houseBill EXCEPT ![h].status = "CANCELED"]
  /\ UNCHANGED <<shared, pool, batch, run, runsCrossed>>

\* The shared cost of the period is entered.
EnterPool ==
  /\ shared /\ ~pool
  /\ pool' = TRUE
  /\ UNCHANGED <<shared, rows, run, runsCrossed>>

RunStep(r) ==
  \/ StartRun(r) \/ CheckShare(r) \/ FailBatch(r)
  \/ FlushBills(r) \/ FinishRun(r)

RunNext ==
  \/ \E r \in Runs : RunStep(r)
  \/ \E b \in Batches : PublishBatch(b) \/ CancelBatch(b)
  \/ \E h \in Houses : CancelBill(h)
  \/ EnterPool

RunSpec == RunInit /\ [][RunNext]_runVars

-----------------------------------------------------------------------------
(* Properties *)

\* The pool is divided once: all live bills of a shared cost come from a division among the same
\* houses, so that together they do not exceed the pool, however runs, cancellations and changes
\* of the houses follow each other.  Excepted: two runs that were both past the check, which the
\* code does not exclude.
DividedOnce ==
  ~runsCrossed =>
    \A g, h \in Houses : Live(g) /\ Live(h) => houseBill[g].among = houseBill[h].among

\* No bill is orphaned: its batch exists, though a run that generated nothing removes its batch
\* while another run writes to it.
BatchExists == \A h \in Houses : houseBill[h].status # "NONE" => batch[houseBill[h].batch] # "NONE"

\* Of the rule's own batch and its supplements at most one is open, so the houses added on one
\* day are published together.
OneOpenBatch == \A b, c \in 1 .. LastBatch : batch[b] = "DRAFT" /\ batch[c] = "DRAFT" => b = c

BatchesAreSound == BatchExists /\ OneOpenBatch

\* A batch that was published, canceled or failed never becomes a draft again, though runs that
\* opened it as a draft are still writing to it.
ClosedStaysClosed ==
  [][\A b \in Batches : batch[b] \in {"PUBLISHED", "CANCELED", "FAILED"}
                          => batch'[b] \in {"PUBLISHED", "CANCELED", "FAILED"}]_runVars

\* A published batch is frozen: whatever runs still add to it, its owners never see one more bill.
Shown(b) == {h \in Houses : houseBill[h].batch = b /\ houseBill[h].status = "UNPAID"}
PublishedIsFrozen == [][\A b \in Batches : batch[b] = "PUBLISHED" => Shown(b)' \subseteq Shown(b)]_runVars

\* A shared cost whose run failed can be billed by running it again once the pool has been
\* entered: no draft lies in the batch of the failed run, which publishBatch and cancelBatch
\* refuse.  The code does not keep this.
FailedRunCanBeRepeated ==
  \A h \in Houses : houseBill[h].status = "DRAFT" => batch[houseBill[h].batch] # "FAILED"
=============================================================================
