------------------------------ MODULE BillRunProofs ------------------------------
(***************************************************************************)
(* The properties of BillRun for any sets of houses and runs and any       *)
(* number of supplements.  Three things make them inductive: a row and a   *)
(* run name a batch that can exist; batches are opened in order, so that   *)
(* one which is open comes after closed ones only; and as long as no two   *)
(* runs were past the check together, the one past it finds no live bill.  *)
(***************************************************************************)
EXTENDS BillRun, TLAPS

ClosedStatuses == {"PUBLISHED", "CANCELED", "FAILED"}
RunRecords == [step : Steps, houses : SUBSET Houses, batch : Batches \cup {NoBatch},
               among : SUBSET Houses, tidy : BOOLEAN]
RowRecords == [status : BillStatuses, batch : Batches \cup {NoBatch}, among : SUBSET Houses]

NamesBatch ==
  /\ \A h \in Houses : houseBill[h].status # "NONE" => houseBill[h].batch \in Batches
  /\ \A r \in Runs : run[r].step \in {"check", "fail", "flush", "finish"} => run[r].batch \in Batches

OpenedInOrder ==
  \A b, c \in 1 .. LastBatch : b < c /\ batch[c] = "DRAFT" => batch[b] \in ClosedStatuses

\* A rule that prices each house divides nothing.
Undivided ==
  ~shared => /\ \A h \in Houses : houseBill[h].among = {}
             /\ \A r \in Runs : run[r].among = {}

OnePastCheck ==
  shared /\ ~runsCrossed =>
    \A r \in Runs : At(r, "flush") =>
      /\ \A q \in Runs : At(q, "flush") => q = r
      /\ \A h \in Houses : ~Live(h)

IInv == RunTypeOK /\ NamesBatch /\ BatchExists /\ OpenedInOrder /\ Undivided /\ OnePastCheck /\ DividedOnce

\* Batches opened in order are not open together.
LEMMA InOrderMeansOne == IInv => BatchesAreSound
<1> SUFFICES ASSUME IInv PROVE OneOpenBatch
  BY DEF IInv, BatchesAreSound
<1>1. ASSUME NEW b \in 1 .. LastBatch, NEW c \in 1 .. LastBatch, batch[b] = "DRAFT", batch[c] = "DRAFT"
      PROVE  b = c
  <2>1. ~(b < c) /\ ~(c < b)
    BY <1>1 DEF IInv, OpenedInOrder, ClosedStatuses
  <2> QED
    BY <2>1, LastBatchAssumption
<1> QED
  BY <1>1 DEF OneOpenBatch

\* At first there is no row, no batch and no run.
LEMMA InitInv == RunInit => IInv
<1> SUFFICES ASSUME RunInit PROVE IInv
  OBVIOUS
<1>1. RunTypeOK
  BY DEF RunInit, RunTypeOK, NoRow, NoRun, Batches, BatchStatuses, BillStatuses, Steps
<1>2. NamesBatch /\ BatchExists /\ OpenedInOrder
  BY DEF RunInit, NamesBatch, BatchExists, OpenedInOrder, NoRow, NoRun, Batches
<1>3. Undivided /\ OnePastCheck /\ DividedOnce
  BY DEF RunInit, Undivided, OnePastCheck, DividedOnce, NoRow, NoRun, At, Live
<1> QED
  BY <1>1, <1>2, <1>3 DEF IInv

-----------------------------------------------------------------------------
\* A run opens a batch that is still missing, in its turn, and is not past the check.
LEMMA StartStep == ASSUME IInv, NEW r \in Runs, StartRun(r) PROVE IInv'
<1>1. PICK mode \in Modes, b \in Batches, among \in Divisions : \E houses \in SUBSET Unbilled(among) :
        /\ Target(b, mode) /\ batch' = Opened(b)
        /\ run' = [run EXCEPT ![r] = [step |-> IF shared THEN "check" ELSE "flush", houses |-> houses,
                                      batch |-> b, among |-> among, tidy |-> mode \in {"one", "cron"}]]
  BY DEF StartRun
<1>2. PICK houses \in SUBSET Unbilled(among) :
        /\ Target(b, mode) /\ batch' = Opened(b)
        /\ run' = [run EXCEPT ![r] = [step |-> IF shared THEN "check" ELSE "flush", houses |-> houses,
                                      batch |-> b, among |-> among, tidy |-> mode \in {"one", "cron"}]]
  BY <1>1
<1>3. UNCHANGED <<shared, pool, houseBill, runsCrossed>>
  BY DEF StartRun
<1>4. [step |-> IF shared THEN "check" ELSE "flush", houses |-> houses,
       batch |-> b, among |-> among, tidy |-> mode \in {"one", "cron"}] \in RunRecords
  BY DEF RunRecords, Steps, Divisions, Unbilled
<1>5. RunTypeOK'
  <2>1. run' \in [Runs -> RunRecords]
    BY <1>2, <1>4 DEF IInv, RunTypeOK, RunRecords
  <2>2. batch' \in [Batches -> BatchStatuses]
    BY <1>2 DEF IInv, RunTypeOK, Opened, BatchStatuses
  <2> QED
    BY <1>3, <2>1, <2>2 DEF IInv, RunTypeOK, RunRecords
<1>6. \A q \in Runs : run'[q] = IF q = r THEN [step |-> IF shared THEN "check" ELSE "flush", houses |-> houses,
         batch |-> b, among |-> among, tidy |-> mode \in {"one", "cron"}] ELSE run[q]
  BY <1>2 DEF IInv, RunTypeOK
<1>7. \A c \in Batches : batch'[c] = IF c = b /\ batch[c] = "NONE" THEN "DRAFT" ELSE batch[c]
  BY <1>2 DEF IInv, RunTypeOK, Opened
<1>8. NamesBatch' /\ BatchExists'
  BY <1>3, <1>6, <1>7 DEF IInv, NamesBatch, BatchExists
<1>9. OpenedInOrder'
  <2> SUFFICES ASSUME NEW d \in 1 .. LastBatch, NEW c \in 1 .. LastBatch, d < c, batch'[c] = "DRAFT"
               PROVE  batch'[d] \in ClosedStatuses
    BY DEF OpenedInOrder
  <2>1. c \in Batches /\ d \in Batches
    BY DEF Batches
  <2>2. CASE batch[c] = "DRAFT"
    BY <1>7, <2>1, <2>2 DEF IInv, OpenedInOrder, ClosedStatuses
  <2>3. CASE batch[c] # "DRAFT"
    <3>1. c = b /\ batch[c] = "NONE" /\ c # 1
      BY <1>7, <2>1, <2>3
    <3>2. b \notin Houses
      BY <3>1, BatchNamesAssumption
    <3>3. batch[1] = "PUBLISHED" /\ Supplement(b)
      BY <1>2, <3>1, <3>2 DEF Target
    <3>4. d = 1 \/ d \in 2 .. LastBatch
      BY LastBatchAssumption
    <3>5. batch[d] \in BatchStatuses \ {"NONE", "DRAFT"}
      BY <2>1, <3>1, <3>3, <3>4 DEF Supplement, IInv, RunTypeOK, BatchStatuses
    <3> QED
      BY <1>7, <2>1, <3>5 DEF BatchStatuses, ClosedStatuses
  <2> QED
    BY <2>2, <2>3
<1>10. Undivided'
  BY <1>3, <1>6 DEF IInv, Undivided, Divisions
<1>11. OnePastCheck'
  BY <1>3, <1>6 DEF IInv, OnePastCheck, At, Live
<1>12. DividedOnce'
  BY <1>3 DEF IInv, DividedOnce, Live
<1> QED
  BY <1>5, <1>8, <1>9, <1>10, <1>11, <1>12 DEF IInv

\* A run past the check has seen no live bill, and meets no other, or the two are remembered.
LEMMA CheckStep == ASSUME IInv, NEW r \in Runs, CheckShare(r) PROVE IInv'
<1> DEFINE Passed == [run[r] EXCEPT !.step = "flush"]
           Failed == [NoRun EXCEPT !.step = "fail", !.batch = run[r].batch]
<1>1. run' = [run EXCEPT ![r] = IF Shareable THEN Passed ELSE Failed] /\ UNCHANGED <<shared, pool, rows>>
  BY DEF CheckShare
<1>2. run[r] \in RunRecords /\ run[r].batch \in Batches
  BY DEF IInv, RunTypeOK, RunRecords, NamesBatch, CheckShare, At
<1>3. Passed \in RunRecords /\ Failed \in RunRecords
  BY <1>2 DEF RunRecords, NoRun, Steps
<1>4. /\ Passed.step = "flush" /\ Passed.batch = run[r].batch /\ Passed.among = run[r].among
      /\ Failed.step = "fail" /\ Failed.batch = run[r].batch /\ Failed.among = {}
  BY <1>2 DEF RunRecords, NoRun
<1>5. \A q \in Runs : run'[q] = IF q # r THEN run[q] ELSE IF Shareable THEN Passed ELSE Failed
  BY <1>1 DEF IInv, RunTypeOK
<1> HIDE DEF Passed, Failed
<1>6. RunTypeOK'
  <2>1. run' \in [Runs -> RunRecords]
    BY <1>1, <1>3 DEF IInv, RunTypeOK, RunRecords
  <2>2. runsCrossed' \in BOOLEAN
    BY DEF CheckShare, IInv, RunTypeOK
  <2> QED
    BY <1>1, <2>1, <2>2 DEF IInv, RunTypeOK, RunRecords, rows
<1>7. NamesBatch' /\ BatchExists' /\ OpenedInOrder' /\ Undivided'
  BY <1>1, <1>2, <1>4, <1>5 DEF IInv, NamesBatch, BatchExists, OpenedInOrder, Undivided, rows
<1>8. ~runsCrossed' => ~runsCrossed /\ (Shareable => \A q \in Runs : At(q, "flush") => q = r)
  BY DEF CheckShare
<1>9. OnePastCheck'
  <2> SUFFICES ASSUME shared', ~runsCrossed', NEW q \in Runs, At(q, "flush")'
               PROVE  /\ \A p \in Runs : At(p, "flush")' => p = q
                      /\ \A h \in Houses : ~Live(h)'
    BY DEF OnePastCheck
  <2>1. shared /\ ~runsCrossed /\ \A h \in Houses : Live(h)' = Live(h)
    BY <1>1, <1>8 DEF Live, rows
  <2>2. CASE Shareable
    <3>1. \A p \in Runs : At(p, "flush")' => p = r
      BY <1>5, <1>8, <2>2 DEF At
    <3> QED
      BY <2>1, <2>2, <3>1 DEF Shareable
  <2>3. CASE ~Shareable
    <3>1. \A p \in Runs : At(p, "flush")' => At(p, "flush")
      BY <1>4, <1>5, <2>3 DEF At
    <3> QED
      BY <2>1, <3>1 DEF IInv, OnePastCheck
  <2> QED
    BY <2>2, <2>3
<1>10. DividedOnce'
  BY <1>1, <1>8 DEF IInv, DividedOnce, Live, rows
<1> QED
  BY <1>6, <1>7, <1>9, <1>10 DEF IInv

\* What a run that ends leaves of the invariant, given what it did to the batches.
LEMMA EndStep ==
  ASSUME IInv, NEW r \in Runs, End(r), UNCHANGED <<shared, pool, houseBill, runsCrossed>>,
         batch' \in [Batches -> BatchStatuses],
         \A b \in Batches : batch'[b] = batch[b] \/ batch'[b] = "FAILED" \/
                            (batch[b] = "DRAFT" /\ batch'[b] = "NONE" /\ In(b) = {})
  PROVE  IInv'
<1>1. [NoRun EXCEPT !.step = "done"] \in RunRecords
  BY DEF RunRecords, NoRun, Steps
<1>2. \A q \in Runs : run'[q] = IF q = r THEN [NoRun EXCEPT !.step = "done"] ELSE run[q]
  BY DEF End, IInv, RunTypeOK
<1>3. RunTypeOK'
  <2>1. run' \in [Runs -> RunRecords]
    BY <1>1 DEF End, IInv, RunTypeOK, RunRecords
  <2> QED
    BY <2>1 DEF IInv, RunTypeOK, RunRecords
<1>4. NamesBatch' /\ Undivided' /\ OnePastCheck'
  BY <1>2 DEF IInv, NamesBatch, Undivided, OnePastCheck, NoRun, At, Live
<1>5. BatchExists'
  BY DEF IInv, NamesBatch, BatchExists, In
<1>6. OpenedInOrder'
  <2>1. \A b \in 1 .. LastBatch : b \in Batches
    BY DEF Batches
  <2> QED
    BY <2>1 DEF IInv, OpenedInOrder, ClosedStatuses
<1>7. DividedOnce'
  BY DEF IInv, DividedOnce, Live
<1> QED
  BY <1>3, <1>4, <1>5, <1>6, <1>7 DEF IInv

\* A run that fails marks its batch.
LEMMA FailStep == ASSUME IInv, NEW r \in Runs, FailBatch(r) PROVE IInv'
<1>1. run[r].batch \in Batches
  BY DEF IInv, NamesBatch, FailBatch, At
<1>2. batch' = [batch EXCEPT ![run[r].batch] = "FAILED"]
  BY DEF FailBatch
<1>3. batch' \in [Batches -> BatchStatuses] /\ \A b \in Batches : batch'[b] = batch[b] \/ batch'[b] = "FAILED"
  BY <1>1, <1>2 DEF IInv, RunTypeOK, BatchStatuses
<1> QED
  BY <1>3, EndStep DEF FailBatch

\* A run that ends writes to a draft, or removes an empty one.
LEMMA FinishStep == ASSUME IInv, NEW r \in Runs, FinishRun(r) PROVE IInv'
<1>1. run[r].batch \in Batches
  BY DEF IInv, NamesBatch, FinishRun, At
<1>2. CASE Vain(r)
  <2>1. batch' = [batch EXCEPT ![run[r].batch] = "NONE"]
    BY <1>2 DEF FinishRun
  <2>2. batch' \in [Batches -> BatchStatuses]
    BY <2>1 DEF IInv, RunTypeOK, BatchStatuses
  <2>3. \A b \in Batches : batch'[b] = batch[b] \/ (batch[b] = "DRAFT" /\ batch'[b] = "NONE" /\ In(b) = {})
    BY <1>2, <2>1 DEF Vain, IInv, RunTypeOK
  <2> QED
    BY <2>2, <2>3, EndStep DEF FinishRun
<1>3. CASE ~Vain(r)
  <2>1. batch' = batch
    BY <1>1, <1>3 DEF FinishRun, WrittenBack, IInv, RunTypeOK
  <2> QED
    BY <2>1, EndStep DEF FinishRun, IInv, RunTypeOK
<1> QED
  BY <1>2, <1>3

\* What a flush makes of the rows: drafts of the run in place of missing rows only.
LEMMA FlushRows ==
  ASSUME IInv, NEW r \in Runs, FlushBills(r)
  PROVE  /\ run[r].batch \in Batches
         /\ \A h \in Houses :
              IF h \in Due(r)
              THEN /\ houseBill[h].status = "NONE" /\ batch[run[r].batch] # "NONE"
                   /\ houseBill'[h].status = "DRAFT" /\ houseBill'[h].batch = run[r].batch
                   /\ houseBill'[h].among = run[r].among
              ELSE houseBill'[h] = houseBill[h]
         /\ \A q \in Runs : q # r => run'[q] = run[q]
         /\ run'[r].step = "finish" /\ run'[r].batch = run[r].batch /\ run'[r].among = {}
         /\ RunTypeOK'
<1> DEFINE Row == [status |-> "DRAFT", batch |-> run[r].batch, among |-> run[r].among]
           Next == [NoRun EXCEPT !.step = "finish", !.batch = run[r].batch,
                                 !.tidy = run[r].tidy /\ Due(r) = {}]
<1>1. run[r] \in RunRecords /\ run[r].batch \in Batches
  BY DEF IInv, RunTypeOK, RunRecords, NamesBatch, FlushBills, At
<1>2. /\ houseBill' = [h \in Houses |-> IF h \in Due(r) THEN Row ELSE houseBill[h]]
      /\ run' = [run EXCEPT ![r] = Next]
      /\ UNCHANGED <<shared, pool, batch, runsCrossed>>
  BY DEF FlushBills
<1>3. /\ Row.status = "DRAFT" /\ Row.batch = run[r].batch /\ Row.among = run[r].among
      /\ Next.step = "finish" /\ Next.batch = run[r].batch /\ Next.among = {}
  BY DEF NoRun
<1>4. Row \in RowRecords
  BY <1>1 DEF RowRecords, RunRecords, BillStatuses
<1>5. Next \in RunRecords
  <2>1. (run[r].tidy /\ Due(r) = {}) \in BOOLEAN
    OBVIOUS
  <2> QED
    BY <1>1, <2>1 DEF RunRecords, NoRun, Steps
<1> HIDE DEF Row, Next
<1>6. RunTypeOK'
  <2>1. run' \in [Runs -> RunRecords]
    BY <1>2, <1>5 DEF IInv, RunTypeOK, RunRecords
  <2>2. houseBill' \in [Houses -> RowRecords]
    BY <1>2, <1>4 DEF IInv, RunTypeOK, RowRecords
  <2> QED
    BY <1>2, <2>1, <2>2 DEF IInv, RunTypeOK, RunRecords, RowRecords
<1>7. \A h \in Houses : h \in Due(r) => houseBill[h].status = "NONE" /\ batch[run[r].batch] # "NONE"
  BY DEF Due
<1>8. run'[r] = Next /\ \A q \in Runs : q # r => run'[q] = run[q]
  BY <1>2 DEF IInv, RunTypeOK
<1> QED
  BY <1>1, <1>2, <1>3, <1>6, <1>7, <1>8

\* Drafts go into a batch that exists; those of a shared cost are of one division.
LEMMA FlushStep == ASSUME IInv, NEW r \in Runs, FlushBills(r) PROVE IInv'
<1>1. UNCHANGED <<shared, pool, batch, runsCrossed>> /\ At(r, "flush")
  BY DEF FlushBills
<1>2. NamesBatch' /\ BatchExists'
  <2>1. NamesBatch'
    BY <1>1, FlushRows DEF IInv, NamesBatch
  <2>2. BatchExists'
    BY <1>1, FlushRows DEF IInv, BatchExists
  <2> QED
    BY <2>1, <2>2
<1>3. OpenedInOrder'
  BY <1>1 DEF IInv, OpenedInOrder
<1>4. Undivided'
  BY <1>1, FlushRows DEF IInv, Undivided
<1>5. OnePastCheck'
  <2> SUFFICES ASSUME shared', ~runsCrossed', NEW q \in Runs, At(q, "flush")' PROVE FALSE
    BY DEF OnePastCheck
  <2>1. q # r /\ At(q, "flush")
    BY FlushRows DEF At
  <2> QED
    BY <1>1, <2>1 DEF IInv, OnePastCheck
<1>6. DividedOnce'
  <2> SUFFICES ASSUME ~runsCrossed', NEW g \in Houses, NEW h \in Houses, Live(g)', Live(h)'
               PROVE  houseBill'[g].among = houseBill'[h].among
    BY DEF DividedOnce
  <2>1. CASE shared
    <3>1. \A k \in Houses : ~Live(k)
      BY <1>1, <2>1 DEF IInv, OnePastCheck
    <3>2. g \in Due(r) /\ h \in Due(r)
      BY <3>1, FlushRows DEF Live
    <3> QED
      BY <3>2, FlushRows
  <2>2. CASE ~shared
    BY <1>1, <1>4, <2>2 DEF Undivided
  <2> QED
    BY <2>1, <2>2
<1> QED
  BY <1>2, <1>3, <1>4, <1>5, <1>6, FlushRows DEF IInv

\* Rows that change their status only, without coming back to life, and batches that close.
LEMMA CloseStep ==
  ASSUME IInv, UNCHANGED <<shared, run, runsCrossed>>, pool' \in BOOLEAN,
         batch' \in [Batches -> BatchStatuses],
         \A b \in Batches : batch'[b] = batch[b] \/ batch'[b] \in ClosedStatuses,
         houseBill' \in [Houses -> RowRecords],
         \A h \in Houses : /\ houseBill'[h].batch = houseBill[h].batch /\ houseBill'[h].among = houseBill[h].among
                           /\ Live(h)' => Live(h)
                           /\ houseBill'[h].status # "NONE" => houseBill[h].status # "NONE"
  PROVE  IInv'
<1>1. RunTypeOK'
  BY DEF IInv, RunTypeOK, RowRecords
<1>2. NamesBatch' /\ BatchExists'
  BY DEF IInv, NamesBatch, BatchExists, ClosedStatuses
<1>3. OpenedInOrder'
  <2>1. \A b \in 1 .. LastBatch : b \in Batches
    BY DEF Batches
  <2> QED
    BY <2>1 DEF IInv, OpenedInOrder, ClosedStatuses
<1>4. Undivided'
  BY DEF IInv, Undivided
<1>5. OnePastCheck'
  BY DEF IInv, OnePastCheck, At
<1>6. DividedOnce'
  BY DEF IInv, DividedOnce
<1> QED
  BY <1>1, <1>2, <1>3, <1>4, <1>5, <1>6 DEF IInv

\* The administrator closes a draft with its bills.
LEMMA CloseBatchStep ==
  ASSUME IInv, NEW b \in Batches, NEW t \in {"PUBLISHED", "CANCELED"}, NEW s \in {"UNPAID", "CANCELED"},
         CloseBatch(b, t, s)
  PROVE  IInv'
<1> DEFINE Row(h) == IF houseBill[h].batch = b /\ houseBill[h].status = "DRAFT"
                     THEN [houseBill[h] EXCEPT !.status = s] ELSE houseBill[h]
<1>1. houseBill' = [h \in Houses |-> Row(h)] /\ batch' = [batch EXCEPT ![b] = t]
      /\ UNCHANGED <<shared, pool, run, runsCrossed>>
  BY DEF CloseBatch
<1>2. \A h \in Houses : houseBill[h] \in RowRecords
  BY DEF IInv, RunTypeOK, RowRecords
<1>3. ASSUME NEW h \in Houses
      PROVE  /\ Row(h) \in RowRecords /\ Row(h).batch = houseBill[h].batch /\ Row(h).among = houseBill[h].among
             /\ Row(h).status \in {"DRAFT", "UNPAID"} => Live(h)
             /\ Row(h).status # "NONE" => houseBill[h].status # "NONE"
  BY <1>2 DEF RowRecords, BillStatuses, Live
<1> HIDE DEF Row
<1>4. houseBill' \in [Houses -> RowRecords] /\ \A h \in Houses : houseBill'[h] = Row(h)
  BY <1>1, <1>3
<1>5. /\ batch' \in [Batches -> BatchStatuses]
      /\ \A c \in Batches : batch'[c] = batch[c] \/ batch'[c] \in ClosedStatuses
  BY <1>1 DEF IInv, RunTypeOK, BatchStatuses, ClosedStatuses
<1>6. \A h \in Houses : Live(h)' => Live(h)
  BY <1>3, <1>4 DEF Live
<1> QED
  BY <1>1, <1>3, <1>4, <1>5, <1>6, CloseStep DEF IInv, RunTypeOK

\* One bill is canceled.
LEMMA CancelStep == ASSUME IInv, NEW h \in Houses, CancelBill(h) PROVE IInv'
<1>1. houseBill' = [houseBill EXCEPT ![h].status = "CANCELED"] /\ UNCHANGED <<shared, pool, batch, run, runsCrossed>>
  BY DEF CancelBill
<1>2. \A g \in Houses : houseBill[g] \in RowRecords
  BY DEF IInv, RunTypeOK, RowRecords
<1>3. [houseBill[h] EXCEPT !.status = "CANCELED"] \in RowRecords
  BY <1>2 DEF RowRecords, BillStatuses
<1>4. houseBill' \in [Houses -> RowRecords]
  BY <1>1, <1>3 DEF IInv, RunTypeOK, RowRecords
<1>5. \A g \in Houses : /\ houseBill'[g].batch = houseBill[g].batch /\ houseBill'[g].among = houseBill[g].among
                        /\ Live(g)' => Live(g)
                        /\ houseBill'[g].status # "NONE" => houseBill[g].status # "NONE"
  <2> SUFFICES ASSUME NEW g \in Houses
               PROVE  /\ houseBill'[g].batch = houseBill[g].batch /\ houseBill'[g].among = houseBill[g].among
                      /\ Live(g)' => Live(g)
                      /\ houseBill'[g].status # "NONE" => houseBill[g].status # "NONE"
    OBVIOUS
  <2>1. CASE g = h
    BY <1>1, <1>2, <2>1 DEF IInv, RunTypeOK, RowRecords, Live, CancelBill
  <2>2. CASE g # h
    BY <1>1, <2>2 DEF IInv, RunTypeOK, Live
  <2> QED
    BY <2>1, <2>2
<1> QED
  BY <1>1, <1>4, <1>5, CloseStep DEF IInv, RunTypeOK

-----------------------------------------------------------------------------
\* Every step keeps the invariant.
LEMMA NextInv == IInv /\ [RunNext]_runVars => IInv'
<1> SUFFICES ASSUME IInv, [RunNext]_runVars PROVE IInv'
  OBVIOUS
<1>1. ASSUME NEW r \in Runs, RunStep(r) PROVE IInv'
  BY <1>1, StartStep, CheckStep, FailStep, FlushStep, FinishStep DEF RunStep
<1>2. ASSUME NEW b \in Batches, PublishBatch(b) \/ CancelBatch(b) PROVE IInv'
  BY <1>2, CloseBatchStep DEF PublishBatch, CancelBatch
<1>3. ASSUME NEW h \in Houses, CancelBill(h) PROVE IInv'
  BY <1>3, CancelStep
<1>4. CASE EnterPool
  BY <1>4 DEF EnterPool, IInv, RunTypeOK, NamesBatch, BatchExists, OpenedInOrder, Undivided, OnePastCheck,
              DividedOnce, At, Live, rows
<1>5. CASE UNCHANGED runVars
  BY <1>5 DEF IInv, RunTypeOK, NamesBatch, BatchExists, OpenedInOrder, Undivided, OnePastCheck,
              DividedOnce, At, Live, runVars
<1> QED
  BY <1>1, <1>2, <1>3, <1>4, <1>5 DEF RunNext

\* The invariant holds in every reachable state.
THEOREM Invariance == RunSpec => []IInv
  BY InitInv, NextInv, PTL DEF RunSpec

\* The variables keep their types.
THEOREM TypeCorrect == RunSpec => []RunTypeOK
<1>1. IInv => RunTypeOK
  BY DEF IInv
<1> QED
  BY <1>1, Invariance, PTL

\* A shared cost is divided once, unless two runs were past the check together (checkShare
\* and flushBills in bill-run.service.ts).
THEOREM PoolDividedOnce == RunSpec => []DividedOnce
<1>1. IInv => DividedOnce
  BY DEF IInv
<1> QED
  BY <1>1, Invariance, PTL

\* No bill is in a batch that is gone, and of the numbered batches one is open at most.
THEOREM BatchesStaySound == RunSpec => []BatchesAreSound
  BY InOrderMeansOne, Invariance, PTL

-----------------------------------------------------------------------------
\* A step of the invariant closes batches, opens missing ones and removes drafts, and shows
\* owners no bill of a batch that is published.
LEMMA StepOfBatches ==
  ASSUME IInv, [RunNext]_runVars, NEW b \in Batches, batch[b] \in ClosedStatuses
  PROVE  /\ batch'[b] \in ClosedStatuses
         /\ batch[b] = "PUBLISHED" => Shown(b)' \subseteq Shown(b)
<1> DEFINE Kept == batch'[b] \in ClosedStatuses /\ Shown(b)' \subseteq Shown(b)
<1> SUFFICES Kept
  OBVIOUS
<1>1. ASSUME NEW r \in Runs, StartRun(r) PROVE Kept
  BY <1>1 DEF StartRun, Opened, IInv, RunTypeOK, ClosedStatuses, Shown
<1>2. ASSUME NEW r \in Runs, CheckShare(r) PROVE Kept
  BY <1>2 DEF CheckShare, rows, Shown
<1>3. ASSUME NEW r \in Runs, FailBatch(r) PROVE Kept
  BY <1>3 DEF FailBatch, IInv, RunTypeOK, ClosedStatuses, Shown
<1>4. ASSUME NEW r \in Runs, FlushBills(r) PROVE Kept
  <2>1. batch' = batch
    BY <1>4 DEF FlushBills
  <2>2. ASSUME NEW h \in Houses, houseBill'[h].status = "UNPAID" PROVE houseBill'[h] = houseBill[h]
    BY <1>4, <2>2, FlushRows
  <2> QED
    BY <2>1, <2>2 DEF Shown
<1>5. ASSUME NEW r \in Runs, FinishRun(r) PROVE Kept
  <2>1. batch'[b] = batch[b]
    BY <1>5 DEF FinishRun, Vain, WrittenBack, IInv, RunTypeOK, ClosedStatuses
  <2> QED
    BY <1>5, <2>1 DEF FinishRun, Shown
<1>6. ASSUME NEW c \in Batches, PublishBatch(c) \/ CancelBatch(c) PROVE Kept
  <2>1. b # c
    BY <1>6 DEF PublishBatch, CancelBatch, ClosedStatuses
  <2>2. batch'[b] = batch[b]
    BY <1>6, <2>1 DEF PublishBatch, CancelBatch, CloseBatch, IInv, RunTypeOK
  <2>3. ASSUME NEW h \in Houses, houseBill'[h].batch = b PROVE houseBill'[h] = houseBill[h]
    <3>1. houseBill[h] \in RowRecords
      BY DEF IInv, RunTypeOK, RowRecords
    <3>2. houseBill'[h] = houseBill[h] \/ houseBill[h].batch = c
      BY <1>6 DEF PublishBatch, CancelBatch, CloseBatch
    <3>3. houseBill'[h].batch = houseBill[h].batch
      BY <1>6, <3>1 DEF PublishBatch, CancelBatch, CloseBatch, RowRecords
    <3> QED
      BY <2>1, <2>3, <3>2, <3>3
  <2> QED
    BY <2>2, <2>3 DEF Shown
<1>7. ASSUME NEW h \in Houses, CancelBill(h) PROVE Kept
  <2>1. \A g \in Houses : houseBill[g] \in RowRecords
    BY DEF IInv, RunTypeOK, RowRecords
  <2>2. ASSUME NEW g \in Houses, houseBill'[g].status = "UNPAID" PROVE houseBill'[g] = houseBill[g]
    BY <1>7, <2>1, <2>2 DEF CancelBill, IInv, RunTypeOK, RowRecords
  <2> QED
    BY <1>7, <2>2 DEF CancelBill, Shown
<1>8. CASE EnterPool \/ UNCHANGED runVars
  BY <1>8 DEF EnterPool, rows, runVars, Shown
<1> QED
  BY <1>1, <1>2, <1>3, <1>4, <1>5, <1>6, <1>7, <1>8 DEF RunNext, RunStep

\* Whatever runs that opened a batch as a draft still write to it, once closed it stays closed
\* (the conditional update at the end of generate).
THEOREM ClosedForGood == RunSpec => ClosedStaysClosed
<1>1. IInv /\ [RunNext]_runVars
      => [\A b \in Batches : batch[b] \in {"PUBLISHED", "CANCELED", "FAILED"}
                             => batch'[b] \in {"PUBLISHED", "CANCELED", "FAILED"}]_runVars
  BY StepOfBatches DEF ClosedStatuses
<1> QED
  BY <1>1, Invariance, PTL DEF RunSpec, ClosedStaysClosed

\* Owners never see one more bill in a batch that was published (publishBatch).
THEOREM FrozenForGood == RunSpec => PublishedIsFrozen
<1>1. IInv /\ [RunNext]_runVars
      => [\A b \in Batches : batch[b] = "PUBLISHED" => Shown(b)' \subseteq Shown(b)]_runVars
  BY StepOfBatches DEF ClosedStatuses
<1> QED
  BY <1>1, Invariance, PTL DEF RunSpec, PublishedIsFrozen
=============================================================================
