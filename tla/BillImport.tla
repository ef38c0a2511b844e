--------------------------------- MODULE BillImport ---------------------------------
(***************************************************************************)
(* Import of bills from a file (confirm in bill-import.service.ts) while   *)
(* other bills of the same period are paid and refunded, and while the     *)
(* imported batches are published and canceled (bill-workflow.service.ts). *)
(*                                                                         *)
(* A file is the set of its rows, each a house with a legal amount; houses *)
(* outside the community and repeated rows are refused like a paid one.    *)
(* confirm looks for a batch with the hash of the file, validates the rows *)
(* against the bills there are, and inserts batch and drafts in one        *)
(* transaction.  The unique key (tenant, community, hash) admits one batch *)
(* per file.  An import is named after the request that made it.           *)
(***************************************************************************)
EXTENDS Naturals, FiniteSets

CONSTANTS
  Requests,   \* requests to confirm, retries included
  Files,      \* file contents, told apart by their hash
  Residences, \* houses of the community
  RowsOf      \* the houses of each file

ASSUME RowsAssumption == RowsOf \in [Files -> SUBSET Residences] /\ IsFiniteSet(Residences)

VARIABLES
  batch,     \* BillBatch of each request: status and file, "NONE" before it exists
  importBill,\* Bill.status of the bill a request made for a house
  ruleBill,  \* Bill.status of the house's bill from a fee rule, same period
  twice,     \* houses that got an imported bill though another was paid
  raced,     \* history: houses with a payment between a request's validation and insert
  request    \* what each request is doing

importVars == <<batch, importBill, ruleBill, twice, raced, request>>

BatchStates == {"NONE", "DRAFT", "PUBLISHED", "CANCELED"}
BillStates  == {"NONE", "DRAFT", "UNPAID", "PAID", "REFUNDING", "REFUNDED", "CANCELED"}
RequestRecords == [step : {"new", "insert", "done"}, file : Files, valid : SUBSET Residences]

ImportTypeOK ==
  /\ batch \in [Requests -> [status : BatchStates, validRows : 0..Cardinality(Residences)]]
  /\ importBill \in [Requests \X Residences -> BillStates]
  /\ ruleBill \in [Residences -> BillStates]
  /\ twice \in SUBSET Residences /\ raced \in SUBSET Residences
  /\ request \in [Requests -> RequestRecords]

ImportInit ==
  /\ batch = [r \in Requests |-> [status |-> "NONE", validRows |-> 0]]
  /\ importBill = [b \in Requests \X Residences |-> "NONE"]
  /\ ruleBill \in [Residences -> {"NONE", "UNPAID", "PAID"}]
  /\ twice = {} /\ raced = {}
  /\ request \in [Requests -> [step : {"new"}, file : Files, valid : {{}}]]

FileOf(r)      == request[r].file
\* Fault: the same file makes another batch.
BatchOfNone(f) == {}
BatchOf(f)     == {r \in Requests : FileOf(r) = f /\ batch[r].status # "NONE"}
\* The money of a bill is with the community, or on its way back (BLOCKING_PAID_STATUSES).
Blocking       == {"PAID", "REFUNDING"}
PaidOrBack     == Blocking \cup {"REFUNDED"}
PaidFor(h)     == ruleBill[h] \in Blocking \/ \E r \in Requests : importBill[<<r, h>>] \in Blocking

\* Fault: houses that have paid are not refused.
ValidRowsAll(f) == RowsOf[f]
\* validateRows: a bill that is paid, or being refunded, is an error; another is a warning.
ValidRows(f)    == {h \in RowsOf[f] : ~PaidFor(h)}

\* Up to the transaction of confirm: an existing batch is returned, whatever its status.
Validate(r) ==
  LET f == FileOf(r) IN
  /\ request[r].step = "new"
  /\ request' = [request EXCEPT ![r] =
       IF BatchOf(f) # {} \/ ValidRows(f) = {} THEN [@ EXCEPT !.step = "done"]
       ELSE [@ EXCEPT !.step = "insert", !.valid = ValidRows(f)]]
  /\ UNCHANGED <<batch, importBill, ruleBill, twice, raced>>

\* The transaction.  P2002 on the hash returns the batch that won.
InsertBatch(r) ==
  LET valid == request[r].valid IN
  /\ request[r].step = "insert"
  /\ request' = [request EXCEPT ![r].step = "done"]
  /\ IF BatchOf(FileOf(r)) = {}
     THEN /\ batch' = [batch EXCEPT ![r] = [status |-> "DRAFT", validRows |-> Cardinality(valid)]]
          /\ importBill' = [b \in Requests \X Residences |->
               IF b[1] = r /\ b[2] \in valid THEN "DRAFT" ELSE importBill[b]]
          /\ twice' = twice \cup {h \in valid : PaidFor(h)}
     ELSE UNCHANGED <<batch, importBill, twice>>
  /\ UNCHANGED <<ruleBill, raced>>

\* The process dies, or the transaction is rolled back.
ImportFails(r) ==
  /\ request[r].step # "done"
  /\ request' = [request EXCEPT ![r].step = "done"]
  /\ UNCHANGED <<batch, importBill, ruleBill, twice, raced>>

-----------------------------------------------------------------------------
(* What happens to the bills *)

\* publishBatch and cancelBatch: only a draft, and its drafts.
CloseDraft(r, status, billStatus) ==
  /\ batch[r].status = "DRAFT"
  /\ batch' = [batch EXCEPT ![r].status = status]
  /\ importBill' = [b \in Requests \X Residences |->
       IF b[1] = r /\ importBill[b] = "DRAFT" THEN billStatus ELSE importBill[b]]
  /\ UNCHANGED <<ruleBill, twice, raced, request>>

PublishImport(r) == CloseDraft(r, "PUBLISHED", "UNPAID")
CancelImport(r)  == CloseDraft(r, "CANCELED", "CANCELED")

\* A payment of h meets the requests that have validated h.
Crossing(h) == IF \E r \in Requests : request[r].step = "insert" /\ h \in request[r].valid
               THEN raced \cup {h} ELSE raced

PayRuleBill(h) ==
  /\ ruleBill[h] = "UNPAID"
  /\ ruleBill' = [ruleBill EXCEPT ![h] = "PAID"]
  /\ raced' = Crossing(h)
  /\ UNCHANGED <<batch, importBill, twice, request>>

PayImported(r, h) ==
  /\ importBill[<<r, h>>] = "UNPAID"
  /\ importBill' = [importBill EXCEPT ![<<r, h>>] = "PAID"]
  /\ raced' = Crossing(h)
  /\ UNCHANGED <<batch, ruleBill, twice, request>>

\* A refund is asked for, succeeds or fails.
RefundSteps == {<<"PAID", "REFUNDING">>, <<"REFUNDING", "REFUNDED">>, <<"REFUNDING", "PAID">>}

RefundRuleBill(h, status) ==
  /\ <<ruleBill[h], status>> \in RefundSteps
  /\ ruleBill' = [ruleBill EXCEPT ![h] = status]
  /\ UNCHANGED <<batch, importBill, twice, raced, request>>

ImportNext ==
  \/ \E r \in Requests : \/ Validate(r) \/ InsertBatch(r) \/ ImportFails(r)
                         \/ PublishImport(r) \/ CancelImport(r)
  \/ \E h \in Residences : \/ PayRuleBill(h)
                           \/ \E r \in Requests : PayImported(r, h)
                           \/ \E status \in PaidOrBack : RefundRuleBill(h, status)

ImportSpec == ImportInit /\ [][ImportNext]_importVars

-----------------------------------------------------------------------------
(* Properties *)

\* A file makes one batch, though it is uploaded twice at the same time and again after
\* its batch was published or canceled; so it charges a house once (fileHash in
\* bill-import.service.ts).
FileImportedOnce == \A f \in Files : Cardinality({r \in Requests : FileOf(r) = f /\ batch[r].status # "NONE"}) <= 1

\* The batch's own count of rows is the number of bills it has.
BatchAddsUp ==
  \A r \in Requests : Cardinality({h \in Residences : importBill[<<r, h>>] # "NONE"}) = batch[r].validRows

\* A house that has paid for the period is not billed again by an import, unless it paid
\* between the validation and the insert, which does not look again (PAID_CONFLICT).
PaidIsNotBilledAgainUnlessRaced == twice \subseteq raced

ImportIsSound == FileImportedOnce /\ BatchAddsUp /\ PaidIsNotBilledAgainUnlessRaced

=============================================================================
