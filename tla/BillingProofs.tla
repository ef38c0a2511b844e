------------------------------ MODULE BillingProofs ------------------------------
(*****************************************************************************)
(* What is billed, for any values of the constants: an imported file becomes *)
(* one batch and who has paid is not billed again; a meter reading starts    *)
(* where the one before it ends; a pool is divided to the cent and an amount *)
(* is off by its rounding.  The neighbours of a reading are the maximum and  *)
(* the minimum of finite sets, and a pool is a sum over houses: what holds   *)
(* of both is proved by induction over finite sets, where Smallest gives the *)
(* smallest counterexample.                                                  *)
(*****************************************************************************)
EXTENDS BillImport, Meter, Engine, FiniteSetTheorems, WellFoundedInduction, TLAPS

-----------------------------------------------------------------------------
(* BillImport *)

\* The transaction of request r has committed.
Inserted(r) == batch[r].status # "NONE"

\* A request inserts once and after it had no bills, a file has one batch, the batch counts
\* its bills, and who was paid for after a validation is remembered.
ImportInv ==
  /\ ImportTypeOK
  /\ \A r \in Requests : /\ request[r].step # "done" => ~Inserted(r)
                         /\ ~Inserted(r) => \A h \in Residences : importBill[<<r, h>>] = "NONE"
                         /\ \A h \in request[r].valid : request[r].step = "insert" /\ PaidFor(h) => h \in raced
  /\ \A q, r \in Requests : Inserted(q) /\ Inserted(r) /\ FileOf(q) = FileOf(r) => q = r
  /\ BatchAddsUp
  /\ PaidIsNotBilledAgainUnlessRaced

\* The residences that request r has billed.
BillsOf(r) == {h \in Residences : importBill[<<r, h>>] # "NONE"}

\* At first nothing is imported.
LEMMA ImportInitInv == ImportInit => ImportInv
<1> SUFFICES ASSUME ImportInit PROVE ImportInv
  OBVIOUS
<1>1. /\ Cardinality(Residences) \in Nat /\ 0 \in 0..Cardinality(Residences)
  BY RowsAssumption, FS_CardinalityType
<1>2. ImportTypeOK
  BY <1>1 DEF ImportInit, ImportTypeOK, BatchStates, BillStates, RequestRecords
<1>3. \A r \in Requests : ~Inserted(r) /\ batch[r].validRows = 0 /\ request[r].step = "new" /\ request[r].valid = {}
                          /\ \A h \in Residences : importBill[<<r, h>>] = "NONE"
  BY DEF ImportInit, Inserted
<1>4. BatchAddsUp
  <2> SUFFICES ASSUME NEW r \in Requests PROVE Cardinality(BillsOf(r)) = batch[r].validRows
    BY DEF BatchAddsUp, BillsOf
  <2>1. BillsOf(r) = {}
    BY <1>3 DEF BillsOf
  <2> QED
    BY <1>3, <2>1, FS_EmptySet
<1> QED
  BY <1>2, <1>3, <1>4 DEF ImportInv, ImportInit, PaidIsNotBilledAgainUnlessRaced

\* A step that leaves batches and bills alone and moves one request on.
LEMMA RequestMoves ==
  ASSUME ImportInv, NEW r \in Requests, UNCHANGED <<batch, importBill, ruleBill, twice, raced>>,
         request' \in [Requests -> RequestRecords],
         \A q \in Requests : q # r => request'[q] = request[q],
         FileOf(r)' = FileOf(r),
         request[r].step # "done",
         \A h \in request'[r].valid : request'[r].step = "insert" => ~PaidFor(h)
  PROVE  ImportInv'
<1>1. \A h \in Residences : PaidFor(h)' <=> PaidFor(h)
  BY DEF PaidFor
<1>2. ImportTypeOK'
  BY DEF ImportInv, ImportTypeOK
<1>3. \A q \in Requests : /\ Inserted(q)' <=> Inserted(q)
                          /\ FileOf(q)' = FileOf(q)
                          /\ request'[q].valid \subseteq Residences
  BY <1>2 DEF Inserted, FileOf, ImportTypeOK, RequestRecords
<1>4. BatchAddsUp' /\ PaidIsNotBilledAgainUnlessRaced'
  BY DEF ImportInv, BatchAddsUp, PaidIsNotBilledAgainUnlessRaced
<1>5. \A q \in Requests : /\ request'[q].step # "done" => ~Inserted(q)
                          /\ ~Inserted(q) => \A h \in Residences : importBill[<<q, h>>] = "NONE"
                          /\ \A h \in request'[q].valid : request'[q].step = "insert" /\ PaidFor(h) => h \in raced
  BY DEF ImportInv
<1> QED
  BY <1>1, <1>2, <1>3, <1>4, <1>5 DEF ImportInv

\* Validation sorts out who has paid, without writing.
LEMMA ValidateStep == ASSUME ImportInv, NEW r \in Requests, Validate(r) PROVE ImportInv'
<1> DEFINE f == FileOf(r)
<1>1. request[r] \in RequestRecords /\ f \in Files /\ ValidRows(f) \in SUBSET Residences
  BY RowsAssumption DEF ImportInv, ImportTypeOK, RequestRecords, FileOf, ValidRows
<1>2. UNCHANGED <<batch, importBill, ruleBill, twice, raced>> /\ request[r].step = "new"
  BY DEF Validate
<1>3. \A h \in ValidRows(f) : ~PaidFor(h)
  BY DEF ValidRows
<1>4. CASE request' = [request EXCEPT ![r] = [@ EXCEPT !.step = "done"]]
  BY <1>1, <1>2, <1>4, RequestMoves DEF ImportInv, ImportTypeOK, RequestRecords, FileOf
<1>5. CASE request' = [request EXCEPT ![r] = [@ EXCEPT !.step = "insert", !.valid = ValidRows(f)]]
  <2> DEFINE new == [request[r] EXCEPT !.step = "insert", !.valid = ValidRows(f)]
  <2>1. new \in RequestRecords /\ new.file = f /\ new.valid = ValidRows(f) /\ new.step = "insert"
    BY <1>1 DEF RequestRecords, FileOf
  <2>2. request' = [request EXCEPT ![r] = new] /\ request \in [Requests -> RequestRecords]
    BY <1>5 DEF ImportInv, ImportTypeOK
  <2> HIDE DEF new
  <2>3. request' \in [Requests -> RequestRecords] /\ request'[r] = new /\ \A q \in Requests : q # r => request'[q] = request[q]
    BY <2>1, <2>2
  <2>4. FileOf(r)' = FileOf(r)
    BY <2>1, <2>3 DEF FileOf
  <2> QED
    BY <1>2, <1>3, <2>1, <2>3, <2>4, RequestMoves
<1> QED
  BY <1>4, <1>5 DEF Validate

\* The transaction makes the first batch of its file, with a bill for each valid row.
LEMMA InsertStep == ASSUME ImportInv, NEW r \in Requests, InsertBatch(r) PROVE ImportInv'
<1> DEFINE valid == request[r].valid
           Bills == Requests \X Residences
<1>1. /\ request[r].step = "insert" /\ request' = [request EXCEPT ![r].step = "done"]
      /\ UNCHANGED <<ruleBill, raced>>
  BY DEF InsertBatch
<1>2. /\ request' \in [Requests -> RequestRecords]
      /\ request'[r].step = "done" /\ \A q \in Requests : q # r => request'[q] = request[q]
      /\ \A q \in Requests : FileOf(q)' = FileOf(q)
      /\ valid \in SUBSET Residences
  BY <1>1 DEF ImportInv, ImportTypeOK, RequestRecords, FileOf
<1>3. CASE UNCHANGED <<batch, importBill, twice>>
  BY <1>1, <1>2, <1>3, RequestMoves
<1>4. CASE /\ BatchOf(FileOf(r)) = {}
           /\ batch' = [batch EXCEPT ![r] = [status |-> "DRAFT", validRows |-> Cardinality(valid)]]
           /\ importBill' = [b \in Requests \X Residences |->
                IF b[1] = r /\ b[2] \in valid THEN "DRAFT" ELSE importBill[b]]
           /\ twice' = twice \cup {h \in valid : PaidFor(h)}
  <2>1. ~Inserted(r) /\ \A h \in Residences : importBill[<<r, h>>] = "NONE"
    BY <1>1 DEF ImportInv
  <2>2. \A q \in Requests : Inserted(q) => FileOf(q) # FileOf(r)
    BY <1>4 DEF BatchOf, Inserted
  <2>3. Cardinality(valid) \in 0..Cardinality(Residences)
    BY <1>2, RowsAssumption, FS_Subset, FS_CardinalityType
  <2>4. \A q \in Requests, h \in Residences :
          importBill'[<<q, h>>] = IF q = r /\ h \in valid THEN "DRAFT" ELSE importBill[<<q, h>>]
    BY <1>4
  <2>5. /\ importBill' \in [Bills -> BillStates]
        /\ batch' \in [Requests -> [status : BatchStates, validRows : 0..Cardinality(Residences)]]
        /\ batch'[r].status = "DRAFT" /\ batch'[r].validRows = Cardinality(valid)
        /\ \A q \in Requests : q # r => batch'[q] = batch[q]
    <3>1. importBill' \in [Bills -> BillStates]
      BY <1>4 DEF ImportInv, ImportTypeOK, BillStates
    <3>2. [status |-> "DRAFT", validRows |-> Cardinality(valid)] \in [status : BatchStates, validRows : 0..Cardinality(Residences)]
      BY <2>3 DEF BatchStates
    <3> QED
      BY <1>4, <3>1, <3>2 DEF ImportInv, ImportTypeOK
  <2>6. ImportTypeOK'
    BY <1>1, <1>2, <1>4, <2>5 DEF ImportInv, ImportTypeOK
  <2>7. \A h \in Residences : PaidFor(h)' <=> PaidFor(h)
    BY <1>1, <2>1, <2>4 DEF PaidFor, Blocking
  <2>8. Inserted(r)' /\ \A q \in Requests : q # r => (Inserted(q)' <=> Inserted(q))
    BY <2>5 DEF Inserted
  <2>9. BatchAddsUp'
    <3> SUFFICES ASSUME NEW q \in Requests PROVE Cardinality(BillsOf(q)') = batch'[q].validRows
      BY DEF BatchAddsUp, BillsOf
    <3>1. CASE q = r
      <4>1. BillsOf(q)' = valid
        BY <1>2, <2>1, <2>4, <3>1 DEF BillsOf
      <4> QED
        BY <2>5, <3>1, <4>1
    <3>2. CASE q # r
      <4>1. BillsOf(q)' = BillsOf(q)
        BY <2>4, <3>2 DEF BillsOf
      <4> QED
        BY <2>5, <3>2, <4>1 DEF ImportInv, BatchAddsUp, BillsOf
    <3> QED
      BY <3>1, <3>2
  <2>10. PaidIsNotBilledAgainUnlessRaced'
    BY <1>1, <1>4 DEF ImportInv, PaidIsNotBilledAgainUnlessRaced
  <2>11. \A q \in Requests : /\ request'[q].step # "done" => ~Inserted(q)'
                             /\ ~Inserted(q)' => \A h \in Residences : importBill'[<<q, h>>] = "NONE"
                             /\ \A h \in request'[q].valid : request'[q].step = "insert" /\ PaidFor(h)' => h \in raced'
    <3> SUFFICES ASSUME NEW q \in Requests
                 PROVE  /\ request'[q].step # "done" => ~Inserted(q)'
                        /\ ~Inserted(q)' => \A h \in Residences : importBill'[<<q, h>>] = "NONE"
                        /\ \A h \in request'[q].valid : request'[q].step = "insert" /\ PaidFor(h)' => h \in raced'
      OBVIOUS
    <3>1. CASE q = r
      BY <1>2, <2>8, <3>1
    <3>2. CASE q # r
      <4>1. request'[q] = request[q] /\ request[q].valid \subseteq Residences /\ (Inserted(q)' <=> Inserted(q))
        BY <1>2, <2>8, <3>2 DEF ImportInv, ImportTypeOK, RequestRecords
      <4> QED
        BY <1>1, <2>4, <2>7, <3>2, <4>1 DEF ImportInv
    <3> QED
      BY <3>1, <3>2
  <2>12. \A p, q \in Requests : Inserted(p)' /\ Inserted(q)' /\ FileOf(p)' = FileOf(q)' => p = q
    BY <1>2, <2>2, <2>8 DEF ImportInv
  <2> QED
    BY <2>6, <2>9, <2>10, <2>11, <2>12 DEF ImportInv
<1> QED
  BY <1>3, <1>4 DEF InsertBatch

\* Bills that exist change status and are not removed; what is paid for is remembered.
LEMMA BillsMove ==
  ASSUME ImportInv, UNCHANGED <<twice, request>>,
         batch' \in [Requests -> [status : BatchStates, validRows : 0..Cardinality(Residences)]],
         \A r \in Requests : /\ Inserted(r)' <=> Inserted(r)
                             /\ batch'[r].validRows = batch[r].validRows,
         importBill' \in [Requests \X Residences -> BillStates],
         \A r \in Requests, h \in Residences : importBill'[<<r, h>>] = "NONE" <=> importBill[<<r, h>>] = "NONE",
         ruleBill' \in [Residences -> BillStates],
         raced \subseteq raced', raced' \subseteq Residences,
         \A h \in Residences : PaidFor(h)' => \/ PaidFor(h)
                                              \/ \A r \in Requests : request[r].step = "insert" /\ h \in request[r].valid => h \in raced'
  PROVE  ImportInv'
<1>1. ImportTypeOK'
  BY DEF ImportInv, ImportTypeOK
<1>2. BatchAddsUp'
  <2> SUFFICES ASSUME NEW q \in Requests PROVE Cardinality(BillsOf(q)') = batch'[q].validRows
    BY DEF BatchAddsUp, BillsOf
  <2>1. BillsOf(q)' = BillsOf(q)
    BY DEF BillsOf
  <2> QED
    BY <2>1 DEF ImportInv, BatchAddsUp, BillsOf
<1>3. PaidIsNotBilledAgainUnlessRaced'
  BY DEF ImportInv, PaidIsNotBilledAgainUnlessRaced
<1>4. \A q \in Requests : request[q].valid \subseteq Residences
  BY DEF ImportInv, ImportTypeOK, RequestRecords
<1>5. \A q \in Requests : /\ request'[q].step # "done" => ~Inserted(q)'
                          /\ ~Inserted(q)' => \A h \in Residences : importBill'[<<q, h>>] = "NONE"
                          /\ \A h \in request'[q].valid : request'[q].step = "insert" /\ PaidFor(h)' => h \in raced'
  BY <1>4 DEF ImportInv
<1>6. \A q, r \in Requests : Inserted(q)' /\ Inserted(r)' /\ FileOf(q)' = FileOf(r)' => q = r
  BY DEF ImportInv, FileOf
<1> QED
  BY <1>1, <1>2, <1>3, <1>5, <1>6 DEF ImportInv

\* A batch is published or canceled as a whole.
LEMMA CloseBatchStep ==
  ASSUME ImportInv, NEW r \in Requests, PublishImport(r) \/ CancelImport(r)
  PROVE  ImportInv'
<1>1. PICK status \in {"PUBLISHED", "CANCELED"}, billStatus \in {"UNPAID", "CANCELED"} : CloseDraft(r, status, billStatus)
  BY DEF PublishImport, CancelImport
<1>2. /\ batch[r].status = "DRAFT" /\ batch' = [batch EXCEPT ![r].status = status]
      /\ UNCHANGED <<ruleBill, twice, raced, request>>
      /\ importBill' = [b \in Requests \X Residences |->
           IF b[1] = r /\ importBill[b] = "DRAFT" THEN billStatus ELSE importBill[b]]
  BY <1>1 DEF CloseDraft
<1>3. importBill' \in [Requests \X Residences -> BillStates]
  BY <1>2 DEF ImportInv, ImportTypeOK, BillStates
<1>4. /\ batch' \in [Requests -> [status : BatchStates, validRows : 0..Cardinality(Residences)]]
      /\ \A q \in Requests : /\ Inserted(q)' <=> Inserted(q)
                             /\ batch'[q].validRows = batch[q].validRows
  BY <1>2 DEF ImportInv, ImportTypeOK, BatchStates, Inserted
<1>5. \A q \in Requests, h \in Residences :
        importBill'[<<q, h>>] = IF q = r /\ importBill[<<q, h>>] = "DRAFT" THEN billStatus ELSE importBill[<<q, h>>]
  BY <1>2
<1>6. \A q \in Requests, h \in Residences : importBill'[<<q, h>>] = "NONE" <=> importBill[<<q, h>>] = "NONE"
  BY <1>5
<1>7. \A h \in Residences : PaidFor(h)' => PaidFor(h)
  BY <1>2, <1>5 DEF PaidFor, Blocking
<1>8. ruleBill' \in [Residences -> BillStates] /\ raced \subseteq raced' /\ raced' \subseteq Residences
  BY <1>2 DEF ImportInv, ImportTypeOK
<1> QED
  BY <1>2, <1>3, <1>4, <1>6, <1>7, <1>8, BillsMove

\* Whoever pays for a residence is remembered by every request that has validated.
LEMMA ImportPaymentStep ==
  ASSUME ImportInv, NEW h \in Residences,
         PayRuleBill(h) \/ (\E r \in Requests : PayImported(r, h))
         \/ \E status \in PaidOrBack : RefundRuleBill(h, status)
  PROVE  ImportInv'
<1>1. /\ UNCHANGED <<batch, twice, request>>
      /\ batch' \in [Requests -> [status : BatchStates, validRows : 0..Cardinality(Residences)]]
      /\ \A r \in Requests : /\ Inserted(r)' <=> Inserted(r)
                             /\ batch'[r].validRows = batch[r].validRows
  BY DEF PayRuleBill, RefundRuleBill, PayImported, ImportInv, ImportTypeOK, Inserted
<1>2. /\ ruleBill' \in [Residences -> BillStates]
      /\ importBill' \in [Requests \X Residences -> BillStates]
  BY DEF PayRuleBill, RefundRuleBill, PayImported, ImportInv, ImportTypeOK, BillStates, Blocking, PaidOrBack
<1>3. /\ raced \subseteq raced' /\ raced' \subseteq Residences
      /\ raced' # Crossing(h) => UNCHANGED importBill /\ (ruleBill'[h] \in Blocking => ruleBill[h] \in Blocking)
  BY DEF PayRuleBill, RefundRuleBill, RefundSteps, PayImported, Crossing, Blocking, ImportInv, ImportTypeOK
<1>4. \A r \in Requests, g \in Residences :
        /\ importBill'[<<r, g>>] = "NONE" <=> importBill[<<r, g>>] = "NONE"
        /\ g # h => importBill'[<<r, g>>] = importBill[<<r, g>>] /\ ruleBill'[g] = ruleBill[g]
  BY DEF PayRuleBill, RefundRuleBill, PayImported, ImportInv, ImportTypeOK
<1>5. \A g \in Residences : PaidFor(g)' =>
        \/ PaidFor(g)
        \/ \A r \in Requests : request[r].step = "insert" /\ g \in request[r].valid => g \in raced'
  <2> SUFFICES ASSUME NEW g \in Residences, PaidFor(g)', ~PaidFor(g),
                      NEW r \in Requests, request[r].step = "insert", g \in request[r].valid
               PROVE  g \in raced'
    OBVIOUS
  <2>1. g = h
    BY <1>4 DEF PaidFor
  <2>2. raced' = Crossing(h)
    BY <1>2, <1>3, <2>1 DEF PaidFor, ImportInv, ImportTypeOK
  <2> QED
    BY <2>1, <2>2 DEF Crossing
<1> QED
  BY <1>1, <1>2, <1>3, <1>4, <1>5, BillsMove

\* Requests to import and payments keep the invariant.
LEMMA ImportNextInv == ImportInv /\ [ImportNext]_importVars => ImportInv'
<1> SUFFICES ASSUME ImportInv, [ImportNext]_importVars PROVE ImportInv'
  OBVIOUS
<1>1. CASE UNCHANGED importVars
  BY <1>1 DEF importVars, ImportInv, ImportTypeOK, Inserted, FileOf, PaidFor, BatchAddsUp, PaidIsNotBilledAgainUnlessRaced
<1>2. ASSUME NEW r \in Requests, ImportFails(r) PROVE ImportInv'
  <2>1. /\ request[r].step # "done" /\ request' = [request EXCEPT ![r].step = "done"]
        /\ UNCHANGED <<batch, importBill, ruleBill, twice, raced>>
    BY <1>2 DEF ImportFails
  <2>2. /\ request' \in [Requests -> RequestRecords] /\ request'[r].step = "done" /\ FileOf(r)' = FileOf(r)
        /\ \A q \in Requests : q # r => request'[q] = request[q]
    BY <2>1 DEF ImportInv, ImportTypeOK, RequestRecords, FileOf
  <2> QED
    BY <2>1, <2>2, RequestMoves
<1> QED
  BY <1>1, <1>2, ValidateStep, InsertStep, CloseBatchStep, ImportPaymentStep DEF ImportNext

\* A set whose members are all equal has one at most.
LEMMA AtMostOne ==
  ASSUME NEW S, \A x, y \in S : x = y
  PROVE  Cardinality(S) <= 1
<1>1. CASE S = {}
  BY <1>1, FS_EmptySet
<1>2. CASE S # {}
  <2>1. PICK x : S = {x}
    BY <1>2
  <2> QED
    BY <2>1, FS_Singleton
<1> QED
  BY <1>1, <1>2

\* Imports, for any requests, files and houses.
THEOREM ImportStaysSound == ImportSpec => [](ImportTypeOK /\ ImportIsSound)
<1>1. ImportInv => ImportTypeOK /\ ImportIsSound
  <2> SUFFICES ASSUME ImportInv PROVE ImportIsSound
    BY DEF ImportInv
  <2>1. FileImportedOnce
    <3> SUFFICES ASSUME NEW f \in Files
                 PROVE  Cardinality({r \in Requests : FileOf(r) = f /\ batch[r].status # "NONE"}) <= 1
      BY DEF FileImportedOnce
    <3> QED
      BY AtMostOne DEF ImportInv, Inserted
  <2> QED
    BY <2>1 DEF ImportInv, ImportIsSound
<1> QED
  BY <1>1, ImportInitInv, ImportNextInv, PTL DEF ImportSpec

-----------------------------------------------------------------------------
(* Induction over finite sets, and sums *)

\* The member that a fold takes from s.
AnyOf(s) == CHOOSE x \in s : TRUE

\* f sums w over each subset of S.
Sums(w, S, f) == f = [s \in SUBSET S |-> IF s = {} THEN 0 ELSE w[AnyOf(s)] + f[s \ {AnyOf(s)}]]
\* The sums of w over the subsets of S.
SumsOf(w, S) == CHOOSE f : Sums(w, S, f)

\* The sum over a set is one of these.
LEMMA SumIs ==
  ASSUME NEW w, NEW S
  PROVE  SumFunctionOnSet(w, S) = SumsOf(w, S)[S]
BY DEF SumFunctionOnSet, FoldFunctionOnSet, MapThenFoldSet, SumsOf, Sums, AnyOf

\* What a fold takes from a set is in it.
LEMMA FirstIn ==
  ASSUME NEW s, s # {}
  PROVE  AnyOf(s) \in s
BY DEF AnyOf

\* Of some subsets of a finite set one has none of them below it.
LEMMA Smallest ==
  ASSUME NEW S, IsFiniteSet(S), NEW T \in SUBSET SUBSET S, T # {}
  PROVE  \E s \in T : \A u \in T : ~(u \subseteq s /\ u # s)
<1>1. IsWellFoundedOn(StrictSubsetOrdering(S), FiniteSubsetsOf(S))
  BY FS_StrictSubsetOrderingWellFounded
<1>2. T \subseteq FiniteSubsetsOf(S)
  BY FS_Subset DEF FiniteSubsetsOf
<1>3. PICK s \in T : \A u \in T : ~(<<u, s>> \in StrictSubsetOrdering(S))
  BY <1>1, <1>2, WFMin
<1>4. ASSUME NEW u \in T, u \subseteq s, u # s PROVE FALSE
  <2>1. <<u, s>> \in StrictSubsetOrdering(S)
    BY <1>4 DEF StrictSubsetOrdering
  <2> QED
    BY <1>3, <2>1
<1> QED
  BY <1>4

\* What holds of the empty set, and with a set of the set with one more, holds of every
\* subset.
LEMMA SubsetInduction ==
  ASSUME NEW S, IsFiniteSet(S), NEW Q, {} \in Q,
         \A s \in SUBSET S : s # {} /\ s \ {AnyOf(s)} \in Q => s \in Q
  PROVE  SUBSET S \subseteq Q
<1> SUFFICES ASSUME (SUBSET S) \ Q # {} PROVE FALSE
  OBVIOUS
<1>1. PICK s \in (SUBSET S) \ Q : \A u \in (SUBSET S) \ Q : ~(u \subseteq s /\ u # s)
  <2> DEFINE X == (SUBSET S) \ Q
  <2>1. X \in SUBSET SUBSET S /\ X # {}
    OBVIOUS
  <2> HIDE DEF X
  <2>2. \E s \in X : \A u \in X : ~(u \subseteq s /\ u # s)
    BY <2>1, Smallest
  <2> QED
    BY <2>2 DEF X
<1>2. s # {} /\ s \ {AnyOf(s)} \in SUBSET S
  BY <1>1
<1>3. s \ {AnyOf(s)} \notin Q
  BY <1>1, <1>2
<1>4. AnyOf(s) \in s
  BY <1>2, FirstIn
<1> QED
  BY <1>1, <1>2, <1>3, <1>4

\* Sums over the subsets of a smaller set are the same.
LEMMA SumsAgree ==
  ASSUME NEW S, IsFiniteSet(S), NEW U \in SUBSET S, NEW w, NEW f, NEW g, Sums(w, S, f), Sums(w, U, g)
  PROVE  \A s \in SUBSET U : f[s] = g[s]
<1> DEFINE Q == {s \in SUBSET U : f[s] = g[s]}
<1>1. IsFiniteSet(U)
  BY FS_Subset
<1>2. \A s \in SUBSET S : f[s] = IF s = {} THEN 0 ELSE w[AnyOf(s)] + f[s \ {AnyOf(s)}]
  BY DEF Sums
<1>3. \A s \in SUBSET U : g[s] = IF s = {} THEN 0 ELSE w[AnyOf(s)] + g[s \ {AnyOf(s)}]
  BY DEF Sums
<1>4. {} \in Q
  BY <1>2, <1>3
<1>5. \A s \in SUBSET U : s # {} /\ s \ {AnyOf(s)} \in Q => s \in Q
  BY <1>2, <1>3
<1> HIDE DEF Q
<1>6. SUBSET U \subseteq Q
  BY <1>1, <1>4, <1>5, SubsetInduction
<1> QED
  BY <1>6 DEF Q

\* There are such sums, so that the choice of them is one.
LEMMA SumsExist ==
  ASSUME NEW S, IsFiniteSet(S), NEW w
  PROVE  \A U \in SUBSET S : Sums(w, U, SumsOf(w, U))
<1> DEFINE Q == {U \in SUBSET S : Sums(w, U, SumsOf(w, U))}
<1> SUFFICES ASSUME (SUBSET S) \ Q # {} PROVE FALSE
  OBVIOUS
<1>1. PICK T \in (SUBSET S) \ Q : \A U \in (SUBSET S) \ Q : ~(U \subseteq T /\ U # T)
  <2> HIDE DEF Q
  <2> DEFINE X == (SUBSET S) \ Q
  <2>1. X \in SUBSET SUBSET S /\ X # {}
    OBVIOUS
  <2> HIDE DEF X
  <2>2. \E T \in X : \A U \in X : ~(U \subseteq T /\ U # T)
    BY <2>1, Smallest
  <2> QED
    BY <2>2 DEF X
<1>2. \A U \in SUBSET T : U # T => Sums(w, U, SumsOf(w, U))
  BY <1>1
<1> DEFINE Rest(s) == s \ {AnyOf(s)}
           f == [s \in SUBSET T |-> IF s = {} THEN 0 ELSE w[AnyOf(s)] + SumsOf(w, Rest(s))[Rest(s)]]
<1>3. ASSUME NEW s \in SUBSET T, s # {}
      PROVE  f[Rest(s)] = SumsOf(w, Rest(s))[Rest(s)]
  <2> DEFINE u == Rest(s)
             g == SumsOf(w, u)
  <2>1. u \in SUBSET T /\ u # T /\ IsFiniteSet(u)
    <3>1. AnyOf(s) \in s
      BY <1>3, FirstIn
    <3>2. u \in SUBSET S
      BY <1>1
    <3> QED
      BY <3>1, <3>2, FS_Subset
  <2>2. Sums(w, u, g)
    BY <1>2, <2>1
  <2>3. g[u] = IF u = {} THEN 0 ELSE w[AnyOf(u)] + g[Rest(u)]
    <3> HIDE DEF u, g
    <3> QED
      BY <2>2 DEF Sums
  <2>4. f[u] = IF u = {} THEN 0 ELSE w[AnyOf(u)] + SumsOf(w, Rest(u))[Rest(u)]
    <3> HIDE DEF u, g
    <3> QED
      BY <2>1
  <2>5. ASSUME u # {} PROVE g[Rest(u)] = SumsOf(w, Rest(u))[Rest(u)]
    <3>1. AnyOf(u) \in u
      BY <2>5, FirstIn
    <3>2. Rest(u) \in SUBSET u /\ Rest(u) # T /\ Rest(u) \in SUBSET T
      BY <2>1, <3>1
    <3>3. Sums(w, Rest(u), SumsOf(w, Rest(u)))
      BY <1>2, <3>2
    <3> HIDE DEF u, g, Rest
    <3> QED
      BY <2>1, <2>2, <3>2, <3>3, SumsAgree
  <2> HIDE DEF u, g
  <2>6. f[u] = g[u]
    BY <2>3, <2>4, <2>5
  <2> QED
    BY <2>6 DEF u, g
<1>4. Sums(w, T, f)
  <2>1. f = [s \in SUBSET T |-> IF s = {} THEN 0 ELSE w[AnyOf(s)] + f[Rest(s)]]
    <3>1. \A s \in SUBSET T : (IF s = {} THEN 0 ELSE w[AnyOf(s)] + SumsOf(w, Rest(s))[Rest(s)])
                              = (IF s = {} THEN 0 ELSE w[AnyOf(s)] + f[Rest(s)])
      <4> HIDE DEF f
      <4> QED
        BY <1>3
    <3> QED
      BY <3>1
  <2> QED
    BY <2>1, Zenon DEF Sums
<1>5. Sums(w, T, SumsOf(w, T))
  <2> HIDE DEF f
  <2> QED
    BY <1>4, Zenon DEF SumsOf
<1> QED
  BY <1>1, <1>5

\* A sum is one term and the sum of the others.
LEMMA SumStep ==
  ASSUME NEW S, IsFiniteSet(S), NEW w
  PROVE  SumFunctionOnSet(w, S) = IF S = {} THEN 0
                                  ELSE w[AnyOf(S)] + SumFunctionOnSet(w, S \ {AnyOf(S)})
<1> DEFINE R == S \ {AnyOf(S)}
<1>1. Sums(w, S, SumsOf(w, S)) /\ Sums(w, R, SumsOf(w, R))
  BY SumsExist
<1>2. SumsOf(w, S)[S] = IF S = {} THEN 0 ELSE w[AnyOf(S)] + SumsOf(w, S)[R]
  <2>1. \A s \in SUBSET S : SumsOf(w, S)[s] = IF s = {} THEN 0 ELSE w[AnyOf(s)] + SumsOf(w, S)[s \ {AnyOf(s)}]
    BY <1>1 DEF Sums
  <2> QED
    BY <2>1
<1>3. SumsOf(w, S)[R] = SumsOf(w, R)[R]
  <2>1. R \in SUBSET S /\ R \in SUBSET R
    OBVIOUS
  <2> HIDE DEF R
  <2> QED
    BY <1>1, <2>1, SumsAgree
<1> QED
  BY <1>2, <1>3, SumIs

\* Sums of natural numbers are natural numbers.
LEMMA SumIsNat ==
  ASSUME NEW S, IsFiniteSet(S), NEW w \in [S -> Nat]
  PROVE  \A s \in SUBSET S : SumFunctionOnSet(w, s) \in Nat
<1> DEFINE Q == {s \in SUBSET S : SumFunctionOnSet(w, s) \in Nat}
<1>1. \A s \in SUBSET S : SumFunctionOnSet(w, s) = IF s = {} THEN 0
                                  ELSE w[AnyOf(s)] + SumFunctionOnSet(w, s \ {AnyOf(s)})
  BY FS_Subset, SumStep
<1>2. {} \in Q
  <2>1. IsFiniteSet({})
    BY FS_EmptySet
  <2>2. SumFunctionOnSet(w, {}) = 0
    BY <2>1, SumStep
  <2> QED
    BY <2>2
<1>3. \A s \in SUBSET S : s # {} /\ s \ {AnyOf(s)} \in Q => s \in Q
  <2> SUFFICES ASSUME NEW s \in SUBSET S, s # {}, s \ {AnyOf(s)} \in Q PROVE s \in Q
    OBVIOUS
  <2>1. w[AnyOf(s)] \in Nat
    BY FirstIn
  <2> QED
    BY <1>1, <2>1
<1> HIDE DEF Q
<1>4. SUBSET S \subseteq Q
  BY <1>2, <1>3, SubsetInduction
<1> QED
  BY <1>4 DEF Q

\* A sum is positive where a term is.
LEMMA SumIsPositive ==
  ASSUME NEW S, IsFiniteSet(S), NEW w \in [S -> Nat], S # {}, \A h \in S : w[h] > 0
  PROVE  SumFunctionOnSet(w, S) \in Nat \ {0}
<1> DEFINE R == S \ {AnyOf(S)}
<1>1. SumFunctionOnSet(w, S) = w[AnyOf(S)] + SumFunctionOnSet(w, R)
  BY SumStep
<1>2. SumFunctionOnSet(w, R) \in Nat
  BY SumIsNat
<1>3. w[AnyOf(S)] > 0 /\ w[AnyOf(S)] \in Nat
  BY FirstIn
<1> QED
  BY <1>1, <1>2, <1>3

\* At each h, t times its weight divided by d: quotient f and remainder r.
Divided(S, w, f, r, d, t) == \A h \in S : d * f[h] + r[h] = t * w[h]

\* Division, term by term.
LEMMA SumsDivide ==
  ASSUME NEW S, IsFiniteSet(S), NEW w \in [S -> Nat], NEW f \in [S -> Nat], NEW r \in [S -> Nat],
         NEW d \in Nat, NEW t \in Nat, Divided(S, w, f, r, d, t)
  PROVE  d * SumFunctionOnSet(f, S) + SumFunctionOnSet(r, S) = t * SumFunctionOnSet(w, S)
<1> DEFINE F(s) == SumFunctionOnSet(f, s)
           R(s) == SumFunctionOnSet(r, s)
           W(s) == SumFunctionOnSet(w, s)
           Q == {s \in SUBSET S : d * F(s) + R(s) = t * W(s)}
<1>1. \A s \in SUBSET S :
        /\ F(s) = (IF s = {} THEN 0 ELSE f[AnyOf(s)] + F(s \ {AnyOf(s)}))
        /\ R(s) = (IF s = {} THEN 0 ELSE r[AnyOf(s)] + R(s \ {AnyOf(s)}))
        /\ W(s) = (IF s = {} THEN 0 ELSE w[AnyOf(s)] + W(s \ {AnyOf(s)}))
  BY FS_Subset, SumStep
<1>2. \A s \in SUBSET S : F(s) \in Nat /\ R(s) \in Nat /\ W(s) \in Nat
  BY SumIsNat
<1> HIDE DEF F, R, W
<1>3. {} \in Q
  <2>1. F({}) = 0 /\ R({}) = 0 /\ W({}) = 0
    BY <1>1
  <2>2. d * 0 + 0 = t * 0
    OBVIOUS
  <2> QED
    BY <2>1, <2>2
<1>4. \A s \in SUBSET S : s # {} /\ s \ {AnyOf(s)} \in Q => s \in Q
  <2> SUFFICES ASSUME NEW s \in SUBSET S, s # {}, s \ {AnyOf(s)} \in Q PROVE s \in Q
    OBVIOUS
  <2> DEFINE h == AnyOf(s)
             u == s \ {h}
  <2>1. h \in S
    BY FirstIn
  <2>2. F(s) = f[h] + F(u) /\ R(s) = r[h] + R(u) /\ W(s) = w[h] + W(u)
    BY <1>1
  <2>3. d * F(u) + R(u) = t * W(u) /\ u \in SUBSET S
    OBVIOUS
  <2>4. F(u) \in Nat /\ R(u) \in Nat /\ W(u) \in Nat /\ f[h] \in Nat /\ r[h] \in Nat /\ w[h] \in Nat
        /\ d * f[h] + r[h] = t * w[h]
    BY <1>2, <2>1, <2>3 DEF Divided
  <2> HIDE DEF h, u
  <2>5. d * (f[h] + F(u)) = d * f[h] + d * F(u) /\ t * (w[h] + W(u)) = t * w[h] + t * W(u)
    BY <2>4
  <2>6. d * f[h] \in Nat /\ d * F(u) \in Nat /\ t * w[h] \in Nat /\ t * W(u) \in Nat
    BY <2>4
  <2>7. d * F(s) + R(s) = t * W(s)
    BY <2>2, <2>3, <2>4, <2>5, <2>6
  <2> QED
    BY <2>7
<1> HIDE DEF Q
<1>5. SUBSET S \subseteq Q
  BY <1>3, <1>4, SubsetInduction
<1>6. S \in Q
  BY <1>5
<1> QED
  BY <1>6 DEF Q, F, R, W

\* The members of P are counted one by one.
LEMMA CountStep ==
  ASSUME NEW S, IsFiniteSet(S), NEW P \in SUBSET S
  PROVE  /\ Cardinality({} \cap P) = 0
         /\ \A s \in SUBSET S : Cardinality(s \cap P) \in Nat
         /\ \A s \in SUBSET S : s # {} =>
              Cardinality(s \cap P) = Cardinality((s \ {AnyOf(s)}) \cap P) + (IF AnyOf(s) \in P THEN 1 ELSE 0)
<1>1. \A s \in SUBSET S : IsFiniteSet(s \cap P)
  <2>1. \A s \in SUBSET S : s \cap P \in SUBSET S
    OBVIOUS
  <2> QED
    BY <2>1, FS_Subset
<1>2. {} \cap P = {}
  OBVIOUS
<1>3. ASSUME NEW s \in SUBSET S, s # {}
      PROVE  Cardinality(s \cap P) = Cardinality((s \ {AnyOf(s)}) \cap P) + (IF AnyOf(s) \in P THEN 1 ELSE 0)
  <2> DEFINE h == AnyOf(s)
             u == (s \ {h}) \cap P
  <2>1. h \in s /\ s \ {h} \in SUBSET S
    BY <1>3, FirstIn
  <2>2. IsFiniteSet(u) /\ h \notin u
    BY <1>1, <2>1
  <2>3. s \cap P = IF h \in P THEN u \cup {h} ELSE u
    BY <2>1
  <2> HIDE DEF h, u
  <2>4. Cardinality(u \cup {h}) = Cardinality(u) + 1 /\ Cardinality(u) \in Nat
    BY <2>2, FS_AddElement, FS_CardinalityType
  <2>5. Cardinality(s \cap P) = Cardinality(u) + (IF h \in P THEN 1 ELSE 0)
    BY <2>3, <2>4
  <2> QED
    BY <2>5 DEF h, u
<1> QED
  BY <1>1, <1>2, <1>3, FS_EmptySet, FS_CardinalityType

\* Terms of k at most, of which P may be more than 0.
LEMMA SumIsBounded ==
  ASSUME NEW S, IsFiniteSet(S), NEW P \in SUBSET S, NEW r \in [S -> Nat], NEW k \in Nat,
         \A h \in P : r[h] <= k, \A h \in S \ P : r[h] = 0
  PROVE  SumFunctionOnSet(r, S) <= k * Cardinality(P)
<1> DEFINE R(s) == SumFunctionOnSet(r, s)
           N(s) == Cardinality(s \cap P)
           Q == {s \in SUBSET S : R(s) <= k * N(s)}
<1>1. \A s \in SUBSET S : R(s) = IF s = {} THEN 0 ELSE r[AnyOf(s)] + R(s \ {AnyOf(s)})
  BY FS_Subset, SumStep
<1>2. \A s \in SUBSET S : R(s) \in Nat /\ N(s) \in Nat
  BY SumIsNat, CountStep
<1>3. /\ N({}) = 0
      /\ \A s \in SUBSET S : s # {} => N(s) = N(s \ {AnyOf(s)}) + (IF AnyOf(s) \in P THEN 1 ELSE 0)
  BY CountStep
<1> HIDE DEF R, N
<1>4. {} \in Q
  <2>1. R({}) = 0
    BY <1>1
  <2>2. k * 0 = 0
    OBVIOUS
  <2> QED
    BY <1>3, <2>1, <2>2
<1>5. \A s \in SUBSET S : s # {} /\ s \ {AnyOf(s)} \in Q => s \in Q
  <2> SUFFICES ASSUME NEW s \in SUBSET S, s # {}, s \ {AnyOf(s)} \in Q PROVE s \in Q
    OBVIOUS
  <2> DEFINE h == AnyOf(s)
             u == s \ {h}
  <2>1. h \in S /\ u \in SUBSET S /\ R(u) <= k * N(u)
    BY FirstIn
  <2>2. R(s) = r[h] + R(u) /\ N(s) = N(u) + (IF h \in P THEN 1 ELSE 0)
    BY <1>1, <1>3
  <2>3. R(u) \in Nat /\ N(u) \in Nat /\ r[h] \in Nat
    BY <1>2, <2>1
  <2>4. r[h] <= IF h \in P THEN k ELSE 0
    BY <2>1, <2>3
  <2> HIDE DEF h, u
  <2>5. k * (N(u) + 1) = k * N(u) + k /\ k * N(u) \in Nat
    BY <2>3
  <2>6. R(s) <= k * N(s)
    BY <2>1, <2>2, <2>3, <2>4, <2>5
  <2> QED
    BY <2>6
<1> HIDE DEF Q
<1>6. SUBSET S \subseteq Q
  BY <1>4, <1>5, SubsetInduction
<1>7. S \in Q /\ S \cap P = P
  BY <1>6
<1> QED
  BY <1>7 DEF Q, R, N

\* One more for each of P.
LEMMA SumOfOneMore ==
  ASSUME NEW S, IsFiniteSet(S), NEW P \in SUBSET S, NEW f \in [S -> Nat]
  PROVE  SumFunctionOnSet([h \in S |-> f[h] + (IF h \in P THEN 1 ELSE 0)], S)
         = SumFunctionOnSet(f, S) + Cardinality(P)
<1> DEFINE g == [h \in S |-> f[h] + (IF h \in P THEN 1 ELSE 0)]
           F(s) == SumFunctionOnSet(f, s)
           G(s) == SumFunctionOnSet(g, s)
           N(s) == Cardinality(s \cap P)
           Q == {s \in SUBSET S : G(s) = F(s) + N(s)}
<1>1. \A h \in S : g[h] \in Nat /\ f[h] \in Nat /\ g[h] = f[h] + (IF h \in P THEN 1 ELSE 0)
  OBVIOUS
<1>2. g \in [S -> Nat]
  OBVIOUS
<1> HIDE DEF g
<1>3. \A s \in SUBSET S :
        /\ F(s) = (IF s = {} THEN 0 ELSE f[AnyOf(s)] + F(s \ {AnyOf(s)}))
        /\ G(s) = (IF s = {} THEN 0 ELSE g[AnyOf(s)] + G(s \ {AnyOf(s)}))
  BY FS_Subset, SumStep
<1>4. \A s \in SUBSET S : F(s) \in Nat /\ G(s) \in Nat /\ N(s) \in Nat
  BY <1>2, SumIsNat, CountStep
<1>5. /\ N({}) = 0
      /\ \A s \in SUBSET S : s # {} => N(s) = N(s \ {AnyOf(s)}) + (IF AnyOf(s) \in P THEN 1 ELSE 0)
  BY CountStep
<1> HIDE DEF F, G, N
<1>6. {} \in Q
  <2>1. F({}) = 0 /\ G({}) = 0
    BY <1>3
  <2> QED
    BY <1>5, <2>1
<1>7. \A s \in SUBSET S : s # {} /\ s \ {AnyOf(s)} \in Q => s \in Q
  <2> SUFFICES ASSUME NEW s \in SUBSET S, s # {}, s \ {AnyOf(s)} \in Q PROVE s \in Q
    OBVIOUS
  <2> DEFINE h == AnyOf(s)
             u == s \ {h}
  <2>1. h \in S /\ u \in SUBSET S /\ G(u) = F(u) + N(u)
    BY FirstIn
  <2>2. F(s) = f[h] + F(u) /\ G(s) = g[h] + G(u) /\ N(s) = N(u) + (IF h \in P THEN 1 ELSE 0)
    BY <1>3, <1>5
  <2> HIDE DEF h, u
  <2>3. G(s) = F(s) + N(s)
    BY <1>1, <1>4, <2>1, <2>2
  <2> QED
    BY <2>3
<1> HIDE DEF Q
<1>8. SUBSET S \subseteq Q
  BY <1>6, <1>7, SubsetInduction
<1>9. S \in Q /\ S \cap P = P
  BY <1>8
<1> QED
  BY <1>9 DEF Q, F, G, N, g

\* A finite set of numbers has a largest member.
LEMMA SetMax ==
  ASSUME NEW S, \A n \in S : n \in Int, IsFiniteSet(S), S # {}
  PROVE  \E x \in S : \A y \in S : x >= y
<1> DEFINE Above(x) == {z \in S : z > x}
           T == {Above(x) : x \in S}
<1>1. T \in SUBSET SUBSET S /\ T # {}
  OBVIOUS
<1>2. PICK s \in T : \A u \in T : ~(u \subseteq s /\ u # s)
  <2>1. \A X \in SUBSET SUBSET S : X # {} => \E s \in X : \A u \in X : ~(u \subseteq s /\ u # s)
    BY Smallest
  <2> HIDE DEF T, Above
  <2> QED
    BY <1>1, <2>1
<1>3. PICK x \in S : \A z \in S : ~(Above(z) \subseteq Above(x) /\ Above(z) # Above(x))
  <2>1. PICK x \in S : s = Above(x)
    OBVIOUS
  <2>2. \A z \in S : Above(z) \in T
    OBVIOUS
  <2> HIDE DEF T, Above
  <2> QED
    BY <1>2, <2>1, <2>2
<1>4. ASSUME NEW y \in S, y > x PROVE FALSE
  <2>1. y \in Int /\ x \in Int /\ \A z \in S : z \in Int
    OBVIOUS
  <2>2. y \in Above(x) /\ y \notin Above(y)
    BY <1>4, <2>1
  <2>3. ASSUME NEW z \in Above(y) PROVE z \in Above(x)
    BY <1>4, <2>1, <2>3
  <2> QED
    BY <1>3, <2>2, <2>3
<1>5. \A y \in S : x \in Int /\ y \in Int
  OBVIOUS
<1> QED
  BY <1>4, <1>5

\* It has a smallest one too.
LEMMA SetMin ==
  ASSUME NEW S, S \subseteq Int, IsFiniteSet(S), S # {}
  PROVE  \E x \in S : \A y \in S : x <= y
<1> DEFINE N == {-q : q \in S}
<1>1. N # {}
  OBVIOUS
<1>2. \A n \in N : n \in Int /\ -n \in S
  OBVIOUS
<1>3. IsFiniteSet(N)
  <2> DEFINE f == [x \in S |-> -x]
  <2>1. f \in Surjection(S, N)
    BY DEF Surjection
  <2> QED
    BY <2>1, FS_Surjection
<1>4. \A y \in S : -y \in N
  OBVIOUS
<1> HIDE DEF N
<1>5. PICK n \in N : \A y \in N : n >= y
  BY <1>1, <1>2, <1>3, SetMax
<1>6. \A y \in S : -n <= y
  <2> TAKE y \in S
  <2>1. n >= -y
    BY <1>4, <1>5
  <2> QED
    BY <2>1, <1>2
<1> QED
  BY <1>2, <1>6

-----------------------------------------------------------------------------
(* Meter *)

\* The reading q still has the prevValue that the request under way is about to replace.
Follows(q) == \E r \in Readers : ReaderAt(r, "follow") /\ reader[r].after = q

\* Recorded values rise from period to period.
ValuesRise ==
  /\ \A q \in Periods : value[q] = -1 => prevValue[q] = -1 /\ charged[q] = -1
  /\ \A p, q \in Recorded : p < q => value[p] <= value[q]

\* A recorded reading starts where the one before it ends, but for the one that is being
\* followed.
ChainHolds ==
  \A q \in Recorded : ~Follows(q) =>
     prevValue[q] = IF Before(q) = 0 THEN -1 ELSE value[Before(q)]

\* A charge is a difference of recorded values, but for readings written after the run had
\* read them.
ChargesHold ==
  \A q \in Periods : charged[q] # -1 =>
     /\ ~Follows(q) /\ Before(q) # 0
     /\ q \notin revised \cup outrun => charged[q] = value[q] - value[Before(q)]

\* And so is what a run is about to charge.
BillingHolds ==
  \A q \in Periods : \A u \in billing[q] :
     /\ value[q] # -1 /\ prevValue[q] # -1
     /\ q \notin revised \cup outrun => u = value[q] - prevValue[q]

\* One request at a time is under way.
OneReader == \A r, s \in Recording : r = s

\* What the request under way has read still stands.
ReaderHolds(r) ==
  LET p == reader[r].period
      b == reader[r].before
      a == reader[r].after
  IN
  /\ p \in Periods /\ reader[r].shown \in Figures
  /\ ~ReaderAt(r, "follow") => b = Before(p) /\ reader[r].was = (IF b = 0 THEN -1 ELSE value[b])
  /\ b # 0 => b \in Recorded /\ b < p /\ value[b] <= reader[r].shown
  /\ ReaderAt(r, "next") => a = 0
  /\ ~ReaderAt(r, "next") => a = After(p)
  /\ a # 0 => reader[r].shown <= value[a]
  /\ ReaderAt(r, "write") /\ a # 0 => charged[a] = -1
  /\ ReaderAt(r, "billed") => a # 0
  /\ ReaderAt(r, "follow") => /\ a # 0 /\ charged[a] = -1
                              /\ value[p] = reader[r].shown

\* Every request under way is about a period, and so is its second write.
ReadersAim ==
  \A r \in Recording : /\ reader[r].period \in Periods
                       /\ ReaderAt(r, "follow") => reader[r].after \in Periods

\* What holds of the meter as long as nothing is doubtful.
MeterInv ==
  /\ ReadersAim
  /\ ~doubtful => /\ ValuesRise /\ ChainHolds /\ ChargesHold /\ BillingHolds /\ OneReader
                  /\ \A r \in Recording : ReaderHolds(r)
-----------------------------------------------------------------------------
\* The neighbours of period p among the periods of R.
BeforeIn(R, p) == Max({0} \cup {q \in R : q < p})
AfterIn(R, p)  == IF \E q \in R : q > p THEN Min({q \in R : q > p}) ELSE 0

\* What the neighbours are, without maximum and minimum.
IsBefore(R, p, b) == /\ b \in 0..LastPeriod /\ b < p
                     /\ b # 0 => b \in R
                     /\ \A q \in R : q < p => q <= b
IsAfter(R, p, a)  == /\ a \in 0..LastPeriod
                     /\ a # 0 => a \in R /\ p < a
                     /\ \A q \in R : p < q => a # 0 /\ a <= q

\* There are finitely many periods.
LEMMA FinitePeriods ==
  ASSUME NEW R \in SUBSET Periods
  PROVE  IsFiniteSet(R)
<1>1. IsFiniteSet(1..LastPeriod)
  BY MeterAssumption, FS_Interval
<1> QED
  BY <1>1, FS_Subset DEF Periods

\* The neighbour before is what it should be,
LEMMA BeforeInIs ==
  ASSUME NEW R \in SUBSET Periods, NEW p \in Periods
  PROVE  IsBefore(R, p, BeforeIn(R, p))
<1> DEFINE S == {0} \cup {q \in R : q < p}
<1>1. \A x \in S : x \in 0..LastPeriod /\ x < p
  BY MeterAssumption DEF Periods
<1>2. 0 \in S /\ \A q \in R : q < p => q \in S
  OBVIOUS
<1>3. \A x \in S : x # 0 => x \in R
  OBVIOUS
<1>4. IsFiniteSet(S)
  <2>1. IsFiniteSet(0..LastPeriod)
    BY MeterAssumption, FS_Interval
  <2>2. S \subseteq 0..LastPeriod
    BY <1>1
  <2> QED
    BY <2>1, <2>2, FS_Subset
<1>5. BeforeIn(R, p) = Max(S)
  BY DEF BeforeIn
<1> HIDE DEF S
<1>6. \E x \in S : \A y \in S : x >= y
  <2>1. S \subseteq Int
    BY <1>1
  <2> QED
    BY <2>1, <1>2, <1>4, SetMax
<1>7. BeforeIn(R, p) \in S /\ \A y \in S : BeforeIn(R, p) >= y
  BY <1>5, <1>6 DEF Max
<1>8. ASSUME NEW q \in R, q < p PROVE q <= BeforeIn(R, p)
  <2>1. q \in Int /\ BeforeIn(R, p) \in Int
    BY <1>1, <1>7 DEF Periods
  <2> QED
    BY <2>1, <1>8, <1>2, <1>7
<1> QED
  BY <1>1, <1>3, <1>7, <1>8 DEF IsBefore

\* and so is the neighbour after;
LEMMA AfterInIs ==
  ASSUME NEW R \in SUBSET Periods, NEW p \in Periods
  PROVE  IsAfter(R, p, AfterIn(R, p))
<1>1. CASE \E q \in R : q > p
  <2> DEFINE S == {q \in R : q > p}
  <2>1. S # {} /\ \A x \in S : x \in R /\ x \in 0..LastPeriod /\ p < x
    BY <1>1, MeterAssumption DEF Periods
  <2>2. \A q \in R : p < q => q \in S
    BY DEF Periods
  <2>3. IsFiniteSet(S)
    <3>1. S \in SUBSET Periods
      BY <2>1
    <3> QED
      BY <3>1, FinitePeriods
  <2>4. AfterIn(R, p) = Min(S)
    BY <1>1 DEF AfterIn
  <2> HIDE DEF S
  <2>5. \E x \in S : \A y \in S : x <= y
    <3>1. S \subseteq Int
      BY <2>1
    <3> QED
      BY <3>1, <2>1, <2>3, SetMin
  <2>6. AfterIn(R, p) \in S /\ \A y \in S : AfterIn(R, p) <= y
    BY <2>4, <2>5 DEF Min
  <2>7. AfterIn(R, p) # 0
    BY <2>1, <2>6 DEF Periods
  <2> QED
    BY <2>1, <2>2, <2>6, <2>7 DEF IsAfter
<1>2. CASE ~\E q \in R : q > p
  BY <1>2, MeterAssumption DEF IsAfter, AfterIn, Periods
<1> QED
  BY <1>1, <1>2

\* nothing else is the neighbour before,
LEMMA BeforeOnly ==
  ASSUME NEW R \in SUBSET Periods, NEW p \in Periods, NEW b, IsBefore(R, p, b)
  PROVE  b = BeforeIn(R, p)
<1>1. IsBefore(R, p, BeforeIn(R, p))
  BY BeforeInIs
<1> QED
  BY <1>1 DEF IsBefore, Periods

\* nor the neighbour after.
LEMMA AfterOnly ==
  ASSUME NEW R \in SUBSET Periods, NEW p \in Periods, NEW a, IsAfter(R, p, a)
  PROVE  a = AfterIn(R, p)
<1>1. IsAfter(R, p, AfterIn(R, p))
  BY AfterInIs
<1> QED
  BY <1>1 DEF IsAfter, Periods

\* The model's neighbours are those among the recorded periods.
LEMMA Neighbours ==
  ASSUME NEW p
  PROVE  Before(p) = BeforeIn(Recorded, p) /\ After(p) = AfterIn(Recorded, p)
BY DEF Before, After, BeforeIn, AfterIn

\* A period that joins the recorded ones becomes the neighbour of the next, and of no
\* other.
LEMMA NeighboursJoined ==
  ASSUME NEW R \in SUBSET Periods, NEW p \in Periods
  PROVE  /\ AfterIn(R \cup {p}, p) = AfterIn(R, p)
         /\ \A q \in Periods : BeforeIn(R \cup {p}, q) =
              IF p < q /\ BeforeIn(R, q) < p THEN p ELSE BeforeIn(R, q)
<1>1. IsAfter(R \cup {p}, p, AfterIn(R, p))
  BY AfterInIs DEF IsAfter, Periods
<1>2. ASSUME NEW q \in Periods
      PROVE  IsBefore(R \cup {p}, q, IF p < q /\ BeforeIn(R, q) < p THEN p ELSE BeforeIn(R, q))
  BY BeforeInIs, MeterAssumption DEF IsBefore, Periods
<1>3. R \cup {p} \in SUBSET Periods
  OBVIOUS
<1> QED
  BY <1>1, <1>2, <1>3, BeforeOnly, AfterOnly

\* While no value changes the neighbours stay.
LEMMA NeighboursStay ==
  ASSUME UNCHANGED value
  PROVE  Recorded' = Recorded /\ \A q : Before(q)' = Before(q) /\ After(q)' = After(q)
BY DEF Recorded, Before, After

\* The neighbours of a period are recorded periods on its two sides.
LEMMA NeighbourTypes ==
  ASSUME MeterTypeOK, NEW p \in Periods
  PROVE  /\ IsBefore(Recorded, p, Before(p)) /\ Before(p) \in 0..LastPeriod
         /\ IsAfter(Recorded, p, After(p)) /\ After(p) \in 0..LastPeriod
<1>1. Recorded \in SUBSET Periods
  BY DEF Recorded
<1> QED
  BY <1>1, Neighbours, BeforeInIs, AfterInIs DEF IsBefore, IsAfter

\* An idle request has its type.
LEMMA UnreadIn == Unread \in ReaderRecords
<1>1. 0 \in 0..LastPeriod /\ -1 \in Readings
  BY MeterAssumption DEF Readings
<1> QED
  BY <1>1, Zenon DEF Unread, ReaderRecords

\* At first nothing is recorded.
LEMMA MeterInitInv == MeterInit => MeterTypeOK /\ MeterInv
<1> SUFFICES ASSUME MeterInit PROVE MeterTypeOK /\ MeterInv
  OBVIOUS
<1>1. MeterTypeOK
  <2>1. Unread \in ReaderRecords
    BY UnreadIn
  <2>2. -1 \in Readings
    BY MeterAssumption DEF Readings
  <2> QED
    BY <2>1, <2>2 DEF MeterInit, MeterTypeOK
<1>2. Recorded = {} /\ Recording = {}
  BY DEF MeterInit, Recorded, Recording, ReaderAt, Unread
<1> QED
  BY <1>1, <1>2 DEF MeterInv, ReadersAim, ValuesRise, ChainHolds, ChargesHold, BillingHolds, OneReader, MeterInit

\* A request that moves leaves the others alone.
LEMMA ReaderRecordIs ==
  ASSUME MeterTypeOK, NEW r \in Readers, NEW rec \in ReaderRecords, reader' = [reader EXCEPT ![r] = rec]
  PROVE  /\ reader' \in [Readers -> ReaderRecords]
         /\ reader'[r] = rec /\ \A s \in Readers \ {r} : reader'[s] = reader[s]
BY DEF MeterTypeOK

\* Who begins reads the neighbour before, which nobody changes without becoming doubtful.
LEMMA BeginningReads ==
  ASSUME MeterTypeOK, MeterInv, NEW r \in Readers, NEW p \in Periods, NEW v \in Figures, BeginReading(r, p, v)
  PROVE  MeterTypeOK' /\ MeterInv'
<1> DEFINE b == Before(p)
           was == IF b = 0 THEN -1 ELSE value[b]
           rec == [step |-> "next", period |-> p, shown |-> v, before |-> b, was |-> was, after |-> 0]
<1>1. reader' = [reader EXCEPT ![r] = rec]
  BY Zenon DEF BeginReading
<1>2. b \in 0..LastPeriod /\ IsBefore(Recorded, p, b)
  BY NeighbourTypes
<1>3. was \in Readings /\ (b # 0 => b \in Recorded /\ b \in Periods)
  BY <1>2, MeterAssumption DEF Readings, MeterTypeOK, IsBefore, Recorded
<1>4. rec \in ReaderRecords
  <2>1. p \in 0..LastPeriod /\ v \in Readings /\ 0 \in 0..LastPeriod
    BY MeterAssumption DEF Periods, Figures, Readings
  <2> QED
    BY <1>2, <1>3, <2>1, Zenon DEF ReaderRecords
<1> HIDE DEF rec
<1>5. /\ reader' \in [Readers -> ReaderRecords]
      /\ reader'[r] = rec /\ \A s \in Readers \ {r} : reader'[s] = reader[s]
  BY <1>1, <1>4, ReaderRecordIs
<1> USE DEF rec
<1>6. MeterTypeOK'
  BY <1>5, Zenon DEF MeterTypeOK, BeginReading
<1>7. ReadersAim'
  <2>1. reader'[r].period \in Periods
    <3> HIDE DEF b, was
    <3> QED
      BY <1>5
  <2> QED
    BY <1>5, <2>1 DEF MeterInv, ReadersAim, Recording, ReaderAt
<1>8. ASSUME ~doubtful' PROVE MeterInv'
  <2>1. ~doubtful /\ Recording = {}
    BY <1>8 DEF BeginReading
  <2>2. /\ UNCHANGED <<value, prevValue, charged, billing, revised, outrun>>
        /\ Recorded' = Recorded /\ \A q : Before(q)' = Before(q) /\ After(q)' = After(q)
    BY NeighboursStay DEF BeginReading
  <2>3. /\ \A s \in Readers : reader[s].step = "idle"
        /\ Recording' = {r} /\ reader'[r].step = "next"
    BY <1>5, <2>1 DEF Recording, ReaderAt
  <2>4. \A q : ~Follows(q) /\ ~Follows(q)'
    BY <1>5, <2>3 DEF Follows, ReaderAt
  <2>5. ReaderHolds(r)'
    <3>1. /\ reader'[r].step = "next" /\ reader'[r].period = p /\ reader'[r].shown = v
          /\ reader'[r].before = b /\ reader'[r].was = was /\ reader'[r].after = 0
      <4> HIDE DEF b, was
      <4> QED
        BY <1>5
    <3>2. b # 0 => value[b] <= v
      BY <1>3 DEF BeginReading, MeterTypeOK, Readings, Figures
    <3>3. b # 0 => b < p
      BY <1>2 DEF IsBefore
    <3> HIDE DEF b, was
    <3>4. b = Before(p)' /\ was = (IF b = 0 THEN -1 ELSE value'[b])
      BY <2>2 DEF b, was
    <3>5. b # 0 => b \in Recorded'
      BY <1>3, <2>2
    <3> QED
      BY <2>2, <3>1, <3>2, <3>3, <3>4, <3>5 DEF ReaderHolds, ReaderAt
  <2>6. ValuesRise' /\ ChainHolds' /\ ChargesHold' /\ BillingHolds' /\ OneReader'
    BY <2>1, <2>2, <2>3, <2>4 DEF MeterInv, ValuesRise, ChainHolds, ChargesHold, BillingHolds, OneReader
  <2> QED
    BY <1>7, <2>3, <2>5, <2>6 DEF MeterInv
<1> QED
  BY <1>6, <1>8, <1>7 DEF MeterInv

\* While nothing is doubtful only the request under way follows a reading.
LEMMA NobodyElse ==
  ASSUME MeterInv, ~doubtful, NEW r \in Recording
  PROVE  /\ \A s \in Readers \ {r} : reader[s].step = "idle"
         /\ ReaderHolds(r)
         /\ \A q : Follows(q) <=> (reader[r].step = "follow" /\ reader[r].after = q)
BY DEF MeterInv, OneReader, Recording, ReaderAt, Follows

\* A request that writes nothing, and holds what it should afterwards, keeps the
\* invariant.
LEMMA ReaderMoves ==
  ASSUME MeterTypeOK, MeterInv, NEW r \in Readers, NEW rec \in ReaderRecords,
         reader' = [reader EXCEPT ![r] = rec], ~(reader[r].step = "idle"), ~(reader[r].step = "follow"),
         ~(rec.step = "follow"), UNCHANGED <<value, prevValue, charged, billing, doubtful, revised, outrun>>,
         rec.period = reader[r].period \/ rec.step = "idle",
         ~doubtful /\ ~(rec.step = "idle") => ReaderHolds(r)'
  PROVE  MeterTypeOK' /\ MeterInv'
<1>1. /\ reader' \in [Readers -> ReaderRecords]
      /\ reader'[r] = rec /\ \A s \in Readers \ {r} : reader'[s] = reader[s]
  BY ReaderRecordIs
<1>2. MeterTypeOK'
  BY <1>1, Zenon DEF MeterTypeOK
<1>3. ReadersAim'
  BY <1>1 DEF MeterInv, ReadersAim, Recording, ReaderAt
<1>4. ASSUME ~doubtful PROVE MeterInv'
  <2>1. Recorded' = Recorded /\ \A q : Before(q)' = Before(q) /\ After(q)' = After(q)
    BY NeighboursStay
  <2>2. r \in Recording
    BY DEF Recording, ReaderAt
  <2>3. /\ \A s \in Readers \ {r} : reader[s].step = "idle"
        /\ \A q : ~Follows(q)
    BY <1>4, <2>2, NobodyElse
  <2>4. \A q : ~Follows(q)'
    BY <1>1, <2>3 DEF Follows, ReaderAt
  <2>5. /\ \A s \in Recording' : s = r
        /\ r \in Recording' => ~(rec.step = "idle")
    BY <1>1, <2>3 DEF Recording, ReaderAt
  <2>6. ValuesRise /\ ChainHolds /\ ChargesHold /\ BillingHolds
    BY <1>4 DEF MeterInv
  <2>7. ValuesRise' /\ ChainHolds' /\ ChargesHold' /\ BillingHolds' /\ OneReader'
    BY <2>1, <2>3, <2>4, <2>5, <2>6 DEF ValuesRise, ChainHolds, ChargesHold, BillingHolds, OneReader
  <2> QED
    BY <1>4, <1>3, <2>5, <2>7 DEF MeterInv
<1> QED
  BY <1>2, <1>4, <1>3 DEF MeterInv

\* The neighbour after is read, or refuses the value.
LEMMA LookingReads ==
  ASSUME MeterTypeOK, MeterInv, NEW r \in Readers, ReadNext(r)
  PROVE  MeterTypeOK' /\ MeterInv'
<1> DEFINE old == reader[r]
           p == old.period
           a == After(p)
           rec == IF a = 0 THEN [old EXCEPT !.step = "write"]
                  ELSE IF old.shown > value[a] THEN Unread
                  ELSE [old EXCEPT !.step = "billed", !.after = a]
<1>1. reader' = [reader EXCEPT ![r] = rec]
  BY Zenon DEF ReadNext
<1>2. old \in ReaderRecords /\ old.step = "next" /\ p \in 0..LastPeriod
  BY DEF MeterTypeOK, ReadNext, ReaderAt, ReaderRecords
<1>3. UNCHANGED <<value, prevValue, charged, billing, doubtful, revised, outrun>>
  BY DEF ReadNext
<1>4. r \in Recording
  BY <1>2 DEF Recording, ReaderAt
<1>5. p \in Periods
  BY <1>4 DEF MeterInv, ReadersAim
<1>6. a \in 0..LastPeriod /\ IsAfter(Recorded, p, a)
  BY <1>5, NeighbourTypes
<1>7. ~doubtful => ReaderHolds(r)
  BY <1>4, NobodyElse
<1>8. \A q : Before(q)' = Before(q) /\ After(q)' = After(q)
  BY <1>3, NeighboursStay
<1>9. Recorded' = Recorded
  BY <1>3, NeighboursStay
<1>10. CASE a = 0
  <2> DEFINE new == [old EXCEPT !.step = "write"]
  <2>1. reader' = [reader EXCEPT ![r] = new]
    BY <1>1, <1>10, Zenon
  <2>2. new \in ReaderRecords /\ new.step = "write"
    BY <1>2 DEF ReaderRecords
  <2>3. /\ new.period = p /\ new.shown = old.shown /\ new.before = old.before
        /\ new.was = old.was /\ new.after = old.after
    BY <1>2 DEF ReaderRecords
  <2> HIDE DEF new
  <2>4. reader'[r] = new
    BY <2>1, <2>2, ReaderRecordIs
  <2>5. ~doubtful => ReaderHolds(r)'
    BY <1>2, <1>3, <1>7, <1>8, <1>9, <1>10, <2>2, <2>3, <2>4 DEF ReaderHolds, ReaderAt
  <2> QED
    BY <1>2, <1>3, <2>1, <2>2, <2>3, <2>5, ReaderMoves
<1>11. CASE a # 0 /\ old.shown > value[a]
  <2>1. reader' = [reader EXCEPT ![r] = Unread]
    BY <1>1, <1>11, Zenon
  <2>2. Unread \in ReaderRecords /\ Unread.step = "idle"
    BY UnreadIn DEF Unread
  <2> QED
    BY <1>2, <1>3, <2>1, <2>2, ReaderMoves
<1>12. CASE a # 0 /\ ~(old.shown > value[a])
  <2> DEFINE new == [old EXCEPT !.step = "billed", !.after = a]
  <2>1. reader' = [reader EXCEPT ![r] = new]
    BY <1>1, <1>12, Zenon
  <2> HIDE DEF a
  <2>2. new \in ReaderRecords /\ new.step = "billed"
    BY <1>2, <1>6 DEF ReaderRecords
  <2>3. /\ new.period = p /\ new.shown = old.shown /\ new.before = old.before
        /\ new.was = old.was /\ new.after = a
    BY <1>2 DEF ReaderRecords
  <2> HIDE DEF new
  <2>4. reader'[r] = new
    BY <2>1, <2>2, ReaderRecordIs
  <2>5. old.shown <= value[a]
    BY <1>2, <1>6, <1>12 DEF IsAfter, Recorded, MeterTypeOK, Readings, ReaderRecords
  <2>6. ~doubtful => ReaderHolds(r)'
    <3>1. a = After(p)'
      BY <1>8, <2>3, <2>4 DEF a
    <3> QED
      BY <1>2, <1>3, <1>7, <1>8, <1>9, <1>12, <2>2, <2>3, <2>4, <2>5, <3>1 DEF ReaderHolds, ReaderAt
  <2> QED
    BY <1>2, <1>3, <2>1, <2>2, <2>3, <2>6, ReaderMoves
<1> QED
  BY <1>10, <1>11, <1>12

\* A billed neighbour ends the request.
LEMMA CheckingReads ==
  ASSUME MeterTypeOK, MeterInv, NEW r \in Readers, CheckBilled(r)
  PROVE  MeterTypeOK' /\ MeterInv'
<1> DEFINE old == reader[r]
<1>1. old \in ReaderRecords /\ old.step = "billed"
  BY DEF MeterTypeOK, CheckBilled, ReaderAt
<1>2. UNCHANGED <<value, prevValue, charged, billing, doubtful, revised, outrun>>
  BY DEF CheckBilled
<1>3. /\ Recorded' = Recorded /\ \A q : Before(q)' = Before(q) /\ After(q)' = After(q)
  BY <1>2, NeighboursStay
<1>4. CASE Billed(old.after)
  <2>1. reader' = [reader EXCEPT ![r] = Unread]
    BY <1>4, Zenon DEF CheckBilled, ReaderEnds
  <2>2. Unread \in ReaderRecords /\ Unread.step = "idle"
    BY UnreadIn DEF Unread
  <2> QED
    BY <1>1, <1>2, <2>1, <2>2, ReaderMoves
<1>5. CASE ~Billed(old.after)
  <2> DEFINE new == [old EXCEPT !.step = "write"]
  <2>1. reader' = [reader EXCEPT ![r] = new]
    BY <1>5 DEF CheckBilled
  <2>2. new \in ReaderRecords /\ new.step = "write"
    BY <1>1 DEF ReaderRecords
  <2>3. /\ new.period = old.period /\ new.shown = old.shown /\ new.before = old.before
        /\ new.was = old.was /\ new.after = old.after
    BY <1>1 DEF ReaderRecords
  <2> HIDE DEF new
  <2>4. reader'[r] = new
    BY <2>1, <2>2, ReaderRecordIs
  <2>5. r \in Recording
    BY <1>1 DEF Recording, ReaderAt
  <2>6. ~doubtful => ReaderHolds(r)
    BY <2>5, NobodyElse
  <2>7. ~doubtful => ReaderHolds(r)'
    BY <1>1, <1>2, <1>3, <1>5, <2>2, <2>3, <2>4, <2>6 DEF ReaderHolds, ReaderAt, Billed
  <2> QED
    BY <1>1, <1>2, <2>1, <2>2, <2>3, <2>7, ReaderMoves
<1> QED
  BY <1>4, <1>5

\* A request that dies between its two writes leaves doubt, and no other does.
LEMMA DyingReads ==
  ASSUME MeterTypeOK, MeterInv, NEW r \in Readers, ReaderDies(r)
  PROVE  MeterTypeOK' /\ MeterInv'
<1>1. reader' = [reader EXCEPT ![r] = Unread] /\ UNCHANGED <<value, prevValue, charged, billing, revised, outrun>>
  BY DEF ReaderDies, ReaderEnds
<1>2. Unread \in ReaderRecords /\ Unread.step = "idle"
  BY UnreadIn DEF Unread
<1>3. CASE reader[r].step = "follow"
  <2>1. /\ reader' \in [Readers -> ReaderRecords]
        /\ reader'[r] = Unread /\ \A s \in Readers \ {r} : reader'[s] = reader[s]
    BY <1>1, <1>2, ReaderRecordIs
  <2>2. doubtful'
    BY <1>3 DEF ReaderDies, ReaderAt
  <2>3. MeterTypeOK'
    BY <1>1, <2>1, Zenon DEF MeterTypeOK, ReaderDies
  <2>4. ReadersAim'
    BY <1>2, <2>1 DEF MeterInv, ReadersAim, Recording, ReaderAt
  <2> QED
    BY <2>2, <2>3, <2>4 DEF MeterInv
<1>4. CASE ~(reader[r].step = "follow")
  <2>1. UNCHANGED doubtful /\ ~(reader[r].step = "idle")
    BY <1>4, Zenon DEF ReaderDies, ReaderAt, MeterTypeOK
  <2> QED
    BY <1>1, <1>2, <1>4, <2>1, ReaderMoves
<1> QED
  BY <1>3, <1>4

\* The second write restores the chain.
LEMMA FollowingReads ==
  ASSUME MeterTypeOK, MeterInv, NEW r \in Readers, UpdateNext(r)
  PROVE  MeterTypeOK' /\ MeterInv'
<1> DEFINE p == reader[r].period
           a == reader[r].after
<1>1. /\ reader' = [reader EXCEPT ![r] = Unread] /\ UNCHANGED <<value, charged, billing, doubtful, revised>>
      /\ prevValue' = [prevValue EXCEPT ![a] = reader[r].shown] /\ reader[r].step = "follow"
      /\ outrun' = IF billing[a] # {} THEN outrun \cup {a} ELSE outrun
  BY DEF UpdateNext, ReaderEnds, Followed, ReaderAt
<1>2. Unread \in ReaderRecords /\ Unread.step = "idle"
  BY UnreadIn DEF Unread
<1>3. /\ reader' \in [Readers -> ReaderRecords]
      /\ reader'[r] = Unread /\ \A s \in Readers \ {r} : reader'[s] = reader[s]
  BY <1>1, <1>2, ReaderRecordIs
<1>4. reader[r].shown \in Readings
  BY DEF MeterTypeOK, ReaderRecords
<1>5. MeterTypeOK'
  <2>1. outrun' \in SUBSET Periods
    <3>1. a \in Periods
      BY <1>1 DEF MeterInv, ReadersAim, Recording, ReaderAt
    <3> QED
      BY <1>1, <3>1 DEF MeterTypeOK
  <2> QED
    BY <1>1, <1>3, <1>4, <2>1 DEF MeterTypeOK
<1>6. ReadersAim'
  BY <1>2, <1>3 DEF MeterInv, ReadersAim, Recording, ReaderAt
<1>7. ASSUME ~doubtful PROVE MeterInv'
  <2>1. r \in Recording /\ ReaderHolds(r)
    BY <1>1, <1>7, NobodyElse DEF Recording, ReaderAt
  <2>2. /\ \A s \in Readers \ {r} : reader[s].step = "idle"
        /\ \A q : Follows(q) <=> q = a
    BY <1>1, <1>7, <2>1, NobodyElse
  <2>3. /\ p \in Periods /\ a = After(p) /\ a # 0 /\ charged[a] = -1 /\ value[p] = reader[r].shown
        /\ reader[r].shown \in Figures
    BY <1>1, <2>1 DEF ReaderHolds, ReaderAt
  <2>4. a \in Recorded /\ a \in Periods /\ IsAfter(Recorded, p, a) /\ p \in Recorded
    <3>1. IsAfter(Recorded, p, After(p))
      BY <2>3, NeighbourTypes
    <3>2. IsAfter(Recorded, p, a)
      BY <2>3, <3>1
    <3>3. value[p] # -1
      BY <2>3 DEF Figures
    <3> HIDE DEF a, p
    <3>4. a \in Recorded
      BY <2>3, <3>2 DEF IsAfter
    <3> QED
      BY <2>3, <3>2, <3>3, <3>4 DEF Recorded
  <2>5. Before(a) = p
    <3>1. Recorded \in SUBSET Periods
      BY DEF Recorded
    <3>2. IsBefore(Recorded, a, p)
      <4> HIDE DEF a, p
      <4> QED
        BY <2>3, <2>4, <3>1, MeterAssumption DEF IsBefore, IsAfter, Periods
    <3> QED
      BY <2>4, <3>1, <3>2, BeforeOnly, Neighbours
  <2>6. Recorded' = Recorded /\ \A q : Before(q)' = Before(q) /\ After(q)' = After(q)
    BY <1>1, NeighboursStay
  <2>7. Recording' = {} /\ \A q : ~Follows(q)'
    BY <1>2, <1>3, <2>2 DEF Recording, ReaderAt, Follows
  <2>8. /\ prevValue'[a] = value[p]
        /\ \A q \in Periods \ {a} : prevValue'[q] = prevValue[q]
    BY <1>1, <2>3, <2>4 DEF MeterTypeOK
  <2>9. ValuesRise /\ ChainHolds /\ ChargesHold
    BY <1>7 DEF MeterInv
  <2>10. BillingHolds /\ outrun \subseteq outrun'
    BY <1>1, <1>7 DEF MeterInv
  <2> HIDE DEF a, p
  <2>11. BillingHolds'
    <3>1. prevValue'[a] # -1 /\ (billing[a] # {} => a \in outrun')
      BY <1>1, <2>3, <2>8 DEF Figures
    <3> QED
      BY <1>1, <2>8, <2>10, <3>1 DEF BillingHolds
  <2>12. ValuesRise'
    BY <1>1, <2>4, <2>6, <2>8, <2>9 DEF ValuesRise, Recorded
  <2>13. ChainHolds'
    <3>1. p # 0
      BY <2>3 DEF Periods
    <3>2. ASSUME NEW q \in Recorded, q # a
          PROVE  prevValue'[q] = IF Before(q) = 0 THEN -1 ELSE value[Before(q)]
      <4>1. q \in Periods
        BY DEF Recorded
      <4> QED
        BY <4>1, <3>2, <2>2, <2>8, <2>9 DEF ChainHolds
    <3> QED
      BY <1>1, <2>5, <2>6, <2>8, <3>1, <3>2 DEF ChainHolds
  <2>14. ChargesHold'
    BY <1>1, <2>6, <2>7, <2>9, <2>10 DEF ChargesHold
  <2> QED
    BY <1>6, <2>7, <2>12, <2>13, <2>14, <2>11 DEF MeterInv, OneReader
<1> QED
  BY <1>1, <1>5, <1>6, <1>7 DEF MeterInv

\* A run reads a usage when no request is under way, or leaves doubt.
LEMMA UsageReads ==
  ASSUME MeterTypeOK, MeterInv, NEW p \in Periods, ReadUsage(p)
  PROVE  MeterTypeOK' /\ MeterInv'
<1> DEFINE usage == IF value[p] < prevValue[p] THEN 0 ELSE value[p] - prevValue[p]
<1>1. /\ billing' = [billing EXCEPT ![p] = @ \cup {usage}]
      /\ UNCHANGED <<value, prevValue, charged, revised, outrun, reader>>
      /\ value[p] # -1 /\ prevValue[p] # -1
  BY DEF ReadUsage, HasUsage
<1>2. usage \in Figures
  BY <1>1, MeterAssumption DEF MeterTypeOK, Readings, Figures
<1>3. MeterTypeOK'
  <2> HIDE DEF usage
  <2>1. billing' \in [Periods -> SUBSET Figures]
    BY <1>1, <1>2 DEF MeterTypeOK
  <2> QED
    BY <1>1, <2>1, Zenon DEF MeterTypeOK, ReadUsage
<1>4. ReadersAim'
  BY <1>1 DEF MeterInv, ReadersAim, Recording, ReaderAt
<1>5. ASSUME ~doubtful' PROVE MeterInv'
  <2>1. ~doubtful /\ Recording = {}
    BY <1>5 DEF ReadUsage
  <2>2. Recorded' = Recorded /\ \A q : Before(q)' = Before(q) /\ After(q)' = After(q)
    BY <1>1, NeighboursStay
  <2>3. Recording' = {} /\ \A q : ~Follows(q) /\ ~Follows(q)'
    BY <1>1, <2>1 DEF Recording, ReaderAt, Follows
  <2>4. ValuesRise /\ ChainHolds /\ ChargesHold /\ BillingHolds
    BY <2>1 DEF MeterInv
  <2>5. p \in Recorded /\ Before(p) \in Recorded /\ Before(p) < p /\ prevValue[p] = value[Before(p)]
    BY <1>1, <2>3, <2>4, NeighbourTypes DEF ChainHolds, Recorded, IsBefore
  <2>6. value[Before(p)] <= value[p]
    BY <2>4, <2>5 DEF ValuesRise
  <2>7. usage = value[p] - prevValue[p]
    BY <2>5, <2>6 DEF MeterTypeOK, Readings, Recorded
  <2> HIDE DEF usage
  <2>8. billing'[p] = billing[p] \cup {usage} /\ \A q \in Periods \ {p} : billing'[q] = billing[q]
    BY <1>1 DEF MeterTypeOK
  <2>9. BillingHolds'
    BY <1>1, <2>4, <2>7, <2>8 DEF BillingHolds
  <2>10. ValuesRise' /\ ChainHolds' /\ ChargesHold' /\ OneReader'
    BY <1>1, <2>2, <2>3, <2>4 DEF ValuesRise, ChainHolds, ChargesHold, OneReader
  <2> QED
    BY <1>4, <2>3, <2>9, <2>10 DEF MeterInv
<1> QED
  BY <1>3, <1>4, <1>5 DEF MeterInv

\* A bill charges the difference of two recorded values, unless one of them was written
\* since the run read them.
LEMMA BillingReads ==
  ASSUME MeterTypeOK, MeterInv, NEW p \in Periods, NEW u \in Figures, InsertBill(p, u)
  PROVE  MeterTypeOK' /\ MeterInv'
<1>1. /\ u \in billing[p] /\ billing' = [billing EXCEPT ![p] = @ \ {u}]
      /\ charged' = IF charged[p] = -1 THEN [charged EXCEPT ![p] = u] ELSE charged
      /\ UNCHANGED <<value, prevValue, revised, outrun, reader>>
  BY DEF InsertBill
<1>2. charged' \in [Periods -> Readings] /\ billing' \in [Periods -> SUBSET Figures]
  BY <1>1, MeterAssumption DEF MeterTypeOK, Readings, Figures
<1>3. MeterTypeOK'
  BY <1>1, <1>2, Zenon DEF MeterTypeOK, InsertBill
<1>4. ReadersAim'
  BY <1>1 DEF MeterInv, ReadersAim, Recording, ReaderAt
<1>5. ASSUME ~doubtful' PROVE MeterInv'
  <2>1. ~doubtful /\ Recording = {}
    BY <1>5 DEF InsertBill
  <2>2. Recorded' = Recorded /\ \A q : Before(q)' = Before(q) /\ After(q)' = After(q)
    BY <1>1, NeighboursStay
  <2>3. Recording' = {} /\ \A q : ~Follows(q) /\ ~Follows(q)'
    BY <1>1, <2>1 DEF Recording, ReaderAt, Follows
  <2>4. ValuesRise /\ ChainHolds /\ ChargesHold /\ BillingHolds
    BY <2>1 DEF MeterInv
  <2>5. /\ value[p] # -1 /\ prevValue[p] # -1
        /\ p \notin revised \cup outrun => u = value[p] - prevValue[p]
    BY <1>1, <2>4 DEF BillingHolds
  <2>6. p \in Recorded /\ Before(p) # 0 /\ prevValue[p] = value[Before(p)]
    BY <2>3, <2>4, <2>5 DEF ChainHolds, Recorded
  <2>7. /\ charged'[p] # charged[p] => charged'[p] = u
        /\ \A q \in Periods \ {p} : charged'[q] = charged[q]
        /\ \A q \in Periods : billing'[q] \subseteq billing[q]
    BY <1>1 DEF MeterTypeOK
  <2>8. ValuesRise'
    BY <1>1, <2>2, <2>4, <2>5, <2>7 DEF ValuesRise
  <2>9. ChainHolds'
    BY <1>1, <2>2, <2>3, <2>4 DEF ChainHolds
  <2>10. ChargesHold'
    BY <1>1, <2>2, <2>3, <2>4, <2>5, <2>6, <2>7 DEF ChargesHold
  <2>11. BillingHolds'
    BY <1>1, <2>4, <2>7 DEF BillingHolds
  <2> QED
    BY <1>4, <2>3, <2>8, <2>9, <2>10, <2>11 DEF MeterInv, OneReader
<1> QED
  BY <1>3, <1>4, <1>5 DEF MeterInv

\* Where nothing but a charge or a usage goes, and the histories forget only a period that
\* has neither, the invariant stays.
LEMMA LessIsCharged ==
  ASSUME MeterTypeOK, MeterInv, NEW p \in Periods, NEW unbilled \in BOOLEAN, Forgets(p, unbilled),
         UNCHANGED <<value, prevValue, doubtful, reader>>,
         billing' \in [Periods -> SUBSET Figures], \A q \in Periods : billing'[q] \subseteq billing[q],
         charged' \in [Periods -> Readings], \A q \in Periods : charged'[q] \in {-1, charged[q]},
         unbilled => charged'[p] = -1 /\ billing'[p] = {}
  PROVE  MeterTypeOK' /\ MeterInv'
<1>1. /\ revised' \subseteq revised /\ outrun' \subseteq outrun
      /\ \A q \in Periods : charged'[q] # -1 \/ billing'[q] # {} =>
            (q \in revised' <=> q \in revised) /\ (q \in outrun' <=> q \in outrun)
  BY DEF Forgets
<1>2. MeterTypeOK'
  BY <1>1 DEF MeterTypeOK
<1>3. Recorded' = Recorded /\ \A q : Before(q)' = Before(q) /\ After(q)' = After(q)
  BY NeighboursStay
<1>4. Recording' = Recording /\ ReadersAim'
  BY DEF Recording, ReaderAt, MeterInv, ReadersAim
<1>5. ASSUME ~doubtful PROVE MeterInv'
  <2>1. \A q : Follows(q)' <=> Follows(q)
    BY DEF Follows, ReaderAt
  <2>2. ValuesRise /\ ChainHolds /\ ChargesHold /\ BillingHolds /\ OneReader
    BY <1>5 DEF MeterInv
  <2>3. ValuesRise' /\ ChainHolds' /\ OneReader'
    BY <1>3, <1>4, <2>1, <2>2 DEF ValuesRise, ChainHolds, OneReader, Recorded
  <2>4. ChargesHold' /\ BillingHolds'
    BY <1>1, <1>3, <2>1, <2>2 DEF ChargesHold, BillingHolds
  <2>5. ASSUME NEW r \in Recording PROVE ReaderHolds(r)'
    <3>1. ReaderHolds(r) /\ reader[r].period \in Periods
      BY <1>5 DEF MeterInv, ReadersAim
    <3>2. reader[r].after = 0 \/ reader[r].after \in Periods
      <4>1. /\ reader[r].after = 0 \/ reader[r].after = After(reader[r].period)
        BY <3>1 DEF ReaderHolds
      <4>2. After(reader[r].period) = 0 \/ After(reader[r].period) \in Periods
        BY <3>1, NeighbourTypes DEF IsAfter, Recorded
      <4> QED
        BY <4>1, <4>2
    <3>3. reader[r].after \in Periods /\ charged[reader[r].after] = -1 => charged'[reader[r].after] = -1
      OBVIOUS
    <3> QED
      BY <1>3, <3>1, <3>2, <3>3 DEF ReaderHolds, ReaderAt
  <2> QED
    BY <1>4, <2>3, <2>4, <2>5 DEF MeterInv
<1> QED
  BY <1>2, <1>4, <1>5 DEF MeterInv

\* A run that dies charges nothing,
LEMMA RunDiesReads ==
  ASSUME MeterTypeOK, MeterInv, NEW p \in Periods, NEW u \in Figures, RunDies(p, u)
  PROVE  MeterTypeOK' /\ MeterInv'
<1> DEFINE unbilled == charged[p] = -1 /\ billing[p] = {u}
<1>1. /\ billing' = [billing EXCEPT ![p] = @ \ {u}] /\ Forgets(p, unbilled)
      /\ UNCHANGED <<value, prevValue, charged, doubtful, reader>>
  BY DEF RunDies
<1>2. billing' \in [Periods -> SUBSET Figures] /\ \A q \in Periods : billing'[q] \subseteq billing[q]
  BY <1>1 DEF MeterTypeOK
<1>3. charged' \in [Periods -> Readings] /\ \A q \in Periods : charged'[q] \in {-1, charged[q]}
  BY <1>1 DEF MeterTypeOK
<1>4. unbilled => charged'[p] = -1 /\ billing'[p] = {}
  BY <1>1 DEF MeterTypeOK
<1>5. unbilled \in BOOLEAN
  OBVIOUS
<1> HIDE DEF unbilled
<1> QED
  BY <1>1, <1>2, <1>3, <1>4, <1>5, LessIsCharged

\* and neither does a canceled bill.
LEMMA CancelingReads ==
  ASSUME MeterTypeOK, MeterInv, NEW p \in Periods, CancelUsage(p)
  PROVE  MeterTypeOK' /\ MeterInv'
<1> DEFINE unbilled == billing[p] = {}
<1>1. /\ charged' = [charged EXCEPT ![p] = -1] /\ Forgets(p, unbilled)
      /\ UNCHANGED <<value, prevValue, billing, doubtful, reader>>
  BY DEF CancelUsage
<1>2. billing' \in [Periods -> SUBSET Figures] /\ \A q \in Periods : billing'[q] \subseteq billing[q]
  BY <1>1 DEF MeterTypeOK
<1>3. /\ charged' \in [Periods -> Readings]
      /\ \A q \in Periods : charged'[q] \in {-1, charged[q]}
  BY <1>1, MeterAssumption DEF MeterTypeOK, Readings
<1>4. unbilled => charged'[p] = -1 /\ billing'[p] = {}
  BY <1>1 DEF MeterTypeOK
<1>5. unbilled \in BOOLEAN
  OBVIOUS
<1> HIDE DEF unbilled
<1> QED
  BY <1>1, <1>2, <1>3, <1>4, <1>5, LessIsCharged

\* The first write breaks the chain at one place, the neighbour after, which is not
\* billed.
LEMMA WritingReads ==
  ASSUME MeterTypeOK, MeterInv, NEW r \in Readers, WriteReading(r)
  PROVE  MeterTypeOK' /\ MeterInv'
<1> DEFINE old == reader[r]
           p == old.period
           v == old.shown
           a == old.after
           rec == IF a = 0 THEN Unread ELSE [old EXCEPT !.step = "follow"]
<1>1. /\ value' = [value EXCEPT ![p] = v] /\ UNCHANGED <<charged, billing, doubtful, outrun>>
      /\ prevValue' = IF value[p] = -1 THEN [prevValue EXCEPT ![p] = old.was] ELSE prevValue
      /\ revised' = IF charged[p] # -1 \/ billing[p] # {} THEN revised \cup {p} ELSE revised
      /\ reader' = [reader EXCEPT ![r] = rec]
      /\ old.step = "write"
  BY Zenon DEF WriteReading, ReaderEnds, ReaderAt
<1>2. r \in Recording /\ old \in ReaderRecords /\ v \in Readings /\ old.was \in Readings
  BY <1>1 DEF Recording, ReaderAt, MeterTypeOK, ReaderRecords
<1>3. p \in Periods
  BY <1>2 DEF MeterInv, ReadersAim
<1>4. rec \in ReaderRecords /\ (a = 0 => rec.step = "idle")
  BY <1>2, UnreadIn DEF ReaderRecords, Unread
<1>5. a # 0 => /\ rec.step = "follow" /\ rec.period = p /\ rec.shown = v /\ rec.before = old.before
              /\ rec.was = old.was /\ rec.after = a
  BY <1>2 DEF ReaderRecords
<1> HIDE DEF rec
<1>6. /\ reader' \in [Readers -> ReaderRecords]
      /\ reader'[r] = rec /\ \A s \in Readers \ {r} : reader'[s] = reader[s]
  BY <1>1, <1>4, ReaderRecordIs
<1>7. MeterTypeOK'
  <2>1. value' \in [Periods -> Readings] /\ prevValue' \in [Periods -> Readings] /\ revised' \in SUBSET Periods
    BY <1>1, <1>2, <1>3 DEF MeterTypeOK
  <2> QED
    BY <1>1, <1>6, <2>1 DEF MeterTypeOK
<1>8. ReadersAim'
  <2>1. a # 0 => a \in Periods
    BY <1>2, MeterAssumption DEF ReaderRecords, Periods
  <2> QED
    BY <1>3, <1>4, <1>5, <1>6, <2>1 DEF MeterInv, ReadersAim, Recording, ReaderAt
<1>9. ASSUME ~doubtful PROVE MeterInv'
  <2>1. /\ \A s \in Readers \ {r} : reader[s].step = "idle"
        /\ ReaderHolds(r) /\ \A q : ~Follows(q)
    BY <1>1, <1>2, <1>9, NobodyElse
  <2>2. ValuesRise /\ ChainHolds /\ ChargesHold /\ BillingHolds
    BY <1>9 DEF MeterInv
  <2> DEFINE b == Before(p)
  <2>3. /\ v \in Figures /\ a = After(p) /\ (a # 0 => v <= value[a] /\ charged[a] = -1)
        /\ old.before = b /\ old.was = (IF b = 0 THEN -1 ELSE value[b])
        /\ (b # 0 => b \in Recorded /\ b < p /\ value[b] <= v)
    BY <1>1, <2>1 DEF ReaderHolds, ReaderAt
  <2>4. /\ IsBefore(Recorded, p, b) /\ IsAfter(Recorded, p, a)
        /\ \A q \in Periods : IsBefore(Recorded, q, Before(q))
    BY <1>3, <2>3, NeighbourTypes
  <2> HIDE DEF a, v, b
  <2>5. v # -1 /\ value'[p] = v /\ \A q \in Periods \ {p} : value'[q] = value[q]
    BY <1>1, <1>3, <2>3 DEF MeterTypeOK, Figures
  <2> HIDE DEF p
  <2>6. Recorded' = Recorded \cup {p} /\ Recorded \in SUBSET Periods
    BY <1>3, <2>5 DEF Recorded
  <2>7. \A q \in Periods : Before(q)' = IF p < q /\ Before(q) < p THEN p ELSE Before(q)
    <3>1. \A q : Before(q) = BeforeIn(Recorded, q)
      BY Neighbours
    <3>2. \A q : Before(q)' = BeforeIn(Recorded', q)
      BY DEF Before, BeforeIn
    <3> QED
      BY <1>3, <2>6, <3>1, <3>2, NeighboursJoined
  <2>8. \A q : q = p => After(q)' = a
    <3>1. \A q : After(q)' = AfterIn(Recorded', q)
      BY DEF After, AfterIn
    <3> QED
      BY <1>3, <2>3, <2>6, <3>1, Neighbours, NeighboursJoined
  <2>9. \A q : Follows(q)' <=> (a # 0 /\ q = a)
    BY <1>4, <1>5, <1>6, <2>1 DEF Follows, ReaderAt
  <2>10. /\ \A q \in Periods \ {p} : prevValue'[q] = prevValue[q]
         /\ prevValue'[p] = IF value[p] = -1 THEN old.was ELSE prevValue[p]
    BY <1>1, <1>3 DEF MeterTypeOK
  <2>11. ValuesRise'
    <3>1. ASSUME NEW q \in Periods, value'[q] = -1 PROVE prevValue'[q] = -1 /\ charged'[q] = -1
      BY <1>1, <2>2, <2>5, <2>10, <3>1 DEF ValuesRise
    <3>2. ASSUME NEW q \in Recorded', NEW s \in Recorded', q < s PROVE value'[q] <= value'[s]
      <4>1. CASE q # p /\ s # p
        BY <2>2, <2>5, <2>6, <3>2, <4>1 DEF ValuesRise
      <4>2. CASE q = p
        <5>1. s \in Recorded /\ s \in Periods /\ s # p /\ p < s
          BY <1>3, <2>6, <3>2, <4>2 DEF Periods
        <5>2. a # 0 /\ a <= s /\ a \in Recorded
          BY <2>4, <5>1 DEF IsAfter
        <5>3. a \in Periods /\ v <= value[a] /\ (a = s \/ a < s)
          BY <2>3, <2>6, <5>1, <5>2, MeterAssumption DEF Periods
        <5>4. value[a] <= value[s]
          BY <2>2, <5>1, <5>2, <5>3 DEF ValuesRise, MeterTypeOK, Readings
        <5> QED
          BY <2>3, <2>5, <4>2, <5>1, <5>3, <5>4 DEF MeterTypeOK, Readings, Figures
      <4>3. CASE s = p
        <5>1. q \in Recorded /\ q \in Periods /\ q # p /\ q < p
          BY <1>3, <2>6, <3>2, <4>3 DEF Periods
        <5>2. q <= b /\ b # 0 /\ b \in Recorded
          BY <2>4, <5>1 DEF IsBefore, Periods
        <5>3. b \in Periods /\ value[b] <= v /\ (b = q \/ q < b)
          BY <2>3, <2>6, <5>1, <5>2 DEF Periods
        <5>4. value[q] <= value[b]
          BY <2>2, <5>1, <5>2, <5>3 DEF ValuesRise, MeterTypeOK, Readings
        <5> QED
          BY <2>3, <2>5, <4>3, <5>1, <5>3, <5>4 DEF MeterTypeOK, Readings, Figures
      <4> QED
        BY <4>1, <4>2, <4>3
    <3> QED
      BY <3>1, <3>2 DEF ValuesRise
  <2>12. ASSUME NEW q \in Recorded, q # p, ~(a # 0 /\ q = a)
         PROVE  /\ Before(q)' = Before(q) /\ prevValue'[q] = prevValue[q] /\ value'[q] = value[q]
                /\ Before(q) # 0 => value'[Before(q)] = value[Before(q)]
    <3>1. q \in Periods /\ IsBefore(Recorded, q, Before(q))
      BY <2>4, <2>6
    <3>2. CASE q < p
      <4>1. Before(q) # p /\ ~(p < q)
        BY <1>3, <3>1, <3>2 DEF IsBefore, Periods
      <4>2. Before(q)' = Before(q)
        BY <2>7, <3>1, <4>1
      <4>3. Before(q) # 0 => Before(q) \in Periods
        BY <2>6, <3>1 DEF IsBefore
      <4> QED
        BY <2>5, <2>10, <2>12, <3>1, <4>1, <4>2, <4>3
    <3>3. CASE p < q
      <4>1. a # 0 /\ a \in Recorded /\ p < a /\ a < q
        BY <2>4, <2>6, <2>12, <3>1, <3>3 DEF IsAfter, Periods
      <4>2. a <= Before(q) /\ Before(q) \in 0..LastPeriod /\ a \in Periods
        BY <2>6, <3>1, <4>1 DEF IsBefore
      <4>3. ~(Before(q) < p) /\ Before(q) # p /\ Before(q) # 0
        BY <1>3, <4>1, <4>2 DEF Periods
      <4>4. Before(q)' = Before(q)
        BY <2>7, <3>1, <4>3
      <4>5. Before(q) \in Periods
        BY <2>6, <3>1, <4>3 DEF IsBefore
      <4> QED
        BY <2>5, <2>10, <2>12, <3>1, <4>3, <4>4, <4>5
    <3> QED
      BY <1>3, <2>12, <3>1, <3>2, <3>3 DEF Periods
  <2>13. b # 0 => b \in Recorded /\ b \in Periods /\ b # p /\ b < p /\ value[b] <= v
    <3>1. ASSUME b # 0 PROVE b \in Recorded /\ b < p /\ value[b] <= v
      BY <2>3, <3>1
    <3>2. ASSUME b # 0 PROVE b \in Periods /\ b # p
      <4>1. b \in Recorded
        BY <3>1, <3>2
      <4>2. b \in Periods
        BY <2>6, <4>1
      <4> QED
        BY <1>3, <3>1, <3>2, <4>2, MeterAssumption DEF Periods
    <3> QED
      BY <3>1, <3>2
  <2>14. ChainHolds'
    <3>1. ASSUME NEW q \in Recorded', ~Follows(q)'
          PROVE  prevValue'[q] = IF Before(q)' = 0 THEN -1 ELSE value'[Before(q)']
      <4>1. CASE q = p
        <5>1. Before(q)' = b
          BY <1>3, <2>7, <4>1 DEF b, Periods
        <5>2. b # 0 => b \in Periods /\ b # p
          BY <2>13
        <5>3. prevValue'[q] = IF b = 0 THEN -1 ELSE value[b]
          <6>1. CASE value[p] = -1
            BY <2>3, <2>10, <4>1, <6>1
          <6>2. CASE value[p] # -1
            <7>1. p \in Recorded
              BY <1>3, <6>2 DEF Recorded
            <7> QED
              BY <2>1, <2>2, <2>10, <4>1, <6>2, <7>1 DEF ChainHolds, b
          <6> QED
            BY <6>1, <6>2
        <5> QED
          BY <2>5, <5>1, <5>2, <5>3
      <4>2. CASE q # p
        <5>1. q \in Recorded /\ ~(a # 0 /\ q = a)
          BY <2>6, <2>9, <3>1, <4>2
        <5> QED
          BY <2>1, <2>2, <2>12, <4>2, <5>1 DEF ChainHolds
      <4> QED
        BY <4>1, <4>2
    <3> QED
      BY <3>1 DEF ChainHolds
  <2>15. ChargesHold'
    <3>1. ASSUME NEW q \in Periods, charged[q] # -1
          PROVE  /\ ~Follows(q)' /\ Before(q)' # 0
                 /\ q \notin revised' \cup outrun => charged[q] = value'[q] - value'[Before(q)']
      <4>1. /\ value[q] # -1 /\ Before(q) # 0
            /\ q \notin revised \cup outrun => charged[q] = value[q] - value[Before(q)]
        BY <2>2, <3>1 DEF ValuesRise, ChargesHold
      <4>2. q \in Recorded /\ ~(a # 0 /\ q = a)
        BY <2>3, <3>1, <4>1 DEF Recorded
      <4>3. Before(q)' # 0
        BY <1>3, <2>7, <4>1 DEF Periods
      <4>4. q \notin revised' => q # p /\ q \notin revised
        BY <1>1, <3>1
      <4> QED
        BY <2>9, <2>12, <4>1, <4>2, <4>3, <4>4
    <3> QED
      BY <1>1, <3>1 DEF ChargesHold
  <2>16. /\ \A s \in Recording' : s = r
         /\ r \in Recording' => a # 0
    BY <1>4, <1>6, <2>1 DEF Recording, ReaderAt, a
  <2>17. a # 0 => ReaderHolds(r)'
    <3> SUFFICES ASSUME a # 0 PROVE ReaderHolds(r)'
      OBVIOUS
    <3>1. /\ reader'[r].step = "follow" /\ reader'[r].period = p /\ reader'[r].shown = v
          /\ reader'[r].before = b /\ reader'[r].after = a
      BY <1>5, <1>6, <2>3 DEF a, p, v
    <3>2. b # 0 => b \in Recorded' /\ b < p /\ value'[b] <= v
      BY <2>5, <2>6, <2>13
    <3>3. a \in Periods /\ a # p /\ v <= value'[a] /\ charged'[a] = -1
      BY <1>1, <1>3, <2>3, <2>4, <2>5, <2>6 DEF IsAfter, Periods
    <3>4. After(reader[r].period)' = a
      BY <2>8, <3>1
    <3> QED
      BY <1>3, <2>3, <2>5, <3>1, <3>2, <3>3, <3>4 DEF ReaderHolds, ReaderAt
  <2>18. BillingHolds'
    <3>1. ASSUME NEW q \in Periods, NEW u \in billing[q]
          PROVE  /\ value'[q] # -1 /\ prevValue'[q] # -1
                 /\ q \notin revised' \cup outrun => u = value'[q] - prevValue'[q]
      <4>1. value[q] # -1 /\ prevValue[q] # -1 /\ (q \notin revised \cup outrun => u = value[q] - prevValue[q])
        BY <2>2, <3>1 DEF BillingHolds
      <4>2. CASE q = p
        BY <1>1, <2>5, <2>10, <3>1, <4>1, <4>2
      <4>3. CASE q # p
        BY <1>1, <2>5, <2>10, <4>1, <4>3
      <4> QED
        BY <4>2, <4>3
    <3> QED
      BY <1>1, <3>1 DEF BillingHolds
  <2> QED
    BY <1>8, <2>11, <2>14, <2>15, <2>16, <2>17, <2>18 DEF MeterInv, OneReader
<1> QED
  BY <1>1, <1>7, <1>8, <1>9 DEF MeterInv

\* No unit is charged twice or lost, in whatever order readings arrive and are corrected,
\* also while runs that have read them insert their bills, but for the readings written in
\* between (createReading, flushBills).
THEOREM UsageAddsUp == MeterSpec => [](MeterTypeOK /\ UsageAddsUpUnlessDoubtful)
<1>1. MeterTypeOK /\ MeterInv /\ [MeterNext]_meterVars => MeterTypeOK' /\ MeterInv'
  <2> SUFFICES ASSUME MeterTypeOK, MeterInv, [MeterNext]_meterVars PROVE MeterTypeOK' /\ MeterInv'
    OBVIOUS
  <2>1. CASE MeterNext
    BY <2>1, BeginningReads, LookingReads, CheckingReads, WritingReads, FollowingReads, DyingReads, UsageReads,
       BillingReads, RunDiesReads, CancelingReads DEF MeterNext
  <2>2. CASE UNCHANGED meterVars
    <3>1. Recorded' = Recorded /\ \A q : Before(q)' = Before(q) /\ After(q)' = After(q)
      BY <2>2, NeighboursStay DEF meterVars
    <3>2. /\ Recording' = Recording /\ \A q : Follows(q)' <=> Follows(q)
          /\ \A r \in Recording : ReaderHolds(r)' <=> ReaderHolds(r)
      BY <2>2, <3>1 DEF meterVars, Recording, ReaderAt, Follows, ReaderHolds
    <3>3. MeterTypeOK' /\ ReadersAim'
      BY <2>2, <3>2 DEF meterVars, MeterTypeOK, MeterInv, ReadersAim, ReaderAt
    <3>4. ~doubtful => ValuesRise' /\ ChainHolds' /\ ChargesHold' /\ BillingHolds' /\ OneReader'
      BY <2>2, <3>1, <3>2
      DEF meterVars, MeterInv, ValuesRise, ChainHolds, ChargesHold, BillingHolds, OneReader
    <3> QED
      BY <2>2, <3>2, <3>3, <3>4 DEF meterVars, MeterInv
  <2> QED
    BY <2>1, <2>2
<1>2. MeterTypeOK /\ MeterInv => UsageAddsUpUnlessDoubtful
  <2> SUFFICES ASSUME MeterTypeOK, MeterInv, Recording = {}, ~doubtful
               PROVE  UsageAddsUpUnlessDoubtful
    BY DEF UsageAddsUpUnlessDoubtful
  <2>1. \A q : ~Follows(q)
    BY DEF Recording, Follows, ReaderAt
  <2> QED
    BY <2>1 DEF UsageAddsUpUnlessDoubtful, MeterInv, ValuesRise, ChainHolds, ChargesHold, Recorded
<1> QED
  BY <1>1, <1>2, MeterInitInv, PTL DEF MeterSpec

-----------------------------------------------------------------------------
(* Engine *)

\* Rounding half up is half a unit off at most.
LEMMA RoundIsNear ==
  ASSUME NEW n \in Nat
  PROVE  Round(n, 100) \in Nat /\ Distance(100 * Round(n, 100), n) <= 50
<1>1. Round(n, 100) = (2 * n + 100) \div 200
  BY DEF Round
<1>2. \A q \in Int : q = (2 * n + 100) \div 200 => 200 * q <= 2 * n + 100 /\ 2 * n + 100 < 200 * q + 200 /\ q \in Nat
  OBVIOUS
<1> QED
  BY <1>1, <1>2 DEF Distance

\* A quotient and its remainder.
LEMMA Division ==
  ASSUME NEW n \in Nat, NEW d \in Nat \ {0}
  PROVE  n \div d \in Nat /\ n % d \in Nat /\ n % d < d /\ d * (n \div d) + (n % d) = n
OBVIOUS

\* A function whose values are natural numbers.
LEMMA NaturalFunction ==
  ASSUME NEW S, NEW f, f = [x \in S |-> f[x]], \A x \in S : f[x] \in Nat
  PROVE  f \in [S -> Nat]
<1>1. [x \in S |-> f[x]] \in [S -> Nat]
  OBVIOUS
<1> QED
  BY <1>1, Zenon

\* The provers take products of unknowns apart only when they know that they are numbers.
LEMMA Product ==
  ASSUME NEW m \in Nat, NEW n \in Nat
  PROVE  m * n \in Nat
OBVIOUS

\* An amount in cents is half a cent off, one in whole yuan half a yuan more.
LEMMA AmountIsNear ==
  ASSUME input \in AmountInputs
  PROVE  /\ RawCents \in Nat
         /\ Distance(100 * RawCents, input.price * input.amount * input.months) <= 50
         /\ 100 * Round(RawCents, 100) \in Nat
         /\ Distance(100 * (100 * Round(RawCents, 100)), input.price * input.amount * input.months) <= 5050
<1> DEFINE n == input.price * input.amount * input.months
           q == Round(n, 100)
           y == Round(q, 100)
<1>1. n \in Nat
  <2>1. input.price \in Nat /\ input.amount \in Nat /\ input.months \in Nat
    BY EngineAssumption DEF AmountInputs
  <2> QED
    BY <2>1, Product
<1>2. RawCents = q
  BY DEF RawCents
<1> HIDE DEF n
<1>3. q \in Nat /\ Distance(100 * q, n) <= 50
  BY <1>1, RoundIsNear
<1> HIDE DEF q
<1>4. y \in Nat /\ Distance(100 * y, q) <= 50
  BY <1>3, RoundIsNear
<1> HIDE DEF y
<1>5. Distance(100 * (100 * y), n) <= 5050 /\ 100 * y \in Nat
  BY <1>1, <1>3, <1>4 DEF Distance
<1> QED
  BY <1>2, <1>3, <1>5 DEF n, y

\* With one cent for each of the houses that are lucky, the parts are the pool and each
\* is less than a cent off.
LEMMA PoolIsDivided ==
  ASSUME input \in ShareInputs, Eligible # {}, NEW L \in Lucky, NEW res,
         res = [h \in Eligible |-> Floor[h] + (IF h \in L THEN 1 ELSE 0)]
  PROVE  /\ res \in [Eligible -> Nat]
         /\ SumFunctionOnSet(res, Eligible) = input.total
         /\ \A h \in Eligible : Distance(res[h] * TotalWeight, input.total * Weight[h]) < TotalWeight
         /\ \A g, h \in Eligible : Weight[g] < Weight[h] => res[g] <= res[h]
<1> DEFINE E == Eligible
           W == Weight
           F == Floor
           R == Remainder
           D == TotalWeight
           t == input.total
           M == Missing
<1>1. E \subseteq Homes /\ IsFiniteSet(E) /\ E # {}
  BY EngineAssumption, FS_Subset DEF Eligible
<1>2. t \in Nat /\ W \in [E -> Nat] /\ \A h \in E : W[h] > 0
  <2>1. t \in Nat /\ input.area \in [Homes -> Nat] /\ \A h \in E : h \in Homes /\ (input.byArea => input.area[h] > 0)
    BY EngineAssumption DEF ShareInputs, Eligible
  <2>2. W = [h \in E |-> IF input.byArea THEN input.area[h] ELSE 1]
    BY DEF Weight
  <2>3. \A h \in E : (IF input.byArea THEN input.area[h] ELSE 1) \in Nat
    BY <2>1
  <2> HIDE DEF E, W, t
  <2> QED
    BY <2>1, <2>2, <2>3
<1>3. D = SumFunctionOnSet(W, E) /\ M = t - SumFunctionOnSet(F, E)
  BY DEF TotalWeight, Missing, SumFunction, Weight, Floor
<1>4. /\ DOMAIN F = E /\ DOMAIN R = E /\ F = [h \in E |-> F[h]] /\ R = [h \in E |-> R[h]]
      /\ \A h \in E : F[h] = (t * W[h]) \div D /\ R[h] = (t * W[h]) % D
  BY DEF Floor, Remainder
<1>5. /\ L \in SUBSET E /\ Cardinality(L) = M
      /\ \A h \in L, g \in E \ L : R[h] >= R[g]
  BY DEF Lucky
<1>6. res = [h \in E |-> F[h] + (IF h \in L THEN 1 ELSE 0)]
  OBVIOUS
<1>7. SUFFICES /\ res \in [E -> Nat]
               /\ SumFunctionOnSet(res, E) = t
               /\ \A h \in E : Distance(res[h] * D, t * W[h]) < D
               /\ \A g, h \in E : W[g] < W[h] => res[g] <= res[h]
  OBVIOUS
<1> HIDE DEF E, W, F, R, D, t, M
<1>8. D \in Nat \ {0}
  BY <1>1, <1>2, <1>3, SumIsPositive
<1>9. \A h \in E : /\ F[h] \in Nat /\ R[h] \in Nat /\ R[h] < D /\ W[h] \in Nat /\ t * W[h] \in Nat
                   /\ D * F[h] + R[h] = t * W[h]
  <2> TAKE h \in E
  <2>1. W[h] \in Nat /\ t * W[h] \in Nat
    BY <1>2, Product
  <2> DEFINE n == t * W[h]
  <2>2. n \in Nat /\ F[h] = n \div D /\ R[h] = n % D
    BY <1>4, <2>1
  <2> HIDE DEF n
  <2>3. F[h] \in Nat /\ R[h] \in Nat /\ R[h] < D /\ D * F[h] + R[h] = n
    BY <1>8, <2>2, Division
  <2> QED
    BY <2>1, <2>3 DEF n
<1>10. F \in [E -> Nat] /\ R \in [E -> Nat]
  <2>1. (\A h \in E : F[h] \in Nat) /\ \A h \in E : R[h] \in Nat
    BY <1>9, Zenon
  <2>2. F = [h \in E |-> F[h]] /\ R = [h \in E |-> R[h]]
    BY <1>4, Zenon
  <2>3. F \in [E -> Nat]
    BY <2>1, <2>2, NaturalFunction, Zenon
  <2>4. R \in [E -> Nat]
    BY <2>1, <2>2, NaturalFunction, Zenon
  <2> QED
    BY <2>3, <2>4
<1>11. D * SumFunctionOnSet(F, E) + SumFunctionOnSet(R, E) = t * D
  <2>1. IsFiniteSet(E) /\ W \in [E -> Nat] /\ t \in Nat /\ D \in Nat
    BY <1>1, <1>2, <1>8
  <2>2. Divided(E, W, F, R, D, t)
    BY <1>9, Zenon DEF Divided
  <2>3. D * SumFunctionOnSet(F, E) + SumFunctionOnSet(R, E) = t * SumFunctionOnSet(W, E)
    BY <2>1, <2>2, <1>10, SumsDivide
  <2> QED
    BY <2>3, <1>3
<1>12. M \in Nat /\ IsFiniteSet(L)
  BY <1>1, <1>5, FS_Subset, FS_CardinalityType
<1>13. /\ SumFunctionOnSet(F, E) \in Nat /\ SumFunctionOnSet(R, E) \in Nat
  BY <1>1, <1>10, SumIsNat
<1>14. D * M = SumFunctionOnSet(R, E)
  <2> DEFINE SF == SumFunctionOnSet(F, E)
  <2> HIDE DEF SF
  <2>1. M = t - SF /\ SF \in Nat
    BY <1>3, <1>13 DEF SF
  <2>2. D * (t - SF) = t * D - D * SF
    BY <1>2, <1>8, <2>1
  <2>3. D * SF + SumFunctionOnSet(R, E) = t * D /\ D * SF \in Nat /\ t * D \in Nat
    BY <1>2, <1>8, <1>11, <2>1 DEF SF
  <2> QED
    BY <1>13, <2>1, <2>2, <2>3
\* Who gets a cent more had a remainder: D * Missing could not come from fewer houses.
<1>15. ASSUME NEW h \in L PROVE R[h] > 0
  <2> SUFFICES ASSUME R[h] = 0 PROVE FALSE
    BY <1>5, <1>9
  <2> DEFINE P == L \ {h}
  <2>1. \A g \in E \ P : R[g] = 0
    BY <1>5, <1>9
  <2>2. \A g \in P : R[g] <= D - 1
    BY <1>5, <1>8, <1>9
  <2>3. P \in SUBSET E /\ Cardinality(P) = M - 1 /\ M >= 1
    <3>1. Cardinality(P) = M - 1 /\ IsFiniteSet(P)
      BY <1>5, <1>12, FS_RemoveElement
    <3>2. Cardinality(P) \in Nat
      BY <3>1, FS_CardinalityType
    <3> HIDE DEF P
    <3>3. M >= 1
      BY <1>12, <3>1, <3>2
    <3> QED
      BY <1>5, <3>1, <3>3 DEF P
  <2> HIDE DEF P
  <2>4. SumFunctionOnSet(R, E) <= (D - 1) * (M - 1)
    <3>1. D - 1 \in Nat
      BY <1>8
    <3> QED
      BY <1>1, <1>10, <2>1, <2>2, <2>3, <3>1, SumIsBounded
  <2>5. (D - 1) * (M - 1) = D * M - D - M + 1
    BY <1>8, <1>12
  <2>6. D * M \in Nat
    BY <1>8, <1>12
  <2> QED
    BY <1>8, <1>12, <1>14, <2>3, <2>4, <2>5, <2>6
<1>16. res \in [E -> Nat] /\ \A h \in E : res[h] = F[h] + (IF h \in L THEN 1 ELSE 0)
  BY <1>6, <1>9
<1>17. SumFunctionOnSet(res, E) = t
  <2>1. SumFunctionOnSet(res, E) = SumFunctionOnSet(F, E) + Cardinality(L)
    BY <1>1, <1>5, <1>6, <1>10, SumOfOneMore
  <2> QED
    BY <1>2, <1>3, <1>5, <1>13, <2>1
<1>18. ASSUME NEW h \in E PROVE Distance(res[h] * D, t * W[h]) < D
  <2>1. CASE h \in L
    <3>1. (F[h] + 1) * D = D * F[h] + D /\ D * F[h] \in Nat
      BY <1>8, <1>9
    <3>2. R[h] > 0
      BY <1>15, <2>1
    <3> QED
      BY <1>8, <1>9, <1>16, <2>1, <3>1, <3>2 DEF Distance
  <2>2. CASE h \notin L
    <3>1. F[h] * D = D * F[h] /\ D * F[h] \in Nat /\ res[h] = F[h]
      BY <1>8, <1>9, <1>16, <2>2
    <3> QED
      BY <1>8, <1>9, <3>1 DEF Distance
  <2> QED
    BY <2>1, <2>2
<1>19. ASSUME NEW g \in E, NEW h \in E, W[g] < W[h] PROVE res[g] <= res[h]
  <2>1. t * W[g] + t * (W[h] - W[g]) = t * W[h] /\ W[h] - W[g] \in Nat \ {0}
    BY <1>2, <1>9, <1>19
  <2>2. t * (W[h] - W[g]) \in Nat /\ (t > 0 => t * (W[h] - W[g]) > 0)
    <3> DEFINE x == W[h] - W[g]
    <3>1. x \in Nat \ {0}
      BY <2>1
    <3> HIDE DEF x
    <3>2. t * x \in Nat /\ (t > 0 => t * x > 0)
      BY <1>2, <3>1
    <3> QED
      BY <3>2 DEF x
  <2>3. D * F[g] + R[g] <= D * F[h] + R[h]
    BY <1>9, <2>1, <2>2
  <2>4. F[g] <= F[h]
    <3> SUFFICES ASSUME F[g] >= F[h] + 1 PROVE FALSE
      BY <1>9
    <3>1. D * F[g] >= D * (F[h] + 1)
      <4>1. \A n \in Nat : D * n \in Nat
        BY <1>8, Product
      <4>2. F[g] - (F[h] + 1) \in Nat /\ F[h] + 1 \in Nat /\ F[g] \in Nat /\ D \in Nat
        BY <1>8, <1>9
      <4>3. D * (F[g] - (F[h] + 1)) = D * F[g] - D * (F[h] + 1)
        BY <4>2
      <4> QED
        BY <4>1, <4>2, <4>3
    <3>2. D * (F[h] + 1) = D * F[h] + D
      BY <1>8, <1>9
    <3>3. D * F[h] \in Nat /\ D * F[g] \in Nat
      BY <1>8, <1>9, Product
    <3> QED
      BY <1>8, <1>9, <2>3, <3>1, <3>2, <3>3
  <2>5. CASE F[g] < F[h]
    BY <1>9, <1>16, <2>5
  <2>6. CASE F[g] = F[h] /\ t > 0
    <3>1. R[g] < R[h]
      <4>1. D * F[g] = D * F[h] /\ D * F[g] \in Nat
        BY <1>8, <1>9, <2>6
      <4> QED
        BY <1>9, <2>1, <2>2, <2>6, <4>1
    <3>2. g \in L => h \in L
      BY <1>5, <1>9, <3>1
    <3> QED
      BY <1>9, <1>16, <2>6, <3>2
  <2>7. CASE F[g] = F[h] /\ ~(t > 0)
    <3>1. t = 0 /\ \A k \in E : t * W[k] = 0
      BY <1>2, <1>9, <2>7
    <3>2. \A k \in E : ~(R[k] > 0)
      <4> TAKE k \in E
      <4>1. D * F[k] \in Nat
        BY <1>8, <1>9
      <4> QED
        BY <1>9, <3>1, <4>1
    <3>3. g \notin L /\ h \notin L
      BY <1>15, <3>2
    <3> QED
      BY <1>9, <1>16, <2>7, <3>3
  <2> QED
    BY <1>9, <2>4, <2>5, <2>6, <2>7, <1>2
<1> QED
  BY <1>16, <1>17, <1>18, <1>19

\* A pool that is shared is divided exactly.
LEMMA SharingSteps ==
  ASSUME EngineTypeOK, AllocateShare
  PROVE  EngineTypeOK' /\ AmountsAreExact'
<1>1. input.call = "share" /\ UNCHANGED input /\ Eligible # {} /\ input \in ShareInputs
  BY DEF AllocateShare, EngineTypeOK, AmountInputs
<1>2. PICK L \in Lucky : result' = [h \in Eligible |-> Floor[h] + (IF h \in L THEN 1 ELSE 0)]
  BY DEF AllocateShare
<1>3. /\ result' \in [Eligible -> Nat]
      /\ SumFunctionOnSet(result', Eligible) = input.total
      /\ \A h \in Eligible : Distance(result'[h] * TotalWeight, input.total * Weight[h]) < TotalWeight
      /\ \A g, h \in Eligible : Weight[g] < Weight[h] => result'[g] <= result'[h]
  BY <1>1, <1>2, PoolIsDivided
<1>4. EngineTypeOK'
  BY <1>1, <1>3 DEF EngineTypeOK, Eligible
<1>5. Eligible' = Eligible /\ Weight' = Weight /\ TotalWeight' = TotalWeight
  BY <1>1 DEF Eligible, Weight, TotalWeight
<1>6. PoolIsDividedExactly'
  BY <1>1, <1>3, <1>5 DEF PoolIsDividedExactly
<1>7. AmountIsRoundedAtTheEnd'
  BY <1>1 DEF AmountIsRoundedAtTheEnd
<1> QED
  BY <1>4, <1>6, <1>7 DEF AmountsAreExact

\* An amount that is computed is rounded at the end.
LEMMA AmountSteps ==
  ASSUME EngineTypeOK, CalcOne
  PROVE  EngineTypeOK' /\ AmountsAreExact'
<1>1. input.call = "amount" /\ UNCHANGED input /\ input \in AmountInputs
  BY DEF CalcOne, EngineTypeOK, ShareInputs
<1> DEFINE cents == IF input.yuan THEN 100 * Round(RawCents, 100) ELSE RawCents
<1>2. result' = [c \in {"cents"} |-> cents]
  BY DEF CalcOne
<1>3. /\ cents \in Nat
      /\ Distance(100 * cents, input.price * input.amount * input.months) <= (IF input.yuan THEN 5050 ELSE 50)
  BY <1>1, AmountIsNear
<1> HIDE DEF cents
<1>4. DOMAIN result' = {"cents"} /\ result'["cents"] = cents
  BY <1>2
<1>5. EngineTypeOK'
  BY <1>1, <1>3, <1>4 DEF EngineTypeOK
<1>6. AmountIsRoundedAtTheEnd'
  BY <1>1, <1>3, <1>4 DEF AmountIsRoundedAtTheEnd
<1>7. PoolIsDividedExactly'
  BY <1>1 DEF PoolIsDividedExactly
<1> QED
  BY <1>5, <1>6, <1>7 DEF AmountsAreExact

\* Shares add up to their pool and an amount is off by its rounding only, for any areas,
\* pools and prices (share, calcOne).
THEOREM AmountsStayExact == EngineSpec => [](EngineTypeOK /\ AmountsAreExact)
<1>1. EngineInit => EngineTypeOK /\ AmountsAreExact
  BY DEF EngineInit, EngineTypeOK, AmountsAreExact, PoolIsDividedExactly, AmountIsRoundedAtTheEnd, NoResult
<1>2. EngineTypeOK /\ AmountsAreExact /\ [EngineNext]_engineVars => EngineTypeOK' /\ AmountsAreExact'
  <2> SUFFICES ASSUME EngineTypeOK, AmountsAreExact, [EngineNext]_engineVars
               PROVE  EngineTypeOK' /\ AmountsAreExact'
    OBVIOUS
  <2>1. CASE AllocateShare
    BY <2>1, SharingSteps
  <2>2. CASE CalcOne
    BY <2>2, AmountSteps
  <2>3. CASE UNCHANGED engineVars
    BY <2>3 DEF engineVars, EngineTypeOK, AmountsAreExact, PoolIsDividedExactly, AmountIsRoundedAtTheEnd,
                Eligible, Weight, TotalWeight
  <2> QED
    BY <2>1, <2>2, <2>3 DEF EngineNext
<1> QED
  BY <1>1, <1>2, PTL DEF EngineSpec
=============================================================================
