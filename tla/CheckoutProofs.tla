----------------------------- MODULE CheckoutProofs ------------------------------
(*****************************************************************************)
(* What stands between an owner and a payment, for any values of the         *)
(* constants: no order slips past a pause of collection; the work of an      *)
(* idempotency key is done once and answers are true; and the page that      *)
(* pays asks the server about one order at a time.  Each part has an         *)
(* inductive invariant, the lemma that the steps keep it, and the theorems.  *)
(*****************************************************************************)
EXTENDS CollectionPolicy, Idempotency, PayPage, FiniteSetTheorems, TLAPS

-----------------------------------------------------------------------------
(* CollectionPolicy *)

\* What a transaction has read is still so: the locks it holds keep it.
AskedIsOpen == \A o \in Orders : \A i \in 1 .. creating[o] : Checked[i] \notin paused

\* What lets an order pass the layers of the policy.
PolicyInv == PolicyTypeOK /\ AskedIsOpen /\ PausedTakesNoOrder

\* There are finitely many layers to ask, and each is a layer.
LEMMA LayersAreChecked == Len(Checked) \in Nat /\ \A i \in 1 .. Len(Checked) : Checked[i] \in Layers
  BY LayersAssumption

\* At first nothing is being created.
LEMMA PolicyInitInv == PolicyInit => PolicyInv
  BY LayersAreChecked DEF PolicyInit, PolicyInv, PolicyTypeOK, AskedIsOpen, PausedTakesNoOrder

\* Every step keeps the invariant; that of a switch needs the locks.
LEMMA PolicyNextInv == PolicyInv /\ [PolicyNext]_policyVars => PolicyInv'
<1> SUFFICES ASSUME PolicyInv, [PolicyNext]_policyVars PROVE PolicyInv'
  OBVIOUS
<1> USE LayersAreChecked
<1>1. ASSUME NEW l \in Layers, SetPolicy(l) PROVE PolicyInv'
  <2>1. PolicyTypeOK' /\ PausedTakesNoOrder'
    BY <1>1 DEF PolicyInv, PolicyTypeOK, PausedTakesNoOrder, SetPolicy
  <2>2. ASSUME NEW o \in Orders, NEW i \in 1 .. creating[o] PROVE Checked[i] # l
    BY <1>1, <2>2 DEF SetPolicy, Held
  <2>3. AskedIsOpen'
    BY <1>1, <2>2 DEF PolicyInv, AskedIsOpen, SetPolicy
  <2> QED
    BY <2>1, <2>3 DEF PolicyInv
<1>2. ASSUME NEW o \in Orders, CheckLayer(o) PROVE PolicyInv'
  <2>1. creating[o] + 1 \in 1 .. Len(Checked)
    BY <1>2 DEF PolicyInv, PolicyTypeOK, CheckLayer
  <2>2. PolicyTypeOK' /\ PausedTakesNoOrder'
    BY <1>2, <2>1 DEF PolicyInv, PolicyTypeOK, PausedTakesNoOrder, CheckLayer
  <2>3. AskedIsOpen'
    <3> SUFFICES ASSUME NEW q \in Orders, NEW i \in 1 .. creating'[q] PROVE Checked[i] \notin paused'
      BY DEF AskedIsOpen
    <3>1. CASE i \in 1 .. creating[q]
      BY <1>2, <3>1 DEF PolicyInv, AskedIsOpen, CheckLayer
    <3>2. CASE i \notin 1 .. creating[q]
      BY <1>2, <2>1, <3>2 DEF PolicyInv, PolicyTypeOK, CheckLayer
    <3> QED
      BY <3>1, <3>2
  <2> QED
    BY <2>2, <2>3 DEF PolicyInv
<1>3. ASSUME NEW o \in Orders, CommitOrder(o) PROVE PolicyInv'
  <2>1. \A i \in 1 .. Len(Checked) : Checked[i] \notin paused
    BY <1>3 DEF PolicyInv, AskedIsOpen, CommitOrder
  <2> QED
    BY <1>3, <2>1 DEF PolicyInv, PolicyTypeOK, AskedIsOpen, PausedTakesNoOrder, CommitOrder
<1>4. ASSUME NEW o \in Orders, OrderRollsBack(o) PROVE PolicyInv'
  BY <1>4 DEF PolicyInv, PolicyTypeOK, AskedIsOpen, PausedTakesNoOrder, OrderRollsBack
<1>5. CASE UNCHANGED policyVars
  BY <1>5 DEF PolicyInv, PolicyTypeOK, AskedIsOpen, PausedTakesNoOrder, policyVars
<1> QED
  BY <1>1, <1>2, <1>3, <1>4, <1>5 DEF PolicyNext

\* The invariant holds in every reachable state.
THEOREM PolicyInvariance == PolicySpec => []PolicyInv
  BY PolicyInitInv, PolicyNextInv, PTL DEF PolicySpec

\* The variables keep their types.
THEOREM PolicyTypeCorrect == PolicySpec => []PolicyTypeOK
<1>1. PolicyInv => PolicyTypeOK
  BY DEF PolicyInv
<1> QED
  BY <1>1, PolicyInvariance, PTL

\* Collection that is paused takes no order (assertOpenForUpdate).
THEOREM PauseIsKept == PolicySpec => []PausedTakesNoOrder
<1>1. PolicyInv => PausedTakesNoOrder
  BY DEF PolicyInv
<1> QED
  BY <1>1, PolicyInvariance, PTL

-----------------------------------------------------------------------------
(* Idempotency *)

\* A record knows the call that made it, and with it the body of the request.
KeyRecordOK(k) ==
  IF record[k].status = "NONE" THEN record[k].owner = NoCall
  ELSE /\ record[k].owner \in Calls
       /\ Key(record[k].owner) = k
       /\ record[k].hash = call[record[k].owner].payload

\* The call that works is the one that made the record.
CallerOK(c) == call[c].step \in {"work", "complete", "fail"} => Row(c).owner = c
\* Work is done by the call that owns the record of its key.
WorkOK == \A w \in worked : record[w[1]].owner = w[2]
\* A success is that of a call which did the work, and is answered as such.
SuccessOK == \A k \in Keys : record[k].status = "SUCCEEDED" => <<k, record[k].answer>> \in worked
\* Before a call completes it has worked.
CompletingOK(c) == call[c].step = "complete" => <<Key(c), c>> \in worked

\* What ties records, calls and work together.
IdempotencyInv ==
  /\ IdempotencyTypeOK
  /\ \A k \in Keys : KeyRecordOK(k)
  /\ \A c \in Calls : CallerOK(c) /\ CompletingOK(c)
  /\ WorkOK
  /\ SuccessOK
  /\ AnswersAreTrue

\* The invariant says what the property does.
LEMMA IdempotencyInvImplies == IdempotencyInv => IdempotentCalls
<1> SUFFICES ASSUME IdempotencyInv PROVE WorkedOnce
  BY DEF IdempotencyInv, IdempotentCalls
<1>1. ASSUME NEW w \in worked, NEW x \in worked, w[1] = x[1] PROVE w = x
  BY <1>1 DEF IdempotencyInv, WorkOK, IdempotencyTypeOK
<1> QED
  BY <1>1 DEF WorkedOnce

\* At first there is no record and no work.
LEMMA IdempotencyInitInv == IdempotencyInit => IdempotencyInv
  BY NoCallAssumption
  DEF IdempotencyInit, IdempotencyInv, IdempotencyTypeOK, KeyRecordOK, CallerOK, CompletingOK, WorkOK, SuccessOK, AnswersAreTrue,
      KeyRecords, KeyStatuses, CallRecords, CallSteps

\* A call that goes on to another step keeps its key and its body.
LEMMA GoesKeepsRequest ==
  ASSUME IdempotencyTypeOK, NEW c \in Calls, NEW step \in CallSteps, CallGoes(c, step)
  PROVE  /\ call' \in [Calls -> CallRecords]
         /\ \A d \in Calls : /\ Key(d)' = Key(d) /\ call'[d].payload = call[d].payload
                             /\ call'[d].step = IF d = c THEN step ELSE call[d].step
  BY DEF IdempotencyTypeOK, CallGoes, CallRecords, Key

\* What a call does that touches neither records nor work.
LEMMA QuietCall ==
  ASSUME IdempotencyInv, NEW c \in Calls, NEW step \in {"create", "reread", "done"}, CallGoes(c, step),
         UNCHANGED <<record, worked>>,
         \A a \in answered' : a \in answered \/ (a[1] = c /\ a \in Calls \X Calls /\ <<Key(c), a[2]>> \in worked /\ call[c].payload = call[a[2]].payload),
         answered' \in SUBSET (Calls \X Calls)
  PROVE  IdempotencyInv'
<1>1. step \in CallSteps /\ IdempotencyTypeOK
  BY DEF CallSteps, IdempotencyInv
<1>2. /\ call' \in [Calls -> CallRecords]
      /\ \A d \in Calls : /\ Key(d)' = Key(d) /\ call'[d].payload = call[d].payload
                          /\ call'[d].step = IF d = c THEN step ELSE call[d].step
  BY <1>1, GoesKeepsRequest
<1>3. IdempotencyTypeOK'
  BY <1>2 DEF IdempotencyInv, IdempotencyTypeOK
<1>4. \A k \in Keys : KeyRecordOK(k)'
  BY <1>2 DEF IdempotencyInv, KeyRecordOK
<1>5. \A d \in Calls : CallerOK(d)' /\ CompletingOK(d)'
  BY <1>2 DEF IdempotencyInv, CallerOK, CompletingOK, Row
<1>6. WorkOK' /\ SuccessOK'
  BY DEF IdempotencyInv, WorkOK, SuccessOK
<1>7. AnswersAreTrue'
  BY <1>1, <1>2 DEF IdempotencyInv, AnswersAreTrue, IdempotencyTypeOK
<1> QED
  BY <1>3, <1>4, <1>5, <1>6, <1>7 DEF IdempotencyInv

\* resolveExisting replays nothing but the work of the key for the same body.
LEMMA ResolveStep ==
  ASSUME IdempotencyInv, NEW c \in Calls, Resolve(c), UNCHANGED <<record, worked>>
  PROVE  IdempotencyInv'
<1>1. CASE SameRequest(c) /\ Row(c).status = "SUCCEEDED"
  <2>1. Key(c) \in Keys
    BY DEF IdempotencyInv, IdempotencyTypeOK, Key, CallRecords
  <2>2. <<Key(c), Row(c).answer>> \in worked /\ Row(c).answer \in Calls
    BY <1>1, <2>1 DEF IdempotencyInv, SuccessOK, Row, IdempotencyTypeOK
  <2>3. Row(c).owner = Row(c).answer
    BY <2>1, <2>2 DEF IdempotencyInv, WorkOK, Row
  <2>4. call[Row(c).answer].payload = call[c].payload
    BY <1>1, <2>1, <2>3 DEF IdempotencyInv, KeyRecordOK, SameRequest, Row
  <2>5. answered' = answered \cup {<<c, Row(c).answer>>} /\ CallGoes(c, "done")
    BY <1>1 DEF Resolve
  <2> QED
    BY <2>2, <2>4, <2>5, QuietCall DEF IdempotencyInv, IdempotencyTypeOK
<1>2. CASE ~(SameRequest(c) /\ Row(c).status = "SUCCEEDED")
  BY <1>2, QuietCall DEF Resolve, IdempotencyInv, IdempotencyTypeOK
<1> QED
  BY <1>1, <1>2

\* The unique key lets one call make the record.
LEMMA CreateRecordStep ==
  ASSUME IdempotencyInv, NEW c \in Calls, CreateRecord(c)
  PROVE  IdempotencyInv'
<1> USE NoCallAssumption
<1>0. Key(c) \in Keys /\ call[c] \in CallRecords
  BY DEF IdempotencyInv, IdempotencyTypeOK, Key, CallRecords
<1>1. CASE Free(c)
  <2>1. CallGoes(c, "work") /\ UNCHANGED <<worked, answered>>
    BY <1>1 DEF CreateRecord
  <2>2. /\ call' \in [Calls -> CallRecords]
        /\ \A d \in Calls : /\ Key(d)' = Key(d) /\ call'[d].payload = call[d].payload
                            /\ call'[d].step = IF d = c THEN "work" ELSE call[d].step
    BY <2>1, GoesKeepsRequest DEF IdempotencyInv, CallSteps
  <2>3. record' = [record EXCEPT ![Key(c)] = [status |-> "PROCESSING", hash |-> call[c].payload,
                                               owner |-> c, answer |-> NoCall]]
    BY <1>1 DEF CreateRecord
  <2>4. [status |-> "PROCESSING", hash |-> call[c].payload, owner |-> c, answer |-> NoCall] \in KeyRecords
    BY <1>0 DEF KeyRecords, KeyStatuses, CallRecords
  <2>5. IdempotencyTypeOK'
    BY <2>1, <2>2, <2>3, <2>4 DEF IdempotencyInv, IdempotencyTypeOK
  <2>6. record[Key(c)].owner = NoCall
    BY <1>0, <1>1 DEF IdempotencyInv, KeyRecordOK, Free, Row
  <2>7. \A w \in worked : w[1] # Key(c)
    BY <2>6 DEF IdempotencyInv, WorkOK, IdempotencyTypeOK
  <2>8. \A k \in Keys : KeyRecordOK(k)'
    <3> SUFFICES ASSUME NEW k \in Keys PROVE KeyRecordOK(k)'
      OBVIOUS
    <3>1. CASE k = Key(c)
      BY <1>0, <2>2, <2>3, <3>1 DEF IdempotencyInv, KeyRecordOK, IdempotencyTypeOK
    <3>2. CASE k # Key(c)
      BY <2>2, <2>3, <3>2 DEF IdempotencyInv, KeyRecordOK, IdempotencyTypeOK
    <3> QED
      BY <3>1, <3>2
  <2>9. \A d \in Calls : CallerOK(d)' /\ CompletingOK(d)'
    <3> SUFFICES ASSUME NEW d \in Calls PROVE CallerOK(d)' /\ CompletingOK(d)'
      OBVIOUS
    <3>1. Key(d) \in Keys
      BY DEF IdempotencyInv, IdempotencyTypeOK, Key, CallRecords
    <3>2. CallerOK(d)'
      BY <1>0, <2>2, <2>3, <2>6, <3>1 DEF IdempotencyInv, CallerOK, Row, IdempotencyTypeOK
    <3>3. CompletingOK(d)'
      BY <2>1, <2>2 DEF IdempotencyInv, CompletingOK
    <3> QED
      BY <3>2, <3>3
  <2>10. WorkOK' /\ SuccessOK'
    BY <1>0, <2>1, <2>3, <2>7 DEF IdempotencyInv, WorkOK, SuccessOK, IdempotencyTypeOK
  <2>11. AnswersAreTrue'
    BY <2>1, <2>2 DEF IdempotencyInv, AnswersAreTrue, IdempotencyTypeOK
  <2> QED
    BY <2>5, <2>8, <2>9, <2>10, <2>11 DEF IdempotencyInv
<1>2. CASE ~Free(c)
  BY <1>2, QuietCall DEF CreateRecord, IdempotencyInv, IdempotencyTypeOK
<1> QED
  BY <1>1, <1>2

\* Only the owner of the record works.
LEMMA WorkStep ==
  ASSUME IdempotencyInv, NEW c \in Calls, DoWork(c)
  PROVE  IdempotencyInv'
<1>0. Key(c) \in Keys /\ Row(c).owner = c
  BY DEF IdempotencyInv, IdempotencyTypeOK, Key, CallRecords, CallerOK, DoWork, CallAt
<1>1. PICK step \in {"complete", "fail"} :
        /\ CallGoes(c, step)
        /\ worked' = IF step = "complete" THEN worked \cup {<<Key(c), c>>} ELSE worked
  BY DEF DoWork
<1>2. UNCHANGED <<record, answered>>
  BY DEF DoWork
<1>3. /\ call' \in [Calls -> CallRecords]
      /\ \A d \in Calls : /\ Key(d)' = Key(d) /\ call'[d].payload = call[d].payload
                          /\ call'[d].step = IF d = c THEN step ELSE call[d].step
  BY <1>1, GoesKeepsRequest DEF IdempotencyInv, CallSteps
<1>4. IdempotencyTypeOK'
  BY <1>0, <1>1, <1>2, <1>3 DEF IdempotencyInv, IdempotencyTypeOK
<1>5. \A k \in Keys : KeyRecordOK(k)'
  BY <1>2, <1>3 DEF IdempotencyInv, KeyRecordOK
<1>6. \A d \in Calls : CallerOK(d)'
  BY <1>0, <1>2, <1>3 DEF IdempotencyInv, CallerOK, Row
<1>7. \A d \in Calls : CompletingOK(d)'
  BY <1>1, <1>3 DEF IdempotencyInv, CompletingOK
<1>8. WorkOK' /\ SuccessOK'
  BY <1>0, <1>1, <1>2 DEF IdempotencyInv, WorkOK, SuccessOK, Row
<1>9. AnswersAreTrue'
  BY <1>1, <1>2, <1>3 DEF IdempotencyInv, AnswersAreTrue, IdempotencyTypeOK
<1> QED
  BY <1>4, <1>5, <1>6, <1>7, <1>8, <1>9 DEF IdempotencyInv

\* The status of a record under way is settled by the call that owns it.
LEMMA SettleStep ==
  ASSUME IdempotencyInv, NEW c \in Calls, IsProcessing(c), CallGoes(c, "done"),
         NEW status \in {"SUCCEEDED", "FAILED"},
         record' = [record EXCEPT ![Key(c)].status = status,
                                  ![Key(c)].answer = IF status = "SUCCEEDED" THEN c ELSE @],
         status = "SUCCEEDED" => <<Key(c), c>> \in worked,
         worked' = worked,
         answered' = IF status = "SUCCEEDED" THEN answered \cup {<<c, c>>} ELSE answered
  PROVE  IdempotencyInv'
<1>0. Key(c) \in Keys /\ record[Key(c)] \in KeyRecords
  BY DEF IdempotencyInv, IdempotencyTypeOK, Key, CallRecords
<1>1. /\ call' \in [Calls -> CallRecords]
      /\ \A d \in Calls : /\ Key(d)' = Key(d) /\ call'[d].payload = call[d].payload
                          /\ call'[d].step = IF d = c THEN "done" ELSE call[d].step
  BY GoesKeepsRequest DEF IdempotencyInv, CallSteps
<1>2. record' \in [Keys -> KeyRecords]
  <2>1. [record[Key(c)] EXCEPT !.status = status, !.answer = IF status = "SUCCEEDED" THEN c ELSE @] \in KeyRecords
    BY <1>0 DEF KeyRecords, KeyStatuses
  <2> QED
    BY <1>0, <2>1 DEF IdempotencyInv, IdempotencyTypeOK
<1>3. IdempotencyTypeOK'
  BY <1>1, <1>2 DEF IdempotencyInv, IdempotencyTypeOK
<1>4. \A k \in Keys : /\ record'[k].owner = record[k].owner /\ record'[k].hash = record[k].hash
                      /\ record'[k].status = IF k = Key(c) THEN status ELSE record[k].status
                      /\ record'[k].answer = IF k = Key(c) /\ status = "SUCCEEDED" THEN c ELSE record[k].answer
  BY <1>0 DEF IdempotencyInv, IdempotencyTypeOK, KeyRecords
<1>5. \A k \in Keys : KeyRecordOK(k)'
  <2> SUFFICES ASSUME NEW k \in Keys PROVE KeyRecordOK(k)'
    OBVIOUS
  <2>1. KeyRecordOK(k)
    BY DEF IdempotencyInv
  <2>2. CASE record[k].status = "NONE"
    <3>1. k # Key(c)
      BY <2>2 DEF IsProcessing, Row
    <3> QED
      BY <1>4, <2>1, <2>2, <3>1 DEF KeyRecordOK
  <2>3. CASE record[k].status # "NONE"
    <3>1. /\ record[k].owner \in Calls /\ Key(record[k].owner) = k
          /\ record[k].hash = call[record[k].owner].payload
      BY <2>1, <2>3 DEF KeyRecordOK
    <3>2. PICK d \in Calls : d = record[k].owner
      BY <3>1
    <3>3. Key(d)' = k /\ call'[d].payload = record[k].hash
      BY <1>1, <3>1, <3>2, Zenon
    <3>4. record'[k].owner = d /\ record'[k].hash = record[k].hash
      BY <1>4, <3>2, Zenon
    <3>5. record'[k].status # "NONE"
      BY <1>4, <2>3
    <3> QED
      BY <3>2, <3>3, <3>4, <3>5, Zenon DEF KeyRecordOK
  <2> QED
    BY <2>2, <2>3
<1>6. \A d \in Calls : CallerOK(d)' /\ CompletingOK(d)'
  <2> SUFFICES ASSUME NEW d \in Calls PROVE CallerOK(d)' /\ CompletingOK(d)'
    OBVIOUS
  <2>1. Key(d) \in Keys
    BY DEF IdempotencyInv, IdempotencyTypeOK, Key, CallRecords
  <2> QED
    BY <1>1, <1>4, <2>1 DEF IdempotencyInv, CallerOK, CompletingOK, Row
<1>7. WorkOK' /\ SuccessOK'
  BY <1>4 DEF IdempotencyInv, WorkOK, SuccessOK, IdempotencyTypeOK
<1>8. AnswersAreTrue'
  BY <1>1 DEF IdempotencyInv, AnswersAreTrue, IdempotencyTypeOK
<1> QED
  BY <1>3, <1>5, <1>6, <1>7, <1>8 DEF IdempotencyInv

\* A call that stops working leaves the record to nobody.
LEMMA StopStep ==
  ASSUME IdempotencyInv, NEW c \in Calls, NEW step \in {"fail", "done"}, CallGoes(c, step),
         step = "fail" => Row(c).owner = c, UNCHANGED <<record, worked, answered>>
  PROVE  IdempotencyInv'
<1>1. /\ call' \in [Calls -> CallRecords]
      /\ \A d \in Calls : /\ Key(d)' = Key(d) /\ call'[d].payload = call[d].payload
                          /\ call'[d].step = IF d = c THEN step ELSE call[d].step
  BY GoesKeepsRequest DEF IdempotencyInv, CallSteps
<1>2. IdempotencyTypeOK' /\ \A k \in Keys : KeyRecordOK(k)'
  BY <1>1 DEF IdempotencyInv, IdempotencyTypeOK, KeyRecordOK
<1>3. \A d \in Calls : CallerOK(d)' /\ CompletingOK(d)'
  BY <1>1 DEF IdempotencyInv, CallerOK, CompletingOK, Row
<1>4. WorkOK' /\ SuccessOK'
  BY DEF IdempotencyInv, WorkOK, SuccessOK
<1>5. AnswersAreTrue'
  BY <1>1 DEF IdempotencyInv, AnswersAreTrue, IdempotencyTypeOK
<1> QED
  BY <1>2, <1>3, <1>4, <1>5 DEF IdempotencyInv

\* Every step keeps the invariant.
LEMMA IdempotencyNextInv == IdempotencyInv /\ [IdempotencyNext]_idempotencyVars => IdempotencyInv'
<1> SUFFICES ASSUME IdempotencyInv, [IdempotencyNext]_idempotencyVars PROVE IdempotencyInv'
  OBVIOUS
<1>1. ASSUME NEW c \in Calls, FindRecord(c) PROVE IdempotencyInv'
  <2>1. CASE Row(c).status = "NONE"
    BY <1>1, <2>1, QuietCall DEF FindRecord, IdempotencyInv, IdempotencyTypeOK
  <2>2. CASE Row(c).status # "NONE"
    BY <1>1, <2>2, ResolveStep DEF FindRecord
  <2> QED
    BY <2>1, <2>2
<1>2. ASSUME NEW c \in Calls, CreateRecord(c) PROVE IdempotencyInv'
  BY <1>2, CreateRecordStep
<1>3. ASSUME NEW c \in Calls, RereadRecord(c) PROVE IdempotencyInv'
  BY <1>3, ResolveStep DEF RereadRecord
<1>4. ASSUME NEW c \in Calls, DoWork(c) PROVE IdempotencyInv'
  BY <1>4, WorkStep
<1>5. ASSUME NEW c \in Calls, Complete(c) PROVE IdempotencyInv'
  <2>1. <<Key(c), c>> \in worked /\ Row(c).owner = c
    BY <1>5 DEF IdempotencyInv, CompletingOK, CallerOK, Complete, CallAt
  <2>2. CASE IsProcessing(c)
    BY <1>5, <2>1, <2>2, SettleStep DEF Complete
  <2>3. CASE ~IsProcessing(c)
    BY <1>5, <2>1, <2>3, StopStep DEF Complete
  <2> QED
    BY <2>2, <2>3
<1>6. ASSUME NEW c \in Calls, CompleteThrows(c) PROVE IdempotencyInv'
  BY <1>6, StopStep DEF CompleteThrows, IdempotencyInv, CallerOK, CallAt
<1>7. ASSUME NEW c \in Calls, Fail(c) PROVE IdempotencyInv'
  <2>1. CASE IsProcessing(c)
    <3>1. record' = [record EXCEPT ![Key(c)].status = "FAILED"]
      BY <1>7, <2>1 DEF Fail
    <3>2. Key(c) \in Keys /\ record[Key(c)] \in KeyRecords
      BY DEF IdempotencyInv, IdempotencyTypeOK, Key, CallRecords
    <3>3. record' = [record EXCEPT ![Key(c)].status = "FAILED",
                                   ![Key(c)].answer = IF "FAILED" = "SUCCEEDED" THEN c ELSE @]
      BY <3>1, <3>2 DEF KeyRecords, IdempotencyInv, IdempotencyTypeOK
    <3> QED
      BY <1>7, <2>1, <3>3, SettleStep DEF Fail
  <2>2. CASE ~IsProcessing(c)
    BY <1>7, <2>2, StopStep DEF Fail
  <2> QED
    BY <2>1, <2>2
<1>8. ASSUME NEW c \in Calls, Die(c) PROVE IdempotencyInv'
  BY <1>8, StopStep DEF Die
<1>9. CASE UNCHANGED idempotencyVars
  BY <1>9 DEF IdempotencyInv, IdempotencyTypeOK, KeyRecordOK, CallerOK, CompletingOK, WorkOK, SuccessOK, AnswersAreTrue,
              Key, Row, idempotencyVars
<1> QED
  BY <1>1, <1>2, <1>3, <1>4, <1>5, <1>6, <1>7, <1>8, <1>9 DEF IdempotencyNext

\* The invariant holds in every reachable state.
THEOREM IdempotencyInvariance == IdempotencySpec => []IdempotencyInv
  BY IdempotencyInitInv, IdempotencyNextInv, PTL DEF IdempotencySpec

\* The variables keep their types.
THEOREM IdempotencyTypeCorrect == IdempotencySpec => []IdempotencyTypeOK
<1>1. IdempotencyInv => IdempotencyTypeOK
  BY DEF IdempotencyInv
<1> QED
  BY <1>1, IdempotencyInvariance, PTL

\* Retries and duplicates neither repeat work nor get the answer of another request
\* (reserve, complete and fail in idempotency.service.ts).
THEOREM WorkIsIdempotent == IdempotencySpec => []IdempotentCalls
  BY IdempotencyInvImplies, IdempotencyInvariance, PTL

-----------------------------------------------------------------------------
(* PayPage *)

\* An order in this state stands in the way of another.
Live(k) == order[k] \in {"CREATED", "PREPAY_UNKNOWN", "SUCCESS"}

\* The server: one order at a time is open or paid, WeChat is paid only for that one, and
\* an order whose cashier parameters were given out is no longer refused.
ServerInv ==
  /\ \A j, k \in RequestIds : Live(j) /\ Live(k) => j = k
  /\ \A k \in paid : Live(k) /\ answer[k] = "PARAMS"
  /\ \A k \in RequestIds : /\ order[k] = "SUCCESS" => k \in paid
                           /\ answer[k] = "NONE" => order[k] = "NONE"
                           /\ answer[k] \in {"PROCESSING", "PARAMS", "UNKNOWN"} => order[k] # "NONE"

\* The page: while it pays or cancels it has the order of its requestId in hand and says
\* nothing; only orders that are over are dead ends, and only an answer in doubt is asked
\* for again under a requestId that has met one.
PageInv ==
  /\ page \in {"creating", "cashier", "canceling"} => notice = "none"
  /\ page \in {"cashier", "canceling"} =>
       orderShown = requestId /\ answer[requestId] = "PARAMS" /\ deadEnds[requestId] <= 1
  /\ page \in {"ready", "creating"} /\ answer[requestId] # "UNKNOWN" => deadEnds[requestId] = 0
  /\ \A k \in RequestIds : /\ k > requestId => deadEnds[k] = 0
                           /\ deadEnds[k] > 0 => Over(k)
  /\ notice = "canceled" => orderShown \in RequestIds /\ Over(orderShown)
  /\ notice = "paid" => orderShown \in paid

\* What the server and the page keep between them.
PayPageInv == PayPageTypeOK /\ ServerInv /\ PageInv

\* At first nothing was asked for.
LEMMA PayPageInitInv == PayPageInit => PayPageInv
<1> USE MaxRequestsAssumption
<1>1. PayPageInit => PayPageTypeOK
  BY DEF PayPageInit, PayPageTypeOK, RequestIds, PageSteps, Notices, OrderStatuses, RecordStates
<1>2. PayPageInit => ServerInv
  BY DEF PayPageInit, ServerInv, Live
<1>3. PayPageInit => PageInv
  BY DEF PayPageInit, PageInv, RequestIds
<1> QED
  BY <1>1, <1>2, <1>3 DEF PayPageInv

\* A new requestId has met no dead end.
LEMMA ResetKeeps ==
  ASSUME PayPageInv, ResetRequestId
  PROVE  /\ requestId' \in RequestIds /\ page' \in {"ready", "left"}
         /\ page' = "ready" => requestId' = requestId + 1
         /\ requestId' >= requestId
BY MaxRequestsAssumption DEF PayPageInv, PayPageTypeOK, ResetRequestId, FreshRequestId, RequestIds

\* cancelWxPay settles what was paid and closes the rest.
LEMMA CanceledKeeps ==
  ASSUME PayPageInv, NEW k \in RequestIds
  PROVE  /\ Canceled(k) \in [RequestIds -> OrderStatuses]
         /\ \A j \in RequestIds : j # k => Canceled(k)[j] = order[j]
         /\ order[k] = "CREATED" => Canceled(k)[k] = IF k \in paid THEN "SUCCESS" ELSE "CLOSED"
         /\ order[k] # "CREATED" => Canceled(k)[k] = order[k]
BY DEF PayPageInv, PayPageTypeOK, Canceled, OrderStatuses

\* An order that is settled as it was paid, or closed as it was not.
LEMMA SettleKeepsServer ==
  ASSUME PayPageInv, NEW k \in RequestIds, UNCHANGED <<paid, answer>>,
         order' \in [RequestIds -> OrderStatuses],
         \A j \in RequestIds : j # k => order'[j] = order[j],
         \/ order'[k] = order[k]
         \/ Live(k) /\ order'[k] = IF k \in paid THEN "SUCCESS" ELSE "CLOSED"
  PROVE  ServerInv' /\ \A j \in RequestIds : Over(j) => Over(j)'
<1>1. \A j \in RequestIds : Live(j)' => Live(j)
  BY DEF Live
<1>2. \A j \in RequestIds : Live(j)' \/ j \notin paid
  BY DEF PayPageInv, PayPageTypeOK, ServerInv, Live
<1>3. \A j \in RequestIds : Over(j) => Over(j)'
  BY DEF PayPageInv, PayPageTypeOK, ServerInv, Live, Over
<1>4. \A j \in RequestIds : /\ order'[j] = "SUCCESS" => j \in paid'
                            /\ answer'[j] = "NONE" => order'[j] = "NONE"
                            /\ answer'[j] \in {"PROCESSING", "PARAMS", "UNKNOWN"} => order'[j] # "NONE"
  BY DEF PayPageInv, PayPageTypeOK, ServerInv, Live
<1> QED
  BY <1>1, <1>2, <1>3, <1>4 DEF PayPageInv, PayPageTypeOK, ServerInv

\* The page's steps that leave the server alone.
LEMMA PageMoves ==
  ASSUME PayPageInv, SubmitPay \/ CreateFails \/ OpenCashier \/ OrderInDoubt \/ CashierFails
  PROVE  PayPageInv'
<1> USE DEF PayPageInv
<1>1. UNCHANGED <<answer, order, paid>>
  BY DEF SubmitPay, CreateFails, OpenCashier, OrderInDoubt, CashierFails
<1>2. ServerInv'
  BY <1>1 DEF ServerInv, Live
<1>3. \A k \in RequestIds : Over(k)' <=> Over(k)
  BY <1>1 DEF Over
<1>4. CASE SubmitPay
  BY <1>1, <1>2, <1>3, <1>4 DEF SubmitPay, PayPageTypeOK, PageInv, PageSteps, Notices
<1>5. CASE CreateFails
  <2>1. /\ requestId' \in RequestIds /\ page' \in {"ready", "left"} /\ requestId' >= requestId
        /\ page' = "ready" => requestId' = requestId + 1
    BY <1>5, ResetKeeps DEF CreateFails
  <2> QED
    BY <1>1, <1>2, <1>3, <1>5, <2>1 DEF CreateFails, PayPageTypeOK, PageInv, PageSteps, RequestIds
<1>6. ASSUME Given(requestId)
      PROVE  /\ deadEnds' \in [RequestIds -> 0..2]
             /\ \A k \in RequestIds : /\ k # requestId => deadEnds'[k] = deadEnds[k]
                                      /\ deadEnds'[k] > 0 => Over(k)
             /\ deadEnds[requestId] = 0 => deadEnds'[requestId] <= 1
  BY <1>6 DEF Given, PayPageTypeOK, PageInv
<1>7. CASE OpenCashier
  <2>1. deadEnds[requestId] = 0 /\ notice = "none"
    BY <1>7 DEF OpenCashier, Given, PageInv
  <2> QED
    BY <1>1, <1>2, <1>3, <1>6, <1>7, <2>1 DEF OpenCashier, PayPageTypeOK, PageInv, PageSteps, RequestIds
<1>8. CASE OrderInDoubt
  <2>1. PayPageTypeOK'
    BY <1>1, <1>6, <1>8 DEF OrderInDoubt, PayPageTypeOK, PageSteps, Notices
  <2>2. \A k \in RequestIds : /\ k > requestId => deadEnds'[k] = 0
                              /\ deadEnds'[k] > 0 => Over(k)'
    <3>1. requestId \in Int /\ \A k \in RequestIds : k \in Int
      BY DEF PayPageTypeOK, RequestIds
    <3>2. \A k \in RequestIds : /\ k # requestId => deadEnds'[k] = deadEnds[k]
                                /\ deadEnds'[k] > 0 => Over(k)
      BY <1>6, <1>8 DEF OrderInDoubt
    <3>3. \A k \in RequestIds : k > requestId => deadEnds[k] = 0
      BY DEF PageInv
    <3> QED
      BY <1>3, <3>1, <3>2, <3>3
  <2>3. PageInv'
    BY <1>1, <1>8, <2>2 DEF OrderInDoubt, PageInv
  <2> QED
    BY <1>2, <2>1, <2>3
<1>9. CASE CashierFails
  BY <1>1, <1>2, <1>3, <1>9 DEF CashierFails, PayPageTypeOK, PageInv, PageSteps
<1> QED
  BY <1>4, <1>5, <1>7, <1>8, <1>9

\* WeChat takes money for an order whose parameters the page has, and which is not over.
LEMMA PaysStep == ASSUME PayPageInv, Pays PROVE PayPageInv'
<1> USE DEF PayPageInv
<1>1. /\ orderShown = requestId /\ requestId \in RequestIds /\ answer[requestId] = "PARAMS"
      /\ ~Over(requestId) /\ paid' = paid \cup {requestId} /\ notice = "none"
      /\ UNCHANGED <<requestId, orderShown, deadEnds, sent, answer, order>>
      /\ page = "cashier"
  BY DEF Pays, PageInv, PayPageTypeOK
<1>2. Live(requestId)
  BY <1>1 DEF ServerInv, PayPageTypeOK, OrderStatuses, Live, Over
<1>3. PayPageTypeOK'
  BY <1>1 DEF Pays, PayPageTypeOK, PageSteps, Notices
<1>4. ServerInv'
  BY <1>1, <1>2 DEF ServerInv, Live
<1>5. PageInv'
  BY <1>1 DEF Pays, PageInv, PayPageTypeOK, Over
<1> QED
  BY <1>3, <1>4, <1>5

\* The page cancels what it shows: the answer ends the order, or is lost and it is asked
\* for again.
LEMMA PageCancelStep == ASSUME PayPageInv, CancelAnswered \/ CancelLost PROVE PayPageInv'
<1> USE DEF PayPageInv
<1>1. /\ orderShown = requestId /\ requestId \in RequestIds /\ answer[requestId] = "PARAMS"
      /\ page = "canceling" /\ notice = "none" /\ deadEnds[requestId] <= 1
      /\ UNCHANGED <<orderShown, sent, answer, paid>>
      /\ order' \in {order, Canceled(requestId)}
  BY DEF CancelAnswered, CancelLost, PageInv, PayPageTypeOK
<1>2. /\ order' \in [RequestIds -> OrderStatuses]
      /\ \A j \in RequestIds : j # requestId => order'[j] = order[j]
      /\ \/ order'[requestId] = order[requestId]
         \/ /\ Live(requestId)
            /\ order'[requestId] = IF requestId \in paid THEN "SUCCESS" ELSE "CLOSED"
  BY <1>1, CanceledKeeps DEF PayPageTypeOK, Live
<1>3. ServerInv' /\ \A j \in RequestIds : Over(j) => Over(j)'
  BY <1>1, <1>2, SettleKeepsServer
<1>4. CASE CancelAnswered
  <2> DEFINE status == Canceled(requestId)[requestId]
  <2>1. /\ order'[requestId] = status /\ notice' = Shown(status) /\ deadEnds' = deadEnds
    BY <1>1, <1>4 DEF CancelAnswered
  <2>2. status \in {"PREPAY_UNKNOWN", "CLOSED", "SUCCESS"}
    BY <1>1, CanceledKeeps DEF ServerInv, PayPageTypeOK, OrderStatuses
  <2>3. CASE status = "CLOSED"
    <3>1. /\ requestId' \in RequestIds /\ page' \in {"ready", "left"} /\ requestId' >= requestId
          /\ page' = "ready" => requestId' = requestId + 1
      BY <1>1, <1>4, <2>3, ResetKeeps DEF CancelAnswered
    <3>2. notice' = "canceled" /\ order'[requestId] = "CLOSED"
      BY <2>1, <2>3 DEF Shown
    <3>3. PayPageTypeOK'
      BY <1>1, <1>2, <2>1, <3>1, <3>2 DEF PayPageTypeOK, PageSteps, Notices
    <3>4. PageInv'
      <4>1. \A j \in RequestIds : Over(j) => Over(j)'
        BY <1>3
      <4>2. orderShown' = requestId
        BY <1>1
      <4>3. deadEnds'[requestId'] = 0 \/ page' = "left"
        BY <1>1, <2>1, <3>1 DEF PageInv, RequestIds
      <4>4. \A j \in RequestIds : /\ j > requestId' => deadEnds'[j] = 0
                                  /\ deadEnds'[j] > 0 => Over(j)'
        BY <1>1, <2>1, <3>1, <4>1 DEF PageInv, RequestIds
      <4> QED
        BY <1>1, <3>1, <3>2, <4>2, <4>3, <4>4 DEF PageInv, Over
    <3> QED
      BY <1>3, <3>3, <3>4
  <2>4. CASE status # "CLOSED"
    <3>1. /\ requestId' = requestId /\ page' = IF status = "SUCCESS" THEN "left" ELSE "ready"
          /\ notice' = IF status = "SUCCESS" THEN "paid" ELSE "none"
      BY <1>1, <1>4, <2>1, <2>4 DEF CancelAnswered, Shown
    <3>2. deadEnds[requestId] = 0
      <4>1. ~Over(requestId)
        BY <1>1, <1>3, <2>1, <2>4 DEF Over
      <4> QED
        BY <1>1, <4>1 DEF PageInv, PayPageTypeOK
    <3>3. status = "SUCCESS" => requestId \in paid
      BY <1>1, <1>3, <2>1 DEF ServerInv
    <3>4. PayPageTypeOK'
      BY <1>1, <1>2, <2>1, <3>1 DEF PayPageTypeOK, PageSteps, Notices
    <3>5. PageInv'
      BY <1>1, <1>3, <2>1, <3>1, <3>2, <3>3 DEF PageInv, PayPageTypeOK, RequestIds
    <3> QED
      BY <1>3, <3>4, <3>5
  <2> QED
    BY <2>3, <2>4
<1>5. CASE CancelLost
  <2>1. /\ page' = "ready" /\ notice' = "in doubt" /\ deadEnds' = [k \in RequestIds |-> 0] /\ requestId' = requestId
    BY <1>5 DEF CancelLost
  <2>2. PayPageTypeOK'
    <3>1. 0 \in 0..2
      OBVIOUS
    <3>2. deadEnds' \in [RequestIds -> 0..2]
      BY <2>1, <3>1, Zenon
    <3> QED
      BY <1>1, <1>2, <2>1, <3>2 DEF PayPageTypeOK, PageSteps, Notices
  <2>3. PageInv'
    <3>1. \A k \in RequestIds : deadEnds'[k] = 0
      BY <2>1
    <3>2. requestId' \in RequestIds /\ notice' = "in doubt" /\ page' = "ready"
      BY <1>1, <2>1
    <3>3. \A k \in RequestIds : ~(deadEnds'[k] > 0)
      BY <3>1
    <3>4. deadEnds'[requestId'] = 0
      BY <3>1, <3>2
    <3> QED
      BY <3>1, <3>2, <3>3, <3>4, Zenon DEF PageInv
  <2> QED
    BY <1>3, <2>2, <2>3
<1> QED
  BY <1>4, <1>5

\* The server's steps keep the page's part when no order that is over comes back and no
\* answer that was given changes.
LEMMA PageUndisturbed ==
  ASSUME PayPageInv, UNCHANGED <<requestId, page, orderShown, notice, deadEnds, paid>>,
         \A k \in RequestIds : /\ Over(k) => Over(k)'
                               /\ answer[k] \in {"PARAMS", "UNKNOWN"} => answer'[k] = answer[k]
  PROVE  PageInv'
<1>1. requestId \in RequestIds
  BY DEF PayPageInv, PayPageTypeOK
<1> QED
  BY <1>1 DEF PayPageInv, PageInv

\* The server creates one order at a time, settles it, and prepares the cashier.
LEMMA ServerStep ==
  ASSUME PayPageInv, NEW k \in RequestIds,
         Receive(k) \/ Decide(k) \/ \E outcome \in {"PARAMS", "UNKNOWN", "FAILED"} : Prepay(k, outcome)
  PROVE  PayPageInv'
<1> USE DEF PayPageInv
<1>1. CASE Receive(k)
  <2>1. /\ UNCHANGED <<requestId, page, orderShown, notice, deadEnds, paid>> /\ sent' = sent \ {k}
    BY <1>1 DEF Receive
  <2>2. CASE UNCHANGED <<answer, order>>
    BY <2>1, <2>2 DEF PayPageTypeOK, ServerInv, Live, PageInv, Over
  <2>3. CASE answer[k] = "NONE" /\ answer' = [answer EXCEPT ![k] = "FAILED"] /\ UNCHANGED order
    <3>1. PayPageTypeOK'
      BY <2>1, <2>3 DEF PayPageTypeOK, RecordStates
    <3>2. ServerInv'
      BY <2>1, <2>3 DEF PayPageTypeOK, ServerInv, Live
    <3>3. PageInv'
      BY <2>1, <2>3, PageUndisturbed DEF PayPageTypeOK, Over
    <3> QED
      BY <3>1, <3>2, <3>3
  <2>4. CASE /\ answer[k] = "NONE" /\ Ongoing = {} /\ ~\E j \in RequestIds : order[j] = "SUCCESS"
             /\ answer' = [answer EXCEPT ![k] = "PROCESSING"] /\ order' = [order EXCEPT ![k] = "CREATED"]
    <3>1. PayPageTypeOK'
      BY <2>1, <2>4 DEF PayPageTypeOK, RecordStates, OrderStatuses
    <3>2. order[k] = "NONE" /\ \A j \in RequestIds : ~Live(j)
      BY <2>4 DEF ServerInv, Ongoing, Live
    <3>3. ServerInv'
      BY <2>1, <2>4, <3>2 DEF PayPageTypeOK, ServerInv, Live
    <3>4. PageInv'
      BY <2>1, <2>4, <3>2, PageUndisturbed DEF PayPageTypeOK, Over
    <3> QED
      BY <3>1, <3>3, <3>4
  <2> QED
    BY <1>1, <2>2, <2>3, <2>4 DEF Receive
<1>2. CASE Decide(k)
  <2>1. /\ UNCHANGED <<requestId, page, orderShown, notice, deadEnds, sent, answer, paid>> /\ Live(k)
        /\ order' = [order EXCEPT ![k] = IF k \in paid THEN "SUCCESS" ELSE "CLOSED"]
    BY <1>2 DEF Decide, Ongoing, Live
  <2>2. order' \in [RequestIds -> OrderStatuses]
    BY <2>1 DEF PayPageTypeOK, OrderStatuses
  <2>3. ServerInv' /\ \A j \in RequestIds : Over(j) => Over(j)'
    BY <2>1, <2>2, SettleKeepsServer DEF PayPageTypeOK
  <2>4. PageInv'
    BY <2>1, <2>3, PageUndisturbed
  <2> QED
    BY <2>1, <2>2, <2>3, <2>4 DEF PayPageTypeOK
<1>3. ASSUME NEW outcome \in {"PARAMS", "UNKNOWN", "FAILED"}, Prepay(k, outcome) PROVE PayPageInv'
  <2>1. /\ answer[k] = "PROCESSING" /\ answer' = [answer EXCEPT ![k] = outcome] /\ k \notin paid
        /\ UNCHANGED <<requestId, page, orderShown, notice, deadEnds, sent, paid>>
    BY <1>3 DEF Prepay, ServerInv
  <2>2. /\ order' \in [RequestIds -> OrderStatuses] /\ order[k] # "NONE" /\ order'[k] # "NONE"
        /\ \A j \in RequestIds : j # k => order'[j] = order[j]
        /\ order[k] # "CREATED" => order'[k] = order[k]
        /\ order'[k] = "SUCCESS" => order[k] = "SUCCESS"
    BY <1>3 DEF Prepay, PayPageTypeOK, OrderStatuses, ServerInv
  <2>3. PayPageTypeOK'
    BY <2>1, <2>2 DEF PayPageTypeOK, RecordStates
  <2>4. \A j \in RequestIds : Live(j)' => Live(j)
    BY <2>2 DEF Live, PayPageTypeOK
  <2>5. ServerInv'
    BY <2>1, <2>2, <2>4 DEF PayPageTypeOK, ServerInv, Live
  <2>6. PageInv'
    BY <2>1, <2>2, PageUndisturbed DEF PayPageTypeOK, Over
  <2> QED
    BY <2>3, <2>5, <2>6
<1> QED
  BY <1>1, <1>2, <1>3

\* Steps of the page and of the server keep the invariant.
LEMMA PayPageNextInv == PayPageInv /\ [PayPageNext]_payPageVars => PayPageInv'
<1> SUFFICES ASSUME PayPageInv, [PayPageNext]_payPageVars PROVE PayPageInv'
  OBVIOUS
<1>1. CASE UNCHANGED payPageVars
  BY <1>1 DEF payPageVars, PayPageInv, PayPageTypeOK, ServerInv, PageInv, Live, Over
<1>2. CASE PayPageNext
  BY <1>2, PageMoves, PaysStep, PageCancelStep, ServerStep DEF PayPageNext
<1> QED
  BY <1>1, <1>2

\* The invariant says what is promised.
LEMMA PageIsClear == PayPageInv => PaymentIsClear
<1> SUFFICES ASSUME PayPageInv PROVE PaymentIsClear
  OBVIOUS
<1>1. \A j, k \in paid : j = k
  BY DEF PayPageInv, PayPageTypeOK, ServerInv
<1>2. Cardinality(paid) <= 1
  <2>1. CASE paid = {}
    BY <2>1, FS_EmptySet
  <2>2. CASE paid # {}
    <3>1. PICK k : paid = {k}
      BY <1>1, <2>2
    <3> QED
      BY <3>1, FS_Singleton
  <2> QED
    BY <2>1, <2>2
<1>3. NoDeadCashier
  BY DEF PayPageInv, PageInv, NoDeadCashier
<1>4. Over(orderShown) => orderShown \notin paid
  BY DEF PayPageInv, ServerInv, Live, Over
<1> QED
  BY <1>2, <1>3, <1>4 DEF PayPageInv, PageInv, PaymentIsClear, PageTellsTheTruth

\* The owner's page, for any number of attempts: it says "canceled" and "paid" only when
\* that is so, the bill is paid once, and a dead order is not offered twice.
THEOREM PageStaysClear == PayPageSpec => [](PayPageTypeOK /\ PaymentIsClear)
<1>1. PayPageInv => PayPageTypeOK /\ PaymentIsClear
  BY PageIsClear DEF PayPageInv
<1> QED
  BY <1>1, PayPageInitInv, PayPageNextInv, PTL DEF PayPageSpec
=============================================================================
