--------------------------- MODULE AfterPaymentProofs ----------------------------
(*****************************************************************************)
(* What follows a refund, for any values of the constants: a fee that is     *)
(* billed again has one live bill, and a reconciliation that completed is    *)
(* itemised; and that the composition of both with BillRefund, which TLC     *)
(* checks, is each of the three by itself.                                   *)
(*****************************************************************************)
EXTENDS MCBillRefund, BillRefundProofs, FiniteSetTheorems

-----------------------------------------------------------------------------
(* BillReissue *)

\* What a row knows of its rule is true, and an empty row is NoBill.
RowOK(b) ==
  /\ bill[b].status = "NONE" => bill[b] = NoBill
  /\ bill[b].status # "NONE" => bill[b].fee \in Fees
  /\ bill[b].ruleId \in {Absent, bill[b].fee} /\ bill[b].originalRuleId \in {Absent, bill[b].fee}

\* A request works on a bill that is closed, for ever.
RequestOK(r) ==
  request[r].step # "idle" => request[r].bill \in Bills /\ bill[request[r].bill].status \in Closed

\* A request past the check sees no live bill it would clash with.
StillChecked(r) ==
  request[r].step = "create" => \A s \in Bills : Alive(s) => ~Clashes(request[r].bill, s)

\* Two requests past the check are for different fees.
Apart(q, r) ==
  request[q].step = "create" /\ request[r].step = "create" /\ SameFee(q, r) => q = r

\* What holds until two requests cross between check and create.
Sequential ==
  /\ \A r \in Requests : StillChecked(r)
  /\ \A q, r \in Requests : Apart(q, r)
  /\ \A b, c \in Bills :
       Alive(b) /\ Alive(c) /\ bill[b].fee = bill[c].fee => b = c \/ Forgotten(b) \/ Forgotten(c)

\* The parts of the invariant.
RowsOK == \A b \in Bills : RowOK(b)
RequestsOK == \A r \in Requests : RequestOK(r)

\* The invariant.
ReissueInv == ReissueTypeOK /\ RowsOK /\ RequestsOK /\ (~reissuesCrossed => Sequential)

-----------------------------------------------------------------------------
\* The first state satisfies the invariant: each fee has one bill and nothing is under way.
LEMMA ReissueInitInv == ReissueInit => ReissueInv
<1> SUFFICES ASSUME ReissueInit PROVE ReissueInv
  OBVIOUS
<1>1. ReissueTypeOK
  BY DEF ReissueInit, ReissueTypeOK, First, NoBill, NoReissue, Bills, Fees, Statuses
<1>2. RowsOK /\ RequestsOK
  BY ReissueNamesAssumption DEF ReissueInit, RowsOK, RowOK, RequestsOK, RequestOK, First, NoBill, NoReissue, Bills, Fees
<1>3. ASSUME NEW b \in Bills, Alive(b) PROVE b \in Fees /\ bill[b].fee = b
  BY <1>3 DEF ReissueInit, Alive, First, NoBill, Bills
<1>4. Sequential
  BY <1>3 DEF ReissueInit, Sequential, StillChecked, Apart, NoReissue
<1> QED
  BY <1>1, <1>2, <1>4 DEF ReissueInv

\* Whether two rows clash says whether they are bills of the same fee, when neither forgot it.
LEMMA ClashesMeansSameFee ==
  ASSUME ReissueInv, NEW b \in Bills, NEW s \in Bills, bill[b].status # "NONE", bill[s].status # "NONE"
  PROVE  /\ Clashes(b, s) => bill[b].fee = bill[s].fee
         /\ bill[b].fee = bill[s].fee /\ ~Forgotten(b) /\ ~Forgotten(s) => Clashes(b, s)
<1>1. RowOK(b) /\ RowOK(s)
  BY DEF ReissueInv, RowsOK
<1>2. bill[b].fee \in Fees /\ bill[s].fee \in Fees
  BY <1>1 DEF RowOK
<1>3. Absent \notin Fees /\ Generated \cap Imported = {}
  BY ReissueNamesAssumption DEF Fees
<1>4. EffectiveRule(b) \in Generated \cup {Absent} /\ EffectiveRule(s) \in Generated \cup {Absent}
  BY DEF ReissueInv, ReissueTypeOK, EffectiveRule
<1>5. EffectiveRule(b) \in {Absent, bill[b].fee} /\ EffectiveRule(s) \in {Absent, bill[s].fee}
  BY <1>1 DEF RowOK, EffectiveRule
<1>6. Clashes(b, s) => bill[b].fee = bill[s].fee
  BY <1>2, <1>3, <1>5 DEF Clashes
<1>7. ASSUME bill[b].fee = bill[s].fee, ~Forgotten(b), ~Forgotten(s) PROVE Clashes(b, s)
  BY <1>2, <1>3, <1>4, <1>5, <1>7 DEF Clashes, Forgotten, Fees
<1> QED
  BY <1>6, <1>7

\* A row that changes only its status, and does not come back to life, keeps the invariant.
LEMMA BillMoveStep ==
  ASSUME ReissueInv, NEW b \in Bills, NEW from \in {"UNPAID", "PAID"},
         NEW to \in {"PAID", "CANCELED", "REFUNDED"}, Move(b, from, to)
  PROVE  ReissueInv'
<1>1. ReissueTypeOK /\ bill[b].status = from
  BY DEF ReissueInv, Move
<1>2. /\ bill' = [bill EXCEPT ![b] = [bill[b] EXCEPT !.status = to]]
      /\ bill'[b] = [bill[b] EXCEPT !.status = to]
      /\ \A c \in Bills \ {b} : bill'[c] = bill[c]
      /\ UNCHANGED <<request, reissuesCrossed>>
  BY <1>1 DEF Move, ReissueTypeOK
<1>3. \A c \in Bills : /\ bill'[c].fee = bill[c].fee /\ bill'[c].ruleId = bill[c].ruleId
                       /\ bill'[c].originalRuleId = bill[c].originalRuleId
  BY <1>1, <1>2 DEF ReissueTypeOK
<1>4. ReissueTypeOK'
  BY <1>1, <1>2 DEF ReissueTypeOK, Statuses
<1>5. RowsOK'
  BY <1>1, <1>2, <1>3 DEF ReissueInv, RowsOK, RowOK, ReissueTypeOK
<1>6. \A c \in Bills : Alive(c)' => Alive(c)
  BY <1>1, <1>2 DEF Alive, Closed
<1>7. RequestsOK'
  BY <1>1, <1>2 DEF ReissueInv, RequestsOK, RequestOK, Closed
<1>8. ASSUME ~reissuesCrossed' PROVE Sequential'
  <2>1. ~reissuesCrossed /\ Sequential
    BY <1>2, <1>8 DEF ReissueInv
  <2>2. \A r \in Requests : request[r].step = "create" => request[r].bill \in Bills
    BY DEF ReissueInv, RequestsOK, RequestOK
  <2>3. \A c, d \in Bills : Clashes(c, d)' <=> Clashes(c, d)
    BY <1>3 DEF Clashes, EffectiveRule
  <2>4. \A c \in Bills : Forgotten(c)' <=> Forgotten(c)
    BY <1>3 DEF Forgotten, EffectiveRule
  <2>5. \A r \in Requests : StillChecked(r)'
    BY <1>2, <1>6, <2>1, <2>2, <2>3 DEF Sequential, StillChecked
  <2>6. \A q, r \in Requests : Apart(q, r)'
    BY <1>2, <1>3, <2>1, <2>2 DEF Sequential, Apart, SameFee
  <2> QED
    BY <1>3, <1>6, <2>1, <2>4, <2>5, <2>6 DEF Sequential
<1> QED
  BY <1>4, <1>5, <1>7, <1>8 DEF ReissueInv

\* A step of a request that leaves the bills alone keeps what is said of bills.
LEMMA BillsKept ==
  ASSUME ReissueInv, UNCHANGED bill
  PROVE  RowsOK'
BY DEF ReissueInv, RowsOK, RowOK

\* Starting a reissue keeps the invariant.
LEMMA BeginReissueStep ==
  ASSUME ReissueInv, NEW r \in Requests, NEW b \in Bills, BeginReissue(r, b)
  PROVE  ReissueInv'
<1>1. ReissueTypeOK /\ ReissueTypeOK'
  BY DEF ReissueInv, BeginReissue, ReissueTypeOK
<1>2. /\ request'[r] = [step |-> "read", bill |-> b]
      /\ \A q \in Requests \ {r} : request'[q] = request[q]
      /\ UNCHANGED <<bill, reissuesCrossed>> /\ bill[b].status \in Closed
  BY <1>1 DEF BeginReissue, ReissueTypeOK
<1>3. RequestsOK'
  BY <1>2 DEF ReissueInv, RequestsOK, RequestOK
<1>4. ~reissuesCrossed' => Sequential'
  BY <1>2 DEF ReissueInv, Sequential, StillChecked, Apart, SameFee, Alive, Clashes, EffectiveRule, Forgotten
<1> QED
  BY <1>1, <1>3, <1>4, <1>2, BillsKept DEF ReissueInv

\* The check keeps the invariant: it establishes StillChecked, and Apart or crossed.
LEMMA ReadSiblingsStep ==
  ASSUME ReissueInv, NEW r \in Requests, ReadSiblings(r)
  PROVE  ReissueInv'
<1>1. ReissueTypeOK /\ UNCHANGED bill /\ request[r].step = "read"
  BY DEF ReissueInv, ReadSiblings
<1>2. /\ request' = [request EXCEPT ![r] = NoReissue] \/ request' = [request EXCEPT ![r].step = "create"]
      /\ reissuesCrossed' \in BOOLEAN
  BY <1>1 DEF ReadSiblings, ReissueTypeOK
<1>3. ReissueTypeOK'
  BY <1>1, <1>2 DEF ReissueTypeOK, NoReissue
<1>4. RequestsOK'
  BY <1>1, <1>2 DEF ReissueInv, RequestsOK, RequestOK, ReissueTypeOK, NoReissue
<1>5. ASSUME ~reissuesCrossed' PROVE Sequential'
  <2>1. ~reissuesCrossed /\ Sequential
    BY <1>5 DEF ReissueInv, ReadSiblings
  <2>2. CASE \E s \in Bills : Alive(s) /\ Clashes(request[r].bill, s)
    <3>1. request' = [request EXCEPT ![r] = NoReissue]
      BY <2>2 DEF ReadSiblings
    <3> QED
      BY <1>1, <2>1, <3>1 DEF ReissueTypeOK, NoReissue, Sequential, StillChecked, Apart, SameFee, Alive, Clashes,
                              EffectiveRule, Forgotten
  <2>3. CASE ~\E s \in Bills : Alive(s) /\ Clashes(request[r].bill, s)
    <3>1. /\ request' = [request EXCEPT ![r].step = "create"]
          /\ \A q \in Requests \ {r} : request[q].step = "create" => ~SameFee(q, r)
      BY <1>5, <2>3 DEF ReadSiblings
    <3>2. \A q \in Requests : request'[q].bill = request[q].bill
      BY <1>1, <3>1 DEF ReissueTypeOK
    <3>3. \A q \in Requests \ {r} : request'[q].step = request[q].step
      BY <1>1, <3>1 DEF ReissueTypeOK
    <3>4. \A q \in Requests : StillChecked(q)'
      BY <1>1, <2>1, <2>3, <3>2, <3>3 DEF Sequential, StillChecked, Alive, Clashes, EffectiveRule
    <3>5. \A p, q \in Requests : Apart(p, q)'
      BY <1>1, <2>1, <3>1, <3>2, <3>3 DEF Sequential, Apart, SameFee
    <3> QED
      BY <1>1, <2>1, <3>4, <3>5 DEF Sequential, Alive, Forgotten, EffectiveRule
  <2> QED
    BY <2>2, <2>3
<1> QED
  BY <1>1, <1>3, <1>4, <1>5, BillsKept DEF ReissueInv

\* The new row keeps the invariant: it clashes with no live bill, and with no request's.
LEMMA CreateReissueStep ==
  ASSUME ReissueInv, NEW r \in Requests, CreateReissue(r)
  PROVE  ReissueInv'
<1> DEFINE b == request[r].bill
<1>1. PICK new \in 1 .. Last : bill[new].status = "NONE" /\ bill' = [bill EXCEPT ![new] = Reissue(b)]
  BY DEF CreateReissue
<1>2. /\ ReissueTypeOK /\ request[r].step = "create" /\ new \in Bills
      /\ request' = [request EXCEPT ![r] = NoReissue] /\ UNCHANGED reissuesCrossed
  BY <1>1 DEF ReissueInv, CreateReissue, Bills
<1>3. b \in Bills /\ bill[b].status \in Closed /\ b # new
  BY <1>1, <1>2 DEF ReissueInv, RequestsOK, RequestOK, Closed
<1>4. bill'[new] = Reissue(b) /\ \A c \in Bills \ {new} : bill'[c] = bill[c]
  BY <1>1, <1>2 DEF ReissueTypeOK
<1>5. /\ bill[b].fee \in Fees /\ bill[b].ruleId \in {Absent, bill[b].fee}
      /\ bill[b].ruleId \in Generated \cup {Absent}
  BY <1>2, <1>3 DEF ReissueInv, RowsOK, RowOK, Closed, ReissueTypeOK
<1>6. ReissueTypeOK'
  BY <1>1, <1>2, <1>3, <1>5 DEF ReissueTypeOK, Reissue, Statuses, NoReissue
<1>7. RowsOK'
  BY <1>4, <1>5 DEF ReissueInv, RowsOK, RowOK, Reissue
<1>8. \A q \in Requests \ {r} : request'[q] = request[q]
  BY <1>2 DEF ReissueTypeOK
<1>9. request'[r].step = "idle"
  BY <1>2 DEF ReissueTypeOK, NoReissue
<1>10. \A q \in Requests \ {r} : request[q].step # "idle" =>
                request[q].bill \in Bills \ {new} /\ bill[request[q].bill].status \in Closed
  BY <1>1 DEF ReissueInv, RequestsOK, RequestOK, Closed
<1>11. RequestsOK'
  BY <1>4, <1>8, <1>9, <1>10 DEF RequestsOK, RequestOK
<1>12. ASSUME ~reissuesCrossed' PROVE Sequential'
  <2>1. ~reissuesCrossed /\ Sequential
    BY <1>2, <1>12 DEF ReissueInv
  <2>2. /\ bill'[new].fee = bill[b].fee /\ bill'[new].ruleId = Absent
        /\ bill'[new].originalRuleId = bill[b].ruleId
    BY <1>4 DEF Reissue
  <2>3. EffectiveRule(new)' = bill[b].ruleId
    BY <2>2 DEF EffectiveRule
  <2>4. \A c \in Bills \ {new} : /\ EffectiveRule(c)' = EffectiveRule(c) /\ (Alive(c)' <=> Alive(c))
                                 /\ (Forgotten(c)' <=> Forgotten(c))
    BY <1>4 DEF EffectiveRule, Alive, Forgotten
  <2>5. Absent \notin Fees /\ Generated \cap Imported = {}
    BY ReissueNamesAssumption DEF Fees
  <2>6. ASSUME NEW q \in Requests PROVE StillChecked(q)'
    <3>1. CASE q = r
      BY <1>9, <3>1 DEF StillChecked
    <3>2. CASE q # r
      <4> SUFFICES ASSUME request[q].step = "create", NEW s \in Bills, Alive(s)'
                   PROVE  ~Clashes(request[q].bill, s)'
        BY <1>8, <3>2 DEF StillChecked
      <4>1. request[q].bill \in Bills \ {new} /\ request'[q] = request[q]
            /\ bill[request[q].bill].status \in Closed
        BY <1>8, <1>10, <3>2
      <4>2. bill'[request[q].bill] = bill[request[q].bill]
        BY <1>4, <4>1
      <4>3. CASE s # new
        <5>1. Alive(s) /\ ~Clashes(request[q].bill, s)
          BY <2>1, <2>4, <4>3 DEF Sequential, StillChecked
        <5> QED
          BY <1>4, <2>4, <4>1, <4>2, <4>3, <5>1 DEF Clashes, EffectiveRule
      <4>4. CASE s = new
        <5>1. bill[request[q].bill].fee # bill[b].fee
          BY <1>2, <2>1, <3>2 DEF Sequential, Apart, SameFee
        <5>2. EffectiveRule(request[q].bill) \in {Absent, bill[request[q].bill].fee}
              /\ bill[request[q].bill].fee \in Fees
          BY <4>1 DEF ReissueInv, RowsOK, RowOK, EffectiveRule, Closed
        <5>3. EffectiveRule(request[q].bill)' = EffectiveRule(request[q].bill)
          BY <4>1, <4>2 DEF EffectiveRule
        <5> QED
          BY <1>5, <2>2, <2>3, <2>5, <4>1, <4>2, <4>4, <5>1, <5>2, <5>3 DEF Clashes
      <4> QED
        BY <4>3, <4>4
    <3> QED
      BY <3>1, <3>2
  <2>7. ASSUME NEW p \in Requests, NEW q \in Requests PROVE Apart(p, q)'
    BY <1>4, <1>8, <1>9, <1>10, <2>1 DEF Sequential, Apart, SameFee
  <2>8. ASSUME NEW s \in Bills \ {new}, Alive(s), bill[s].fee = bill[b].fee, ~Forgotten(s)
        PROVE  Forgotten(new)'
    <3>1. ~Clashes(b, s) /\ bill[s].status # "NONE" /\ bill[b].status # "NONE"
      BY <1>2, <1>3, <2>1, <2>8 DEF Sequential, StillChecked, Alive, Closed
    <3>2. Forgotten(b)
      BY <1>3, <2>8, <3>1, ClashesMeansSameFee
    <3> QED
      BY <2>2, <2>3, <3>2 DEF Forgotten, EffectiveRule
  <2>9. ASSUME NEW c \in Bills, NEW d \in Bills, (Alive(c) /\ Alive(d) /\ bill[c].fee = bill[d].fee)'
         PROVE  c = d \/ Forgotten(c)' \/ Forgotten(d)'
    <3>1. CASE c # new /\ d # new
      BY <1>4, <2>1, <2>4, <2>9, <3>1 DEF Sequential
    <3>2. CASE c = new /\ d # new
      BY <1>4, <2>2, <2>4, <2>8, <2>9, <3>2
    <3>3. CASE c # new /\ d = new
      BY <1>4, <2>2, <2>4, <2>8, <2>9, <3>3
    <3> QED
      BY <3>1, <3>2, <3>3
  <2> QED
    BY <2>6, <2>7, <2>9 DEF Sequential
<1> QED
  BY <1>6, <1>7, <1>11, <1>12 DEF ReissueInv

-----------------------------------------------------------------------------
\* Every step keeps the invariant.
LEMMA ReissueStepInv == ASSUME ReissueInv, [ReissueNext]_reissueVars PROVE ReissueInv'
<1>1. ASSUME NEW r \in Requests, NEW b \in Bills, BeginReissue(r, b) PROVE ReissueInv'
  BY <1>1, BeginReissueStep
<1>2. ASSUME NEW r \in Requests, ReadSiblings(r) PROVE ReissueInv'
  BY <1>2, ReadSiblingsStep
<1>3. ASSUME NEW r \in Requests, CreateReissue(r) PROVE ReissueInv'
  BY <1>3, CreateReissueStep
<1>4. ASSUME NEW b \in Bills,
             Move(b, "UNPAID", "CANCELED") \/ Move(b, "UNPAID", "PAID") \/ Move(b, "PAID", "REFUNDED")
      PROVE  ReissueInv'
  BY <1>4, BillMoveStep
<1>5. CASE UNCHANGED reissueVars
  BY <1>5 DEF reissueVars, ReissueInv, ReissueTypeOK, RowsOK, RowOK, RequestsOK, RequestOK, Sequential, StillChecked,
              Apart, SameFee, Alive, Clashes, EffectiveRule, Forgotten
<1> QED
  BY <1>1, <1>2, <1>3, <1>4, <1>5 DEF ReissueNext

\* The invariant of reissues: rows are true about their rules, and as long as no two checks
\* crossed, a request past its check still sees no live bill of its fee.
THEOREM ReissueInvariance == ReissueSpec => []ReissueInv
<1> QED
  BY ReissueInitInv, ReissueStepInv, PTL DEF ReissueSpec

\* Every variable keeps its type, for any fees and any number of requests and reissues.
THEOREM ReissueTypeCorrect == ReissueSpec => []ReissueTypeOK
<1>1. ReissueInv => ReissueTypeOK
  BY DEF ReissueInv
<1> QED
  BY <1>1, ReissueInvariance, PTL

\* The guard of reissueBill: a fee has one live bill, except bills that lost their rule and
\* reissues that were both past the check.
THEOREM OneLive == ReissueSpec => []OneLiveUnlessForgotten
<1>1. ReissueInv => OneLiveUnlessForgotten
  BY DEF ReissueInv, Sequential, OneLiveUnlessForgotten
<1> QED
  BY <1>1, ReissueInvariance, PTL

-----------------------------------------------------------------------------
(* Reconciliation *)

\* What a comparison has been through is settled in the ledger or on its list.
Covered(w) ==
  /\ WorkerAt(w, "compare") => \A t \in channel : \/ t \in worker[w].left \/ ledger[t] = "SUCCESS"
                                                  \/ worker[w].drafts[t] # "NONE"
  /\ WorkerAt(w, "persist") => \A t \in channel : ledger[t] = "SUCCESS" \/ worker[w].drafts[t] # "NONE"

\* Without an overlap the one worker past the claim works on a run that says so.
OneWorker ==
  ~overlapped => \A v \in Reconcilers : worker[v].step \in Past =>
                   /\ run.status = "RUNNING"
                   /\ \A w \in Reconcilers : worker[w].step \in Past => w = v

\* What the run, its workers and its list keep.
ReconInv ==
  /\ ReconTypeOK
  /\ OneWorker
  /\ \A w \in Reconcilers : Covered(w)
  /\ CompletedIsItemisedUnlessOverlapped

\* At first there is no run and no worker.
LEMMA ReconInitInv == ReconInit => ReconInv
<1> SUFFICES ASSUME ReconInit PROVE ReconInv
  OBVIOUS
<1>1. Unemployed \in WorkerRecords
  BY DEF Unemployed, WorkerRecords, ReconSteps, Drafts, NoDrafts
<1>2. ReconTypeOK
  BY <1>1 DEF ReconInit, ReconTypeOK, RunStatuses, ItemStatuses
<1>3. \A w \in Reconcilers : worker[w].step = "idle"
  BY DEF ReconInit, Unemployed
<1> QED
  BY <1>2, <1>3 DEF ReconInv, ReconInit, OneWorker, Past, Covered, WorkerAt, CompletedIsItemisedUnlessOverlapped

\* A worker that moves on, or is released, keeps its type, and the others are as they were.
LEMMA WorkerMoves ==
  ASSUME ReconTypeOK, NEW w \in Reconcilers
  PROVE  /\ \A step \in ReconSteps : WorkerGoes(w, step) =>
              /\ worker' \in [Reconcilers -> WorkerRecords]
              /\ \A v \in Reconcilers : /\ worker'[v].step = IF v = w THEN step ELSE worker[v].step
                                        /\ worker'[v].left = worker[v].left
                                        /\ worker'[v].drafts = worker[v].drafts
         /\ Release(w) =>
              /\ worker' \in [Reconcilers -> WorkerRecords]
              /\ worker'[w].step = "idle"
              /\ \A v \in Reconcilers \ {w} : worker'[v] = worker[v]
<1>1. Unemployed \in WorkerRecords /\ Unemployed.step = "idle"
  BY DEF Unemployed, WorkerRecords, ReconSteps, Drafts, NoDrafts
<1>2. ASSUME NEW step \in ReconSteps, WorkerGoes(w, step)
      PROVE  /\ worker' \in [Reconcilers -> WorkerRecords]
             /\ \A v \in Reconcilers : /\ worker'[v].step = IF v = w THEN step ELSE worker[v].step
                                       /\ worker'[v].left = worker[v].left
                                       /\ worker'[v].drafts = worker[v].drafts
  <2>1. worker[w] \in WorkerRecords
    BY DEF ReconTypeOK
  <2>2. [worker[w] EXCEPT !.step = step] \in WorkerRecords
    BY <2>1, <1>2 DEF WorkerRecords
  <2> QED
    BY <1>2, <2>1, <2>2 DEF WorkerGoes, ReconTypeOK, WorkerRecords
<1>3. Release(w) => /\ worker' \in [Reconcilers -> WorkerRecords]
                    /\ worker'[w].step = "idle"
                    /\ \A v \in Reconcilers \ {w} : worker'[v] = worker[v]
  BY <1>1 DEF Release, ReconTypeOK
<1> QED
  BY <1>2, <1>3

\* The process number of a worker and its claim have the right type.
LEMMA TakesType == ASSUME ReconTypeOK, NEW w \in Reconcilers
                   PROVE  /\ Takes(w) \in [status : RunStatuses, owner : ProcessIds \cup {Unowned}, live : BOOLEAN]
                          /\ Takes(w).status = "RUNNING"
  BY DEF ReconTypeOK, Takes, RunStatuses

\* Whoever gets past the claim records an overlap with everyone who is past it.
LEMMA ClaimRunStep ==
  ASSUME ReconInv, NEW w \in Reconcilers, CreateRun(w) \/ ClaimRun(w) PROVE ReconInv'
<1>1. /\ UNCHANGED <<processId, channel, ledger, items, notified>>
      /\ worker[w].step \in {"create", "claim"}
      /\ \/ run' = Takes(w) /\ Overlap(w) /\ WorkerGoes(w, IF worker[w].force THEN "clear" ELSE "download")
         \/ Release(w) /\ UNCHANGED <<run, overlapped>>
  BY DEF CreateRun, ClaimRun, WorkerAt
<1>2. CASE Release(w) /\ UNCHANGED <<run, overlapped>>
  <2>1. /\ worker' \in [Reconcilers -> WorkerRecords]
        /\ worker'[w].step = "idle"
        /\ \A v \in Reconcilers \ {w} : worker'[v] = worker[v]
    BY <1>2, WorkerMoves DEF ReconInv
  <2>2. ReconTypeOK'
    BY <1>1, <1>2, <2>1 DEF ReconInv, ReconTypeOK
  <2>3. OneWorker' /\ \A v \in Reconcilers : Covered(v)'
    BY <1>1, <1>2, <2>1 DEF ReconInv, OneWorker, Past, Covered, WorkerAt
  <2> QED
    BY <1>1, <1>2, <2>2, <2>3 DEF ReconInv, CompletedIsItemisedUnlessOverlapped
<1>3. CASE /\ run' = Takes(w) /\ Overlap(w)
           /\ WorkerGoes(w, IF worker[w].force THEN "clear" ELSE "download")
  <2> DEFINE step == IF worker[w].force THEN "clear" ELSE "download"
  <2>1. step \in ReconSteps /\ step \in {"clear", "download"} /\ WorkerGoes(w, step)
    BY <1>3 DEF ReconSteps
  <2> HIDE DEF step
  <2>2. /\ worker' \in [Reconcilers -> WorkerRecords]
        /\ \A v \in Reconcilers : /\ worker'[v].step = IF v = w THEN step ELSE worker[v].step
                                  /\ worker'[v].left = worker[v].left
                                  /\ worker'[v].drafts = worker[v].drafts
    BY <2>1, WorkerMoves DEF ReconInv
  <2>3. overlapped' = (overlapped \/ \E v \in Reconcilers \ {w} : worker[v].step \in Past) /\ overlapped' \in BOOLEAN
    BY <1>3 DEF Overlap
  <2>4. run'.status = "RUNNING" /\ run' \in [status : RunStatuses, owner : ProcessIds \cup {Unowned}, live : BOOLEAN]
    BY <1>3, TakesType DEF ReconInv
  <2>5. ReconTypeOK'
    BY <1>1, <2>2, <2>3, <2>4 DEF ReconInv, ReconTypeOK
  <2>6. OneWorker'
    <3> SUFFICES ASSUME ~overlapped' PROVE \A v \in Reconcilers : worker'[v].step \in Past => v = w
      BY <2>4 DEF OneWorker
    <3>1. \A v \in Reconcilers \ {w} : worker[v].step \notin Past
      BY <2>3
    <3> QED
      BY <2>2, <3>1
  <2>7. \A v \in Reconcilers : Covered(v)'
    BY <1>1, <2>1, <2>2 DEF ReconInv, Covered, WorkerAt
  <2> QED
    BY <2>4, <2>5, <2>6, <2>7 DEF ReconInv, CompletedIsItemisedUnlessOverlapped
<1> QED
  BY <1>1, <1>2, <1>3

\* One trade compared: it is settled, or on the list.
LEMMA CompareStep ==
  ASSUME ReconInv, NEW w \in Reconcilers, NEW t \in Trades, CompareTrade(w, t) PROVE ReconInv'
<1>1. PICK outcome \in IF ~Difference(t) THEN {"NONE", "OPEN"}
                       ELSE IF ledger[t] = "OPEN" THEN {"OPEN", "AUTO_RESOLVED"} ELSE {"OPEN"} :
        /\ worker' = [worker EXCEPT ![w].left = @ \ {t}, ![w].drafts[t] = outcome]
        /\ ledger' = IF outcome = "AUTO_RESOLVED" THEN [ledger EXCEPT ![t] = "SUCCESS"] ELSE ledger
  BY DEF CompareTrade
<1>2. /\ WorkerAt(w, "compare") /\ UNCHANGED <<processId, channel, run, items, notified, overlapped>>
  BY DEF CompareTrade
<1>3. outcome \in {"NONE", "OPEN", "AUTO_RESOLVED"}
  OBVIOUS
<1>4. ledger[t] = "SUCCESS" \/ outcome # "NONE"
  BY DEF Difference
<1>5. /\ ledger' \in [Trades -> {"MISSING", "OPEN", "SUCCESS"}]
      /\ \A s \in Trades : ledger[s] = "SUCCESS" => ledger'[s] = "SUCCESS"
  BY <1>1 DEF ReconInv, ReconTypeOK
<1>6. worker[w] \in WorkerRecords
  BY DEF ReconInv, ReconTypeOK
<1>7. [worker[w] EXCEPT !.left = @ \ {t}, !.drafts[t] = outcome] \in WorkerRecords
  BY <1>3, <1>6 DEF WorkerRecords, Drafts
<1>8. worker' = [worker EXCEPT ![w] = [worker[w] EXCEPT !.left = @ \ {t}, !.drafts[t] = outcome]]
  BY <1>1, <1>6 DEF ReconInv, ReconTypeOK, WorkerRecords
<1>9. ReconTypeOK'
  BY <1>2, <1>5, <1>7, <1>8 DEF ReconInv, ReconTypeOK
<1>10. \A v \in Reconcilers : worker'[v].step = worker[v].step
  BY <1>6, <1>8 DEF ReconInv, ReconTypeOK, WorkerRecords
<1>11. /\ worker'[w].left = worker[w].left \ {t}
       /\ \A s \in Trades : worker'[w].drafts[s] = IF s = t THEN outcome ELSE worker[w].drafts[s]
  BY <1>6, <1>8 DEF ReconInv, ReconTypeOK, WorkerRecords, Drafts
<1>12. Covered(w)'
  <2>1. \A s \in channel : s \in worker'[w].left \/ ledger'[s] = "SUCCESS" \/ worker'[w].drafts[s] # "NONE"
    BY <1>2, <1>4, <1>5, <1>11 DEF ReconInv, Covered, ReconTypeOK
  <2> QED
    BY <1>2, <1>10, <2>1 DEF Covered, WorkerAt
<1>13. \A v \in Reconcilers \ {w} : Covered(v)'
  <2>1. \A v \in Reconcilers \ {w} : worker'[v] = worker[v]
    BY <1>8 DEF ReconInv, ReconTypeOK
  <2> QED
    BY <1>2, <1>5, <2>1 DEF ReconInv, ReconTypeOK, Covered, WorkerAt
<1>14. OneWorker'
  BY <1>2, <1>10 DEF ReconInv, OneWorker
<1>15. CompletedIsItemisedUnlessOverlapped'
  BY <1>2, <1>5 DEF ReconInv, ReconTypeOK, CompletedIsItemisedUnlessOverlapped
<1> QED
  BY <1>9, <1>12, <1>13, <1>14, <1>15 DEF ReconInv

\* A worker's other steps.
LEMMA WorkerStep ==
  ASSUME ReconInv, NEW w \in Reconcilers,
         \/ ClearItems(w) \/ Download(w) \/ EndCompare(w) \/ Persist(w) \/ NotifyDifferences(w)
         \/ ReconThrows(w) \/ FailRun(w) \/ ReconDies(w) \/ \E force \in BOOLEAN : FindRun(w, force)
  PROVE  ReconInv'
<1>1. CASE ClearItems(w)
  <2>1. /\ worker' \in [Reconcilers -> WorkerRecords]
        /\ \A v \in Reconcilers : /\ worker'[v].step = IF v = w THEN "download" ELSE worker[v].step
                                  /\ worker'[v].left = worker[v].left
                                  /\ worker'[v].drafts = worker[v].drafts
    BY <1>1, WorkerMoves DEF ReconInv, ClearItems, ReconSteps
  <2>2. ReconTypeOK'
    BY <1>1, <2>1 DEF ClearItems, ReconInv, ReconTypeOK, ItemStatuses
  <2>3. \A v \in Reconcilers : worker'[v].step \in Past => worker[v].step \in Past
    BY <1>1, <2>1 DEF ClearItems, WorkerAt, Past
  <2>4. OneWorker'
    BY <1>1, <2>3 DEF ClearItems, ReconInv, OneWorker
  <2>5. \A v \in Reconcilers : Covered(v)'
    BY <1>1, <2>1 DEF ClearItems, ReconInv, Covered, WorkerAt
  <2>6. CompletedIsItemisedUnlessOverlapped'
    BY <1>1 DEF ClearItems, ReconInv, OneWorker, WorkerAt, Past, CompletedIsItemisedUnlessOverlapped
  <2> QED
    BY <2>2, <2>4, <2>5, <2>6 DEF ReconInv
<1>2. CASE Download(w)
  <2> DEFINE found == [t \in Trades |-> IF t \notin channel /\ ledger[t] = "SUCCESS" THEN "OPEN" ELSE "NONE"]
  <2>1. worker[w] \in WorkerRecords /\ found \in Drafts /\ channel \in SUBSET Trades
    BY DEF ReconInv, ReconTypeOK, Drafts
  <2>2. WorkerAt(w, "download") /\ UNCHANGED <<processId, channel, ledger, run, items, notified, overlapped>>
    BY <1>2 DEF Download
  <2>3. worker' = [worker EXCEPT ![w] = [worker[w] EXCEPT !.step = "compare", !.left = channel, !.drafts = found]]
    BY <1>2, <2>1 DEF Download, ReconInv, ReconTypeOK, WorkerRecords
  <2> HIDE DEF found
  <2>4. [worker[w] EXCEPT !.step = "compare", !.left = channel, !.drafts = found] \in WorkerRecords
    BY <2>1 DEF WorkerRecords, ReconSteps
  <2>5. ReconTypeOK'
    BY <2>2, <2>3, <2>4 DEF ReconInv, ReconTypeOK
  <2>6. worker'[w].step = "compare" /\ worker'[w].left = channel /\ \A v \in Reconcilers \ {w} : worker'[v] = worker[v]
    BY <2>1, <2>3 DEF ReconInv, ReconTypeOK, WorkerRecords
  <2>7. OneWorker'
    BY <2>2, <2>6 DEF ReconInv, OneWorker, WorkerAt, Past
  <2>8. \A v \in Reconcilers : Covered(v)'
    BY <2>2, <2>6 DEF ReconInv, Covered, WorkerAt
  <2> QED
    BY <2>2, <2>5, <2>7, <2>8 DEF ReconInv, CompletedIsItemisedUnlessOverlapped
<1>3. CASE EndCompare(w) \/ ReconThrows(w)
  <2> DEFINE step == IF EndCompare(w) THEN "persist" ELSE "fail"
  <2>1. /\ step \in ReconSteps /\ step \in {"persist", "fail"} /\ WorkerGoes(w, step)
        /\ step = "persist" => WorkerAt(w, "compare") /\ worker[w].left = {}
        /\ worker[w].step \in Past
        /\ UNCHANGED <<processId, channel, ledger, run, items, notified, overlapped>>
    BY <1>3 DEF EndCompare, ReconThrows, ReconSteps, WorkerAt, Past
  <2> HIDE DEF step
  <2>2. /\ worker' \in [Reconcilers -> WorkerRecords]
        /\ \A v \in Reconcilers : /\ worker'[v].step = IF v = w THEN step ELSE worker[v].step
                                  /\ worker'[v].left = worker[v].left
                                  /\ worker'[v].drafts = worker[v].drafts
    BY <2>1, WorkerMoves DEF ReconInv
  <2>3. ReconTypeOK'
    BY <2>1, <2>2 DEF ReconInv, ReconTypeOK
  <2>4. OneWorker'
    BY <2>1, <2>2 DEF ReconInv, OneWorker
  <2>5. \A v \in Reconcilers : Covered(v)'
    BY <2>1, <2>2 DEF ReconInv, Covered, WorkerAt
  <2> QED
    BY <2>1, <2>3, <2>4, <2>5 DEF ReconInv, CompletedIsItemisedUnlessOverlapped
<1>4. CASE Persist(w)
  <2>1. /\ WorkerAt(w, "persist") /\ run' = [status |-> "COMPLETED", owner |-> Unowned, live |-> FALSE]
        /\ items' = [t \in Trades |-> IF items[t] = "NONE" THEN worker[w].drafts[t] ELSE items[t]]
        /\ UNCHANGED <<processId, channel, ledger, notified, overlapped>>
        /\ WorkerGoes(w, "notify") \/ Release(w)
    BY <1>4 DEF Persist
  <2>2. /\ worker' \in [Reconcilers -> WorkerRecords]
        /\ worker'[w].step \in {"idle", "notify"}
        /\ \A v \in Reconcilers \ {w} : /\ worker'[v].step = worker[v].step /\ worker'[v].left = worker[v].left
                                        /\ worker'[v].drafts = worker[v].drafts
    BY <2>1, WorkerMoves DEF ReconInv, ReconSteps
  <2>3. worker[w].drafts \in Drafts
    BY DEF ReconInv, ReconTypeOK, WorkerRecords
  <2>4. ReconTypeOK'
    BY <2>1, <2>2, <2>3 DEF ReconInv, ReconTypeOK, Drafts, RunStatuses, ItemStatuses
  <2>5. OneWorker'
    BY <2>1, <2>2 DEF ReconInv, OneWorker, WorkerAt, Past
  <2>6. \A v \in Reconcilers : Covered(v)'
    BY <2>1, <2>2 DEF ReconInv, Covered, WorkerAt
  <2>7. CompletedIsItemisedUnlessOverlapped'
    BY <2>1 DEF ReconInv, ReconTypeOK, Covered, CompletedIsItemisedUnlessOverlapped
  <2> QED
    BY <2>4, <2>5, <2>6, <2>7 DEF ReconInv
<1>5. CASE NotifyDifferences(w) \/ ReconDies(w) \/ FailRun(w)
  <2>1. /\ Release(w) /\ UNCHANGED <<processId, channel, ledger, items, overlapped>>
        /\ notified' \in BOOLEAN
        /\ \/ run' = run
           \/ run' = [status |-> "FAILED", owner |-> Unowned, live |-> FALSE] /\ WorkerAt(w, "fail")
    BY <1>5 DEF NotifyDifferences, ReconDies, FailRun, ReconInv, ReconTypeOK
  <2>2. /\ worker' \in [Reconcilers -> WorkerRecords]
        /\ worker'[w].step = "idle"
        /\ \A v \in Reconcilers \ {w} : worker'[v] = worker[v]
    BY <2>1, WorkerMoves DEF ReconInv
  <2>3. run \in [status : RunStatuses, owner : ProcessIds \cup {Unowned}, live : BOOLEAN]
    BY DEF ReconInv, ReconTypeOK
  <2>4. [status |-> "FAILED", owner |-> Unowned, live |-> FALSE]
          \in [status : RunStatuses, owner : ProcessIds \cup {Unowned}, live : BOOLEAN]
    BY DEF RunStatuses
  <2>5. run' \in [status : RunStatuses, owner : ProcessIds \cup {Unowned}, live : BOOLEAN]
    BY <2>1, <2>3, <2>4
  <2>6. ReconTypeOK'
    BY <2>1, <2>2, <2>5 DEF ReconInv, ReconTypeOK
  <2>7. OneWorker'
    BY <2>1, <2>2 DEF ReconInv, OneWorker, WorkerAt, Past
  <2>8. \A v \in Reconcilers : Covered(v)'
    BY <2>1, <2>2 DEF ReconInv, Covered, WorkerAt
  <2> QED
    BY <2>1, <2>6, <2>7, <2>8 DEF ReconInv, CompletedIsItemisedUnlessOverlapped
<1>6. ASSUME NEW force \in BOOLEAN, FindRun(w, force) PROVE ReconInv'
  <2> DEFINE step == IF run.status = "NONE" THEN "create" ELSE "claim"
  <2>1. /\ worker' = [worker EXCEPT ![w] = [Unemployed EXCEPT !.force = force, !.step = step]]
        /\ step \in {"create", "claim"}
        /\ UNCHANGED <<processId, channel, ledger, run, items, notified, overlapped>>
    BY <1>6 DEF FindRun
  <2> HIDE DEF step
  <2>2. [Unemployed EXCEPT !.force = force, !.step = step] \in WorkerRecords
    BY <2>1 DEF Unemployed, WorkerRecords, ReconSteps, Drafts, NoDrafts
  <2>3. ReconTypeOK'
    BY <2>1, <2>2 DEF ReconInv, ReconTypeOK
  <2>4. worker'[w].step = step /\ \A v \in Reconcilers \ {w} : worker'[v] = worker[v]
    BY <2>1 DEF ReconInv, ReconTypeOK, Unemployed
  <2>5. OneWorker'
    BY <2>1, <2>4 DEF ReconInv, OneWorker, Past
  <2>6. \A v \in Reconcilers : Covered(v)'
    BY <2>1, <2>4 DEF ReconInv, Covered, WorkerAt
  <2> QED
    BY <2>1, <2>3, <2>5, <2>6 DEF ReconInv, CompletedIsItemisedUnlessOverlapped
<1> QED
  BY <1>1, <1>2, <1>3, <1>4, <1>5, <1>6

\* Every step keeps the invariant.
LEMMA ReconNextInv == ReconInv /\ [ReconNext]_reconVars => ReconInv'
<1> SUFFICES ASSUME ReconInv, [ReconNext]_reconVars PROVE ReconInv'
  OBVIOUS
<1>1. ASSUME NEW t \in Trades, LedgerSucceeds(t) PROVE ReconInv'
  <2>1. /\ ledger' \in [Trades -> {"MISSING", "OPEN", "SUCCESS"}]
        /\ \A s \in Trades : ledger[s] = "SUCCESS" => ledger'[s] = "SUCCESS"
        /\ UNCHANGED <<processId, channel, run, items, notified, overlapped, worker>>
    BY <1>1 DEF LedgerSucceeds, ReconInv, ReconTypeOK
  <2> QED
    BY <2>1 DEF ReconInv, ReconTypeOK, OneWorker, Covered, WorkerAt, CompletedIsItemisedUnlessOverlapped
<1>2. ASSUME NEW t \in Trades, NEW status \in {"MANUALLY_CLOSED", "ESCALATED"}, ResolveItem(t, status)
      PROVE  ReconInv'
  <2>1. /\ items' \in [Trades -> ItemStatuses]
        /\ \A s \in Trades : items[s] # "NONE" => items'[s] # "NONE"
        /\ UNCHANGED <<processId, channel, ledger, run, notified, overlapped, worker>>
    BY <1>2 DEF ResolveItem, ReconInv, ReconTypeOK, ItemStatuses
  <2> QED
    BY <2>1 DEF ReconInv, ReconTypeOK, OneWorker, Covered, WorkerAt, CompletedIsItemisedUnlessOverlapped
<1>3. CASE RunLeaseExpires
  <2>1. /\ run' \in [status : RunStatuses, owner : ProcessIds \cup {Unowned}, live : BOOLEAN]
        /\ run'.status = run.status
        /\ UNCHANGED <<processId, channel, ledger, items, notified, overlapped, worker>>
    BY <1>3 DEF RunLeaseExpires, ReconInv, ReconTypeOK
  <2> QED
    BY <2>1 DEF ReconInv, ReconTypeOK, OneWorker, Covered, WorkerAt, CompletedIsItemisedUnlessOverlapped
<1>4. CASE UNCHANGED reconVars
  BY <1>4 DEF reconVars, ReconInv, ReconTypeOK, OneWorker, Covered, WorkerAt, CompletedIsItemisedUnlessOverlapped
<1> QED
  BY <1>1, <1>2, <1>3, <1>4, ClaimRunStep, CompareStep, WorkerStep DEF ReconNext

\* A completed run has an item for whatever WeChat was paid and the ledger does not have
\* (reconcile and persist in reconciliation.service.ts).
THEOREM CompletedItemised == ReconSpec => []CompletedIsItemisedUnlessOverlapped
<1>1. ReconSpec => []ReconInv
  BY ReconInitInv, ReconNextInv, PTL DEF ReconSpec
<1>2. ReconInv => CompletedIsItemisedUnlessOverlapped
  BY DEF ReconInv
<1> QED
  BY <1>1, <1>2, PTL

\* No run, forced or overlapping, takes back what an administrator decided (the deletes
\* of a forced run, and the upserts of persist).
THEOREM DecisionsKept == ReconSpec => DecisionsAreKept
<1> DEFINE Kept == \A t \in Trades : items[t] \in {"MANUALLY_CLOSED", "ESCALATED"}
                     => items'[t] \in {"MANUALLY_CLOSED", "ESCALATED"}
<1>1. ReconTypeOK /\ [ReconNext]_reconVars => [Kept]_reconVars
  <2> SUFFICES ASSUME ReconTypeOK, ReconNext PROVE Kept
    BY DEF reconVars
  <2>1. CASE UNCHANGED items
    BY <2>1
  <2>2. ASSUME NEW w \in Reconcilers, ClearItems(w) \/ Persist(w) PROVE Kept
    BY <2>2 DEF ClearItems, Persist, Cleared, Unhandled, ReconTypeOK
  <2>3. ASSUME NEW t \in Trades, NEW status \in {"MANUALLY_CLOSED", "ESCALATED"}, ResolveItem(t, status) PROVE Kept
    BY <2>3 DEF ResolveItem, ReconTypeOK
  <2> QED
    BY <2>1, <2>2, <2>3
    DEF ReconNext, FindRun, CreateRun, ClaimRun, Download, CompareTrade, EndCompare, NotifyDifferences,
        ReconThrows, FailRun, ReconDies, LedgerSucceeds, RunLeaseExpires
<1>2. ReconSpec => []ReconInv
  BY ReconInitInv, ReconNextInv, PTL DEF ReconSpec
<1>3. ReconInv => ReconTypeOK
  BY DEF ReconInv
<1> QED
  BY <1>1, <1>2, <1>3, PTL DEF ReconSpec, DecisionsAreKept

\* What a reconciliation works with keeps its types.
THEOREM ReconTypeCorrect == ReconSpec => []ReconTypeOK
<1>1. ReconInv => ReconTypeOK
  BY DEF ReconInv
<1> QED
  BY <1>1, ReconInitInv, ReconNextInv, PTL DEF ReconSpec

-----------------------------------------------------------------------------
(* The composition that TLC checks *)

\* A step of the composition is a step of one part, and the other two rest.
LEMMA OnePartSteps ==
  ASSUME [AfterNext]_afterVars
  PROVE  \/ UNCHANGED afterVars
         \/ Next /\ Refunding
         \/ ReissueNext /\ Reissuing
         \/ ReconNext /\ Reconciling
<1>1. CASE UNCHANGED afterVars
  BY <1>1
<1>2. ASSUME NEW t \in Handlers, NEW p \in Payments, BeginRefund(t, p) \/ BeginLookup(t, p) PROVE Next
  BY <1>2, Zenon DEF Next
<1>3. ASSUME NEW t \in Clerks, NEW p \in Payments,
             BeginApply(t, p) \/ \E to \in Invoices : BeginTransition(t, p, to)
      PROVE  Next
  BY <1>3, Zenon DEF Next
<1>4. ASSUME NEW t \in Tasks,
             \/ FindAggregate(t) \/ CreateAggregate(t) \/ ReviveAggregate(t) \/ MarkProcessing(t)
             \/ RequestRefund(t) \/ QueryRefund(t) \/ Conclude(t) \/ LockForSuccess(t) \/ CommitSuccess(t)
             \/ SubmitApplication(t) \/ CommitTransition(t) \/ Abort(t)
      PROVE  Next
  BY <1>4, Zenon DEF Next
<1>5. ASSUME NEW p \in Payments,
             \/ LateArrival(p) \/ MerchantRepeats(p) \/ Redeem(p) \/ GetsOld(p)
             \/ \E s \in Finals : WeChatDecides(p, s)
      PROVE  Next
  BY <1>5, Zenon DEF Next
<1>6. ASSUME NEW r \in Requests,
             (\E b \in Bills : BeginReissue(r, b)) \/ ReadSiblings(r) \/ CreateReissue(r)
      PROVE  ReissueNext
  BY <1>6, Zenon DEF ReissueNext
<1>7. ASSUME NEW b \in Bills, Move(b, "UNPAID", "CANCELED") \/ Move(b, "UNPAID", "PAID") \/ Move(b, "PAID", "REFUNDED")
      PROVE  ReissueNext
  BY <1>7, Zenon DEF ReissueNext
<1>8. ASSUME NEW w \in Reconcilers,
             \/ \E force \in BOOLEAN : FindRun(w, force)
             \/ CreateRun(w) \/ ClaimRun(w) \/ ClearItems(w) \/ Download(w) \/ EndCompare(w) \/ Persist(w)
             \/ NotifyDifferences(w) \/ ReconThrows(w) \/ FailRun(w) \/ ReconDies(w)
             \/ \E t \in Trades : CompareTrade(w, t)
      PROVE  ReconNext
  BY <1>8, Zenon DEF ReconNext
<1>9. ASSUME \/ \E t \in Trades : LedgerSucceeds(t)
             \/ \E t \in Trades, status \in {"MANUALLY_CLOSED", "ESCALATED"} : ResolveItem(t, status)
             \/ RunLeaseExpires
      PROVE  ReconNext
  BY <1>9, Zenon DEF ReconNext
<1>10. CASE AfterNext
  BY <1>10, <1>2, <1>3, <1>4, <1>5, <1>6, <1>7, <1>8, <1>9, Zenon DEF AfterNext
<1> QED
  BY <1>1, <1>10

\* The composition behaves like each of its parts by itself, so that what is proved of a
\* part holds in what TLC checks (MCBillRefund; no line of the code is about it).
THEOREM EachPartIsItself == AfterSpec => Spec /\ ReissueSpec /\ ReconSpec
<1>1. AfterInit => Init /\ ReissueInit /\ ReconInit
  BY Zenon DEF AfterInit
<1>2. [AfterNext]_afterVars => [Next]_vars /\ [ReissueNext]_reissueVars /\ [ReconNext]_reconVars
  BY OnePartSteps, Zenon DEF Refunding, Reissuing, Reconciling, afterVars
<1> QED
  BY <1>1, <1>2, PTL DEF AfterSpec, Spec, ReissueSpec, ReconSpec

\* Refunds, reissues and reconciliations keep their types, whichever of them takes steps.
THEOREM AfterTypesHold == AfterSpec => []AfterTypeOK
<1>1. TypeOK /\ ReissueTypeOK /\ ReconTypeOK => AfterTypeOK
  BY Zenon DEF AfterTypeOK
<1> QED
  BY <1>1, EachPartIsItself, TypeCorrect, ReissueTypeCorrect, ReconTypeCorrect, PTL
=============================================================================
