------------------------------ MODULE ServiceProofs ------------------------------
(*****************************************************************************)
(* Proofs about four small services, for any values of their constants:      *)
(* claims of coupons, incidents, bindings and the desk of tickets and        *)
(* visitors; and that the composition which TLC checks is each service by    *)
(* itself, so that what is proved of one holds in it.  Each part has an      *)
(* inductive invariant, the lemma that the steps keep it, and the theorems.  *)
(*****************************************************************************)
EXTENDS MCServices, NotifyProofs, CheckoutProofs, BillingProofs

-----------------------------------------------------------------------------
(* CouponClaim *)

\* What a claim has passed over is taken, or its owner lost a number to a clash of codes.
PassedOver(c) ==
  Claiming(c) => /\ claim[c].seq < PerUserLimit
                 /\ claim[c].owner \notin clashed =>
                      \A k \in 0 .. (claim[c].seq - 1) : <<claim[c].owner, k>> \in userCoupons

\* Numbers are passed over only when taken, so that what is counted adds up.
CouponInv ==
  /\ CouponTypeOK
  /\ IsFiniteSet(userCoupons)
  /\ totalQty <= stockPeak /\ \A c \in Claims : claim[c].saw <= stockPeak
  /\ \A c \in Claims : PassedOver(c)
  /\ ClaimsAreCounted

\* At first there is no coupon and no claim.
LEMMA CouponInitInv == CouponInit => CouponInv
<1> SUFFICES ASSUME CouponInit PROVE CouponInv
  OBVIOUS
<1> USE ClaimAssumption
<1>1. claim \in [Claims -> [step : {"idle"}, owner : Customers, seq : {0}, saw : {totalQty}]]
  BY DEF CouponInit
<1>2. CouponTypeOK
  BY <1>1 DEF CouponInit, CouponTypeOK, ClaimRecords, Quantities
<1>3. IsFiniteSet(userCoupons) /\ Cardinality(userCoupons) = 0
  BY FS_EmptySet DEF CouponInit
<1>4. totalQty <= stockPeak /\ \A c \in Claims : claim[c].saw <= stockPeak
  BY <1>1 DEF CouponInit, Quantities
<1>5. \A c \in Claims : PassedOver(c)
  BY <1>1 DEF PassedOver, Claiming
<1>6. ClaimsAreCounted
  BY <1>2, <1>3 DEF CouponInit, ClaimsAreCounted, CountedExactly, WithinStock, LimitIsTold, CouponTypeOK, Quantities
<1> QED
  BY <1>2, <1>3, <1>4, <1>5, <1>6 DEF CouponInv

\* A claim that ends changes nothing else.
LEMMA EndClaimKeeps ==
  ASSUME CouponInv, NEW c \in Claims, EndClaim(c)
  PROVE  /\ claim' \in [Claims -> ClaimRecords]
         /\ \A d \in Claims : /\ claim'[d].owner = claim[d].owner /\ claim'[d].seq = claim[d].seq
                              /\ claim'[d].saw = claim[d].saw
                              /\ Claiming(d)' => Claiming(d)
<1>1. claim[c] \in ClaimRecords
  BY DEF CouponInv, CouponTypeOK
<1>2. [claim[c] EXCEPT !.step = "idle"] \in ClaimRecords
  BY <1>1 DEF ClaimRecords
<1> QED
  BY <1>1, <1>2 DEF EndClaim, Claiming, CouponInv, CouponTypeOK, ClaimRecords

\* The transaction adds one coupon and counts it.
LEMMA GrantStep == ASSUME CouponInv, NEW c \in Claims, Grant(c) PROVE CouponInv'
<1> USE ClaimAssumption
<1>1. /\ Claiming(c) /\ InStock(c) /\ Seat(c) \notin userCoupons
      /\ claimedQty' = claimedQty + 1 /\ userCoupons' = userCoupons \cup {Seat(c)} /\ EndClaim(c)
      /\ UNCHANGED <<totalQty, stockPeak, clashed, told>>
  BY DEF Grant
<1>2. /\ claim' \in [Claims -> ClaimRecords]
      /\ \A d \in Claims : /\ claim'[d].owner = claim[d].owner /\ claim'[d].seq = claim[d].seq
                           /\ claim'[d].saw = claim[d].saw
                           /\ Claiming(d)' => Claiming(d)
  BY <1>1, EndClaimKeeps
<1>3. Seat(c) \in Customers \X (0 .. (PerUserLimit - 1))
  BY <1>1 DEF CouponInv, CouponTypeOK, ClaimRecords, PassedOver, Seat
<1>4. CouponTypeOK'
  BY <1>1, <1>2, <1>3 DEF CouponInv, CouponTypeOK
<1>5. IsFiniteSet(userCoupons') /\ Cardinality(userCoupons') = Cardinality(userCoupons) + 1
  BY <1>1, FS_AddElement DEF CouponInv
<1>6. claimedQty < stockPeak
  BY <1>1 DEF CouponInv, CouponTypeOK, InStock, ClaimRecords, Quantities
<1>7. ClaimsAreCounted'
  BY <1>1, <1>5, <1>6
  DEF CouponInv, CouponTypeOK, ClaimsAreCounted, CountedExactly, WithinStock, LimitIsTold, Quantities
<1>8. \A d \in Claims : PassedOver(d)'
  BY <1>1, <1>2 DEF CouponInv, PassedOver
<1> QED
  BY <1>1, <1>2, <1>4, <1>5, <1>7, <1>8 DEF CouponInv

\* A number that is taken, or lost, is passed over; after the last one the owner is told.
LEMMA PassOverStep == ASSUME CouponInv, NEW c \in Claims, SeqTaken(c) \/ CodeTaken(c) PROVE CouponInv'
<1> USE ClaimAssumption
<1>1. /\ Claiming(c) /\ NextSeq(c) /\ UNCHANGED <<totalQty, claimedQty, stockPeak, userCoupons>>
      /\ \/ Seat(c) \in userCoupons /\ clashed' = clashed
         \/ clashed' = clashed \cup {claim[c].owner}
  BY DEF SeqTaken, CodeTaken, Rollback
<1>2. claim[c] \in ClaimRecords /\ claim[c].seq \in 0 .. PerUserLimit /\ claim[c].owner \in Customers
  BY DEF CouponInv, CouponTypeOK, ClaimRecords
<1>3. claim[c].seq < PerUserLimit
  BY <1>1 DEF CouponInv, PassedOver
<1>4. claim[c].owner \notin clashed' => \A k \in 0 .. claim[c].seq : <<claim[c].owner, k>> \in userCoupons
  BY <1>1, <1>2 DEF CouponInv, PassedOver, Seat
<1>5. CASE claim[c].seq + 1 >= PerUserLimit
  <2>1. EndClaim(c) /\ told' = told \cup {claim[c].owner}
    BY <1>1, <1>5 DEF NextSeq, EndClaim
  <2>2. /\ claim' \in [Claims -> ClaimRecords]
        /\ \A d \in Claims : /\ claim'[d].owner = claim[d].owner /\ claim'[d].seq = claim[d].seq
                             /\ claim'[d].saw = claim[d].saw
                             /\ Claiming(d)' => Claiming(d)
    BY <2>1, EndClaimKeeps
  <2>3. CouponTypeOK'
    BY <1>1, <1>2, <2>1, <2>2 DEF CouponInv, CouponTypeOK
  <2>4. \A d \in Claims : PassedOver(d)'
    BY <1>1, <2>2 DEF CouponInv, PassedOver
  <2>5. LimitIsTold'
    <3> SUFFICES ASSUME NEW o \in told' \ clashed', NEW k \in 0 .. (PerUserLimit - 1)
                 PROVE  <<o, k>> \in userCoupons'
      BY DEF LimitIsTold
    <3>1. CASE o = claim[c].owner
      BY <1>1, <1>2, <1>3, <1>4, <1>5, <3>1
    <3>2. CASE o # claim[c].owner
      <4>1. o \in told \ clashed
        BY <1>1, <2>1, <3>2
      <4> QED
        BY <1>1, <4>1 DEF CouponInv, ClaimsAreCounted, LimitIsTold
    <3> QED
      BY <3>1, <3>2
  <2>6. ClaimsAreCounted'
    BY <1>1, <2>5 DEF CouponInv, ClaimsAreCounted, CountedExactly, WithinStock
  <2> QED
    BY <1>1, <2>2, <2>3, <2>4, <2>6 DEF CouponInv
<1>6. CASE claim[c].seq + 1 < PerUserLimit
  <2>1. claim' = [claim EXCEPT ![c].seq = @ + 1] /\ told' = told
    BY <1>1, <1>2, <1>6 DEF NextSeq
  <2>2. [claim[c] EXCEPT !.seq = @ + 1] \in ClaimRecords
    BY <1>2, <1>6 DEF ClaimRecords
  <2>3. claim' \in [Claims -> ClaimRecords]
    BY <2>1, <2>2 DEF CouponInv, CouponTypeOK
  <2>4. \A d \in Claims : /\ claim'[d].owner = claim[d].owner /\ claim'[d].saw = claim[d].saw
                          /\ claim'[d].seq = IF d = c THEN claim[c].seq + 1 ELSE claim[d].seq
                          /\ claim'[d].step = claim[d].step
    BY <1>2, <2>1 DEF CouponInv, CouponTypeOK, ClaimRecords
  <2>5. CouponTypeOK'
    BY <1>1, <1>2, <2>1, <2>3 DEF CouponInv, CouponTypeOK
  <2>6. PassedOver(c)'
    BY <1>1, <1>2, <1>4, <1>6, <2>4 DEF PassedOver
  <2>7. \A d \in Claims \ {c} : PassedOver(d)'
    BY <1>1, <2>4 DEF CouponInv, PassedOver, Claiming
  <2>8. ClaimsAreCounted'
    BY <1>1, <2>1 DEF CouponInv, ClaimsAreCounted, CountedExactly, WithinStock, LimitIsTold
  <2> QED
    BY <1>1, <2>4, <2>5, <2>6, <2>7, <2>8 DEF CouponInv
<1> QED
  BY <1>2, <1>5, <1>6

\* Every step keeps the invariant.
LEMMA CouponNextInv == CouponInv /\ [CouponNext]_couponVars => CouponInv'
<1> SUFFICES ASSUME CouponInv, [CouponNext]_couponVars PROVE CouponInv'
  OBVIOUS
<1> USE ClaimAssumption
<1>1. ASSUME NEW c \in Claims, SoldOut(c) \/ ClaimThrows(c) PROVE CouponInv'
  <2>1. EndClaim(c) /\ UNCHANGED <<totalQty, claimedQty, stockPeak, userCoupons, clashed, told>>
    BY <1>1 DEF SoldOut, ClaimThrows
  <2>2. /\ claim' \in [Claims -> ClaimRecords]
        /\ \A d \in Claims : /\ claim'[d].owner = claim[d].owner /\ claim'[d].seq = claim[d].seq
                             /\ claim'[d].saw = claim[d].saw
                             /\ Claiming(d)' => Claiming(d)
    BY <2>1, EndClaimKeeps
  <2> QED
    BY <2>1, <2>2 DEF CouponInv, CouponTypeOK, PassedOver, ClaimsAreCounted, CountedExactly, WithinStock, LimitIsTold
<1>2. ASSUME NEW c \in Claims, NEW o \in Customers, BeginClaim(c, o) PROVE CouponInv'
  <2>1. claim' = [claim EXCEPT ![c] = [step |-> "try", owner |-> o, seq |-> 0, saw |-> totalQty]]
        /\ UNCHANGED <<totalQty, claimedQty, stockPeak, userCoupons, clashed, told>>
    BY <1>2 DEF BeginClaim
  <2>2. [step |-> "try", owner |-> o, seq |-> 0, saw |-> totalQty] \in ClaimRecords
    BY DEF CouponInv, CouponTypeOK, ClaimRecords
  <2>3. CouponTypeOK'
    BY <2>1, <2>2 DEF CouponInv, CouponTypeOK
  <2>4. \A d \in Claims : claim'[d] = IF d = c THEN [step |-> "try", owner |-> o, seq |-> 0, saw |-> totalQty] ELSE claim[d]
    BY <2>1 DEF CouponInv, CouponTypeOK
  <2>5. \A d \in Claims : PassedOver(d)' /\ claim'[d].saw <= stockPeak
    BY <2>1, <2>4 DEF CouponInv, PassedOver, Claiming
  <2> QED
    BY <2>1, <2>3, <2>5 DEF CouponInv, ClaimsAreCounted, CountedExactly, WithinStock, LimitIsTold
<1>3. ASSUME NEW n \in Quantities, SetStock(n) PROVE CouponInv'
  <2>1. stockPeak' \in Quantities /\ stockPeak <= stockPeak' /\ totalQty' <= stockPeak'
    BY <1>3 DEF SetStock, CouponInv, CouponTypeOK, Quantities
  <2>2. CouponTypeOK'
    BY <1>3, <2>1 DEF SetStock, CouponInv, CouponTypeOK
  <2>3. \A c \in Claims : claim'[c].saw <= stockPeak'
    BY <1>3, <2>1 DEF SetStock, CouponInv, CouponTypeOK, ClaimRecords, Quantities
  <2>4. ClaimsAreCounted'
    BY <1>3, <2>1 DEF SetStock, CouponInv, CouponTypeOK, ClaimsAreCounted, CountedExactly, WithinStock, LimitIsTold, Quantities
  <2>5. \A c \in Claims : PassedOver(c)'
    BY <1>3 DEF SetStock, CouponInv, PassedOver, Claiming
  <2> QED
    BY <1>3, <2>1, <2>2, <2>3, <2>4, <2>5 DEF SetStock, CouponInv
<1>4. CASE UNCHANGED couponVars
  BY <1>4 DEF CouponInv, CouponTypeOK, PassedOver, Claiming, ClaimsAreCounted, CountedExactly, WithinStock,
              LimitIsTold, couponVars
<1> QED
  BY <1>1, <1>2, <1>3, <1>4, GrantStep, PassOverStep DEF CouponNext

\* The stock is kept and counted, and the limit is not told in vain (claim in
\* coupons.service.ts).
THEOREM ClaimsCounted == CouponSpec => []ClaimsAreCounted
<1>1. CouponSpec => []CouponInv
  BY CouponInitInv, CouponNextInv, PTL DEF CouponSpec
<1>2. CouponInv => ClaimsAreCounted
  BY DEF CouponInv
<1> QED
  BY <1>1, <1>2, PTL

-----------------------------------------------------------------------------
(* Incidents *)

\* The types, without the bound on the number of occurrences.
EmitterRecords == [step : EmitterSteps, new : BOOLEAN, no : Nat, saw : IncidentStatuses, ok : BOOLEAN]
IncidentShape ==
  /\ alert \in [status : AlertStatuses, occurrences : Nat]
  /\ incident \in [status : IncidentStatuses, occurrences : Nat]
  /\ due \in [alert : Int, incident : Int]
  /\ news \in BOOLEAN /\ crossed \in BOOLEAN
  /\ emitter \in [Emitters -> EmitterRecords]
  /\ operator \in [Operators -> {"none", "ACKNOWLEDGED", "RESOLVED"}]

\* A row counts at least the occurrence that created it, and it is there for whoever saw
\* it or got past it.
RowsHold ==
  /\ alert.status = "NONE" <=> alert.occurrences = 0
  /\ incident.status = "NONE" <=> incident.occurrences = 0
  /\ \A e \in Emitters :
       /\ emitter[e].step \notin {"idle", "alert"} \/ (EmitterAt(e, "alert") /\ ~emitter[e].new) => alert.status # "NONE"
       /\ EmitterAt(e, "incident") /\ emitter[e].saw # "NONE" => incident.status # "NONE"
  /\ \A a \in Operators : operator[a] # "none" => incident.status # "NONE"

\* The incident asks for somebody.
Unsolved == incident.status \in {"OPEN", "ACKNOWLEDGED"}

\* An emitter that saw the incident not resolved still finds it so, and nobody is deciding
\* about an occurrence that nobody has seen.
NothingIsHidden ==
  /\ \A e \in Emitters : EmitterAt(e, "incident") /\ emitter[e].saw # "RESOLVED" => incident.status # "RESOLVED"
  /\ news => Unsolved /\ ~Deciding

\* The last holds until a read and a write cross.
IncidentInv ==
  /\ IncidentShape
  /\ RowsHold
  /\ OccurrencesAreCounted
  /\ ~crossed => NothingIsHidden

\* The emitters that are late for a row can be counted.
LEMMA LateCounts ==
  ASSUME NEW S \in SUBSET Emitters, NEW e \in Emitters
  PROVE  /\ Cardinality(S) \in Nat
         /\ Cardinality(S \ {e}) = Cardinality(S) - One(e \in S)
         /\ Cardinality(S \cup {e}) = Cardinality(S) + One(e \notin S)
<1>1. IsFiniteSet(S)
  BY IncidentsAssumption, FS_Subset
<1>2. Cardinality(S) \in Nat
  BY <1>1, FS_CardinalityType
<1>3. Cardinality(S \ {e}) = IF e \in S THEN Cardinality(S) - 1 ELSE Cardinality(S)
  BY <1>1, FS_RemoveElement, Zenon
<1>4. Cardinality(S \cup {e}) = IF e \in S THEN Cardinality(S) ELSE Cardinality(S) + 1
  BY <1>1, FS_AddElement, Zenon
<1> QED
  BY <1>2, <1>3, <1>4 DEF One

\* At first there is no alert.
LEMMA IncidentInitInv == IncidentInit => IncidentInv
<1> SUFFICES ASSUME IncidentInit PROVE IncidentInv
  OBVIOUS
<1>1. Silent \in EmitterRecords /\ Silent.step = "idle"
  BY DEF Silent, EmitterSteps, IncidentStatuses, EmitterRecords
<1>2. ~news /\ ~crossed /\ news \in BOOLEAN /\ crossed \in BOOLEAN
  BY DEF IncidentInit
<1>3. IncidentShape
  BY <1>1, <1>2 DEF IncidentInit, IncidentShape, AlertStatuses, IncidentStatuses
<1>4. \A e \in Emitters : emitter[e].step = "idle"
  BY <1>1 DEF IncidentInit
<1>5. RowsHold /\ NothingIsHidden
  BY <1>2, <1>4 DEF IncidentInit, RowsHold, NothingIsHidden, EmitterAt
<1>6. LateAlerts = {} /\ LateIncidents = {}
  BY <1>4 DEF LateAlerts, LateIncidents, EmitterAt
<1>7. OccurrencesAreCounted
  BY <1>6, FS_EmptySet DEF IncidentInit, OccurrencesAreCounted, One
<1> QED
  BY <1>3, <1>5, <1>7 DEF IncidentInv

\* An emitter that moves keeps its type and leaves the others alone.
OnlyMoves(e) == emitter' \in [Emitters -> EmitterRecords] /\ \A d \in Emitters \ {e} : emitter'[d] = emitter[d]

LEMMA EmitterMoves ==
  ASSUME IncidentShape, NEW e \in Emitters
  PROVE  /\ Falls(e) => OnlyMoves(e) /\ emitter'[e] = Silent
         /\ \A step \in EmitterSteps : EmitterGoes(e, step) => OnlyMoves(e) /\ emitter'[e].step = step
         /\ FindAlert(e) => OnlyMoves(e) /\ emitter'[e].step = "alert" /\ emitter'[e].new = (alert.status = "NONE")
         /\ FindIncident(e) => OnlyMoves(e) /\ emitter'[e].step = "incident" /\ emitter'[e].saw = incident.status
         /\ \A ok \in BOOLEAN : Deliver(e, ok) => OnlyMoves(e) /\ emitter'[e].step \in {"idle", "status"}
<1>1. emitter \in [Emitters -> EmitterRecords] /\ emitter[e] \in EmitterRecords
  BY DEF IncidentShape
<1>2. Silent \in EmitterRecords /\ Silent.step = "idle"
  BY DEF Silent, EmitterSteps, IncidentStatuses, EmitterRecords
<1>3. ASSUME NEW r \in EmitterRecords, emitter' = [emitter EXCEPT ![e] = r] PROVE OnlyMoves(e) /\ emitter'[e] = r
  BY <1>1, <1>3 DEF OnlyMoves
<1>4. ASSUME Falls(e) PROVE OnlyMoves(e) /\ emitter'[e] = Silent
  BY <1>2, <1>3, <1>4 DEF Falls
<1>5. ASSUME NEW step \in EmitterSteps, EmitterGoes(e, step) PROVE OnlyMoves(e) /\ emitter'[e].step = step
  <2>1. emitter' = [emitter EXCEPT ![e] = [emitter[e] EXCEPT !.step = step]]
    BY <1>1, <1>5 DEF EmitterGoes
  <2>2. [emitter[e] EXCEPT !.step = step] \in EmitterRecords /\ [emitter[e] EXCEPT !.step = step].step = step
    BY <1>1 DEF EmitterRecords
  <2> QED
    BY <1>3, <2>1, <2>2
<1>6. ASSUME FindAlert(e)
      PROVE  OnlyMoves(e) /\ emitter'[e].step = "alert" /\ emitter'[e].new = (alert.status = "NONE")
  <2> DEFINE new == alert.status = "NONE"
             no == alert.occurrences + 1
             r == [Silent EXCEPT !.step = "alert", !.new = new, !.no = no]
  <2>1. emitter' = [emitter EXCEPT ![e] = r]
    BY <1>6 DEF FindAlert
  <2>2. new \in BOOLEAN /\ no \in Nat
    BY DEF IncidentShape
  <2> HIDE DEF new, no
  <2>3. r \in EmitterRecords /\ r.step = "alert" /\ r.new = new
    BY <2>2 DEF Silent, EmitterSteps, IncidentStatuses, EmitterRecords
  <2> HIDE DEF r
  <2>4. OnlyMoves(e) /\ emitter'[e] = r
    BY <1>3, <2>1, <2>3
  <2> QED
    BY <2>3, <2>4 DEF new
<1>7. ASSUME FindIncident(e)
      PROVE  OnlyMoves(e) /\ emitter'[e].step = "incident" /\ emitter'[e].saw = incident.status
  <2> DEFINE r == [emitter[e] EXCEPT !.step = "incident", !.saw = incident.status]
  <2>1. emitter' = [emitter EXCEPT ![e] = r]
    BY <1>1, <1>7 DEF FindIncident
  <2>2. r \in EmitterRecords /\ r.step = "incident" /\ r.saw = incident.status
    BY <1>1 DEF EmitterSteps, EmitterRecords, IncidentShape
  <2> HIDE DEF r
  <2> QED
    BY <1>3, <2>1, <2>2
<1>8. ASSUME NEW ok \in BOOLEAN, Deliver(e, ok) PROVE OnlyMoves(e) /\ emitter'[e].step \in {"idle", "status"}
  <2> DEFINE r == [emitter[e] EXCEPT !.step = "status", !.ok = ok]
  <2>1. Falls(e) \/ emitter' = [emitter EXCEPT ![e] = r]
    BY <1>1, <1>8 DEF Deliver
  <2>2. r \in EmitterRecords /\ r.step = "status"
    BY <1>1 DEF EmitterSteps, EmitterRecords
  <2> HIDE DEF r
  <2> QED
    BY <1>2, <1>3, <1>4, <2>1, <2>2
<1> QED
  BY <1>4, <1>5, <1>6, <1>7, <1>8

\* An emitter's steps outside the rows: who falls is not late any more, and who goes on
\* was not.
LEMMA QuietStep ==
  ASSUME IncidentInv, NEW e \in Emitters,
         SetAlertStatus(e) \/ EmitterDies(e) \/ \E ok \in BOOLEAN : Deliver(e, ok)
  PROVE  IncidentInv'
<1>1. /\ UNCHANGED <<incident, news, crossed, operator>>
      /\ OnlyMoves(e) /\ emitter'[e].step \in {"idle", "status"}
      /\ emitter'[e].step = "status" => emitter[e].step = "deliver"
  BY EmitterMoves DEF SetAlertStatus, EmitterDies, Deliver, IncidentInv, Silent, EmitterAt
<1>2. /\ alert' \in [status : AlertStatuses, occurrences : Nat] /\ alert'.occurrences = alert.occurrences
      /\ alert'.status = "NONE" <=> alert.status = "NONE"
  <2>1. CASE SetAlertStatus(e)
    BY <2>1 DEF SetAlertStatus, IncidentInv, IncidentShape, RowsHold, AlertStatuses, EmitterAt
  <2>2. CASE UNCHANGED alert
    BY <2>2 DEF IncidentInv, IncidentShape
  <2> QED
    BY <2>1, <2>2 DEF EmitterDies, Deliver
<1>3. LateAlerts' = LateAlerts \ {e} /\ LateIncidents' = LateIncidents \ {e}
  BY <1>1 DEF LateAlerts, LateIncidents, EmitterAt, OnlyMoves
<1>4. due' = [alert |-> due.alert - One(e \in LateAlerts), incident |-> due.incident - One(e \in LateIncidents)]
  <2>1. CASE EmitterDies(e)
    BY <2>1 DEF EmitterDies
  <2>2. CASE ~EmitterDies(e)
    <3>1. due' = due /\ emitter[e].step \in {"status", "deliver"}
      BY <2>2 DEF SetAlertStatus, Deliver, EmitterAt
    <3>2. e \notin LateAlerts /\ e \notin LateIncidents
      BY <3>1 DEF LateAlerts, LateIncidents, EmitterAt
    <3> QED
      BY <3>1, <3>2 DEF IncidentInv, IncidentShape, One
  <2> QED
    BY <2>1, <2>2
<1>5. OccurrencesAreCounted'
  <2>1. LateAlerts \in SUBSET Emitters /\ LateIncidents \in SUBSET Emitters
    BY DEF LateAlerts, LateIncidents
  <2>2. /\ Cardinality(LateAlerts') = Cardinality(LateAlerts) - One(e \in LateAlerts)
        /\ Cardinality(LateIncidents') = Cardinality(LateIncidents) - One(e \in LateIncidents)
        /\ Cardinality(LateAlerts) \in Nat /\ Cardinality(LateIncidents) \in Nat
    BY <1>3, <2>1, LateCounts
  <2> QED
    BY <1>1, <1>2, <1>4, <2>2 DEF IncidentInv, IncidentShape, OccurrencesAreCounted, One
<1>6. RowsHold'
  BY <1>1, <1>2 DEF IncidentInv, RowsHold, EmitterAt, OnlyMoves
<1>7. NothingIsHidden => NothingIsHidden'
  BY <1>1 DEF NothingIsHidden, EmitterAt, OnlyMoves, Unsolved, Deciding
<1>8. IncidentShape'
  <2>1. due' \in [alert : Int, incident : Int]
    BY <1>4 DEF IncidentInv, IncidentShape, One
  <2> QED
    BY <1>1, <1>2, <2>1 DEF IncidentInv, IncidentShape, OnlyMoves
<1> QED
  BY <1>1, <1>5, <1>6, <1>7, <1>8 DEF IncidentInv

\* Who finds a row there is late for it until it has counted.
LEMMA FindingStep ==
  ASSUME IncidentInv, NEW e \in Emitters, FindAlert(e) \/ FindIncident(e)
  PROVE  IncidentInv'
<1> DEFINE inAlert == FindAlert(e) /\ alert.status # "NONE"
           inIncident == FindIncident(e) /\ incident.status # "NONE"
<1>1. /\ UNCHANGED <<alert, incident, news, crossed, operator>> /\ OnlyMoves(e)
      /\ FindAlert(e) => /\ emitter[e].step = "idle" /\ emitter'[e].step = "alert"
                         /\ emitter'[e].new = (alert.status = "NONE")
      /\ FindIncident(e) => emitter[e].step = "find" /\ emitter'[e].step = "incident" /\ emitter'[e].saw = incident.status
  BY EmitterMoves DEF FindAlert, FindIncident, IncidentInv, EmitterAt
<1>2. /\ LateAlerts' = IF inAlert THEN LateAlerts \cup {e} ELSE LateAlerts
      /\ LateIncidents' = IF inIncident THEN LateIncidents \cup {e} ELSE LateIncidents
      /\ e \notin LateAlerts /\ e \notin LateIncidents
  BY <1>1 DEF LateAlerts, LateIncidents, EmitterAt, OnlyMoves
<1>3. due' = [alert |-> due.alert + One(inAlert), incident |-> due.incident + One(inIncident)]
  <2>1. FindAlert(e) => ~FindIncident(e)
    BY DEF FindAlert, FindIncident, EmitterAt
  <2> QED
    BY <2>1 DEF FindAlert, FindIncident, IncidentInv, IncidentShape, One
<1>4. OccurrencesAreCounted'
  <2>1. LateAlerts \in SUBSET Emitters /\ LateIncidents \in SUBSET Emitters
    BY DEF LateAlerts, LateIncidents
  <2>2. /\ Cardinality(LateAlerts) \in Nat /\ Cardinality(LateIncidents) \in Nat
        /\ Cardinality(LateAlerts \cup {e}) = Cardinality(LateAlerts) + 1
        /\ Cardinality(LateIncidents \cup {e}) = Cardinality(LateIncidents) + 1
    BY <1>2, <2>1, LateCounts DEF One
  <2> HIDE DEF inAlert, inIncident
  <2>3. /\ Cardinality(LateAlerts') = Cardinality(LateAlerts) + One(inAlert)
        /\ Cardinality(LateIncidents') = Cardinality(LateIncidents) + One(inIncident)
    BY <1>2, <2>2 DEF One
  <2>4. /\ One(inAlert) \in Nat /\ One(inIncident) \in Nat
        /\ One(alert.status # "NONE") \in Nat /\ One(incident.status # "NONE") \in Nat
    BY DEF One
  <2>5. due'.alert = due.alert + One(inAlert) /\ due'.incident = due.incident + One(inIncident)
    BY <1>3
  <2>6. /\ alert.occurrences \in Nat /\ incident.occurrences \in Nat /\ due.alert \in Int /\ due.incident \in Int
        /\ UNCHANGED <<alert, incident>>
    BY <1>1 DEF IncidentInv, IncidentShape
  <2>7. /\ alert.occurrences + Cardinality(LateAlerts) = due.alert + One(alert.status # "NONE")
        /\ incident.occurrences + Cardinality(LateIncidents) = due.incident + One(incident.status # "NONE")
    BY DEF IncidentInv, OccurrencesAreCounted
  <2>8. /\ alert.occurrences + Cardinality(LateAlerts') = due'.alert + One(alert.status # "NONE")
        /\ incident.occurrences + Cardinality(LateIncidents') = due'.incident + One(incident.status # "NONE")
    BY <2>2, <2>3, <2>4, <2>5, <2>6, <2>7
  <2> QED
    BY <2>6, <2>8 DEF OccurrencesAreCounted
<1>5. RowsHold'
  BY <1>1 DEF IncidentInv, RowsHold, EmitterAt, OnlyMoves
<1>6. NothingIsHidden => NothingIsHidden'
  BY <1>1 DEF NothingIsHidden, EmitterAt, OnlyMoves, Unsolved, Deciding
<1>7. IncidentShape'
  <2>1. due' \in [alert : Int, incident : Int]
    BY <1>3 DEF IncidentInv, IncidentShape, One
  <2> QED
    BY <1>1, <2>1 DEF IncidentInv, IncidentShape, OnlyMoves
<1> QED
  BY <1>1, <1>4, <1>5, <1>6, <1>7 DEF IncidentInv

\* The alert counts who was late for it, and who creates it.
LEMMA AlertStep == ASSUME IncidentInv, NEW e \in Emitters, WriteAlert(e) PROVE IncidentInv'
<1>1. /\ UNCHANGED <<incident, due, news, crossed, operator>> /\ emitter[e].step = "alert"
      /\ OnlyMoves(e) /\ emitter'[e].step \in {"idle", "find"}
  BY EmitterMoves DEF WriteAlert, IncidentInv, EmitterSteps, EmitterAt, Silent
<1>2. LateAlerts' = LateAlerts \ {e} /\ LateIncidents' = LateIncidents /\ (e \in LateAlerts <=> ~emitter[e].new)
  BY <1>1 DEF LateAlerts, LateIncidents, EmitterAt, OnlyMoves
<1>3. /\ alert' \in [status : AlertStatuses, occurrences : Nat]
      /\ alert'.occurrences = alert.occurrences + One(~emitter[e].new \/ alert.status = "NONE")
      /\ emitter'[e].step = "find" => alert'.status # "NONE"
      /\ alert'.status = "NONE" <=> alert'.occurrences = 0
      /\ One(alert'.status # "NONE") = One(alert.status # "NONE") + One(alert.status = "NONE" /\ emitter[e].new)
      /\ alert.status # "NONE" => alert'.status # "NONE"
  <2>1. CASE emitter[e].new /\ alert.status # "NONE"
    <3>1. UNCHANGED alert /\ emitter'[e].step = "idle"
      BY <2>1, EmitterMoves DEF WriteAlert, IncidentInv, Silent
    <3> QED
      BY <2>1, <3>1 DEF IncidentInv, IncidentShape, RowsHold, One
  <2>2. CASE ~(emitter[e].new /\ alert.status # "NONE")
    <3>1. alert' = [status |-> IF emitter[e].new THEN "OPEN" ELSE alert.status, occurrences |-> alert.occurrences + 1]
      BY <2>2 DEF WriteAlert, Incremented
    <3>2. ~emitter[e].new => alert.status # "NONE"
      BY <1>1 DEF IncidentInv, RowsHold, EmitterAt
    <3> QED
      BY <2>2, <3>1, <3>2 DEF IncidentInv, IncidentShape, AlertStatuses, One
  <2> QED
    BY <2>1, <2>2
<1>4. OccurrencesAreCounted'
  <2>1. LateAlerts \in SUBSET Emitters
    BY DEF LateAlerts
  <2>2. /\ Cardinality(LateAlerts') = Cardinality(LateAlerts) - One(~emitter[e].new)
        /\ Cardinality(LateAlerts) \in Nat
    BY <1>2, <2>1, LateCounts DEF One
  <2>3. ~emitter[e].new => alert.status # "NONE"
    BY <1>1 DEF IncidentInv, RowsHold, EmitterAt
  <2> QED
    BY <1>1, <1>2, <1>3, <2>2, <2>3 DEF IncidentInv, IncidentShape, OccurrencesAreCounted, One
<1>5. RowsHold'
  BY <1>1, <1>3 DEF IncidentInv, RowsHold, EmitterAt, OnlyMoves
<1>6. NothingIsHidden => NothingIsHidden'
  BY <1>1 DEF NothingIsHidden, EmitterAt, OnlyMoves, Unsolved, Deciding
<1>7. IncidentShape'
  BY <1>1, <1>3 DEF IncidentInv, IncidentShape, OnlyMoves
<1> QED
  BY <1>1, <1>4, <1>5, <1>6, <1>7 DEF IncidentInv

\* A recurrence leaves the incident open, and everyone who is deciding crosses it.
LEMMA RecurrenceStep == ASSUME IncidentInv, NEW e \in Emitters, WriteIncident(e) PROVE IncidentInv'
<1>1. /\ UNCHANGED <<alert, due, operator>> /\ emitter[e].step = "incident"
      /\ news' = TRUE /\ crossed' = (crossed \/ Deciding)
      /\ OnlyMoves(e) /\ emitter'[e].step \in {"idle", "deliver"}
  BY EmitterMoves DEF WriteIncident, IncidentInv, EmitterSteps, EmitterAt, Silent
<1>2. /\ LateIncidents' = LateIncidents \ {e} /\ LateAlerts' = LateAlerts
      /\ e \in LateIncidents <=> emitter[e].saw # "NONE"
  BY <1>1 DEF LateAlerts, LateIncidents, EmitterAt, OnlyMoves
<1>3. /\ emitter[e].saw # "NONE" => incident.status # "NONE"
      /\ emitter[e].saw \in IncidentStatuses /\ incident.status \in IncidentStatuses
      /\ alert.status # "NONE"
  BY <1>1 DEF IncidentInv, IncidentShape, EmitterRecords, RowsHold, EmitterAt
<1>4. /\ incident' \in [status : IncidentStatuses, occurrences : Nat]
      /\ incident'.occurrences = incident.occurrences + One(emitter[e].saw # "NONE" \/ incident.status = "NONE")
      /\ One(incident'.status # "NONE") = One(incident.status # "NONE") + One(incident.status = "NONE")
      /\ incident'.status # "NONE" /\ incident'.occurrences # 0
      /\ incident.status # "RESOLVED" => incident'.status # "RESOLVED"
      /\ emitter[e].saw = "RESOLVED" => incident'.status # "RESOLVED"
  <2>1. CASE emitter[e].saw = "NONE" /\ incident.status # "NONE"
    <3>1. UNCHANGED incident
      BY <2>1 DEF WriteIncident
    <3> QED
      BY <2>1, <3>1 DEF IncidentInv, IncidentShape, RowsHold, One
  <2>2. CASE ~(emitter[e].saw = "NONE" /\ incident.status # "NONE")
    <3>1. incident' = [status |-> IF incident.status = "NONE" THEN "OPEN" ELSE Reopened(e),
                       occurrences |-> incident.occurrences + 1]
      BY <2>2 DEF WriteIncident
    <3> QED
      BY <1>3, <2>2, <3>1 DEF IncidentInv, IncidentShape, IncidentStatuses, Reopened, One
  <2> QED
    BY <2>1, <2>2
<1>5. OccurrencesAreCounted'
  <2>1. LateIncidents \in SUBSET Emitters
    BY DEF LateIncidents
  <2>2. /\ Cardinality(LateIncidents') = Cardinality(LateIncidents) - One(emitter[e].saw # "NONE")
        /\ Cardinality(LateIncidents) \in Nat
    BY <1>2, <2>1, LateCounts DEF One
  <2> QED
    BY <1>1, <1>2, <1>3, <1>4, <2>2 DEF IncidentInv, IncidentShape, OccurrencesAreCounted, One
<1>6. RowsHold'
  BY <1>1, <1>3, <1>4 DEF IncidentInv, RowsHold, EmitterAt, OnlyMoves
<1>7. ASSUME ~crossed' PROVE NothingIsHidden'
  <2>1. NothingIsHidden /\ ~Deciding /\ ~Deciding'
    BY <1>1, <1>7 DEF IncidentInv, Deciding
  <2>2. incident'.status # "RESOLVED"
    BY <1>1, <1>4, <2>1 DEF NothingIsHidden, EmitterAt
  <2>3. Unsolved'
    BY <1>4, <2>2 DEF Unsolved, IncidentStatuses
  <2> QED
    BY <2>1, <2>2, <2>3 DEF NothingIsHidden
<1>8. IncidentShape'
  BY <1>1, <1>4 DEF IncidentInv, IncidentShape, OnlyMoves, Deciding
<1> QED
  BY <1>5, <1>6, <1>7, <1>8 DEF IncidentInv

\* Who loads the incident has seen everything; who writes crosses every emitter that has read it.
LEMMA DecisionStep ==
  ASSUME IncidentInv, NEW a \in Operators,
         Transit(a) \/ \E status \in {"ACKNOWLEDGED", "RESOLVED"} : LoadIncident(a, status)
  PROVE  IncidentInv'
<1>1. CASE Transit(a)
  <2>1. /\ operator[a] # "none" /\ incident' = [incident EXCEPT !.status = operator[a]]
        /\ operator' = [operator EXCEPT ![a] = "none"]
        /\ crossed' = (crossed \/ \E e \in Emitters : EmitterAt(e, "incident"))
        /\ UNCHANGED <<alert, due, news, emitter>>
    BY <1>1 DEF Transit
  <2>2. /\ incident' \in [status : IncidentStatuses, occurrences : Nat] /\ incident'.occurrences = incident.occurrences
        /\ incident.status # "NONE" /\ incident'.status # "NONE"
    BY <2>1 DEF IncidentInv, IncidentShape, IncidentStatuses, RowsHold
  <2>3. IncidentShape'
    <3>1. operator' \in [Operators -> {"none", "ACKNOWLEDGED", "RESOLVED"}]
      BY <2>1 DEF IncidentInv, IncidentShape
    <3>2. crossed' \in BOOLEAN
      BY <2>1
    <3> QED
      BY <2>1, <2>2, <3>1, <3>2 DEF IncidentInv, IncidentShape
  <2>4. RowsHold'
    BY <2>1, <2>2 DEF IncidentInv, RowsHold, EmitterAt
  <2>5. OccurrencesAreCounted'
    BY <2>1, <2>2 DEF IncidentInv, OccurrencesAreCounted, LateAlerts, LateIncidents, EmitterAt
  <2>6. ~crossed' => ~crossed /\ ~news' /\ \A e \in Emitters : ~EmitterAt(e, "incident")'
    BY <2>1 DEF IncidentInv, NothingIsHidden, Deciding, EmitterAt
  <2> QED
    BY <2>3, <2>4, <2>5, <2>6 DEF IncidentInv, NothingIsHidden
<1>2. ASSUME NEW status \in {"ACKNOWLEDGED", "RESOLVED"}, LoadIncident(a, status) PROVE IncidentInv'
  <2>1. /\ operator' = [operator EXCEPT ![a] = status] /\ news' = FALSE /\ incident.status # "NONE"
        /\ UNCHANGED <<alert, incident, due, crossed, emitter>>
    BY <1>2 DEF LoadIncident, May
  <2> QED
    BY <2>1 DEF IncidentInv, IncidentShape, RowsHold, OccurrencesAreCounted, LateAlerts, LateIncidents, EmitterAt,
                NothingIsHidden
<1> QED
  BY <1>1, <1>2

\* Steps of emitters and of administrators keep the invariant.
LEMMA IncidentNextInv == IncidentInv /\ [IncidentNext]_incidentVars => IncidentInv'
<1> SUFFICES ASSUME IncidentInv, [IncidentNext]_incidentVars PROVE IncidentInv'
  OBVIOUS
<1>1. CASE UNCHANGED incidentVars
  BY <1>1 DEF incidentVars, IncidentInv, IncidentShape, RowsHold, OccurrencesAreCounted, LateAlerts, LateIncidents,
              EmitterAt, NothingIsHidden, Unsolved, Deciding
<1> QED
  BY <1>1, QuietStep, FindingStep, AlertStep, RecurrenceStep, DecisionStep DEF IncidentNext

\* Of the occurrences only those are lost whose emitter died, or looked for a row before it
\* was written and did not create it; and a recurrence that got as far as the incident
\* stays visible (emit, openOrReopen).
THEOREM FailuresVisible == IncidentSpec => []FailuresStayVisible
<1>1. IncidentInv => FailuresStayVisible
  BY DEF IncidentInv, FailuresStayVisible, RecurrenceIsOpenUnlessCrossed, NothingIsHidden, Unsolved
<1> QED
  BY <1>1, IncidentInitInv, IncidentNextInv, PTL DEF IncidentSpec

\* Emitters whose occurrence has not reached the alert, and the incident, yet.
Unalerted  == {e \in Emitters : emitter[e].step = "alert"}
Unreported == {e \in Emitters : emitter[e].step \in {"alert", "find", "incident"}}

\* An occurrence is begun before it is counted, so that the bound holds of every count.
IncidentBound ==
  /\ begun \in Counts /\ deliveries \in SUBSET Counts
  /\ \A e \in Emitters : emitter[e].no \in Counts
  /\ IsFiniteSet(Unalerted) /\ alert.occurrences + Cardinality(Unalerted) <= begun
  /\ IsFiniteSet(Unreported) /\ incident.occurrences + Cardinality(Unreported) <= begun

\* A step of an emitter that counts nothing and begins nothing keeps the bound.
LEMMA UncountedStep ==
  ASSUME IncidentInv, IncidentBound, NEW e \in Emitters,
         UNCHANGED begun, deliveries' \in SUBSET Counts,
         alert'.occurrences = alert.occurrences, incident'.occurrences = incident.occurrences,
         emitter' \in [Emitters -> EmitterRecords],
         \A d \in Emitters \ {e} : emitter'[d] = emitter[d],
         emitter'[e].no \in {0, emitter[e].no},
         emitter'[e].step = "alert" => emitter[e].step = "alert",
         emitter'[e].step \in {"alert", "find", "incident"} => emitter[e].step \in {"alert", "find", "incident"}
  PROVE  IncidentBound'
<1>1. Unalerted' \subseteq Unalerted /\ Unreported' \subseteq Unreported
  BY DEF Unalerted, Unreported
<1>2. /\ IsFiniteSet(Unalerted') /\ Cardinality(Unalerted') <= Cardinality(Unalerted)
      /\ IsFiniteSet(Unreported') /\ Cardinality(Unreported') <= Cardinality(Unreported)
  BY <1>1, FS_Subset DEF IncidentBound
<1>3. /\ Cardinality(Unalerted) \in Nat /\ Cardinality(Unalerted') \in Nat
      /\ Cardinality(Unreported) \in Nat /\ Cardinality(Unreported') \in Nat
  BY <1>2, FS_CardinalityType DEF IncidentBound
<1>4. alert.occurrences \in Nat /\ incident.occurrences \in Nat /\ begun \in Nat
  BY DEF IncidentInv, IncidentShape, IncidentBound, Counts
<1>5. /\ alert.occurrences + Cardinality(Unalerted') <= begun
      /\ incident.occurrences + Cardinality(Unreported') <= begun
  BY <1>2, <1>3, <1>4 DEF IncidentBound
<1>6. \A d \in Emitters : emitter'[d].no \in Counts
  <2>1. 0 \in Counts
    BY IncidentsAssumption DEF Counts
  <2> QED
    BY <2>1 DEF IncidentBound
<1> QED
  BY <1>2, <1>5, <1>6 DEF IncidentBound

\* One more member makes a set at most one larger.
LEMMA OneMoreMember ==
  ASSUME NEW S, IsFiniteSet(S), NEW x
  PROVE  IsFiniteSet(S \cup {x}) /\ Cardinality(S \cup {x}) <= Cardinality(S) + 1
<1>1. Cardinality(S) \in Nat
  BY FS_CardinalityType, Zenon
<1>2. /\ IsFiniteSet(S \cup {x})
      /\ Cardinality(S \cup {x}) = IF x \in S THEN Cardinality(S) ELSE Cardinality(S) + 1
  BY FS_AddElement, Zenon
<1> QED
  BY <1>1, <1>2

\* An occurrence that begins may be the last.
LEMMA OccurrenceBegins ==
  ASSUME IncidentInv, IncidentInv', IncidentBound, NEW e \in Emitters, FindAlert(e) PROVE IncidentBound'
<1>1. /\ begun < MaxOccurrences /\ begun' = begun + 1 /\ UNCHANGED <<alert, deliveries, incident>>
  BY DEF FindAlert
<1>2. /\ emitter'[e].no = alert.occurrences + 1 /\ \A d \in Emitters \ {e} : emitter'[d] = emitter[d]
  BY DEF FindAlert, IncidentInv, IncidentShape, Silent
<1>3. /\ Unalerted' \subseteq Unalerted \cup {e} /\ Unreported' \subseteq Unreported \cup {e}
  BY <1>2 DEF Unalerted, Unreported
<1>4. /\ IsFiniteSet(Unalerted \cup {e}) /\ Cardinality(Unalerted \cup {e}) <= Cardinality(Unalerted) + 1
      /\ IsFiniteSet(Unreported \cup {e}) /\ Cardinality(Unreported \cup {e}) <= Cardinality(Unreported) + 1
  BY OneMoreMember DEF IncidentBound
<1>5. /\ IsFiniteSet(Unalerted') /\ Cardinality(Unalerted') <= Cardinality(Unalerted \cup {e})
      /\ IsFiniteSet(Unreported') /\ Cardinality(Unreported') <= Cardinality(Unreported \cup {e})
  BY <1>3, <1>4, FS_Subset
<1>6. /\ Cardinality(Unalerted) \in Nat /\ Cardinality(Unalerted') \in Nat /\ Cardinality(Unalerted \cup {e}) \in Nat
      /\ Cardinality(Unreported) \in Nat /\ Cardinality(Unreported') \in Nat /\ Cardinality(Unreported \cup {e}) \in Nat
  BY <1>4, <1>5, FS_CardinalityType DEF IncidentBound
<1>7. alert.occurrences \in Nat /\ incident.occurrences \in Nat /\ begun \in Nat
  BY DEF IncidentInv, IncidentShape, IncidentBound, Counts
<1>8. /\ alert.occurrences + Cardinality(Unalerted') <= begun + 1
      /\ incident.occurrences + Cardinality(Unreported') <= begun + 1
  BY <1>4, <1>5, <1>6, <1>7 DEF IncidentBound
<1>9. begun + 1 \in Counts /\ alert.occurrences + 1 \in Counts
  BY <1>1, <1>6, <1>7, IncidentsAssumption DEF IncidentBound, Counts
<1>10. \A d \in Emitters : emitter'[d].no \in Counts
  BY <1>2, <1>9 DEF IncidentBound
<1> QED
  BY <1>1, <1>5, <1>8, <1>9, <1>10 DEF IncidentBound

\* An occurrence reaches the alert once, and the incident once.
LEMMA OccurrenceIsCounted ==
  ASSUME IncidentInv, IncidentInv', IncidentBound, NEW e \in Emitters, WriteAlert(e) \/ WriteIncident(e)
  PROVE  IncidentBound'
<1>1. emitter \in [Emitters -> EmitterRecords] /\ emitter' \in [Emitters -> EmitterRecords]
  BY DEF IncidentInv, IncidentShape
<1>2. UNCHANGED <<deliveries, begun>> /\ deliveries \in SUBSET Counts
  BY DEF WriteAlert, WriteIncident, IncidentBound
<1>3. alert.occurrences \in Nat /\ incident.occurrences \in Nat /\ begun \in Nat
  BY DEF IncidentInv, IncidentShape, IncidentBound, Counts
<1>4. ASSUME Falls(e), UNCHANGED <<alert, incident>> PROVE IncidentBound'
  <2>1. emitter'[e] = Silent /\ \A d \in Emitters \ {e} : emitter'[d] = emitter[d]
    BY <1>1, <1>4 DEF Falls
  <2> QED
    BY <1>1, <1>2, <1>4, <2>1, UncountedStep DEF Silent
<1>5. ASSUME EmitterAt(e, "alert"), EmitterGoes(e, "find"),
             alert'.occurrences = alert.occurrences + 1, UNCHANGED incident
      PROVE  IncidentBound'
  <2>1. /\ emitter'[e].step = "find" /\ emitter'[e].no = emitter[e].no
        /\ \A d \in Emitters \ {e} : emitter'[d] = emitter[d]
    BY <1>1, <1>5 DEF EmitterGoes
  <2>2. e \in Unalerted /\ Unalerted' = Unalerted \ {e} /\ Unreported' = Unreported
    BY <1>5, <2>1 DEF Unalerted, Unreported, EmitterAt
  <2>3. IsFiniteSet(Unalerted') /\ Cardinality(Unalerted') = Cardinality(Unalerted) - 1
    BY <2>2, FS_RemoveElement DEF IncidentBound
  <2>4. Cardinality(Unalerted) \in Nat
    BY FS_CardinalityType DEF IncidentBound
  <2>5. (alert.occurrences + 1) + (Cardinality(Unalerted) - 1) <= begun
    BY <1>3, <2>4 DEF IncidentBound
  <2>6. \A d \in Emitters : emitter'[d].no \in Counts
    BY <2>1 DEF IncidentBound
  <2> QED
    BY <1>2, <1>5, <2>2, <2>3, <2>5, <2>6 DEF IncidentBound
<1>6. ASSUME EmitterAt(e, "incident"), EmitterGoes(e, "deliver"),
             incident'.occurrences = incident.occurrences + 1, UNCHANGED alert
      PROVE  IncidentBound'
  <2>1. /\ emitter'[e].step = "deliver" /\ emitter'[e].no = emitter[e].no
        /\ \A d \in Emitters \ {e} : emitter'[d] = emitter[d]
    BY <1>1, <1>6 DEF EmitterGoes
  <2>2. e \in Unreported /\ Unreported' = Unreported \ {e} /\ Unalerted' = Unalerted
    BY <1>6, <2>1 DEF Unalerted, Unreported, EmitterAt
  <2>3. IsFiniteSet(Unreported') /\ Cardinality(Unreported') = Cardinality(Unreported) - 1
    BY <2>2, FS_RemoveElement DEF IncidentBound
  <2>4. Cardinality(Unreported) \in Nat
    BY FS_CardinalityType DEF IncidentBound
  <2>5. (incident.occurrences + 1) + (Cardinality(Unreported) - 1) <= begun
    BY <1>3, <2>4 DEF IncidentBound
  <2>6. \A d \in Emitters : emitter'[d].no \in Counts
    BY <2>1 DEF IncidentBound
  <2> QED
    BY <1>2, <1>6, <2>2, <2>3, <2>5, <2>6 DEF IncidentBound
<1>7. CASE WriteAlert(e)
  <2>1. UNCHANGED incident /\ EmitterAt(e, "alert")
    BY <1>7 DEF WriteAlert
  <2>2. \/ Falls(e) /\ UNCHANGED alert
        \/ EmitterGoes(e, "find") /\ alert'.occurrences = alert.occurrences + 1
    BY <1>7 DEF WriteAlert, Incremented
  <2> QED
    BY <1>4, <1>5, <2>1, <2>2
<1>8. CASE WriteIncident(e)
  <2>1. UNCHANGED alert /\ EmitterAt(e, "incident")
    BY <1>8 DEF WriteIncident
  <2>2. \/ Falls(e) /\ UNCHANGED incident
        \/ EmitterGoes(e, "deliver") /\ incident'.occurrences = incident.occurrences + 1
    BY <1>8 DEF WriteIncident
  <2> QED
    BY <1>4, <1>6, <2>1, <2>2
<1> QED
  BY <1>7, <1>8

\* The other steps of an emitter.
LEMMA QuietEmitterStep ==
  ASSUME IncidentInv, IncidentInv', IncidentBound, NEW e \in Emitters,
         FindIncident(e) \/ SetAlertStatus(e) \/ EmitterDies(e) \/ \E ok \in BOOLEAN : Deliver(e, ok)
  PROVE  IncidentBound'
<1>1. emitter \in [Emitters -> EmitterRecords] /\ emitter' \in [Emitters -> EmitterRecords]
  BY DEF IncidentInv, IncidentShape
<1>2. deliveries \in SUBSET Counts /\ emitter[e].no \in Counts
  BY DEF IncidentBound
<1>3. CASE FindIncident(e)
  <2>1. /\ UNCHANGED <<begun, deliveries, alert, incident>> /\ emitter[e].step = "find"
        /\ emitter'[e].step = "incident" /\ emitter'[e].no = emitter[e].no
        /\ \A d \in Emitters \ {e} : emitter'[d] = emitter[d]
    BY <1>1, <1>3 DEF FindIncident, EmitterAt
  <2> QED
    BY <1>1, <1>2, <2>1, UncountedStep
<1>4. ASSUME Falls(e), UNCHANGED <<begun, deliveries, incident>>, alert'.occurrences = alert.occurrences
      PROVE  IncidentBound'
  <2>1. emitter'[e] = Silent /\ \A d \in Emitters \ {e} : emitter'[d] = emitter[d]
    BY <1>1, <1>4 DEF Falls
  <2> QED
    BY <1>1, <1>2, <1>4, <2>1, UncountedStep DEF Silent
<1>5. CASE SetAlertStatus(e)
  <2>1. alert'.occurrences = alert.occurrences
    BY <1>5 DEF SetAlertStatus, IncidentInv, IncidentShape
  <2> QED
    BY <1>4, <1>5, <2>1 DEF SetAlertStatus
<1>6. CASE EmitterDies(e)
  BY <1>4, <1>6 DEF EmitterDies
<1>7. ASSUME NEW ok \in BOOLEAN, Deliver(e, ok) PROVE IncidentBound'
  <2>1. UNCHANGED <<alert, incident, begun>>
    BY <1>7 DEF Deliver
  <2>2. CASE Falls(e) /\ UNCHANGED deliveries
    BY <1>4, <2>1, <2>2
  <2>3. CASE /\ deliveries' = deliveries \cup {emitter[e].no}
             /\ emitter' = [emitter EXCEPT ![e].step = "status", ![e].ok = ok]
    <3>1. /\ emitter'[e].step = "status" /\ emitter'[e].no = emitter[e].no
          /\ \A d \in Emitters \ {e} : emitter'[d] = emitter[d]
      BY <1>1, <2>3
    <3>2. deliveries' \in SUBSET Counts
      BY <1>2, <2>3
    <3> QED
      BY <1>1, <2>1, <3>1, <3>2, UncountedStep
  <2> QED
    BY <1>7, <2>2, <2>3 DEF Deliver
<1> QED
  BY <1>3, <1>5, <1>6, <1>7

\* Alerts, incidents and those who work on them have their types, and no counter passes
\* the bound on occurrences (emit, openOrReopen).
THEOREM IncidentsKeepTypes == IncidentSpec => []IncidentTypeOK
<1>1. IncidentInit => IncidentBound
  <2> SUFFICES ASSUME IncidentInit PROVE IncidentBound
    OBVIOUS
  <2>1. Unalerted = {} /\ Unreported = {} /\ \A e \in Emitters : emitter[e].no = 0
    BY DEF IncidentInit, Silent, Unalerted, Unreported
  <2>2. 0 \in Counts /\ begun = 0 /\ deliveries = {} /\ alert.occurrences = 0 /\ incident.occurrences = 0
    BY IncidentsAssumption DEF IncidentInit, Counts
  <2> QED
    BY <2>1, <2>2, FS_EmptySet DEF IncidentBound
<1>2. IncidentInv /\ IncidentInv' /\ IncidentBound /\ [IncidentNext]_incidentVars => IncidentBound'
  <2> SUFFICES ASSUME IncidentInv, IncidentInv', IncidentBound, [IncidentNext]_incidentVars PROVE IncidentBound'
    OBVIOUS
  <2>1. CASE UNCHANGED incidentVars
    BY <2>1 DEF incidentVars, IncidentBound, Unalerted, Unreported
  <2>2. ASSUME NEW a \in Operators,
               Transit(a) \/ \E status \in {"ACKNOWLEDGED", "RESOLVED"} : LoadIncident(a, status)
        PROVE  IncidentBound'
    <3>1. UNCHANGED <<alert, deliveries, begun, emitter>> /\ incident'.occurrences = incident.occurrences
      BY <2>2 DEF Transit, LoadIncident, IncidentInv, IncidentShape
    <3> QED
      BY <3>1 DEF IncidentBound, Unalerted, Unreported
  <2> QED
    BY <2>1, <2>2, OccurrenceBegins, OccurrenceIsCounted, QuietEmitterStep DEF IncidentNext
<1>3. IncidentInv /\ IncidentBound => IncidentTypeOK
  <2> SUFFICES ASSUME IncidentInv, IncidentBound PROVE IncidentTypeOK
    OBVIOUS
  <2>1. /\ Cardinality(Unalerted) \in Nat /\ Cardinality(Unreported) \in Nat
        /\ alert.occurrences \in Nat /\ incident.occurrences \in Nat
    BY FS_CardinalityType DEF IncidentBound, IncidentInv, IncidentShape
  <2>2. alert.occurrences \in Counts /\ incident.occurrences \in Counts
    BY <2>1, IncidentsAssumption DEF IncidentBound, Counts
  <2>3. /\ alert \in [status : AlertStatuses, occurrences : Counts]
        /\ incident \in [status : IncidentStatuses, occurrences : Counts]
    BY <2>2 DEF IncidentInv, IncidentShape
  <2>4. due \in [alert : Counts, incident : Counts]
    <3>1. LateAlerts \subseteq Unalerted /\ LateIncidents \subseteq Unreported
      BY DEF LateAlerts, LateIncidents, Unalerted, Unreported, EmitterAt
    <3>2. /\ Cardinality(LateAlerts) \in Nat /\ Cardinality(LateAlerts) <= Cardinality(Unalerted)
          /\ Cardinality(LateIncidents) \in Nat /\ Cardinality(LateIncidents) <= Cardinality(Unreported)
      BY <3>1, FS_Subset, FS_CardinalityType DEF IncidentBound
    <3>3. due.alert \in Nat /\ due.alert <= begun /\ due.incident \in Nat /\ due.incident <= begun
      BY <2>1, <3>2, IncidentsAssumption
      DEF IncidentInv, IncidentShape, RowsHold, OccurrencesAreCounted, IncidentBound, Counts, One
    <3> QED
      BY <3>3, IncidentsAssumption DEF IncidentInv, IncidentShape, IncidentBound, Counts
  <2>5. emitter \in [Emitters -> [step : EmitterSteps, new : BOOLEAN, no : Counts, saw : IncidentStatuses, ok : BOOLEAN]]
    BY DEF IncidentInv, IncidentShape, IncidentBound, EmitterRecords
  <2> QED
    BY <2>3, <2>5, <2>4 DEF IncidentTypeOK, IncidentInv, IncidentShape, IncidentBound
<1> QED
  BY <1>1, <1>2, <1>3, IncidentInitInv, IncidentNextInv, PTL DEF IncidentSpec

-----------------------------------------------------------------------------
(* Binding *)

\* Request h is a bindPhone or an import that binds user u.
Syncing(h, u) == UserOf(h) = u /\ handler[h].step \in {"match", "existing", "sync", "write"}

\* The number of user u is in the list; who removes it releases the user, or nobody does.
Covered(u) ==
  /\ phoneOf[u] \in contacts
  /\ \A h \in Handlers : HandlerAt(h, "release") /\ handler[h].phone = phoneOf[u] => u \in handler[h].change
Staying(u) ==
  /\ phoneOf[u] \in contacts
  /\ \A h \in Handlers : HandlerAt(h, "release") => handler[h].phone # phoneOf[u]

\* What holds of a user who is not excused: requests bind by the number the user has, and
\* what they have read still stands.
Sure(u) ==
  /\ \A h \in Handlers : BindsLater(h, u) => handler[h].phone = phoneOf[u]
  /\ \A h \in Handlers : Syncing(h, u) /\ ~HandlerAt(h, "match") /\ handler[h].matched => Staying(u)
  /\ \A h \in Handlers : UserOf(h) = u /\ HandlerAt(h, "sync") /\ ~handler[h].matched /\ ~handler[h].had /\ IsMatch(u) => Covered(u)
  /\ IsMatch(u) /\ ~BindingPhone(u) => Covered(u)

\* Only an application waits for a review.
PendingApplied == \A u \in Users : binding[u].status = "PENDING" => binding[u].source = "APPLY"

\* The row of a number is not inserted and deleted at a time.
RowLocked ==
  \A g, h \in Handlers : HandlerAt(g, "bind") /\ HandlerAt(h, "release") => handler[g].phone # handler[h].phone

\* A request under way is about a user or a number, and writes what it read undecided.
Aimed(h) ==
  /\ handler[h].step \in {"match", "existing", "sync", "write", "apply", "grantOf"} => UserOf(h) \in Users
  /\ handler[h].step \in {"match", "grant", "bind", "release", "holders"} => handler[h].phone \in Phones
  /\ HandlerAt(h, "write") => handler[h].matched /\ handler[h].create \cup handler[h].change \subseteq {UserOf(h)}
  /\ handler[h].step \in {"write", "bind"} => handler[h].change \subseteq handler[h].undecided

\* What the bindings keep.
BindingInv ==
  /\ BindingTypeOK /\ PendingApplied /\ RowLocked
  /\ \A h \in Handlers : Aimed(h)
  /\ \A u \in Users \ stale : Sure(u)

\* The rows of bindings.
BindingRecords == [status : {"NONE", "PENDING", "ACTIVE", "REJECTED"}, source : {"PHONE_MATCH", "APPLY"}, reviewed : BOOLEAN]

\* The state of a request that does nothing.
LEMMA WaitingIsIdle ==
  /\ Waiting \in HandlerRecords
  /\ Waiting.step = "idle" /\ Waiting.user = NoUser /\ Waiting.matched = FALSE
BY DEF Waiting, HandlerRecords, HandlerSteps

\* The request of an applicant, and the one that looks for the applicant's number.
LEMMA ApplicantRecord ==
  ASSUME NEW u \in Users
  PROVE  \A b \in BOOLEAN, a \in BOOLEAN :
           LET q == [Waiting EXCEPT !.step = "apply", !.user = u, !.exists = b, !.auto = a]
           IN  q \in HandlerRecords /\ q.step = "apply" /\ q.user = u
<1>1. \A b \in BOOLEAN, a \in BOOLEAN :
        [Waiting EXCEPT !.step = "apply", !.user = u, !.exists = b, !.auto = a] \in HandlerRecords
  BY ZenonT(40) DEF Waiting, HandlerRecords, HandlerSteps
<1>2. \A b \in BOOLEAN, a \in BOOLEAN :
        LET q == [Waiting EXCEPT !.step = "apply", !.user = u, !.exists = b, !.auto = a]
        IN  q.step = "apply" /\ q.user = u
  BY ZenonT(40) DEF Waiting
<1> QED
  BY <1>1, <1>2

LEMMA LookupRecord ==
  ASSUME NEW u \in Users, NEW w \in HandlerRecords,
         NEW q, q = [w EXCEPT !.step = "grantOf", !.user = u]
  PROVE  q \in HandlerRecords /\ q.step = "grantOf" /\ q.user = u
<1>1. "grantOf" \in HandlerSteps
  BY DEF HandlerSteps
<1> QED
  BY <1>1 DEF HandlerRecords

\* At first there is no binding.
LEMMA BindingInitInv == BindingInit => BindingInv
<1> SUFFICES ASSUME BindingInit PROVE BindingInv
  OBVIOUS
<1>1. phoneMatch \in BOOLEAN /\ needsReview \in BOOLEAN
  BY DEF BindingInit
<1>2. NoBinding \in BindingRecords /\ NoBinding.status = "NONE"
  BY DEF NoBinding, BindingRecords
<1>3. BindingTypeOK
  BY WaitingIsIdle, <1>1, <1>2 DEF BindingInit, BindingTypeOK, BindingRecords
<1>4. \A h \in Handlers : handler[h].step = "idle"
  BY WaitingIsIdle DEF BindingInit
<1>5. \A u \in Users : binding[u].status = "NONE"
  BY <1>2 DEF BindingInit
<1>6. PendingApplied /\ RowLocked /\ \A h \in Handlers : Aimed(h)
  BY <1>4, <1>5 DEF PendingApplied, RowLocked, Aimed, HandlerAt
<1>7. \A u \in Users : Sure(u)
  BY <1>4, <1>5 DEF Sure, IsMatch, BindsLater, Syncing, HandlerAt
<1> QED
  BY <1>3, <1>6, <1>7 DEF BindingInv

\* A request that moves on, to a record of its type.
HandlerBecomes(h, r) ==
  /\ handler' \in [Handlers -> HandlerRecords]
  /\ handler'[h] = r
  /\ \A g \in Handlers \ {h} : handler'[g] = handler[g]

\* A request that ends, or moves on, keeps its type.
LEMMA HandlerMoves ==
  ASSUME BindingTypeOK, NEW h \in Handlers
  PROVE  /\ Finish(h) => HandlerBecomes(h, Waiting)
         /\ \A r \in HandlerRecords : handler' = [handler EXCEPT ![h] = r] => HandlerBecomes(h, r)
BY WaitingIsIdle DEF Finish, BindingTypeOK, HandlerBecomes

\* What request h leaves of a user: it moves on and takes no number away, nobody is bound
\* unless the number stays, and what it has read stands.
Careful(h, u) ==
  /\ phoneOf'[u] = phoneOf[u] /\ contacts \subseteq contacts'
  /\ ~HandlerAt(h, "release") /\ ~HandlerAt(h, "release")'
  /\ \A g \in Handlers \ {h} : handler'[g] = handler[g]
  /\ BindsLater(h, u)' => handler'[h].phone = phoneOf[u]
  /\ Syncing(h, u)' /\ ~HandlerAt(h, "match")' /\ handler'[h].matched => Staying(u)
  /\ IsMatch(u)' => IsMatch(u) \/ Covered(u)'
  /\ UserOf(h)' = u /\ HandlerAt(h, "sync")' /\ ~handler'[h].matched /\ ~handler'[h].had /\ IsMatch(u)' => Covered(u)'
  /\ Syncing(h, u) /\ IsMatch(u)' => Syncing(h, u)' \/ Covered(u)'

\* A number that is covered, or stays, does so when nobody removes one.
LEMMA KeepsCovered ==
  ASSUME NEW u \in Users, NEW h \in Handlers, phoneOf'[u] = phoneOf[u], contacts \subseteq contacts',
         ~HandlerAt(h, "release") /\ ~HandlerAt(h, "release")',
         \A g \in Handlers \ {h} : handler'[g] = handler[g]
  PROVE  (Covered(u) => Covered(u)') /\ (Staying(u) => Staying(u)' /\ Covered(u)')
BY DEF Covered, Staying, HandlerAt

\* A user is as sure as before after a careful step.
LEMMA KeepsSure ==
  ASSUME NEW u \in Users, NEW h \in Handlers, Sure(u), Careful(h, u)
  PROVE  Sure(u)'
<1>1. (Covered(u) => Covered(u)') /\ (Staying(u) => Staying(u)' /\ Covered(u)')
  BY KeepsCovered DEF Careful
<1>2. \A g \in Handlers : BindsLater(g, u)' => handler'[g].phone = phoneOf'[u]
  BY DEF Sure, Careful, BindsLater, UserOf
<1>3. \A g \in Handlers : Syncing(g, u)' /\ ~HandlerAt(g, "match")' /\ handler'[g].matched => Staying(u)'
  BY <1>1 DEF Sure, Careful, Syncing, UserOf, HandlerAt
<1>4. \A g \in Handlers : UserOf(g)' = u /\ HandlerAt(g, "sync")' /\ ~handler'[g].matched /\ ~handler'[g].had /\ IsMatch(u)' => Covered(u)'
  BY <1>1 DEF Sure, Careful, UserOf, HandlerAt
<1>5. ASSUME IsMatch(u)', ~BindingPhone(u)' PROVE Covered(u)'
  <2>1. CASE BindingPhone(u)
    <3>1. PICK g \in Handlers : Syncing(g, u)
      BY <2>1 DEF BindingPhone, Syncing
    <3>2. ~Syncing(g, u)' /\ ~Syncing(h, u)'
      BY <1>5 DEF BindingPhone, Syncing
    <3>3. g = h
      BY <3>1, <3>2 DEF Careful, Syncing, UserOf
    <3> QED
      BY <1>5, <3>1, <3>2, <3>3 DEF Careful
  <2>2. CASE ~BindingPhone(u)
    BY <1>1, <1>5, <2>2 DEF Careful, Sure
  <2> QED
    BY <2>1, <2>2
<1> QED
  BY <1>2, <1>3, <1>4, <1>5 DEF Sure

\* Where no request moves, nobody is bound and no number leaves.
LEMMA StaysSure ==
  ASSUME NEW u \in Users, Sure(u), phoneOf'[u] = phoneOf[u], contacts' = contacts, handler' = handler,
         IsMatch(u)' => IsMatch(u)
  PROVE  Sure(u)'
BY DEF Sure, Covered, Staying, BindsLater, Syncing, UserOf, HandlerAt, BindingPhone

\* The bindings and the list as they are: what a request that moves on has to show.
LEMMA MoveKeeps ==
  ASSUME BindingInv, NEW h \in Handlers, NEW r \in HandlerRecords, HandlerBecomes(h, r),
         UNCHANGED <<phoneMatch, needsReview, phoneOf, deleted, contacts, binding>>,
         stale' \in SUBSET Users, stale \subseteq stale', Aimed(h)', r.step # "release",
         \A g \in Handlers : r.step = "bind" /\ HandlerAt(g, "release") => handler[g].phone # r.phone,
         \A u \in Users \ stale' : Careful(h, u)
  PROVE  BindingInv'
<1>1. BindingTypeOK' /\ PendingApplied'
  BY DEF BindingInv, BindingTypeOK, PendingApplied, HandlerBecomes
<1>2. \A u \in Users \ stale' : Sure(u)'
  BY KeepsSure DEF BindingInv
<1>3. \A g \in Handlers : Aimed(g)'
  BY DEF BindingInv, Aimed, HandlerAt, UserOf, HandlerBecomes
<1>4. RowLocked'
  BY DEF BindingInv, RowLocked, HandlerAt, HandlerBecomes
<1> QED
  BY <1>1, <1>2, <1>3, <1>4 DEF BindingInv

\* The number and the list as bindPhone reads them.
LEMMA MatchStep ==
  ASSUME BindingInv, NEW h \in Handlers, MatchContacts(h) \/ ReadExisting(h) PROVE BindingInv'
<1>1. handler[h] \in HandlerRecords /\ Aimed(h)
  BY DEF BindingInv, BindingTypeOK
<1>2. CASE MatchContacts(h)
  <2> DEFINE matched == phoneMatch /\ handler[h].phone \in contacts
             r == [handler[h] EXCEPT !.step = "existing", !.matched = matched]
  <2>1. /\ HandlerAt(h, "match") /\ UNCHANGED <<phoneMatch, needsReview, phoneOf, deleted, contacts, binding>>
        /\ stale' = IF matched /\ LeavingOrGone(handler[h].phone) THEN stale \cup {UserOf(h)} ELSE stale
    BY <1>2 DEF MatchContacts
  <2>2. handler' = [handler EXCEPT ![h] = r]
    BY <1>1, <1>2 DEF MatchContacts, BindingInv, BindingTypeOK, HandlerRecords
  <2>3. /\ r \in HandlerRecords /\ r.step = "existing" /\ r.user = handler[h].user /\ r.phone = handler[h].phone
        /\ r.matched => matched
    BY <1>1 DEF HandlerRecords, HandlerSteps, BindingInv, BindingTypeOK
  <2>4. matched => handler[h].phone \in contacts
    OBVIOUS
  <2> HIDE DEF r, matched
  <2>5. HandlerBecomes(h, r)
    BY <2>2, <2>3, HandlerMoves DEF BindingInv
  <2>6. stale' \in SUBSET Users /\ stale \subseteq stale'
    BY <1>1, <2>1 DEF Aimed, HandlerAt, BindingInv, BindingTypeOK
  <2>7. Aimed(h)'
    BY <1>1, <2>1, <2>3, <2>5 DEF Aimed, HandlerAt, UserOf, HandlerBecomes
  <2>8. ASSUME NEW u \in Users \ stale' PROVE Careful(h, u)
    <3>1. Sure(u)
      BY <2>6 DEF BindingInv
    <3>2. /\ BindsLater(h, u)' <=> BindsLater(h, u)
          /\ Syncing(h, u)' <=> Syncing(h, u)
      BY <2>1, <2>3, <2>5 DEF BindsLater, Syncing, UserOf, HandlerAt, HandlerBecomes
    <3>3. UserOf(h) = u /\ matched => Staying(u)
      <4>1. UserOf(h) = u => handler[h].phone = phoneOf[u]
        BY <2>1, <3>1 DEF Sure, BindsLater, HandlerAt
      <4> QED
        BY <2>1, <2>4, <4>1 DEF Staying, LeavingOrGone
    <3>4. IsMatch(u)' <=> IsMatch(u)
      BY <2>1 DEF IsMatch
    <3> QED
      BY <2>1, <2>3, <2>5, <3>1, <3>2, <3>3, <3>4 DEF Careful, Sure, HandlerAt, UserOf, HandlerBecomes, Syncing
  <2> QED
    BY <2>1, <2>3, <2>5, <2>6, <2>7, <2>8, MoveKeeps
<1>3. CASE ReadExisting(h)
  <2> DEFINE r == [handler[h] EXCEPT !.step = "sync", !.had = IsMatch(UserOf(h))]
  <2>1. HandlerAt(h, "existing") /\ UNCHANGED <<phoneMatch, needsReview, phoneOf, deleted, contacts, binding, stale>>
    BY <1>3 DEF ReadExisting
  <2>2. handler' = [handler EXCEPT ![h] = r]
    BY <1>1, <1>3 DEF ReadExisting, BindingInv, BindingTypeOK, HandlerRecords
  <2>3. IsMatch(UserOf(h)) \in BOOLEAN
    BY DEF IsMatch
  <2>4. /\ r \in HandlerRecords /\ r.step = "sync" /\ r.user = handler[h].user /\ r.phone = handler[h].phone
        /\ r.matched = handler[h].matched /\ (r.had <=> IsMatch(UserOf(h)))
    BY <1>1, <2>3 DEF HandlerRecords, HandlerSteps
  <2> HIDE DEF r
  <2>5. HandlerBecomes(h, r)
    BY <2>2, <2>4, HandlerMoves DEF BindingInv
  <2>6. Aimed(h)'
    BY <1>1, <2>1, <2>4, <2>5 DEF Aimed, HandlerAt, UserOf, HandlerBecomes
  <2>7. ASSUME NEW u \in Users \ stale' PROVE Careful(h, u)
    <3>1. Sure(u)
      BY <2>1 DEF BindingInv
    <3>2. /\ BindsLater(h, u)' <=> BindsLater(h, u)
          /\ Syncing(h, u)' <=> Syncing(h, u)
      BY <2>1, <2>4, <2>5 DEF BindsLater, Syncing, UserOf, HandlerAt, HandlerBecomes
    <3>3. IsMatch(u)' <=> IsMatch(u)
      BY <2>1 DEF IsMatch
    <3> QED
      BY <2>1, <2>4, <2>5, <3>1, <3>2, <3>3 DEF Careful, Sure, HandlerAt, UserOf, HandlerBecomes, Syncing
  <2> QED
    BY <2>1, <2>4, <2>5, <2>6, <2>7, MoveKeeps DEF BindingInv, BindingTypeOK
<1> QED
  BY <1>2, <1>3

\* Request h has read the bindings of users S, and goes on as r.
ReadTo(h, S, step, p, r) ==
  /\ S \in SUBSET Users /\ step \in HandlerSteps /\ p \in Phones \cup {NoPhone}
  /\ r = [ReadsFor(h, S) EXCEPT !.step = step, !.phone = p]

\* What applyPhoneMatch takes from the bindings.
LEMMA ReadsForType ==
  ASSUME BindingInv, NEW h \in Handlers, NEW S, NEW step, NEW p, NEW r, ReadTo(h, S, step, p, r)
  PROVE  /\ r \in HandlerRecords /\ r.step = step /\ r.phone = p /\ r.user = handler[h].user
         /\ r.matched = handler[h].matched /\ r.create \subseteq S /\ r.change \subseteq S
         /\ r.change \subseteq r.undecided
<1>1. /\ S \in SUBSET Users /\ step \in HandlerSteps /\ p \in Phones \cup {NoPhone}
      /\ r = [ReadsFor(h, S) EXCEPT !.step = step, !.phone = p]
  BY DEF ReadTo
<1> DEFINE U == {u \in Revivable(S) : binding[u].source # "APPLY" /\ ~binding[u].reviewed}
           q == ReadsFor(h, S)
<1>2. handler[h] \in HandlerRecords
  BY DEF BindingInv, BindingTypeOK
<1>3. Unbound(S) \subseteq S /\ Revivable(S) \subseteq S /\ Revivable(S) \subseteq U
  BY <1>1 DEF Unbound, Revivable, Decided, BindingInv, BindingTypeOK
<1>4. U \subseteq S
  BY <1>1, <1>3
<1>5. q = [handler[h] EXCEPT !.create = Unbound(S), !.change = Revivable(S), !.undecided = U]
  BY DEF ReadsFor
<1> HIDE DEF U, q
<1>6. /\ q \in HandlerRecords /\ q.user = handler[h].user /\ q.matched = handler[h].matched
      /\ q.create = Unbound(S) /\ q.change = Revivable(S) /\ q.undecided = U
  BY <1>1, <1>2, <1>3, <1>4, <1>5 DEF HandlerRecords
<1> QED
  BY <1>1, <1>3, <1>6 DEF HandlerRecords, q

\* applyPhoneMatch for one user, up to its writes.
LEMMA ReadStep ==
  ASSUME BindingInv, NEW h \in Handlers, ReadBinding(h) PROVE BindingInv'
<1> DEFINE S == {UserOf(h)}
           r == [ReadsFor(h, S) EXCEPT !.step = "write", !.phone = handler[h].phone]
<1>1. handler[h] \in HandlerRecords /\ Aimed(h)
  BY DEF BindingInv, BindingTypeOK
<1>2. /\ HandlerAt(h, "sync") /\ handler[h].matched
      /\ UNCHANGED <<phoneMatch, needsReview, phoneOf, deleted, contacts, binding, stale>>
  BY DEF ReadBinding
<1>3. S \in SUBSET Users
  BY <1>1, <1>2 DEF Aimed, HandlerAt
<1>4. handler[h].phone \in Phones \cup {NoPhone} /\ "write" \in HandlerSteps
  BY <1>1 DEF HandlerRecords, HandlerSteps
<1>5. /\ r \in HandlerRecords /\ r.step = "write" /\ r.phone = handler[h].phone /\ r.user = handler[h].user
      /\ r.matched = handler[h].matched /\ r.create \subseteq S /\ r.change \subseteq S
      /\ r.change \subseteq r.undecided
  <2>1. ReadTo(h, S, "write", handler[h].phone, r)
    BY <1>3, <1>4 DEF ReadTo
  <2> HIDE DEF r, S
  <2> QED
    BY <2>1, ReadsForType
<1>6. handler' = [handler EXCEPT ![h] = r]
  <2>1. handler' = [handler EXCEPT ![h] = [ReadsFor(h, S) EXCEPT !.step = "write"]]
    BY DEF ReadBinding
  <2>2. [ReadsFor(h, S) EXCEPT !.step = "write"] = r
    BY <1>1 DEF ReadsFor, HandlerRecords
  <2> QED
    BY <2>1, <2>2
<1> HIDE DEF r
<1>7. HandlerBecomes(h, r)
  BY <1>5, <1>6, HandlerMoves DEF BindingInv
<1>8. Aimed(h)'
  BY <1>1, <1>2, <1>5, <1>7 DEF Aimed, HandlerAt, UserOf, HandlerBecomes
<1>9. ASSUME NEW u \in Users \ stale' PROVE Careful(h, u)
  <2>1. Sure(u)
    BY <1>2 DEF BindingInv
  <2>2. /\ BindsLater(h, u)' <=> BindsLater(h, u)
        /\ Syncing(h, u)' <=> Syncing(h, u)
    BY <1>2, <1>5, <1>7 DEF BindsLater, Syncing, UserOf, HandlerAt, HandlerBecomes
  <2>3. IsMatch(u)' <=> IsMatch(u)
    BY <1>2 DEF IsMatch
  <2> QED
    BY <1>2, <1>5, <1>7, <2>1, <2>2, <2>3 DEF Careful, Sure, HandlerAt, UserOf, HandlerBecomes, Syncing
<1> QED
  BY <1>2, <1>5, <1>7, <1>8, <1>9, MoveKeeps DEF BindingInv, BindingTypeOK

\* The writes of applyPhoneMatch: who was to be bound is, and nobody else.
LEMMA BindsType ==
  ASSUME BindingTypeOK, NEW h \in Handlers, Binds(h)
  PROVE  /\ binding' \in [Users -> BindingRecords]
         /\ \A u \in Users : IF u \in handler[h].create \cup handler[h].change
                             THEN /\ binding'[u].status = "ACTIVE"
                                  /\ u \notin handler[h].change => binding[u].status = "NONE"
                             ELSE binding'[u] = binding[u]
<1>1. handler[h] \in HandlerRecords
  BY DEF BindingTypeOK
<1>2. \A u \in Users : [status |-> "ACTIVE", source |-> "PHONE_MATCH", reviewed |-> binding[u].reviewed] \in BindingRecords
  BY DEF BindingTypeOK, BindingRecords
<1> QED
  BY <1>1, <1>2 DEF Binds, BindingTypeOK, BindingRecords

\* The end of a request that has bound users to a number of the list, or released one.
LEMMA CommitKeeps ==
  ASSUME BindingInv, NEW h \in Handlers, Finish(h),
         UNCHANGED <<phoneMatch, needsReview, phoneOf, deleted, stale>>,
         contacts' \in SUBSET Phones, contacts \subseteq contacts', ~HandlerAt(h, "release"),
         binding' \in [Users -> BindingRecords],
         \A u \in Users : binding'[u].status = "PENDING" => binding'[u] = binding[u],
         \A u \in Users \ stale : IsMatch(u)' => Covered(u)' \/ (IsMatch(u) /\ ~Syncing(h, u))
  PROVE  BindingInv'
<1>1. HandlerBecomes(h, Waiting)
  BY HandlerMoves DEF BindingInv
<1>2. BindingTypeOK' /\ PendingApplied'
  BY <1>1 DEF BindingInv, BindingTypeOK, PendingApplied, BindingRecords, HandlerBecomes
<1>3. (\A g \in Handlers : Aimed(g)') /\ RowLocked'
  BY <1>1, WaitingIsIdle DEF BindingInv, RowLocked, Aimed, HandlerAt, UserOf, HandlerBecomes
<1>4. ASSUME NEW u \in Users \ stale' PROVE Sure(u)'
  <2>1. Careful(h, u)
    BY <1>1, WaitingIsIdle DEF Careful, BindsLater, Syncing, HandlerAt, HandlerBecomes
  <2> QED
    BY <2>1, KeepsSure DEF BindingInv
<1> QED
  BY <1>2, <1>3, <1>4 DEF BindingInv

\* What a bindPhone or an import writes at its end.
LEMMA WriteStep ==
  ASSUME BindingInv, NEW h \in Handlers, WriteBinding(h) \/ ReleaseMatch(h) PROVE BindingInv'
<1>1. handler[h] \in HandlerRecords /\ Aimed(h)
  BY DEF BindingInv, BindingTypeOK
<1>2. Finish(h) /\ UNCHANGED <<phoneMatch, needsReview, phoneOf, deleted, contacts, stale>>
  BY DEF WriteBinding, ReleaseMatch
<1>3. HandlerBecomes(h, Waiting)
  BY <1>2, HandlerMoves DEF BindingInv
<1>4. ~HandlerAt(h, "release") /\ contacts' \in SUBSET Phones
  BY <1>2 DEF WriteBinding, ReleaseMatch, HandlerAt, BindingInv, BindingTypeOK
<1>5. \A u \in Users : (Covered(u) => Covered(u)') /\ (Staying(u) => Covered(u)')
  BY <1>2, <1>3, <1>4, WaitingIsIdle, KeepsCovered DEF HandlerBecomes, HandlerAt
<1>6. CASE WriteBinding(h)
  <2>1. HandlerAt(h, "write") /\ Binds(h)
    BY <1>6 DEF WriteBinding
  <2>2. /\ binding' \in [Users -> BindingRecords]
        /\ \A u \in Users : binding'[u].status = "PENDING" => binding'[u] = binding[u]
        /\ \A u \in Users : u # UserOf(h) => binding'[u] = binding[u]
    BY <1>1, <2>1, BindsType DEF BindingInv, Aimed
  <2>3. ASSUME NEW u \in Users \ stale, IsMatch(u)' PROVE Covered(u)' \/ (IsMatch(u) /\ ~Syncing(h, u))
    <3>1. CASE u = UserOf(h)
      <4>1. Sure(u) /\ Syncing(h, u) /\ handler[h].matched /\ ~HandlerAt(h, "match")
        BY <1>1, <2>1, <3>1 DEF BindingInv, Syncing, HandlerAt, Aimed
      <4> QED
        BY <1>5, <4>1 DEF Sure
    <3>2. CASE u # UserOf(h)
      BY <2>2, <2>3, <3>2 DEF IsMatch, Syncing
    <3> QED
      BY <3>1, <3>2
  <2> QED
    BY <1>2, <1>4, <2>2, <2>3, CommitKeeps
<1>7. CASE ReleaseMatch(h)
  <2>1. PICK v \in Users : v = UserOf(h)
    BY <1>1, <1>7 DEF ReleaseMatch, Aimed, HandlerAt
  <2> DEFINE s == IF handler[h].had /\ IsMatch(v) THEN "REJECTED" ELSE binding[v].status
  <2>2. HandlerAt(h, "sync") /\ ~handler[h].matched /\ binding' = [binding EXCEPT ![v] = [binding[v] EXCEPT !.status = s]]
    BY <1>7, <2>1 DEF ReleaseMatch, BindingInv, BindingTypeOK
  <2>3. /\ s \in {"NONE", "PENDING", "ACTIVE", "REJECTED"} /\ (s = "PENDING" => s = binding[v].status)
        /\ IsMatch(v) /\ handler[h].had => s = "REJECTED"
        /\ s = "ACTIVE" => binding[v].status = "ACTIVE"
    BY DEF BindingInv, BindingTypeOK
  <2> HIDE DEF s
  <2>4. /\ binding' \in [Users -> BindingRecords]
        /\ \A u \in Users : u # v => binding'[u] = binding[u]
        /\ binding'[v] = [binding[v] EXCEPT !.status = s]
    BY <2>2, <2>3 DEF BindingInv, BindingTypeOK, BindingRecords
  <2>5. \A u \in Users : binding'[u].status = "PENDING" => binding'[u] = binding[u]
    BY <2>3, <2>4 DEF BindingInv, BindingTypeOK
  <2>6. IsMatch(v)' => IsMatch(v) /\ ~handler[h].had
    BY <2>3, <2>4 DEF BindingInv, BindingTypeOK, IsMatch
  <2>7. ASSUME NEW u \in Users \ stale, IsMatch(u)' PROVE Covered(u)' \/ (IsMatch(u) /\ ~Syncing(h, u))
    <3>1. CASE u = v
      BY <1>5, <2>1, <2>2, <2>6, <2>7, <3>1 DEF BindingInv, Sure
    <3>2. CASE u # v
      BY <2>1, <2>4, <2>7, <3>2 DEF IsMatch, Syncing
    <3> QED
      BY <3>1, <3>2
  <2> QED
    BY <1>2, <1>4, <2>4, <2>5, <2>7, CommitKeeps
<1> QED
  BY <1>6, <1>7

\* A bindPhone begins: from now on the user's number is another one.
LEMMA BindPhoneStep ==
  ASSUME BindingInv, NEW h \in Handlers, NEW u \in Users, NEW p \in Phones, BindPhone(h, u, p) PROVE BindingInv'
<1> DEFINE r == [Waiting EXCEPT !.step = "match", !.user = u, !.phone = p]
<1>1. /\ HandlerAt(h, "idle") /\ phoneOf' = [phoneOf EXCEPT ![u] = p]
      /\ stale' = IF \E g \in Handlers : BindsLater(g, u) THEN stale \cup {u} ELSE stale
      /\ handler' = [handler EXCEPT ![h] = r]
      /\ UNCHANGED <<phoneMatch, needsReview, deleted, contacts, binding>>
  BY DEF BindPhone
<1>2. r \in HandlerRecords /\ r.step = "match" /\ r.user = u /\ r.phone = p
  BY DEF Waiting, HandlerRecords, HandlerSteps
<1> HIDE DEF r
<1>3. HandlerBecomes(h, r)
  BY <1>1, <1>2, HandlerMoves DEF BindingInv
<1>4. BindingTypeOK' /\ PendingApplied'
  BY <1>1, <1>3 DEF BindingInv, BindingTypeOK, PendingApplied, HandlerBecomes
<1>5. (\A g \in Handlers : Aimed(g)') /\ RowLocked'
  BY <1>2, <1>3 DEF BindingInv, RowLocked, Aimed, HandlerAt, UserOf, HandlerBecomes
<1>6. ASSUME NEW v \in Users \ stale', v # u PROVE Sure(v)'
  <2>1. Sure(v) /\ phoneOf'[v] = phoneOf[v]
    BY <1>1, <1>6 DEF BindingInv, BindingTypeOK
  <2>2. Careful(h, v)
    BY <1>1, <1>2, <1>3, <1>6, <2>1 DEF Careful, BindsLater, Syncing, UserOf, HandlerAt, HandlerBecomes, IsMatch
  <2> QED
    BY <2>1, <2>2, KeepsSure
<1>7. ASSUME u \notin stale' PROVE Sure(u)'
  <2>1. \A g \in Handlers : ~BindsLater(g, u)
    BY <1>1, <1>7
  <2>2. \A g \in Handlers : g # h => ~BindsLater(g, u)'
    BY <1>3, <2>1 DEF BindsLater, UserOf, HandlerBecomes
  <2>3. phoneOf'[u] = p /\ handler'[h].phone = p /\ HandlerAt(h, "match")'
    BY <1>1, <1>2, <1>3 DEF BindingInv, BindingTypeOK, HandlerBecomes, HandlerAt
  <2>4. BindingPhone(u)'
    BY <1>2, <1>3 DEF BindingPhone, UserOf, HandlerBecomes
  <2> QED
    BY <2>2, <2>3, <2>4 DEF Sure, Syncing, BindsLater, HandlerAt
<1> QED
  BY <1>4, <1>5, <1>6, <1>7 DEF BindingInv

\* The import of a number, and of the user who has it.
LEMMA ImportBindingStep ==
  ASSUME BindingInv, NEW h \in Handlers,
         \/ \E p \in Phones : ImportContact(h, p)
         \/ NoHolder(h)
         \/ \E u \in Users : FindHolder(h, u)
  PROVE  BindingInv'
<1>1. handler[h] \in HandlerRecords /\ Aimed(h)
  BY DEF BindingInv, BindingTypeOK
<1>2. ASSUME NEW p \in Phones, ImportContact(h, p) PROVE BindingInv'
  <2> DEFINE r == [Waiting EXCEPT !.step = "holders", !.phone = p]
  <2>1. /\ HandlerAt(h, "idle") /\ contacts' = contacts \cup {p} /\ handler' = [handler EXCEPT ![h] = r]
        /\ UNCHANGED <<phoneMatch, needsReview, phoneOf, deleted, binding, stale>>
    BY <1>2 DEF ImportContact
  <2>2. r \in HandlerRecords /\ r.step = "holders" /\ r.phone = p
    BY DEF Waiting, HandlerRecords, HandlerSteps
  <2> HIDE DEF r
  <2>3. HandlerBecomes(h, r)
    BY <2>1, <2>2, HandlerMoves DEF BindingInv
  <2>4. BindingTypeOK' /\ PendingApplied'
    BY <2>1, <2>3 DEF BindingInv, BindingTypeOK, PendingApplied, HandlerBecomes
  <2>5. (\A g \in Handlers : Aimed(g)') /\ RowLocked'
    BY <2>2, <2>3 DEF BindingInv, RowLocked, Aimed, HandlerAt, UserOf, HandlerBecomes
  <2>6. ASSUME NEW u \in Users \ stale' PROVE Sure(u)'
    <3>1. Careful(h, u)
      BY <2>1, <2>2, <2>3 DEF Careful, BindsLater, Syncing, UserOf, HandlerAt, HandlerBecomes, IsMatch
    <3> QED
      BY <2>1, <3>1, KeepsSure DEF BindingInv
  <2> QED
    BY <2>4, <2>5, <2>6 DEF BindingInv
<1>3. CASE NoHolder(h)
  <2>1. /\ HandlerAt(h, "holders") /\ Finish(h)
        /\ UNCHANGED <<phoneMatch, needsReview, phoneOf, deleted, contacts, binding, stale>>
    BY <1>3 DEF NoHolder
  <2>2. ASSUME NEW u \in Users \ stale, IsMatch(u)' PROVE IsMatch(u) /\ ~Syncing(h, u)
    BY <2>1, <2>2 DEF IsMatch, Syncing, HandlerAt
  <2> QED
    BY <2>1, <2>2, CommitKeeps DEF HandlerAt, BindingInv, BindingTypeOK, BindingRecords
<1>4. ASSUME NEW u \in Users, FindHolder(h, u) PROVE BindingInv'
  <2> DEFINE r == [handler[h] EXCEPT !.step = "sync", !.user = u, !.matched = TRUE]
             p == handler[h].phone
  <2>1. /\ HandlerAt(h, "holders") /\ phoneOf[u] = p
        /\ stale' = IF LeavingOrGone(p) THEN stale \cup {u} ELSE stale
        /\ UNCHANGED <<phoneMatch, needsReview, phoneOf, deleted, contacts, binding>>
    BY <1>4 DEF FindHolder
  <2>2. handler' = [handler EXCEPT ![h] = r]
    BY <1>1, <1>4 DEF FindHolder, BindingInv, BindingTypeOK, HandlerRecords
  <2>3. r \in HandlerRecords /\ r.step = "sync" /\ r.user = u /\ r.phone = p /\ r.matched
    BY <1>1 DEF HandlerRecords, HandlerSteps
  <2> HIDE DEF r
  <2>4. HandlerBecomes(h, r)
    BY <2>2, <2>3, HandlerMoves DEF BindingInv
  <2>5. stale' \in SUBSET Users /\ stale \subseteq stale'
    BY <2>1 DEF BindingInv, BindingTypeOK
  <2>6. Aimed(h)'
    BY <2>3, <2>4 DEF Aimed, HandlerAt, UserOf, HandlerBecomes
  <2>7. ASSUME NEW v \in Users \ stale' PROVE Careful(h, v)
    <3>1. Sure(v) /\ (IsMatch(v)' <=> IsMatch(v))
      BY <2>1, <2>5 DEF BindingInv, IsMatch
    <3>2. ~BindsLater(h, v) /\ ~Syncing(h, v)
      BY <2>1 DEF BindsLater, Syncing, HandlerAt
    <3>3. u = v => Staying(v)
      BY <2>1 DEF Staying, LeavingOrGone
    <3>4. (BindsLater(h, v)' \/ Syncing(h, v)') => u = v
      BY <2>3, <2>4 DEF BindsLater, Syncing, UserOf, HandlerBecomes
    <3> QED
      BY <2>1, <2>3, <2>4, <3>1, <3>2, <3>3, <3>4 DEF Careful, HandlerAt, UserOf, HandlerBecomes
  <2> QED
    BY <2>1, <2>3, <2>4, <2>5, <2>6, <2>7, MoveKeeps
<1> QED
  BY <1>2, <1>3, <1>4

\* A number is added: what is read, and what is written.
LEMMA GrantBindingStep ==
  ASSUME BindingInv, NEW h \in Handlers,
         (\E p \in Phones : AddContact(h, p)) \/ GrantContact(h) \/ CommitGrant(h)
  PROVE  BindingInv'
<1>1. handler[h] \in HandlerRecords /\ Aimed(h)
  BY DEF BindingInv, BindingTypeOK
<1>2. ASSUME NEW p \in Phones, ReadGrant(h, p), HandlerAt(h, "idle") \/ HandlerAt(h, "grant") PROVE BindingInv'
  <2> DEFINE S == {u \in Users : phoneOf[u] = p /\ u \notin deleted}
             r == [ReadsFor(h, S) EXCEPT !.step = "bind", !.phone = p]
  <2>1. /\ MayInsert(h, p) /\ handler' = [handler EXCEPT ![h] = r]
        /\ UNCHANGED <<phoneMatch, needsReview, phoneOf, deleted, contacts, binding, stale>>
    BY <1>2 DEF ReadGrant
  <2>2. S \in SUBSET Users /\ "bind" \in HandlerSteps /\ p \in Phones \cup {NoPhone}
    BY DEF HandlerSteps
  <2>3. \A u \in S : phoneOf[u] = p
    OBVIOUS
  <2> HIDE DEF S
  <2>4. /\ r \in HandlerRecords /\ r.step = "bind" /\ r.phone = p
        /\ r.create \subseteq S /\ r.change \subseteq S /\ r.change \subseteq r.undecided
    <3>1. ReadTo(h, S, "bind", p, r)
      BY <2>2 DEF ReadTo
    <3> HIDE DEF r
    <3> QED
      BY <3>1, ReadsForType
  <2> HIDE DEF r
  <2>5. HandlerBecomes(h, r)
    BY <2>1, <2>4, HandlerMoves DEF BindingInv
  <2>6. Aimed(h)'
    BY <2>4, <2>5 DEF Aimed, HandlerAt, UserOf, HandlerBecomes
  <2>7. \A g \in Handlers : HandlerAt(g, "release") => handler[g].phone # p
    BY <1>2, <2>1 DEF MayInsert, Sharing, Unshared, HandlerAt
  <2>8. ASSUME NEW u \in Users \ stale' PROVE Careful(h, u)
    <3>1. BindsLater(h, u)' => u \in S
      BY <2>4, <2>5 DEF BindsLater, HandlerBecomes
    <3>2. ~Syncing(h, u) /\ ~Syncing(h, u)' /\ (IsMatch(u)' <=> IsMatch(u))
      BY <1>2, <2>1, <2>4, <2>5 DEF Syncing, HandlerAt, HandlerBecomes, IsMatch
    <3> QED
      BY <1>2, <2>1, <2>3, <2>4, <2>5, <3>1, <3>2 DEF Careful, HandlerAt, HandlerBecomes
  <2> QED
    BY <2>1, <2>4, <2>5, <2>6, <2>7, <2>8, MoveKeeps DEF BindingInv, BindingTypeOK
<1>3. CASE CommitGrant(h)
  <2> DEFINE p == handler[h].phone
  <2>1. /\ HandlerAt(h, "bind") /\ Binds(h) /\ contacts' = contacts \cup {p} /\ Finish(h)
        /\ UNCHANGED <<phoneMatch, needsReview, phoneOf, deleted, stale>>
    BY <1>3 DEF CommitGrant
  <2>2. p \in Phones
    BY <1>1, <2>1 DEF Aimed, HandlerAt
  <2>3. /\ binding' \in [Users -> BindingRecords]
        /\ \A u \in Users : binding'[u].status = "PENDING" => binding'[u] = binding[u]
        /\ \A u \in Users : binding'[u] = binding[u] \/ u \in handler[h].create \cup handler[h].change
    BY <2>1, BindsType DEF BindingInv
  <2>4. HandlerBecomes(h, Waiting)
    BY <2>1, HandlerMoves DEF BindingInv
  <2>5. \A g \in Handlers : HandlerAt(g, "release") => handler[g].phone # p
    BY <2>1 DEF BindingInv, RowLocked
  <2>6. ASSUME NEW u \in Users \ stale, IsMatch(u)' PROVE Covered(u)' \/ (IsMatch(u) /\ ~Syncing(h, u))
    <3>1. CASE u \in handler[h].create \cup handler[h].change
      <4>1. phoneOf[u] = p
        BY <2>1, <3>1 DEF BindingInv, Sure, BindsLater, HandlerAt
      <4>2. \A g \in Handlers : HandlerAt(g, "release")' => HandlerAt(g, "release") /\ handler'[g] = handler[g]
        BY <2>4, WaitingIsIdle DEF HandlerAt, HandlerBecomes
      <4> QED
        BY <2>1, <2>5, <4>1, <4>2 DEF Covered
    <3>2. CASE binding'[u] = binding[u]
      BY <2>1, <2>6, <3>2 DEF IsMatch, Syncing, HandlerAt
    <3> QED
      BY <2>3, <3>1, <3>2
  <2>7. ~HandlerAt(h, "release") /\ contacts' \in SUBSET Phones /\ contacts \subseteq contacts'
    BY <2>1, <2>2 DEF HandlerAt, BindingInv, BindingTypeOK
  <2> QED
    BY <2>1, <2>3, <2>6, <2>7, CommitKeeps
<1>4. HandlerAt(h, "grant") => handler[h].phone \in Phones
  BY <1>1 DEF Aimed, HandlerAt
<1> QED
  BY <1>2, <1>3, <1>4 DEF AddContact, GrantContact

\* A number is removed: what is read, and what is written.
LEMMA RemoveStep ==
  ASSUME BindingInv, NEW h \in Handlers, (\E p \in Phones : RemoveContact(h, p)) \/ CommitRemoval(h)
  PROVE  BindingInv'
<1>1. handler[h] \in HandlerRecords /\ Aimed(h)
  BY DEF BindingInv, BindingTypeOK
<1>2. ASSUME NEW p \in Phones, RemoveContact(h, p) PROVE BindingInv'
  <2> DEFINE S == {u \in Users : HolderOf(u, p) /\ binding[u].status = "ACTIVE"}
             r == [Waiting EXCEPT !.step = "release", !.phone = p, !.change = S]
  <2>1. /\ HandlerAt(h, "idle") /\ MayDelete(h, p) /\ handler' = [handler EXCEPT ![h] = r]
        /\ stale' = stale \cup {u \in Users : \E g \in Handlers : UserOf(g) = u /\ handler[g].phone = p /\ handler[g].matched}
        /\ UNCHANGED <<phoneMatch, needsReview, phoneOf, deleted, contacts, binding>>
    BY <1>2 DEF RemoveContact
  <2>2. S \in SUBSET Users /\ \A u \in Users : phoneOf[u] = p /\ IsMatch(u) => u \in S
    BY DEF HolderOf, IsMatch
  <2> HIDE DEF S
  <2>3. r \in HandlerRecords /\ r.step = "release" /\ r.phone = p /\ r.change = S
    BY <2>2 DEF Waiting, HandlerRecords, HandlerSteps
  <2> HIDE DEF r
  <2>4. HandlerBecomes(h, r)
    BY <2>1, <2>3, HandlerMoves DEF BindingInv
  <2>5. BindingTypeOK' /\ PendingApplied'
    BY <2>1, <2>4 DEF BindingInv, BindingTypeOK, PendingApplied, HandlerBecomes
  <2>6. \A g \in Handlers : HandlerAt(g, "bind") => handler[g].phone # p
    BY <2>1 DEF MayDelete, Sharing, Unshared, HandlerAt
  <2>7. (\A g \in Handlers : Aimed(g)') /\ RowLocked'
    BY <2>3, <2>4, <2>6 DEF BindingInv, RowLocked, Aimed, HandlerAt, UserOf, HandlerBecomes
  <2>8. ASSUME NEW u \in Users \ stale' PROVE Sure(u)'
    <3>1. /\ Sure(u) /\ (IsMatch(u)' <=> IsMatch(u)) /\ phoneOf'[u] = phoneOf[u]
          /\ \A g \in Handlers : UserOf(g) = u /\ handler[g].phone = p => ~handler[g].matched
      BY <2>1 DEF BindingInv, IsMatch
    <3>2. \A g \in Handlers : /\ BindsLater(g, u)' => BindsLater(g, u) /\ g # h
                              /\ Syncing(g, u) <=> Syncing(g, u)'
                              /\ Syncing(g, u) => handler'[g] = handler[g]
      BY <2>1, <2>3, <2>4 DEF BindsLater, Syncing, UserOf, HandlerAt, HandlerBecomes
    <3>3. IsMatch(u) /\ Covered(u) => Covered(u)'
      BY <2>1, <2>2, <2>3, <2>4, <3>1 DEF Covered, HandlerAt, HandlerBecomes
    <3>4. phoneOf[u] # p /\ Staying(u) => Staying(u)'
      BY <2>1, <2>3, <2>4, <3>1 DEF Staying, HandlerAt, HandlerBecomes
    <3>5. \A g \in Handlers : Syncing(g, u) => BindsLater(g, u) /\ UserOf(g) = u
      BY DEF Syncing, BindsLater
    <3>6. \A g \in Handlers : Syncing(g, u)' /\ ~HandlerAt(g, "match")' /\ handler'[g].matched => Staying(u)'
      BY <3>1, <3>2, <3>4, <3>5 DEF Sure, HandlerAt
    <3>7. \A g \in Handlers : UserOf(g)' = u /\ HandlerAt(g, "sync")' /\ ~handler'[g].matched /\ ~handler'[g].had /\ IsMatch(u)' => Covered(u)'
      BY <2>3, <2>4, <3>1, <3>3 DEF Sure, HandlerAt, UserOf, HandlerBecomes
    <3>8. BindingPhone(u)' <=> BindingPhone(u)
      BY <3>2 DEF BindingPhone, Syncing
    <3>9. \A g \in Handlers : BindsLater(g, u)' => handler'[g].phone = phoneOf'[u]
      BY <2>4, <3>1, <3>2 DEF Sure, HandlerBecomes
    <3> QED
      BY <3>1, <3>3, <3>6, <3>7, <3>8, <3>9 DEF Sure
  <2> QED
    BY <2>5, <2>7, <2>8 DEF BindingInv
<1>3. CASE CommitRemoval(h)
  <2> DEFINE p == handler[h].phone
  <2>1. /\ HandlerAt(h, "release") /\ contacts' = contacts \ {p} /\ Finish(h)
        /\ binding' = [u \in Users |-> IF u \in handler[h].change THEN [binding[u] EXCEPT !.status = "REJECTED"] ELSE binding[u]]
        /\ UNCHANGED <<phoneMatch, needsReview, phoneOf, deleted, stale>>
    BY <1>3 DEF CommitRemoval
  <2>2. \A u \in Users : [binding[u] EXCEPT !.status = "REJECTED"] \in BindingRecords
    BY DEF BindingInv, BindingTypeOK, BindingRecords
  <2>3. HandlerBecomes(h, Waiting)
    BY <2>1, HandlerMoves DEF BindingInv
  <2>4. BindingTypeOK'
    BY <2>1, <2>2, <2>3 DEF BindingInv, BindingTypeOK, BindingRecords, HandlerBecomes
  <2>5. PendingApplied'
    BY <2>1 DEF BindingInv, BindingTypeOK, PendingApplied
  <2>6. (\A g \in Handlers : Aimed(g)') /\ RowLocked'
    BY <2>3, WaitingIsIdle DEF BindingInv, RowLocked, Aimed, HandlerAt, UserOf, HandlerBecomes
  <2>7. ASSUME NEW u \in Users \ stale' PROVE Sure(u)'
    <3>1. Sure(u) /\ phoneOf'[u] = phoneOf[u]
      BY <2>1 DEF BindingInv
    <3>2. IsMatch(u)' => IsMatch(u) /\ u \notin handler[h].change
      BY <2>1 DEF BindingInv, BindingTypeOK, IsMatch
    <3>3. \A g \in Handlers : /\ BindsLater(g, u)' => BindsLater(g, u) /\ handler'[g] = handler[g]
                              /\ Syncing(g, u) <=> Syncing(g, u)'
                              /\ Syncing(g, u) => handler'[g] = handler[g]
      BY <2>1, <2>3, WaitingIsIdle DEF BindsLater, Syncing, UserOf, HandlerAt, HandlerBecomes
    <3>4. \A g \in Handlers : HandlerAt(g, "release")' => HandlerAt(g, "release") /\ handler'[g] = handler[g]
      BY <2>3, WaitingIsIdle DEF HandlerAt, HandlerBecomes
    <3>5. Staying(u) => Staying(u)'
      BY <2>1, <3>1, <3>4 DEF Staying
    <3>6. IsMatch(u)' /\ Covered(u) => Covered(u)'
      BY <2>1, <3>1, <3>2, <3>4 DEF Covered
    <3>7. BindingPhone(u)' <=> BindingPhone(u)
      BY <3>3 DEF BindingPhone, Syncing
    <3>8. \A g \in Handlers : UserOf(g)' = u /\ HandlerAt(g, "sync")' => UserOf(g) = u /\ HandlerAt(g, "sync") /\ handler'[g] = handler[g]
      BY <2>3, WaitingIsIdle DEF HandlerAt, UserOf, HandlerBecomes
    <3>9. \A g \in Handlers : Syncing(g, u)' /\ ~HandlerAt(g, "match")' /\ handler'[g].matched => Staying(u)'
      BY <3>1, <3>3, <3>5 DEF Sure, HandlerAt
    <3> QED
      BY <3>1, <3>2, <3>3, <3>6, <3>7, <3>8, <3>9 DEF Sure
  <2> QED
    BY <2>4, <2>5, <2>6, <2>7 DEF BindingInv
<1> QED
  BY <1>2, <1>3

\* Applications, and requests cut short.
LEMMA ApplyStep ==
  ASSUME BindingInv, NEW h \in Handlers,
         \/ Apply(h) \/ ReadApplicant(h) \/ HandlerDies(h)
         \/ \E u \in Users : BeginApply(h, u)
  PROVE  BindingInv'
<1>1. handler[h] \in HandlerRecords /\ Aimed(h)
  BY DEF BindingInv, BindingTypeOK
\* A request that is no bindPhone before and after, and takes no number away.
<1> DEFINE Plain(r) == /\ r \in HandlerRecords /\ r.step \in {"idle", "apply", "grantOf", "grant"}
                       /\ r.step \in {"apply", "grantOf"} => r.user \in Users
                       /\ r.step = "grant" => r.phone \in Phones
<1>2. ASSUME NEW r, Plain(r), HandlerBecomes(h, r),
             UNCHANGED <<phoneMatch, needsReview, phoneOf, deleted, contacts, binding>>,
             stale' \in SUBSET Users, stale \subseteq stale',
             handler[h].step \in {"match", "existing", "sync", "write"} => UserOf(h) \in stale'
      PROVE  BindingInv'
  <2>1. BindingTypeOK' /\ PendingApplied'
    BY <1>2 DEF BindingInv, BindingTypeOK, PendingApplied, HandlerBecomes
  <2>2. (\A g \in Handlers : Aimed(g)') /\ RowLocked'
    BY <1>2 DEF BindingInv, RowLocked, Aimed, HandlerAt, UserOf, HandlerBecomes
  <2>3. ASSUME NEW u \in Users \ stale' PROVE Sure(u)'
    <3>1. Sure(u) /\ phoneOf'[u] = phoneOf[u] /\ contacts' = contacts /\ (IsMatch(u)' <=> IsMatch(u))
      BY <1>2 DEF BindingInv, IsMatch
    <3>2. \A g \in Handlers : /\ BindsLater(g, u)' => BindsLater(g, u) /\ handler'[g] = handler[g]
                              /\ Syncing(g, u) <=> Syncing(g, u)'
                              /\ Syncing(g, u) => handler'[g] = handler[g]
                              /\ HandlerAt(g, "release")' => HandlerAt(g, "release") /\ handler'[g] = handler[g]
                              /\ UserOf(g)' = u /\ HandlerAt(g, "sync")' => UserOf(g) = u /\ HandlerAt(g, "sync") /\ handler'[g] = handler[g]
      BY <1>2 DEF BindsLater, Syncing, UserOf, HandlerAt, HandlerBecomes
    <3>3. (Covered(u) => Covered(u)') /\ (Staying(u) => Staying(u)')
      BY <3>1, <3>2 DEF Covered, Staying
    <3>4. BindingPhone(u)' <=> BindingPhone(u)
      BY <3>2 DEF BindingPhone, Syncing
    <3>5. \A g \in Handlers : Syncing(g, u)' /\ ~HandlerAt(g, "match")' /\ handler'[g].matched => Staying(u)'
      BY <3>1, <3>2, <3>3 DEF Sure, HandlerAt
    <3> QED
      BY <3>1, <3>2, <3>3, <3>4, <3>5 DEF Sure
  <2> QED
    BY <2>1, <2>2, <2>3 DEF BindingInv
<1>3. Plain(Waiting)
  BY WaitingIsIdle
<1>4. CASE Apply(h)
  <2>1. PICK v \in Users : v = UserOf(h)
    BY <1>1, <1>4 DEF Apply, Aimed, HandlerAt
  <2> DEFINE status == IF handler[h].auto THEN "ACTIVE" ELSE "PENDING"
             r == [handler[h] EXCEPT !.step = "grantOf"]
  <2>2. /\ HandlerAt(h, "apply") /\ UNCHANGED <<phoneMatch, needsReview, phoneOf, deleted, contacts, stale>>
        /\ binding' = binding \/ binding' = [binding EXCEPT ![v].status = status, ![v].source = "APPLY"]
        /\ Finish(h) \/ handler' = [handler EXCEPT ![h] = r]
    BY <1>4, <2>1 DEF Apply, BindingInv, BindingTypeOK
  <2>3. status \in {"ACTIVE", "PENDING"}
    OBVIOUS
  <2>4. r \in HandlerRecords /\ r.step = "grantOf" /\ r.user = UserOf(h)
    BY <1>1 DEF HandlerRecords, HandlerSteps, UserOf
  <2> HIDE DEF status, r
  <2>5. /\ binding' \in [Users -> BindingRecords]
        /\ \A u \in Users : binding'[u] = binding[u] \/ binding'[u].source = "APPLY"
    BY <2>2, <2>3 DEF BindingInv, BindingTypeOK, BindingRecords
  <2>6. \E q : Plain(q) /\ HandlerBecomes(h, q)
    BY <1>3, <2>1, <2>2, <2>4, HandlerMoves DEF BindingInv
  <2>7. PICK q : Plain(q) /\ HandlerBecomes(h, q)
    BY <2>6
  <2> HIDE DEF Plain
  <2>8. BindingTypeOK' /\ PendingApplied'
    BY <2>2, <2>5, <2>7 DEF BindingInv, BindingTypeOK, PendingApplied, BindingRecords, HandlerBecomes
  <2>9. (\A g \in Handlers : Aimed(g)') /\ RowLocked'
    BY <2>7 DEF Plain, BindingInv, RowLocked, Aimed, HandlerAt, UserOf, HandlerBecomes
  <2>10. ASSUME NEW u \in Users \ stale' PROVE Sure(u)'
    <3>1. IsMatch(u)' => IsMatch(u)
      BY <2>5 DEF IsMatch
    <3>2. ~HandlerAt(h, "release") /\ ~HandlerAt(h, "release")' /\ ~BindsLater(h, u)' /\ ~Syncing(h, u) /\ ~Syncing(h, u)' /\ ~HandlerAt(h, "sync")'
      BY <2>2, <2>7 DEF Plain, BindsLater, Syncing, HandlerAt, HandlerBecomes
    <3>3. Careful(h, u)
      BY <2>2, <2>7, <3>1, <3>2 DEF Careful, HandlerBecomes
    <3> QED
      BY <2>2, <3>3, KeepsSure DEF BindingInv
  <2> QED
    BY <2>8, <2>9, <2>10 DEF BindingInv
<1>5. CASE ReadApplicant(h)
  <2>1. HandlerAt(h, "grantOf") /\ UNCHANGED <<phoneMatch, needsReview, phoneOf, deleted, contacts, binding, stale>>
    BY <1>5 DEF ReadApplicant
  <2>2. PICK p \in Phones \cup {NoPhone} : p = phoneOf[UserOf(h)]
    BY <1>1, <2>1 DEF Aimed, HandlerAt, BindingInv, BindingTypeOK
  <2> DEFINE r == [handler[h] EXCEPT !.step = "grant", !.phone = p]
  <2>3. Finish(h) \/ (p # NoPhone /\ handler' = [handler EXCEPT ![h] = r])
    BY <1>1, <1>5, <2>2 DEF ReadApplicant, BindingInv, BindingTypeOK, HandlerRecords
  <2>4. p # NoPhone => Plain(r)
    BY <1>1, <2>2 DEF HandlerRecords, HandlerSteps
  <2> HIDE DEF r
  <2>5. \E q : Plain(q) /\ HandlerBecomes(h, q)
    BY <1>3, <2>3, <2>4, HandlerMoves DEF BindingInv
  <2> QED
    BY <1>2, <2>1, <2>5 DEF HandlerAt, BindingInv, BindingTypeOK
<1>6. CASE HandlerDies(h)
  <2>1. /\ UNCHANGED <<phoneMatch, needsReview, phoneOf, deleted, contacts, binding>> /\ Finish(h)
        /\ stale' = IF handler[h].step \in {"match", "existing", "sync", "write"} THEN stale \cup {UserOf(h)} ELSE stale
    BY <1>6 DEF HandlerDies
  <2>2. /\ stale' \in SUBSET Users /\ stale \subseteq stale'
        /\ handler[h].step \in {"match", "existing", "sync", "write"} => UserOf(h) \in stale'
    BY <1>1, <2>1 DEF Aimed, BindingInv, BindingTypeOK
  <2> QED
    BY <1>2, <1>3, <2>1, <2>2, HandlerMoves DEF BindingInv
<1>7. ASSUME NEW u \in Users, BeginApply(h, u) PROVE BindingInv'
  <2> DEFINE r(b, a) == [Waiting EXCEPT !.step = "apply", !.user = u, !.exists = b, !.auto = a]
  <2>1. /\ HandlerAt(h, "idle") /\ UNCHANGED <<phoneMatch, needsReview, phoneOf, deleted, contacts, binding, stale>>
        /\ handler' = [handler EXCEPT ![h] = r(binding[u].status # "NONE", ~needsReview)]
    BY <1>7 DEF BeginApply
  <2>2. \A b \in BOOLEAN, a \in BOOLEAN : r(b, a) \in HandlerRecords /\ r(b, a).step = "apply" /\ r(b, a).user = u
    BY ApplicantRecord
  <2>3. (binding[u].status # "NONE") \in BOOLEAN /\ (~needsReview) \in BOOLEAN
    BY DEF BindingInv, BindingTypeOK
  <2>4. PICK q : q = r(binding[u].status # "NONE", ~needsReview)
    OBVIOUS
  <2>5. Plain(q)
    <3>1. q \in HandlerRecords /\ q.step = "apply" /\ q.user = u
      BY <2>2, <2>3, <2>4
    <3> QED
      BY <3>1
  <2>6. handler' = [handler EXCEPT ![h] = q]
    BY <2>1, <2>4
  <2> HIDE DEF r
  <2>7. HandlerBecomes(h, q)
    BY <2>5, <2>6, HandlerMoves DEF BindingInv
  <2> QED
    BY <1>2, <2>1, <2>5, <2>7 DEF HandlerAt, BindingInv, BindingTypeOK
<1> QED
  BY <1>4, <1>5, <1>6, <1>7

\* The configuration, reviews, revocations and deleted accounts.
LEMMA DecideStep ==
  ASSUME BindingInv,
         \/ SetConfig
         \/ \E u \in Users : Revoke(u) \/ DeleteAccount(u)
         \/ \E h \in Handlers, u \in Users, approve \in BOOLEAN : Review(h, u, approve)
  PROVE  BindingInv'
<1>1. CASE SetConfig
  <2>1. UNCHANGED <<phoneOf, deleted, contacts, binding, stale, handler>> /\ phoneMatch' \in BOOLEAN /\ needsReview' \in BOOLEAN
    BY <1>1 DEF SetConfig, BindingInv, BindingTypeOK
  <2>2. \A u \in Users \ stale' : Sure(u)'
    BY <2>1, StaysSure DEF BindingInv, IsMatch
  <2> QED
    BY <2>1, <2>2 DEF BindingInv, BindingTypeOK, PendingApplied, RowLocked, Aimed, UserOf, HandlerAt
<1>2. ASSUME NEW u \in Users, Revoke(u) PROVE BindingInv'
  <2> DEFINE b == [binding[u] EXCEPT !.status = "REJECTED", !.reviewed = TRUE]
  <2>1. binding' = [binding EXCEPT ![u] = b] /\ UNCHANGED <<phoneMatch, needsReview, phoneOf, deleted, contacts, stale, handler>>
    BY <1>2 DEF Revoke, BindingInv, BindingTypeOK
  <2>2. b \in BindingRecords /\ b.status = "REJECTED"
    BY DEF BindingInv, BindingTypeOK, BindingRecords
  <2> HIDE DEF b
  <2>3. \A v \in Users : binding'[v] = IF v = u THEN b ELSE binding[v]
    BY <2>1 DEF BindingInv, BindingTypeOK
  <2>4. BindingTypeOK' /\ PendingApplied'
    BY <2>1, <2>2, <2>3 DEF BindingInv, BindingTypeOK, PendingApplied, BindingRecords
  <2>5. \A v \in Users \ stale' : Sure(v)'
    BY <2>1, <2>2, <2>3, StaysSure DEF BindingInv, IsMatch
  <2> QED
    BY <2>1, <2>4, <2>5 DEF BindingInv, RowLocked, Aimed, HandlerAt, UserOf
<1>3. ASSUME NEW u \in Users, DeleteAccount(u) PROVE BindingInv'
  <2> DEFINE s == IF binding[u].status \in {"ACTIVE", "PENDING"} THEN "REJECTED" ELSE binding[u].status
             b == [binding[u] EXCEPT !.status = s]
  <2>1. /\ binding' = [binding EXCEPT ![u] = b] /\ phoneOf' = [phoneOf EXCEPT ![u] = NoPhone]
        /\ deleted' = deleted \cup {u}
        /\ stale' = IF \E h \in Handlers : BindsLater(h, u) THEN stale \cup {u} ELSE stale
        /\ UNCHANGED <<phoneMatch, needsReview, contacts, handler>>
    BY <1>3 DEF DeleteAccount, BindingInv, BindingTypeOK
  <2>2. b \in BindingRecords /\ b.status \notin {"ACTIVE", "PENDING"}
    BY DEF BindingInv, BindingTypeOK, BindingRecords
  <2> HIDE DEF b
  <2>3. \A v \in Users : binding'[v] = IF v = u THEN b ELSE binding[v]
    BY <2>1 DEF BindingInv, BindingTypeOK
  <2>4. BindingTypeOK' /\ PendingApplied'
    BY <2>1, <2>2, <2>3 DEF BindingInv, BindingTypeOK, PendingApplied, BindingRecords
  <2>5. ASSUME NEW v \in Users \ stale', v # u PROVE Sure(v)'
    <3>1. Sure(v) /\ phoneOf'[v] = phoneOf[v]
      BY <2>1, <2>5 DEF BindingInv, BindingTypeOK
    <3> QED
      BY <2>1, <2>3, <2>5, <3>1, StaysSure DEF IsMatch
  <2>6. ASSUME u \notin stale' PROVE Sure(u)'
    <3>1. \A h \in Handlers : ~BindsLater(h, u)
      BY <2>1, <2>6
    <3>2. \A h \in Handlers : ~BindsLater(h, u)' /\ ~Syncing(h, u)' /\ ~(UserOf(h)' = u /\ HandlerAt(h, "sync")')
      BY <2>1, <3>1 DEF BindsLater, Syncing, UserOf, HandlerAt
    <3> QED
      BY <2>1, <2>2, <2>3, <3>2 DEF Sure, IsMatch
  <2> QED
    BY <2>1, <2>4, <2>5, <2>6 DEF BindingInv, RowLocked, Aimed, HandlerAt, UserOf
<1>4. ASSUME NEW h \in Handlers, NEW u \in Users, NEW approve \in BOOLEAN, Review(h, u, approve) PROVE BindingInv'
  <2> DEFINE s == IF approve THEN "ACTIVE" ELSE "REJECTED"
             b == [binding[u] EXCEPT !.status = s, !.reviewed = TRUE]
             r == [handler[h] EXCEPT !.step = "grantOf", !.user = u]
  <2>1. /\ HandlerAt(h, "idle") /\ binding[u].status = "PENDING"
        /\ binding' = [binding EXCEPT ![u] = b] /\ UNCHANGED <<phoneMatch, needsReview, phoneOf, deleted, contacts, stale>>
    BY <1>4 DEF Review, BindingInv, BindingTypeOK
  <2>2. handler' = [handler EXCEPT ![h] = r] \/ handler' = handler
    BY <1>4 DEF Review, BindingInv, BindingTypeOK, HandlerRecords
  <2>3. b \in BindingRecords /\ b.status # "PENDING" /\ b.source = "APPLY"
    BY <2>1 DEF BindingInv, BindingTypeOK, BindingRecords, PendingApplied
  <2>4. r \in HandlerRecords /\ r.step = "grantOf" /\ r.user = u
    BY LookupRecord DEF BindingInv, BindingTypeOK
  <2> HIDE DEF b, r
  <2>5. \E q \in {r, handler[h]} : HandlerBecomes(h, q)
    BY <2>2, <2>4, HandlerMoves DEF BindingInv, BindingTypeOK, HandlerBecomes
  <2>6. /\ handler' \in [Handlers -> HandlerRecords]
        /\ handler'[h] = r \/ handler'[h] = handler[h]
        /\ \A g \in Handlers \ {h} : handler'[g] = handler[g]
    BY <2>5 DEF HandlerBecomes
  <2>7. \A v \in Users : binding'[v] = IF v = u THEN b ELSE binding[v]
    BY <2>1 DEF BindingInv, BindingTypeOK
  <2>8. BindingTypeOK' /\ PendingApplied'
    BY <2>1, <2>3, <2>6, <2>7 DEF BindingInv, BindingTypeOK, PendingApplied, BindingRecords
  <2>9. ASSUME NEW v \in Users \ stale' PROVE Sure(v)'
    <3>1. IsMatch(v)' => IsMatch(v)
      BY <2>3, <2>7 DEF IsMatch
    <3>2. ~HandlerAt(h, "release") /\ ~HandlerAt(h, "release")' /\ ~BindsLater(h, v)' /\ ~Syncing(h, v) /\ ~Syncing(h, v)' /\ ~HandlerAt(h, "sync")'
      BY <2>1, <2>4, <2>6 DEF BindsLater, Syncing, HandlerAt
    <3>3. Careful(h, v)
      BY <2>1, <2>6, <3>1, <3>2 DEF Careful
    <3> QED
      BY <2>1, <3>3, KeepsSure DEF BindingInv
  <2>10. (\A g \in Handlers : Aimed(g)') /\ RowLocked'
    BY <2>1, <2>4, <2>6 DEF BindingInv, RowLocked, Aimed, HandlerAt, UserOf
  <2> QED
    BY <2>8, <2>9, <2>10 DEF BindingInv
<1> QED
  BY <1>1, <1>2, <1>3, <1>4

\* Every step keeps the invariant.
LEMMA BindingNextInv == BindingInv /\ [BindingNext]_bindingVars => BindingInv'
<1> SUFFICES ASSUME BindingInv, [BindingNext]_bindingVars PROVE BindingInv'
  OBVIOUS
<1>1. CASE UNCHANGED bindingVars
  <2>1. \A u \in Users \ stale' : Sure(u)'
    BY <1>1, StaysSure DEF bindingVars, BindingInv, IsMatch
  <2> QED
    BY <1>1, <2>1 DEF bindingVars, BindingInv, BindingTypeOK, PendingApplied, RowLocked, Aimed, UserOf, HandlerAt
<1> QED
  BY <1>1, MatchStep, ReadStep, WriteStep, BindPhoneStep, ImportBindingStep, GrantBindingStep, RemoveStep, ApplyStep, DecideStep DEF BindingNext

\* A binding by a phone number goes with the number, unless somebody was binding by what had
\* been read before (applyPhoneMatch, grantContact, revokeContact).
THEOREM BindingFollows == BindingSpec => []BindingFollowsContactsUnlessCrossed
<1>1. BindingSpec => []BindingInv
  BY BindingInitInv, BindingNextInv, PTL DEF BindingSpec
<1>2. BindingInv => BindingFollowsContactsUnlessCrossed
  BY DEF BindingInv, Sure, Covered, BindingFollowsContactsUnlessCrossed
<1> QED
  BY <1>1, <1>2, PTL

\* A decision of an administrator ends only through a new application, or through a number
\* whose request had read the binding before the decision (applyPhoneMatch in
\* binding-sync.service.ts, applyBinding in owner-houses.controller.ts).
THEOREM NotOverruled == BindingSpec => DecisionIsNotOverruledUnlessCrossed
<1> DEFINE Kept ==
      \A u \in Users :
        /\ binding[u].status = "REJECTED" /\ (binding[u].source = "APPLY" \/ binding[u].reviewed)
        /\ binding'[u].status # "REJECTED"
        => \E h \in Handlers : Applies(h, u) \/ (u \in handler[h].undecided /\ HandlerAt(h, "idle")')
<1>1. BindingInv /\ [BindingNext]_bindingVars => [Kept]_bindingVars
  <2> SUFFICES ASSUME BindingInv, BindingNext, NEW u \in Users,
                      binding[u].status = "REJECTED", binding'[u].status # "REJECTED"
               PROVE  \E h \in Handlers : Applies(h, u) \/ (u \in handler[h].undecided /\ HandlerAt(h, "idle")')
    BY DEF bindingVars
  <2>1. ASSUME NEW h \in Handlers, Apply(h) PROVE Applies(h, u)
    <3>1. HandlerAt(h, "apply") /\ (UserOf(h) = u \/ binding'[u] = binding[u])
      BY <2>1 DEF Apply, BindingInv, BindingTypeOK
    <3>2. Finish(h) \/ handler' = [handler EXCEPT ![h].step = "grantOf"]
      BY <2>1 DEF Apply
    <3>3. ~HandlerAt(h, "apply")'
      BY <3>2, WaitingIsIdle DEF Finish, HandlerAt, BindingInv, BindingTypeOK, HandlerRecords
    <3> QED
      BY <3>1, <3>3 DEF Applies
  <2>2. ASSUME NEW h \in Handlers, WriteBinding(h) \/ CommitGrant(h) PROVE u \in handler[h].undecided /\ HandlerAt(h, "idle")'
    <3>1. Binds(h) /\ Finish(h) /\ handler[h].step \in {"write", "bind"}
      BY <2>2 DEF WriteBinding, CommitGrant, HandlerAt
    <3>2. u \in handler[h].change
      BY <3>1, BindsType DEF BindingInv
    <3>3. handler[h].change \subseteq handler[h].undecided
      BY <3>1 DEF BindingInv, Aimed
    <3>4. HandlerAt(h, "idle")'
      BY <3>1, WaitingIsIdle, HandlerMoves DEF BindingInv, HandlerBecomes, HandlerAt
    <3> QED
      BY <3>2, <3>3, <3>4
  <2>3. ASSUME binding'[u] = binding[u] PROVE FALSE
    BY <2>3
  <2>4. ASSUME NEW h \in Handlers, ReleaseMatch(h) \/ CommitRemoval(h) PROVE FALSE
    BY <2>4 DEF ReleaseMatch, CommitRemoval, BindingInv, BindingTypeOK
  <2>5. ASSUME NEW h \in Handlers, NEW v \in Users, NEW approve \in BOOLEAN, Review(h, v, approve) PROVE FALSE
    BY <2>5 DEF Review, BindingInv, BindingTypeOK
  <2>6. ASSUME NEW v \in Users, Revoke(v) \/ DeleteAccount(v) PROVE FALSE
    BY <2>6 DEF Revoke, DeleteAccount, BindingInv, BindingTypeOK
  <2>7. ASSUME NEW h \in Handlers,
               \/ MatchContacts(h) \/ ReadExisting(h) \/ ReadBinding(h) \/ ReadApplicant(h) \/ NoHolder(h) \/ HandlerDies(h)
               \/ GrantContact(h)
        PROVE FALSE
    BY <2>3, <2>7 DEF MatchContacts, ReadExisting, ReadBinding, ReadApplicant, NoHolder, HandlerDies, GrantContact, ReadGrant
  <2>8. ASSUME NEW h \in Handlers, NEW p \in Phones, AddContact(h, p) \/ RemoveContact(h, p) \/ ImportContact(h, p)
        PROVE FALSE
    BY <2>3, <2>8 DEF AddContact, ReadGrant, RemoveContact, ImportContact
  <2>9. ASSUME NEW h \in Handlers, NEW v \in Users, BeginApply(h, v) \/ FindHolder(h, v) \/ \E p \in Phones : BindPhone(h, v, p)
        PROVE FALSE
    BY <2>3, <2>9 DEF BeginApply, FindHolder, BindPhone
  <2>10. ~SetConfig
    BY <2>3 DEF SetConfig
  <2> QED
    BY <2>1, <2>2, <2>4, <2>5, <2>6, <2>7, <2>8, <2>9, <2>10 DEF BindingNext
<1>2. BindingSpec => []BindingInv
  BY BindingInitInv, BindingNextInv, PTL DEF BindingSpec
<1> QED
  BY <1>1, <1>2, PTL DEF BindingSpec, DecisionIsNotOverruledUnlessCrossed

-----------------------------------------------------------------------------
(* Desk *)

\* A look is fresh as long as the row is in a status its guard lets pass; a row that was
\* not overtaken was brought to an end once if it is at one, and never before.
DeskInv ==
  /\ DeskTypeOK
  /\ \A c \in Clients : client[c].fresh => /\ client[c].move \in Moves
                                           /\ rowStatus[client[c].move.row] \in client[c].move.from
  /\ \A r \in Rows \ overtaken : endings[r] = IF rowStatus[r] \in Last[r] THEN 1 ELSE 0

\* The statuses of all rows at the desk.
DeskStatuses == {"NONE", "RATED", "PENDING", "PROCESSING", "DONE", "CLOSED", "ACCEPTED",
                 "CANCELED", "ACTIVE", "USED", "EXPIRED"}

\* Every move is of a row, and from statuses that are not an end of it.
LEMMA MovesAreSound ==
  /\ NoMove \notin Moves /\ NoMove.row \notin Rows
  /\ \A m \in Moves : /\ m.row \in Rows /\ m.to \in DeskStatuses
                      /\ \A s \in m.from : s \notin Last[m.row]
  /\ Verify.asks
  /\ \A m \in Moves : m.asks => m = Verify
<1>1. /\ Last["ticket"] = {"DONE", "CLOSED"} /\ Last["rating"] = {"RATED"}
      /\ Last["order"] = {"DONE", "CANCELED"} /\ Last["pass"] = {"USED", "CANCELED", "EXPIRED"}
  BY DEF Last
<1> DEFINE Sound(m) == /\ m.row \in Rows /\ m.to \in DeskStatuses
                       /\ \A s \in m.from : s \notin Last[m.row]
<1>2. Sound(Process) /\ Sound(Reply) /\ Sound(CloseTicket) /\ Sound(Rate)
  BY <1>1 DEF Move, Process, Reply, CloseTicket, Rate, Rows, DeskStatuses
<1>3. Sound(CancelOrder) /\ Sound(Accept) /\ Sound(DoneOrder) /\ Sound(AdminCancel)
  BY <1>1 DEF Move, CancelOrder, Accept, DoneOrder, AdminCancel, Rows, DeskStatuses
<1>4. Sound(Verify) /\ Sound(CancelPass) /\ Verify.asks
  BY <1>1 DEF Move, Verify, CancelPass, Rows, DeskStatuses
<1>5. NoMove.row \notin Rows
  BY DEF NoMove, Move, Rows
<1>6. \A m \in Moves : m.asks => m = Verify
  BY DEF Moves, Move, Process, Reply, CloseTicket, Rate, CancelOrder, Accept, DoneOrder, AdminCancel, CancelPass
<1>7. \A m \in Moves : Sound(m)
  <2> HIDE DEF Sound
  <2> QED
    BY <1>2, <1>3, <1>4 DEF Moves
<1> QED
  BY <1>4, <1>5, <1>6, <1>7

\* At first no row is at its end.
LEMMA DeskInitInv == DeskInit => DeskInv
<1> SUFFICES ASSUME DeskInit PROVE DeskInv
  OBVIOUS
<1>1. AtRest \in [move : Moves \cup {NoMove}, fresh : BOOLEAN] /\ ~AtRest.fresh
  BY DEF AtRest
<1>2. First \in [Rows -> DeskStatuses] /\ \A r \in Rows : First[r] \notin Last[r]
  BY DEF First, Rows, DeskStatuses, Last
<1>3. DeskTypeOK
  BY <1>1, <1>2 DEF DeskInit, DeskTypeOK, DeskStatuses
<1> QED
  BY <1>1, <1>2, <1>3 DEF DeskInit, DeskInv

\* Who forgets its look, or has it made stale, looks at nothing new.
LEMMA WroteKeeps ==
  ASSUME DeskInv, NEW row \in Rows,
         NEW after \in [Clients -> [move : Moves \cup {NoMove}, fresh : BOOLEAN]]
  PROVE  /\ Wrote(row, after) \in [Clients -> [move : Moves \cup {NoMove}, fresh : BOOLEAN]]
         /\ \A c \in Clients : Wrote(row, after)[c].fresh =>
              after[c].fresh /\ Wrote(row, after)[c].move = after[c].move /\ after[c].move.row # row
BY DEF Wrote

\* The client that ends forgets its look.
LEMMA RestKeeps ==
  ASSUME DeskInv, NEW c \in Clients
  PROVE  LET after == [client EXCEPT ![c] = AtRest] IN
         /\ after \in [Clients -> [move : Moves \cup {NoMove}, fresh : BOOLEAN]]
         /\ \A d \in Clients : after[d].fresh => client[d].fresh /\ after[d].move = client[d].move
<1>1. AtRest \in [move : Moves \cup {NoMove}, fresh : BOOLEAN] /\ ~AtRest.fresh
  BY DEF AtRest
<1> QED
  BY <1>1 DEF DeskInv, DeskTypeOK

\* An update brings a row to its end from a status that is not one, or overtakes it.
LEMMA UpdateTicketStep == ASSUME DeskInv, NEW c \in Clients, Update(c) PROVE DeskInv'
<1> DEFINE m == client[c].move
           after == [client EXCEPT ![c] = AtRest]
           Looks == [move : Moves \cup {NoMove}, fresh : BOOLEAN]
<1>1. /\ client[c] # AtRest /\ client[c] \in Looks /\ m \in Moves
  <2>1. client[c] \in Looks /\ client[c] # AtRest
    BY DEF Update, DeskInv, DeskTypeOK
  <2>2. CASE m = NoMove
    <3>1. ~client[c].fresh
      BY <2>2, MovesAreSound DEF DeskInv
    <3> QED
      BY <2>1, <2>2, <3>1 DEF AtRest
  <2> QED
    BY <2>1, <2>2
<1>2. /\ after \in [Clients -> Looks]
      /\ \A d \in Clients : after[d].fresh => client[d].fresh /\ after[d].move = client[d].move
  BY RestKeeps
<1> HIDE DEF m, after, Looks
<1>3. CASE client' = after /\ UNCHANGED <<rowStatus, today, endings, overtaken>>
  BY <1>2, <1>3 DEF DeskInv, DeskTypeOK, Looks
<1>4. CASE /\ ~(m.asks /\ rowStatus[m.row] \notin m.from)
           /\ rowStatus' = [rowStatus EXCEPT ![m.row] = m.to]
           /\ endings' = IF m.to \in Last[m.row] THEN [endings EXCEPT ![m.row] = @ + 1] ELSE endings
           /\ overtaken' = IF client[c].fresh \/ m = Verify THEN overtaken ELSE overtaken \cup {m.row}
           /\ client' = Wrote(m.row, after)
           /\ UNCHANGED today
  <2>1. m.row \in Rows /\ m.to \in DeskStatuses /\ \A s \in m.from : s \notin Last[m.row]
    BY <1>1, MovesAreSound
  <2>2. /\ client' \in [Clients -> Looks]
        /\ \A d \in Clients : client'[d].fresh => /\ client[d].fresh /\ client'[d].move = client[d].move
                                                  /\ client[d].move.row # m.row
    BY <1>2, <1>4, <2>1, WroteKeeps DEF Looks
  <2>3. DeskTypeOK'
    BY <1>4, <2>1, <2>2 DEF DeskInv, DeskTypeOK, DeskStatuses, Looks
  <2>4. \A d \in Clients : client'[d].fresh => /\ client'[d].move \in Moves
                                               /\ rowStatus'[client'[d].move.row] \in client'[d].move.from
    BY <1>4, <2>1, <2>2, MovesAreSound DEF DeskInv, DeskTypeOK
  <2>5. m.row \notin overtaken' => m.row \notin overtaken /\ rowStatus[m.row] \in m.from
    BY <1>4, MovesAreSound DEF DeskInv, m
  <2>6. \A r \in Rows \ overtaken' : endings'[r] = IF rowStatus'[r] \in Last[r] THEN 1 ELSE 0
    <3> SUFFICES ASSUME NEW r \in Rows, r \notin overtaken'
                 PROVE  endings'[r] = IF rowStatus'[r] \in Last[r] THEN 1 ELSE 0
      OBVIOUS
    <3>1. r \notin overtaken
      BY <1>4
    <3>2. CASE r = m.row
      BY <1>4, <2>1, <2>5, <3>1, <3>2 DEF DeskInv, DeskTypeOK
    <3>3. CASE r # m.row
      BY <1>4, <2>1, <3>1, <3>3 DEF DeskInv, DeskTypeOK
    <3> QED
      BY <3>2, <3>3
  <2> QED
    BY <2>3, <2>4, <2>6 DEF DeskInv
<1> QED
  BY <1>3, <1>4 DEF Update, m, after

\* A look takes what it saw; the end of the day lets nobody in.
LEMMA LookTicketStep == ASSUME DeskInv, NEW c \in Clients, NEW m \in Moves, Look(c, m) PROVE DeskInv'
BY DEF Look, DeskInv, DeskTypeOK

\* The lazy expiry asks for the status as it updates.
LEMMA LazyExpireStep == ASSUME DeskInv, LazyExpire PROVE DeskInv'
<1>1. /\ rowStatus["pass"] = "ACTIVE" /\ rowStatus' = [rowStatus EXCEPT !["pass"] = "EXPIRED"]
      /\ endings' = [endings EXCEPT !["pass"] = @ + 1]
      /\ client' = Wrote("pass", client) /\ UNCHANGED <<today, overtaken>>
  BY DEF LazyExpire
<1>2. "pass" \in Rows /\ "ACTIVE" \notin Last["pass"] /\ "EXPIRED" \in Last["pass"]
  BY DEF Rows, Last
<1>3. /\ client' \in [Clients -> [move : Moves \cup {NoMove}, fresh : BOOLEAN]]
      /\ \A d \in Clients : client'[d].fresh => /\ client[d].fresh /\ client'[d].move = client[d].move
                                                /\ client[d].move.row # "pass"
  BY <1>1, <1>2, WroteKeeps DEF DeskInv, DeskTypeOK
<1>4. DeskTypeOK'
  BY <1>1, <1>2, <1>3 DEF DeskInv, DeskTypeOK
<1>5. \A d \in Clients : client'[d].fresh => /\ client'[d].move \in Moves
                                             /\ rowStatus'[client'[d].move.row] \in client'[d].move.from
  BY <1>1, <1>3, MovesAreSound DEF DeskInv, DeskTypeOK
<1>6. \A r \in Rows \ overtaken' : endings'[r] = IF rowStatus'[r] \in Last[r] THEN 1 ELSE 0
  BY <1>1, <1>2 DEF DeskInv, DeskTypeOK
<1> QED
  BY <1>4, <1>5, <1>6 DEF DeskInv

\* Clients, days that end and rows that expire keep the invariant.
LEMMA DeskNextInv == DeskInv /\ [DeskNext]_deskVars => DeskInv'
<1> SUFFICES ASSUME DeskInv, [DeskNext]_deskVars PROVE DeskInv'
  OBVIOUS
<1>1. CASE UNCHANGED deskVars
  BY <1>1 DEF deskVars, DeskInv, DeskTypeOK
<1>2. ASSUME NEW c \in Clients, Update(c) PROVE DeskInv'
  BY <1>2, UpdateTicketStep
<1>3. ASSUME NEW c \in Clients, ClientGivesUp(c) PROVE DeskInv'
  BY <1>3, RestKeeps DEF ClientGivesUp, DeskInv, DeskTypeOK
<1>4. ASSUME NEW c \in Clients, NEW m \in Moves, Look(c, m) PROVE DeskInv'
  BY <1>4, LookTicketStep
<1>5. CASE DayEnds
  BY <1>5 DEF DayEnds, DeskInv, DeskTypeOK
<1>6. CASE LazyExpire
  BY <1>6, LazyExpireStep
<1> QED
  BY <1>1, <1>2, <1>3, <1>4, <1>5, <1>6 DEF DeskNext

\* The service desk, for any number of clients at work at once: every row that no blind
\* update overtook ends once, and every variable has its type.
THEOREM EndsOnce == DeskSpec => [](DeskTypeOK /\ EndsOnceUnlessOvertaken)
<1>1. DeskInv => DeskTypeOK /\ EndsOnceUnlessOvertaken
  BY DEF DeskInv, EndsOnceUnlessOvertaken
<1> QED
  BY <1>1, DeskInitInv, DeskNextInv, PTL DEF DeskSpec

-----------------------------------------------------------------------------
(* The composition of the services that TLC checks *)

\* A step of the composition is a step of one service, and the others rest.
LEMMA OneServiceSteps ==
  ASSUME [ServicesNext]_allVars
  PROVE  \/ UNCHANGED allVars
         \/ NotifyNext /\ Others("notify")
         \/ IdempotencyNext /\ Others("idempotency")
         \/ CouponNext /\ Others("coupon")
         \/ ImportNext /\ Others("import")
         \/ PolicyNext /\ Others("policy")
         \/ BindingNext /\ Others("binding")
         \/ IncidentNext /\ Others("incidents")
         \/ MeterNext /\ Others("meter")
         \/ DeskNext /\ Others("desk")
         \/ EngineNext /\ Others("engine")
         \/ PayPageNext /\ Others("page")
<1>1. NotifyStep => NotifyNext /\ Others("notify")
  BY Zenon DEF NotifyStep, NotifyNext
<1>2. IdempotencyStep => IdempotencyNext /\ Others("idempotency")
  BY Zenon DEF IdempotencyStep, IdempotencyNext
<1>3. CouponStep => CouponNext /\ Others("coupon")
  BY Zenon DEF CouponStep, CouponNext
<1>4. ImportStep => ImportNext /\ Others("import")
  BY Zenon DEF ImportStep, ImportNext
<1>5. PolicyStep => PolicyNext /\ Others("policy")
  BY Zenon DEF PolicyStep, PolicyNext
<1>6. BindingStep => BindingNext /\ Others("binding")
  BY Zenon DEF BindingStep, BindingNext
<1>7. IncidentsStep => IncidentNext /\ Others("incidents")
  BY Zenon DEF IncidentsStep, IncidentNext
<1>8. MeterStep => MeterNext /\ Others("meter")
  BY Zenon DEF MeterStep, MeterNext
<1>9. DeskStep => DeskNext /\ Others("desk")
  BY Zenon DEF DeskStep, DeskNext
<1>10. EngineStep => EngineNext /\ Others("engine")
  BY Zenon DEF EngineStep, EngineNext
<1>11. PageStep => PayPageNext /\ Others("page")
  BY Zenon DEF PageStep, PayPageNext
<1> QED
  BY <1>1, <1>2, <1>3, <1>4, <1>5, <1>6, <1>7, <1>8, <1>9, <1>10, <1>11, Zenon DEF ServicesNext

\* What that means to each service.
LEMMA EachServiceSteps ==
  ASSUME [ServicesNext]_allVars
  PROVE  /\ UNCHANGED active
         /\ [NotifyNext]_notifyVars /\ [IdempotencyNext]_idempotencyVars /\ [CouponNext]_couponVars
         /\ [ImportNext]_importVars /\ [PolicyNext]_policyVars /\ [BindingNext]_bindingVars
         /\ [IncidentNext]_incidentVars /\ [MeterNext]_meterVars /\ [DeskNext]_deskVars
         /\ [EngineNext]_engineVars /\ [PayPageNext]_payPageVars
  BY OneServiceSteps DEF Others, allVars

\* The composition behaves like each of the services by itself, so that what is proved of
\* a service holds in what TLC checks (MCServices; no line of the code is about it).
THEOREM EachServiceIsItself ==
  ServicesSpec => /\ NotifySpec /\ IdempotencySpec /\ CouponSpec /\ ImportSpec /\ PolicySpec /\ BindingSpec
                  /\ IncidentSpec /\ MeterSpec /\ DeskSpec /\ EngineSpec /\ PayPageSpec
<1>1. ServicesInit => /\ NotifyInit /\ IdempotencyInit /\ CouponInit /\ ImportInit /\ PolicyInit /\ BindingInit
                      /\ IncidentInit /\ MeterInit /\ DeskInit /\ EngineInit /\ PayPageInit
  BY Zenon DEF ServicesInit
<1> QED
  BY <1>1, EachServiceSteps, PTL
  DEF ServicesSpec, NotifySpec, IdempotencySpec, CouponSpec, ImportSpec, PolicySpec, BindingSpec,
      IncidentSpec, MeterSpec, DeskSpec, EngineSpec, PayPageSpec

\* Every variable of every service keeps its type, whichever of them takes steps.
THEOREM ServicesTypesHold == ServicesSpec => []ServicesTypeOK
<1>1. ServicesSpec => [](active \in Services)
  <2>1. ServicesInit => active \in Services
    BY DEF ServicesInit
  <2>2. active \in Services /\ [ServicesNext]_allVars => (active \in Services)'
    BY EachServiceSteps
  <2> QED
    BY <2>1, <2>2, PTL DEF ServicesSpec
<1>2. CouponSpec => []CouponTypeOK
  <2>1. CouponInv => CouponTypeOK
    BY DEF CouponInv
  <2> QED
    BY <2>1, CouponInitInv, CouponNextInv, PTL DEF CouponSpec
<1>3. BindingSpec => []BindingTypeOK
  <2>1. BindingInv => BindingTypeOK
    BY DEF BindingInv
  <2> QED
    BY <2>1, BindingInitInv, BindingNextInv, PTL DEF BindingSpec
<1>4. /\ active \in Services /\ NotifyTypeOK /\ IdempotencyTypeOK /\ CouponTypeOK /\ ImportTypeOK /\ PolicyTypeOK
      /\ BindingTypeOK /\ IncidentTypeOK /\ MeterTypeOK /\ DeskTypeOK /\ EngineTypeOK /\ PayPageTypeOK
      => ServicesTypeOK
  BY Zenon DEF ServicesTypeOK
<1> QED
  BY <1>1, <1>2, <1>3, <1>4, EachServiceIsItself, NotifyTypeCorrect, IdempotencyTypeCorrect, PolicyTypeCorrect,
     ImportStaysSound, UsageAddsUp, EndsOnce, IncidentsKeepTypes, AmountsStayExact, PageStaysClear, PTL
=============================================================================
