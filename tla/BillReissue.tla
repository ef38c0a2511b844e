-------------------------------- MODULE BillReissue --------------------------------
(***************************************************************************)
(* The bills of one house and period, and their reissue after they were    *)
(* canceled or refunded (bill-workflow.service.ts: reissueBill).           *)
(*                                                                         *)
(* A reissue reads the bill, and then, in a transaction that locks         *)
(* nothing, the bills still alive and after that inserts the new one.      *)
(* Requests of several administrators overlap; one that dies takes no      *)
(* further step.  Idempotency keys are left out: a repeated request is     *)
(* answered with the first one's response.  Drafts and the steps of a      *)
(* refund are left out: a bill is alive in all of them.                    *)
(***************************************************************************)
EXTENDS Integers

CONSTANTS
  Generated,   \* fees billed by a rule; the rule is named by the fee
  Imported,    \* fees imported without a rule, told apart by their titles
  Last,        \* bounds the reissues
  Requests,    \* reissues under way at once
  Absent       \* NULL

ASSUME LastReissueAssumption == Last \in Nat
ASSUME ReissueNamesAssumption ==
  /\ Generated \cap Imported = {}
  /\ (Generated \cup Imported) \cap (1 .. Last) = {}
  /\ Absent \notin Generated \cup Imported \cup (1 .. Last)

VARIABLES
  bill,        \* the rows: the first bill of a fee is named by the fee, reissues are numbered
  request,     \* what each reissue is doing
  reissuesCrossed  \* history: two reissues of one fee were both past the check for a live bill

reissueVars == <<bill, request, reissuesCrossed>>

Fees     == Generated \cup Imported
Bills    == Fees \cup (1 .. Last)
Statuses == {"NONE", "UNPAID", "PAID", "CANCELED", "REFUNDED"}
Closed   == {"CANCELED", "REFUNDED"}
NoReissue == [step |-> "idle", bill |-> Absent]

\* fee is the title; ruleId, snapshot.originalRuleId and replacesBillId are the columns.
NoBill == [status |-> "NONE", fee |-> Absent, ruleId |-> Absent, originalRuleId |-> Absent,
           replaces |-> Absent]

ReissueTypeOK ==
  /\ bill \in [Bills -> [status : Statuses, fee : Fees \cup {Absent}, ruleId : Generated \cup {Absent},
                         originalRuleId : Generated \cup {Absent}, replaces : Bills \cup {Absent}]]
  /\ request \in [Requests -> [step : {"idle", "read", "create"}, bill : Bills \cup {Absent}]]
  /\ reissuesCrossed \in BOOLEAN

First(f) == [NoBill EXCEPT !.status = "UNPAID", !.fee = f,
                           !.ruleId = IF f \in Generated THEN f ELSE Absent]

ReissueInit ==
  /\ bill = [b \in Bills |-> IF b \in Fees THEN First(b) ELSE NoBill]
  /\ request = [r \in Requests |-> NoReissue]
  /\ reissuesCrossed = FALSE

Alive(b) == bill[b].status \notin Closed \cup {"NONE"}

\* effectiveRuleOf: the bill's rule, or the rule its snapshot remembers.
EffectiveRule(b) == IF bill[b].ruleId # Absent THEN bill[b].ruleId ELSE bill[b].originalRuleId

\* Fault: a bill is only compared with those that replace it.
ClashesWithReplacement(b, s) == bill[s].replaces = b

\* The bill s is taken for the fee of b: the same rule, or the same title when neither has one.
Clashes(b, s) ==
  /\ EffectiveRule(s) = EffectiveRule(b)
  /\ EffectiveRule(b) = Absent => bill[s].fee = bill[b].fee

-----------------------------------------------------------------------------
(* reissueBill *)

BeginReissue(r, b) ==
  /\ request[r].step = "idle"
  /\ bill[b].status \in Closed
  /\ request' = [request EXCEPT ![r] = [step |-> "read", bill |-> b]]
  /\ UNCHANGED <<bill, reissuesCrossed>>

SameFee(q, r) == bill[request[q].bill].fee = bill[request[r].bill].fee

ReadSiblings(r) ==
  LET b == request[r].bill IN
  /\ request[r].step = "read"
  /\ IF \E s \in Bills : Alive(s) /\ Clashes(b, s)
     THEN request' = [request EXCEPT ![r] = NoReissue] /\ UNCHANGED reissuesCrossed
     ELSE /\ request' = [request EXCEPT ![r].step = "create"]
          /\ reissuesCrossed' = (\/ reissuesCrossed
                                 \/ \E q \in Requests \ {r} : request[q].step = "create" /\ SameFee(q, r))
  /\ UNCHANGED bill

\* Fault: the snapshot names the bill where it should name the rule.
ReissueNamesBill(b) == [status |-> "UNPAID", fee |-> bill[b].fee, ruleId |-> Absent,
                        originalRuleId |-> b, replaces |-> b]

\* The new row of b: no rule, and b's own rule in its snapshot.
Reissue(b) == [status |-> "UNPAID", fee |-> bill[b].fee, ruleId |-> Absent,
               originalRuleId |-> bill[b].ruleId, replaces |-> b]

CreateReissue(r) ==
  /\ request[r].step = "create"
  /\ \E new \in 1 .. Last :
       /\ bill[new].status = "NONE"
       /\ \A n \in 1 .. new - 1 : bill[n].status # "NONE"
       /\ bill' = [bill EXCEPT ![new] = Reissue(request[r].bill)]
  /\ request' = [request EXCEPT ![r] = NoReissue]
  /\ UNCHANGED reissuesCrossed

-----------------------------------------------------------------------------
(* What becomes of a bill elsewhere: cancelBill, settlement, refund *)

Move(b, from, to) ==
  /\ bill[b].status = from
  /\ bill' = [bill EXCEPT ![b].status = to]
  /\ UNCHANGED <<request, reissuesCrossed>>

ReissueNext ==
  \/ \E r \in Requests, b \in Bills : BeginReissue(r, b)
  \/ \E r \in Requests : ReadSiblings(r) \/ CreateReissue(r)
  \/ \E b \in Bills : \/ Move(b, "UNPAID", "CANCELED")
                      \/ Move(b, "UNPAID", "PAID")
                      \/ Move(b, "PAID", "REFUNDED")

ReissueSpec == ReissueInit /\ [][ReissueNext]_reissueVars

-----------------------------------------------------------------------------
(* Properties *)

\* Of each fee at most one bill is alive, so the owner cannot pay it twice.  The code does not
\* keep this: a bill reissued twice in a row has lost its rule.
OneLivePerFee ==
  \A b, c \in Bills : Alive(b) /\ Alive(c) /\ bill[b].fee = bill[c].fee => b = c

\* A generated bill that no longer knows its rule.
Forgotten(b) == bill[b].fee \in Generated /\ EffectiveRule(b) = Absent

\* Of each fee at most one bill is alive, whatever chains of cancellations, refunds and reissues
\* led there, except for bills that lost their rule and for reissues of one fee that were both
\* past the check.
OneLiveUnlessForgotten ==
  ~reissuesCrossed => \A b, c \in Bills :
    Alive(b) /\ Alive(c) /\ bill[b].fee = bill[c].fee => b = c \/ Forgotten(b) \/ Forgotten(c)
=============================================================================
