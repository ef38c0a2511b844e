-------------------------------- MODULE BillLedger --------------------------------
(***************************************************************************)
(* What the payment code promises about a bill, without WeChat, tasks or   *)
(* coupons: a bill is held by one payment at a time, only its holder       *)
(* settles it, a settled or void bill never becomes payable again, not     *)
(* even when its payment is given back, and a payment belongs to one bill  *)
(* for ever.  BillPayment implements it.                                   *)
(***************************************************************************)
CONSTANTS Bills, Payments, None

VARIABLES
  entry,    \* [state, holder] of each bill
  used      \* the payments that have ever held or settled a bill

vars == <<entry, used>>

States == {"open", "held", "settled", "void", "returned"}

TypeOK ==
  /\ entry \in [Bills -> [state : States, holder : Payments \cup {None}]]
  /\ used \in SUBSET Payments

Init ==
  /\ entry = [b \in Bills |-> [state |-> "open", holder |-> None]]
  /\ used = {}

Write(b, s, p) == entry' = [entry EXCEPT ![b] = [state |-> s, holder |-> p]]
Is(b, s)       == entry[b].state = s

Hold(b, p) == /\ Is(b, "open")
              /\ p \notin used
              /\ used' = used \cup {p}
              /\ Write(b, "held", p)

Release(b) == Is(b, "held") /\ Write(b, "open", None) /\ UNCHANGED used

Settle(b) == Is(b, "held") /\ Write(b, "settled", entry[b].holder) /\ UNCHANGED used

SettleAtOnce(b, p) == /\ Is(b, "open")
                      /\ p \notin used
                      /\ used' = used \cup {p}
                      /\ Write(b, "settled", p)

Cancel(b) == Is(b, "open") /\ Write(b, "void", None) /\ UNCHANGED used

GiveBack(b) == Is(b, "settled") /\ Write(b, "returned", entry[b].holder) /\ UNCHANGED used

Next == \E b \in Bills :
  \/ \E p \in Payments : Hold(b, p) \/ SettleAtOnce(b, p)
  \/ Release(b) \/ Settle(b) \/ Cancel(b) \/ GiveBack(b)

Spec == Init /\ [][Next]_vars
=============================================================================
