-------------------------------- MODULE MoneyBack --------------------------------
(***************************************************************************)
(* What the refund code promises about a payment, without requests, tasks, *)
(* callbacks or lost answers: the books call the money returned only after *)
(* WeChat has sent it back, WeChat sends back only what was asked for, a   *)
(* refusal may be overtaken by a success but never the other way round,    *)
(* and the coupon the order had spent becomes free in the same step, once. *)
(* BillRefund implements it.                                               *)
(***************************************************************************)
CONSTANT Payments

VARIABLES
  charge,     \* the books: the money is kept, asked back, refused or returned
  sentBack,   \* payments whose money WeChat has sent back
  coupon      \* the coupon the payment spent, if it spent one

vars == <<charge, sentBack, coupon>>

TypeOK ==
  /\ charge \in [Payments -> {"kept", "asked", "refused", "returned"}]
  /\ sentBack \in SUBSET Payments
  /\ coupon \in [Payments -> {"none", "spent", "free", "redeemed"}]

Init ==
  /\ charge = [p \in Payments |-> "kept"]
  /\ sentBack = {}
  /\ coupon \in [Payments -> {"none", "spent"}]

Ask(p) ==
  /\ charge[p] \in {"kept", "refused"}
  /\ charge' = [charge EXCEPT ![p] = "asked"]
  /\ UNCHANGED <<sentBack, coupon>>

Refuse(p) ==
  /\ charge[p] = "asked"
  /\ charge' = [charge EXCEPT ![p] = "refused"]
  /\ UNCHANGED <<sentBack, coupon>>

SendBack(p) ==
  /\ charge[p] \in {"asked", "refused"}
  /\ sentBack' = sentBack \cup {p}
  /\ UNCHANGED <<charge, coupon>>

GiveBack(p) ==
  /\ charge[p] \in {"asked", "refused"}
  /\ p \in sentBack
  /\ charge' = [charge EXCEPT ![p] = "returned"]
  /\ coupon' = [coupon EXCEPT ![p] = IF @ = "spent" THEN "free" ELSE @]
  /\ UNCHANGED sentBack

Redeem(p) ==
  /\ coupon[p] = "free"
  /\ coupon' = [coupon EXCEPT ![p] = "redeemed"]
  /\ UNCHANGED <<charge, sentBack>>

Next == \E p \in Payments : Ask(p) \/ Refuse(p) \/ SendBack(p) \/ GiveBack(p) \/ Redeem(p)

Spec == Init /\ [][Next]_vars
=============================================================================
