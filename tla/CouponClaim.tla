-------------------------------- MODULE CouponClaim --------------------------------
(***************************************************************************)
(* Owners claim a coupon with a limited stock and a limit per owner, at    *)
(* the desk of the mini program or because a payment grants it             *)
(* (claim and autoGrantOnPayment in coupons.service.ts), while an          *)
(* administrator changes the stock (admin-coupons.controller.ts).          *)
(*                                                                         *)
(* A claim tries the sequence numbers 0 to perUserLimit - 1, each in a     *)
(* transaction of its own; the unique key (coupon, owner, claimSeq)        *)
(* refuses a number that is taken.  The stock it compares with was read    *)
(* before the first of them.                                               *)
(***************************************************************************)
EXTENDS Naturals, FiniteSets

CONSTANTS
  Customers,     \* owners
  Claims,        \* concurrent requests to claim
  PerUserLimit,  \* Coupon.perUserLimit
  MaxStock       \* the largest totalQty an administrator sets (a bound)

ASSUME ClaimAssumption == PerUserLimit \in Nat \ {0} /\ MaxStock \in Nat \ {0} /\ IsFiniteSet(Customers)

VARIABLES
  totalQty,    \* Coupon.totalQty
  claimedQty,  \* Coupon.claimedQty
  stockPeak,   \* history: the largest totalQty so far
  userCoupons, \* <<owner, claimSeq>> with a UserCoupon
  clashed,     \* history: owners for whom a number was lost to a clash of codes
  told,        \* history: owners who were told that they had reached their limit
  claim        \* what each claim is doing

couponVars == <<totalQty, claimedQty, stockPeak, userCoupons, clashed, told, claim>>

Quantities == 1..MaxStock
ClaimRecords == [step : {"idle", "try"}, owner : Customers, seq : 0..PerUserLimit, saw : Quantities]

CouponTypeOK ==
  /\ totalQty \in Quantities /\ stockPeak \in Quantities
  /\ claimedQty \in Nat
  /\ userCoupons \in SUBSET (Customers \X (0..(PerUserLimit - 1)))
  /\ clashed \in SUBSET Customers /\ told \in SUBSET Customers
  /\ claim \in [Claims -> ClaimRecords]

CouponInit ==
  /\ totalQty \in Quantities /\ stockPeak = totalQty
  /\ claimedQty = 0 /\ userCoupons = {} /\ clashed = {} /\ told = {}
  /\ claim \in [Claims -> [step : {"idle"}, owner : Customers, seq : {0}, saw : {totalQty}]]

Claiming(c) == claim[c].step = "try"
EndClaim(c) == claim' = [claim EXCEPT ![c].step = "idle"]

\* The coupon is read once, outside every transaction.
BeginClaim(c, o) ==
  /\ ~Claiming(c)
  /\ claim' = [claim EXCEPT ![c] = [step |-> "try", owner |-> o, seq |-> 0, saw |-> totalQty]]
  /\ UNCHANGED <<totalQty, claimedQty, stockPeak, userCoupons, clashed, told>>

\* P2002: on to the next number, and out of the loop after the last.
NextSeq(c) ==
  LET o == claim[c].owner
      last == claim[c].seq + 1 >= PerUserLimit IN
  /\ claim' = IF last THEN [claim EXCEPT ![c].step = "idle"] ELSE [claim EXCEPT ![c].seq = @ + 1]
  /\ told' = IF last THEN told \cup {o} ELSE told

\* Fault: any claim may be stored.
InStockAlways(c) == TRUE
InStock(c) == claimedQty < claim[c].saw

\* COUPON_SOLD_OUT leaves the loop.
SoldOut(c) ==
  /\ Claiming(c) /\ ~InStock(c)
  /\ EndClaim(c)
  /\ UNCHANGED <<totalQty, claimedQty, stockPeak, userCoupons, clashed, told>>

Seat(c) == <<claim[c].owner, claim[c].seq>>

\* The transaction commits both rows.
Grant(c) ==
  /\ Claiming(c) /\ InStock(c) /\ Seat(c) \notin userCoupons
  /\ claimedQty' = claimedQty + 1
  /\ userCoupons' = userCoupons \cup {Seat(c)}
  /\ EndClaim(c)
  /\ UNCHANGED <<totalQty, stockPeak, clashed, told>>

\* Fault: the increment of a refused insert stays.
RollbackNot == claimedQty' = claimedQty + 1
\* The increment is in the transaction the insert fails in.
Rollback == claimedQty' = claimedQty

SeqTaken(c) ==
  /\ Claiming(c) /\ InStock(c) /\ Seat(c) \in userCoupons
  /\ NextSeq(c)
  /\ Rollback
  /\ UNCHANGED <<totalQty, stockPeak, userCoupons, clashed>>

\* The code of the coupon is taken since genCode looked.
CodeTaken(c) ==
  /\ Claiming(c) /\ InStock(c) /\ Seat(c) \notin userCoupons
  /\ clashed' = clashed \cup {claim[c].owner}
  /\ NextSeq(c)
  /\ Rollback
  /\ UNCHANGED <<totalQty, stockPeak, userCoupons>>

ClaimThrows(c) ==
  /\ Claiming(c)
  /\ EndClaim(c)
  /\ UNCHANGED <<totalQty, claimedQty, stockPeak, userCoupons, clashed, told>>

\* PATCH /admin/coupons/:id compares with nothing.
SetStock(n) ==
  /\ totalQty' = n
  /\ stockPeak' = IF n > stockPeak THEN n ELSE stockPeak
  /\ UNCHANGED <<claimedQty, userCoupons, clashed, told, claim>>

CouponNext ==
  \/ \E c \in Claims : SoldOut(c) \/ Grant(c) \/ SeqTaken(c) \/ CodeTaken(c) \/ ClaimThrows(c)
  \/ \E c \in Claims, o \in Customers : BeginClaim(c, o)
  \/ \E n \in Quantities : SetStock(n)

CouponSpec == CouponInit /\ [][CouponNext]_couponVars

-----------------------------------------------------------------------------
(* Properties *)

\* claimedQty counts the coupons that exist, whatever claims were refused half way.
CountedExactly == claimedQty = Cardinality(userCoupons)

\* No more coupons than the largest stock there ever was, though every claim compares
\* with a stock it read earlier.
WithinStock == claimedQty <= stockPeak

\* An owner who is told of the limit holds that many coupons: another owner's claims,
\* or an own one that was rolled back, do not cost a number (claim in
\* coupons.service.ts says that a sold-out coupon must not be reported as the limit).
LimitIsTold ==
  \A o \in told \ clashed : \A seq \in 0..(PerUserLimit - 1) : <<o, seq>> \in userCoupons

ClaimsAreCounted == CountedExactly /\ WithinStock /\ LimitIsTold

=============================================================================
