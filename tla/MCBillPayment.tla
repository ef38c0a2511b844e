------------------------------ MODULE MCBillPayment ------------------------------
(* Small instances of BillPayment for TLC. *)
EXTENDS BillPayment, TLC

\* Bills, coupons, orders and handlers are interchangeable in every safety property.
Symmetry == Permutations(Bills) \cup Permutations(Coupons) \cup Permutations(Payments)
              \cup Permutations(Requests)
=============================================================================
