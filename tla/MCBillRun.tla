------------------------------- MODULE MCBillRun -------------------------------
(* Small instances of BillRun for TLC. *)
EXTENDS BillRun, TLC

\* Houses and runs are interchangeable in every safety property.
Symmetry == Permutations(Houses) \cup Permutations(Runs)
=============================================================================
