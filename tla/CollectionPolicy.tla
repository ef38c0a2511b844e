------------------------------ MODULE CollectionPolicy ------------------------------
(***************************************************************************)
(* Pausing the collection of money (collection-policy.service.ts): a       *)
(* switch for the platform, one per tenant, one per community.  An order   *)
(* is created in a transaction that reads the three rows FOR SHARE, one    *)
(* after the other, before it inserts (assertOpenForUpdate, called by      *)
(* createPayment); a change of a switch waits for the orders that have     *)
(* read it.  Reading FOR SHARE locks the place of a row that does not      *)
(* exist yet as well, so a layer without a row is one that is open.        *)
(***************************************************************************)
EXTENDS Naturals, Sequences

CONSTANTS
  Layers,   \* platform, tenant and communities
  Checked,  \* the order in which an order's transaction asks them
  Orders    \* transactions that create an order

ASSUME LayersAssumption == Checked \in Seq(Layers)

VARIABLES
  paused,    \* layers whose switch is PAUSED
  creating,  \* how many layers the transaction has asked and holds, 0 before and after
  slipped    \* orders that were committed while a layer of theirs was paused

policyVars == <<paused, creating, slipped>>

PolicyTypeOK ==
  /\ paused \in SUBSET Layers
  /\ creating \in [Orders -> 0..Len(Checked)]
  /\ slipped \in SUBSET Orders

PolicyInit ==
  /\ paused \in SUBSET Layers
  /\ creating = [o \in Orders |-> 0]
  /\ slipped = {}

\* Fault: the rows are read without a lock.
HeldNot(l) == FALSE
Held(l) == \E o \in Orders : \E i \in 1..creating[o] : Checked[i] = l

\* set...Policy: an upsert of the row
SetPolicy(l) ==
  /\ ~Held(l)
  /\ \/ paused' = paused \cup {l}
     \/ paused' = paused \ {l}
  /\ UNCHANGED <<creating, slipped>>

\* COLLECTION_PAUSED rolls everything back.
CheckLayer(o) ==
  /\ creating[o] < Len(Checked)
  /\ creating' = [creating EXCEPT ![o] = IF Checked[@ + 1] \in paused THEN 0 ELSE @ + 1]
  /\ UNCHANGED <<paused, slipped>>

CommitOrder(o) ==
  /\ creating[o] = Len(Checked)
  /\ creating' = [creating EXCEPT ![o] = 0]
  /\ slipped' = IF \E i \in 1..Len(Checked) : Checked[i] \in paused THEN slipped \cup {o} ELSE slipped
  /\ UNCHANGED paused

OrderRollsBack(o) ==
  /\ creating[o] > 0
  /\ creating' = [creating EXCEPT ![o] = 0]
  /\ UNCHANGED <<paused, slipped>>

PolicyNext ==
  \/ \E l \in Layers : SetPolicy(l)
  \/ \E o \in Orders : CheckLayer(o) \/ CommitOrder(o) \/ OrderRollsBack(o)

PolicySpec == PolicyInit /\ [][PolicyNext]_policyVars

\* No order is created while any layer above it is paused, though the layers are asked
\* one after the other and switched at any time (the class comment of
\* CollectionPolicyService: a concurrent pause must not be bypassed).
PausedTakesNoOrder == slipped = {}

=============================================================================
