----------------------------- MODULE MCCheckout ------------------------------
(***************************************************************************)
(* Instances of Checkout for TLC, and the invariant over sums of orders.   *)
(***************************************************************************)
EXTENDS Checkout, TLC

CONSTANTS o1, o2, alice, bob

OneOrder     == {o1}
OwnerOfOne   == [o \in {o1} |-> alice]
QtyOfOne     == [o \in {o1} |-> 1]

TwoOrders    == {o1, o2}
SameOwner    == [o \in TwoOrders |-> alice]
TwoOwners    == (o1 :> alice) @@ (o2 :> bob)
QtyOfTwo     == (o1 :> 1) @@ (o2 :> 2)

WorkerSymmetry == Permutations(Workers)
==============================================================================
