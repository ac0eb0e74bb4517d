------------------------------ MODULE MCRefunds ------------------------------
(***************************************************************************)
(* Instances of Refunds for TLC.  A line that cost the whole order comes    *)
(* up short by nothing, by a part, or by more than was paid: the refund is  *)
(* worked out from the price of the product, the payment had a coupon.      *)
(***************************************************************************)
EXTENDS Refunds, TLC

CONSTANTS o1, i1, i2

OneOrder   == {o1}
PriceOfOne == [o \in {o1} |-> 2]

OneLine  == {i1}
TwoLines == {i1, i2}

ShortByUpTo1  == [{i1} -> {0, 1}]
ShortByUpTo3  == [{i1} -> {0, 1, 3}]
TwoLinesShort == [{i1, i2} -> {0, 1}]

WorkerSymmetry == Permutations(Workers)
==============================================================================
