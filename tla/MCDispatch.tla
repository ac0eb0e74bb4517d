----------------------------- MODULE MCDispatch -----------------------------
(***************************************************************************)
(* Instances of Dispatch for TLC.                                          *)
(***************************************************************************)
EXTENDS Dispatch, TLC

CONSTANTS o1, o2

OneOrder  == {o1}
TwoOrders == {o1, o2}

\* Without a crash, which MCDispatchBatch has: two procedures at once, and whatever
\* is asked, any number of times.
UpNext == ((OwnStep \/ Request) /\ alone' = StillAlone) \/ Bulk
UpSpec == Init /\ [][UpNext]_vars

Symmetry == Permutations(Jobs) \cup Permutations(Riders)
=============================================================================
