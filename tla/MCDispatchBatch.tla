--------------------------- MODULE MCDispatchBatch ---------------------------
(***************************************************************************)
(* Two orders and two procedures reach too many states when everything may *)
(* be asked again and again: here MaxRequests requests come in, whichever  *)
(* they are (a crash counts as one).                                       *)
(***************************************************************************)
EXTENDS MCDispatch

CONSTANT MaxRequests
VARIABLE asked

BoundedInit == Init /\ asked = 0
BoundedNext ==
    \/ OwnStep /\ alone' = StillAlone /\ UNCHANGED asked
    \/ /\ asked < MaxRequests
       /\ asked' = asked + 1
       /\ \/ Request /\ alone' = StillAlone
          \/ Bulk
          \/ Crash
BoundedSpec == BoundedInit /\ [][BoundedNext]_<<vars, asked>>

\* The fairness of LiveSpec, which says nothing of requests.
LiveBoundedSpec ==
    /\ BoundedSpec
    /\ \A w \in Jobs : WF_vars(JobStep(w) /\ alone' = StillAlone /\ UNCHANGED asked)
    /\ \A o \in Orders :
         SF_vars(\E w \in Jobs : TimerFires(w, o) /\ alone' = StillAlone /\ UNCHANGED asked)
=============================================================================
