--------------------------- MODULE MCFailedDelivery ---------------------------
(***************************************************************************)
(* One order that leaves the store twice, for TLC: two requests at once.   *)
(***************************************************************************)
EXTENDS FailedDelivery
=============================================================================
