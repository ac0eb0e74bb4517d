-------------------------- MODULE OrderStateMachine --------------------------
(***************************************************************************)
(* The transition table that every status change made through the order    *)
(* lifecycle service is checked against                                    *)
(* (backend/src/utils/enhancedOrderStateMachine.js), and the payment gate  *)
(* that transitionOrderState adds to it.                                   *)
(***************************************************************************)

States ==
    {"PLACED", "PAYMENT_PENDING", "PAYMENT_VERIFIED", "CONFIRMED",
     "PACKING_STARTED", "PACKED", "RIDER_ASSIGNED", "RIDER_ACCEPTED",
     "RIDER_REJECTED", "OUT_FOR_DELIVERY", "RIDER_NEARBY", "DELIVERED",
     "FAILED_DELIVERY", "CANCELLED", "REFUNDED"}

Roles == {"customer", "staff", "admin", "rider", "system"}

\* STATE_TRANSITIONS: the states an order may move to from state s.
Successors(s) ==
    CASE s = "PLACED"           -> {"PAYMENT_PENDING", "CONFIRMED", "CANCELLED"}
      [] s = "PAYMENT_PENDING"  -> {"PAYMENT_VERIFIED", "CANCELLED"}
      [] s = "PAYMENT_VERIFIED" -> {"CONFIRMED"}
      [] s = "CONFIRMED"        -> {"PACKING_STARTED", "PACKED", "CANCELLED"}
      [] s = "PACKING_STARTED"  -> {"PACKED", "CANCELLED"}
      [] s = "PACKED"           -> {"RIDER_ASSIGNED", "OUT_FOR_DELIVERY", "CANCELLED"}
      [] s = "RIDER_ASSIGNED"   -> {"RIDER_ACCEPTED", "RIDER_REJECTED", "PACKED"}
      [] s = "RIDER_REJECTED"   -> {"PACKED"}
      [] s = "RIDER_ACCEPTED"   -> {"OUT_FOR_DELIVERY"}
      [] s = "OUT_FOR_DELIVERY" -> {"RIDER_NEARBY", "DELIVERED", "FAILED_DELIVERY"}
      [] s = "RIDER_NEARBY"     -> {"DELIVERED", "FAILED_DELIVERY"}
      [] s = "DELIVERED"        -> {"REFUNDED"}
      [] s = "FAILED_DELIVERY"  -> {"PACKED", "REFUNDED", "CANCELLED"}
      [] s = "CANCELLED"        -> {"REFUNDED"}
      [] OTHER                  -> {}

\* TRANSITION_ACTORS: the roles that may put an order into state s.
Actors(s) ==
    CASE s = "PLACED"           -> {"customer", "system"}
      [] s = "PAYMENT_PENDING"  -> {"system"}
      [] s = "PAYMENT_VERIFIED" -> {"admin", "system"}
      [] s \in {"CONFIRMED", "PACKING_STARTED", "PACKED"} -> {"admin", "staff"}
      [] s = "RIDER_ASSIGNED"   -> {"admin", "system"}
      [] s \in {"RIDER_ACCEPTED", "RIDER_REJECTED"} -> {"rider"}
      [] s \in {"OUT_FOR_DELIVERY", "DELIVERED"}    -> {"rider", "admin", "staff"}
      [] s = "RIDER_NEARBY"     -> {"system", "admin"}
      [] s = "FAILED_DELIVERY"  -> {"rider", "admin"}
      [] s = "CANCELLED"        -> {"customer", "admin", "staff"}
      [] OTHER                  -> {"admin"}

\* canTransition: a request for the state the order is in already is allowed.
CanTransition(from, to) == from = to \/ to \in Successors(from)

CanActorTriggerState(to, role) == role \in Actors(to)

\* UNCONFIRMED_ORDER_STATUSES of the payment handlers.
Unconfirmed == {"PLACED", "PAYMENT_PENDING"}

\* PRE_STOCK_DEDUCTION_STATUSES: a cancel from one of these returns no stock.
PreStockDeduction == {"PLACED", "PAYMENT_PENDING", "PAYMENT_VERIFIED"}

ShouldRestoreStockOnCancel(status) == status \notin PreStockDeduction

\* The states an ONLINE order reaches only once it is paid (postConfirmStates).
PostConfirm ==
    {"CONFIRMED", "PACKING_STARTED", "PACKED", "RIDER_ASSIGNED",
     "RIDER_ACCEPTED", "OUT_FOR_DELIVERY", "DELIVERED"}

\* Mutant: only a FAILED payment is stopped.
PaymentGateUnlessFailed(mode, payStatus, to, override) ==
    mode = "ONLINE" /\ to \in PostConfirm => payStatus # "FAILED" \/ override

\* The payment gate of transitionOrderState: a COD order passes, an ONLINE one
\* must be PAID unless an admin overrides.
PaymentGate(mode, payStatus, to, override) ==
    mode = "ONLINE" /\ to \in PostConfirm => payStatus = "PAID" \/ override
==============================================================================
