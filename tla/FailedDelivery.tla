--------------------------- MODULE FailedDelivery ---------------------------
(***************************************************************************)
(* A delivery that fails: the rider reports it and brings the goods back,  *)
(* an admin decides (failedDelivery.service.js), beside the bare status    *)
(* changes of orderLifecycle.service.js that customers, riders and admins  *)
(* may ask for at the same time.                                           *)
(*                                                                         *)
(* One order that has been packed and has a rider.  The refund that the    *)
(* admin's decision starts is in Refunds, the hand-over in Doorstep.       *)
(***************************************************************************)
EXTENDS Naturals, OrderStateMachine

CONSTANTS
    Clerks,      \* bound: status changes in flight at once
    MaxOutings,  \* bound: times the order leaves the store
    MaxTasks     \* bound: tasks open at once

ASSUME FailedAssumption == MaxOutings \in Nat /\ MaxTasks \in Nat

VARIABLES
    order,     \* orders: status, failed_delivery_resolution, returned_at
    tasks,     \* open admin_tasks of type failed_delivery
    clerk,     \* what each status change in flight is doing
    outings,   \* history: times the order left the store
    inStore    \* history: the goods are in the store

goods      == <<outings, inStore>>
failedVars == <<order, tasks, clerk, goods>>

\* orders.status: the lifecycle's states and the legacy one of the rider;
\* PICKED_UP stands for ON_THE_WAY as well.
OrderStatuses == States \cup {"PICKED_UP"}

\* RIDER_FAILABLE_ORDER_STATUSES: the order is on its way.
Failable == {"OUT_FOR_DELIVERY", "PICKED_UP", "RIDER_NEARBY"}

Decisions   == {"REDELIVER", "REFUND", "DISCARD"}
Resolutions == Decisions \cup {"none", "PENDING"}

Outcome(d) ==
    CASE d = "REDELIVER" -> "PACKED"
      [] d = "REFUND"    -> "REFUNDED"
      [] d = "DISCARD"   -> "CANCELLED"

\* acceptOrder: the order leaves the store.
LeaveStore ==
    /\ order.st = "PACKED"
    /\ outings < MaxOutings
    /\ order' = [order EXCEPT !.st = "OUT_FOR_DELIVERY"]
    /\ outings' = outings + 1
    /\ inStore' = FALSE
    /\ UNCHANGED <<tasks, clerk>>

\* The rider's progress (updateDeliveryOrderStatus) and RIDER_NEARBY, which
\* tracking.service.js sets.
Advance(to) ==
    /\ \/ to = "PICKED_UP" /\ order.st = "OUT_FOR_DELIVERY"
       \/ to \in {"RIDER_NEARBY", "DELIVERED"} /\ order.st \in Failable
    /\ order' = [order EXCEPT !.st = to]
    /\ UNCHANGED <<tasks, clerk, goods>>

\* isOrderBlockedFromAssignment.
Blocked == order.st = "FAILED_DELIVERY" /\ order.res = "PENDING"

\* Mutant: an order that failed before gets no second task.
MarkOnce ==
    /\ order.st \in Failable
    /\ tasks < MaxTasks
    /\ order' = [order EXCEPT !.st = "FAILED_DELIVERY", !.res = "PENDING"]
    /\ tasks' = IF order.res = "none" THEN tasks + 1 ELSE tasks
    /\ UNCHANGED <<clerk, goods>>

\* markFailedDelivery: the order waits for an admin, who gets a task.
MarkFailedDelivery ==
    /\ order.st \in Failable
    /\ tasks < MaxTasks
    /\ order' = [order EXCEPT !.st = "FAILED_DELIVERY", !.res = "PENDING"]
    /\ tasks' = tasks + 1
    /\ UNCHANGED <<clerk, goods>>

\* confirmReturnToStore: once per order, for returned_at is never cleared.
ConfirmReturnToStore ==
    /\ Blocked
    /\ ~order.returned
    /\ order' = [order EXCEPT !.returned = TRUE]
    /\ inStore' = TRUE
    /\ UNCHANGED <<tasks, clerk, outings>>

\* resolveFailedDelivery, for which patchOrderCompat discards as well: every
\* open task of the order is resolved with it.
ResolveFailedDelivery(d) ==
    /\ Blocked
    /\ order.returned
    /\ order' = [order EXCEPT !.st = Outcome(d), !.res = d]
    /\ tasks' = 0
    /\ UNCHANGED <<clerk, goods>>

-----------------------------------------------------------------------------
\* transitionOrderState, for PATCH /admin/orders/:id, POST /transition and
\* POST /complete: it reads the status, then writes the new one whatever the
\* status is by then.

\* The states such a request asks for once an order is packed.
Askable == {"PACKED", "OUT_FOR_DELIVERY", "DELIVERED", "FAILED_DELIVERY",
            "CANCELLED", "REFUNDED"}

ClerkReads(c, to, role) ==
    /\ clerk[c] = "free"
    /\ CanActorTriggerState(to, role)
    /\ CanTransition(order.st, to)
    /\ clerk' = [clerk EXCEPT ![c] = to]
    /\ UNCHANGED <<order, tasks, goods>>

ClerkWrites(c) ==
    /\ clerk[c] # "free"
    /\ LET leaves == clerk[c] = "OUT_FOR_DELIVERY" /\ inStore
       IN  /\ leaves => outings < MaxOutings
           /\ outings' = IF leaves THEN outings + 1 ELSE outings
           /\ inStore' = (inStore /\ ~leaves)
    /\ order' = [order EXCEPT !.st = clerk[c]]
    /\ clerk' = [clerk EXCEPT ![c] = "free"]
    /\ UNCHANGED tasks

\* The write fails, or the process dies before it.
ClerkFails(c) ==
    /\ clerk[c] # "free"
    /\ clerk' = [clerk EXCEPT ![c] = "free"]
    /\ UNCHANGED <<order, tasks, goods>>

FailedInit ==
    /\ order = [st |-> "PACKED", res |-> "none", returned |-> FALSE]
    /\ tasks = 0
    /\ clerk = [c \in Clerks |-> "free"]
    /\ outings = 0
    /\ inStore = TRUE

FailedNext ==
    \/ LeaveStore
    \/ \E to \in {"PICKED_UP", "RIDER_NEARBY", "DELIVERED"} : Advance(to)
    \/ MarkFailedDelivery
    \/ ConfirmReturnToStore
    \/ \E d \in Decisions : ResolveFailedDelivery(d)
    \/ \E c \in Clerks, to \in Askable, role \in Roles : ClerkReads(c, to, role)
    \/ \E c \in Clerks : ClerkWrites(c) \/ ClerkFails(c)

FailedSpec == FailedInit /\ [][FailedNext]_failedVars

-----------------------------------------------------------------------------
\* Every variable of the failed delivery keeps its type; every status that is
\* written is one the order can have.
FailedTypeOK ==
    /\ order \in [st : OrderStatuses, res : Resolutions, returned : BOOLEAN]
    /\ tasks \in 0..MaxTasks
    /\ clerk \in [Clerks -> Askable \cup {"free"}]
    /\ outings \in 0..MaxOutings
    /\ inStore \in BOOLEAN

\* A failed delivery waits for an admin exactly as long as there is an open
\* task for it, also when a bare status change took the order away meanwhile
\* and it failed again (markFailedDelivery, resolveFailedDelivery).
PendingHasTask == order.res = "PENDING" <=> tasks > 0

\* What the service tells the admin: "Rider must confirm return to store before
\* admin resolution" (failedDelivery.service.js:501): a failed delivery is
\* resolved only when the goods are back in the store.
ResolvedOnlyInStore ==
    [][order.res = "PENDING" /\ order'.res \in Decisions => inStore]_failedVars
=============================================================================
