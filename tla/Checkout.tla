------------------------------ MODULE Checkout -------------------------------
(***************************************************************************)
(* Orders, their online payments, the stock and the coupon they consume.   *)
(*                                                                         *)
(* A handler that runs inside one PostgreSQL transaction and locks the     *)
(* rows it decides on is one action.  A handler that reads without a lock, *)
(* awaits the gateway, or spreads its writes over several statements is a  *)
(* job of a worker: one action per statement, and any other handler may    *)
(* run in between.  A job may die between two of its steps.                *)
(*                                                                         *)
(* Payment rows of an order are numbered in created_at order; the handlers *)
(* that look up "the" payment take the latest.  The gateway knows one      *)
(* order per merchant order id, so its status is per order, not per row.   *)
(* INITIATED rows are never written any more and are left out, and so is a *)
(* webhook with the wrong amount: it is dropped, like a lost one.          *)
(***************************************************************************)
EXTENDS Integers, FiniteSets, Functions, OrderStateMachine

CONSTANTS
    Orders,       \* order ids
    Owner,        \* the customer of each order
    Qty,          \* units of the one product each order takes
    InitStock,    \* units on the shelf at the start
    MaxUses,      \* coupons.max_uses of the one coupon
    Workers,      \* bound: multi-statement handlers in flight at once
    MaxRows,      \* bound: payment rows per order
    MaxRestores,  \* bound: no cancel starts once this many restores ran
    Targets,      \* statuses requested through the transition endpoints
    Requesters,   \* roles that use them
    Cancellers    \* roles that use the cancelling endpoints

ASSUME CheckoutAssumption ==
    /\ IsFiniteSet(Orders)
    /\ Qty \in [Orders -> Nat \ {0}]
    /\ InitStock \in Nat
    /\ MaxUses \in Nat
    /\ MaxRows \in Nat
    /\ MaxRestores \in Nat
    /\ Targets \subseteq States \ Unconfirmed
    /\ Requesters \subseteq Roles \ {"system"}
    /\ Cancellers \subseteq {"customer", "admin"}

VARIABLES
    status,     \* orders.status, "NONE" before the order exists
    mode,       \* orders.payment_mode
    pay,        \* orders.payment_status
    coupon,     \* coupon_id and coupon_released_at: none, held or released
    rows,       \* number of payment_transactions rows
    pt,         \* their statuses, in created_at order
    gw,         \* order status at the gateway (external)
    hooks,      \* webhooks the gateway has sent; any number of deliveries
    stock,      \* products.stock
    used,       \* coupons.used_count
    refund,     \* full refund of a cancelled order
    job,        \* what each worker is doing
    restored,   \* history: how often an order's units were put back
    overridden  \* history: orders an admin moved past the payment gate

orderVars   == <<status, mode, pay>>
couponVars  == <<coupon, used>>
paymentVars == <<rows, pt>>
gatewayVars == <<gw, hooks>>
historyVars == <<restored, overridden>>
vars == <<orderVars, couponVars, paymentVars, gatewayVars, stock, refund, job,
          historyVars>>

NoOrder  == "NONE"
Statuses == States \cup {NoOrder}
Modes   == {"COD", "ONLINE"}
Settled == {"SUCCESS", "REFUNDED"}

Row(o)           == 1..rows[o]
LatestIs(o, st)  == rows[o] > 0 /\ pt[o][rows[o]] = st
HasPendingRow(o) == \E i \in Row(o) : pt[o][i] = "PENDING"
Holders          == {o \in Orders : coupon[o] = "held"}

Idle == [pc |-> "idle"]
JobOn(o) == \E w \in Workers : job[w] # Idle /\ job[w].order = o

InitiateJob(o) == [pc |-> "initiate", order |-> o]
CancelJob(o, role) == [pc |-> "cancelRead", order |-> o, role |-> role]
TransitionJob(o, to, role, override, refunding) ==
    [pc |-> "read", order |-> o, to |-> to, role |-> role,
     override |-> override, refunding |-> refunding]
ReconcileJob(o, i) == [pc |-> "poll", order |-> o, row |-> i]

At(w, pc) == job[w].pc = pc
Goto(w, j) == job' = [job EXCEPT ![w] = j]
Done(w)    == Goto(w, Idle)

------------------------------------------------------------------------------
\* What the handlers share.

\* Mutant: the look-up of the customer's other orders is left out.
CouponValidForAnyone(o) == used < MaxUses

\* validateCouponForOrder on the locked coupon row.
CouponValid(o) ==
    /\ used < MaxUses
    /\ \A p \in Holders : Owner[p] # Owner[o]

\* Mutants: the release runs without "AND used_count > 0", or only marks.
ReleaseCouponUnchecked(o) ==
    /\ coupon' = [coupon EXCEPT ![o] = IF @ = "held" THEN "released" ELSE @]
    /\ used' = IF coupon[o] = "held" THEN used - 1 ELSE used

ReleaseCouponMarkOnly(o) ==
    /\ coupon' = [coupon EXCEPT ![o] = IF @ = "held" THEN "released" ELSE @]
    /\ UNCHANGED used

\* releaseCouponForOrder inside a transaction.
ReleaseCoupon(o) ==
    /\ coupon' = [coupon EXCEPT ![o] = IF @ = "held" THEN "released" ELSE @]
    /\ used' = IF coupon[o] = "held" /\ used > 0 THEN used - 1 ELSE used

\* Mutant: one unit is taken whatever the quantity.
ReserveOneUnit(o) ==
    /\ stock >= Qty[o]
    /\ stock' = stock - 1

\* reserveStockForPaidOrder: throws, rolling everything back, when short.
ReserveStock(o) ==
    /\ stock >= Qty[o]
    /\ stock' = stock - Qty[o]

\* Mutant: the update misses orders in PAYMENT_PENDING.
ConfirmOnlyPlaced(o) ==
    /\ ReserveStock(o)
    /\ IF status[o] = "PLACED"
       THEN /\ status' = [status EXCEPT ![o] = "CONFIRMED"]
            /\ pay' = [pay EXCEPT ![o] = "PAID"]
       ELSE UNCHANGED <<status, pay>>

\* confirmOrderAfterPayment: stock first, then an update guarded by status.
ConfirmOrderAfterPayment(o) ==
    /\ ReserveStock(o)
    /\ IF status[o] \in Unconfirmed
       THEN /\ status' = [status EXCEPT ![o] = "CONFIRMED"]
            /\ pay' = [pay EXCEPT ![o] = "PAID"]
       ELSE UNCHANGED <<status, pay>>

\* Mutant: a SUCCESS row is applied again, its order confirmed or not.
SuccessAppliesAgain(o, i) == pt[o][i] \in {"PENDING", "SUCCESS"}

\* applyPaymentSuccess does something only for a pending row, or for a SUCCESS
\* row whose order was never confirmed.
SuccessApplies(o, i) ==
    \/ pt[o][i] = "PENDING"
    \/ pt[o][i] = "SUCCESS" /\ status[o] \in Unconfirmed

ApplyPaymentSuccess(o, i) ==
    /\ SuccessApplies(o, i)
    /\ pt' = [pt EXCEPT ![o][i] = "SUCCESS"]
    /\ ConfirmOrderAfterPayment(o)
    /\ UNCHANGED <<mode, couponVars, rows, gatewayVars, refund, historyVars>>

\* applyPaymentFailure: neither update looks at the status it overwrites.
ApplyPaymentFailure(o, i) ==
    /\ pt' = [pt EXCEPT ![o][i] = "FAILED"]
    /\ status' = [status EXCEPT ![o] = "CANCELLED"]
    /\ pay' = [pay EXCEPT ![o] = "FAILED"]
    /\ ReleaseCoupon(o)
    /\ UNCHANGED <<mode, rows, gatewayVars, stock, refund, historyVars>>

------------------------------------------------------------------------------
\* Placing an order.

\* createOrder: one transaction over the locked product and coupon rows.  An
\* unusable coupon is silently ignored; only COD takes the stock at once.
CreateOrder(o, m, couponAsked) ==
    /\ status[o] = NoOrder
    /\ stock >= Qty[o]
    /\ LET charged == couponAsked /\ CouponValid(o) IN
        /\ coupon' = [coupon EXCEPT ![o] = IF charged THEN "held" ELSE "none"]
        /\ used' = IF charged THEN used + 1 ELSE used
    /\ mode' = [mode EXCEPT ![o] = m]
    /\ status' = [status EXCEPT ![o] =
                    IF m = "COD" THEN "CONFIRMED" ELSE "PAYMENT_PENDING"]
    /\ stock' = IF m = "COD" THEN stock - Qty[o] ELSE stock
    /\ UNCHANGED <<pay, paymentVars, gatewayVars, refund, job, historyVars>>

------------------------------------------------------------------------------
\* The payment handlers.

\* initiatePayment reads the order without a lock; a pending row is reused.
InitiateStart(w, o) ==
    /\ job[w] = Idle
    /\ status[o] \in Unconfirmed
    /\ mode[o] = "ONLINE"
    /\ ~HasPendingRow(o)
    /\ Goto(w, InitiateJob(o))
    /\ UNCHANGED <<orderVars, couponVars, paymentVars, gatewayVars, stock, refund,
                   historyVars>>

\* ... and, once the gateway has answered with a session, inserts a row.
InitiateFinish(w) ==
    /\ At(w, "initiate")
    /\ LET o == job[w].order IN
        /\ gw[o] \in {"NONE", "ACTIVE"}
        /\ rows[o] < MaxRows
        /\ gw' = [gw EXCEPT ![o] = "ACTIVE"]
        /\ rows' = [rows EXCEPT ![o] = @ + 1]
        /\ pt' = [pt EXCEPT ![o][rows[o] + 1] = "PENDING"]
    /\ Done(w)
    /\ UNCHANGED <<orderVars, couponVars, hooks, stock, refund, historyVars>>

\* The gateway may refuse an order id it knows already: rolled back, a 500.
InitiateRefused(w) ==
    /\ At(w, "initiate")
    /\ gw[job[w].order] # "NONE"
    /\ Done(w)
    /\ UNCHANGED <<orderVars, couponVars, paymentVars, gatewayVars, stock, refund,
                   historyVars>>

\* handleWebhook locks the latest row and its order and acts on it only while
\* the row is pending; whatever happens the gateway is answered 200.
WebhookSuccess(o) ==
    /\ <<o, "SUCCESS">> \in hooks
    /\ LatestIs(o, "PENDING")
    /\ ApplyPaymentSuccess(o, rows[o])
    /\ UNCHANGED job

\* Mutant: a failure is applied to a row that is not pending any more.
WebhookFailedAnyRow(o) ==
    /\ <<o, "FAILED">> \in hooks
    /\ rows[o] > 0
    /\ ApplyPaymentFailure(o, rows[o])
    /\ UNCHANGED job

WebhookFailed(o) ==
    /\ <<o, "FAILED">> \in hooks
    /\ LatestIs(o, "PENDING")
    /\ ApplyPaymentFailure(o, rows[o])
    /\ UNCHANGED job

\* Mutants: ACTIVE is read as paid; EXPIRED is missing from the failures.
GatewaySaysPaidIfActive(o) == gw[o] \in {"ACTIVE", "PAID"}

GatewaySaysCancelled(o) == gw[o] \in {"FAILED", "CANCELLED"}

\* What an answer of the gateway's order API means.
GatewaySaysPaid(o)    == gw[o] = "PAID"
GatewaySaysExpired(o) == gw[o] = "EXPIRED"

\* getPaymentStatus and verifyPayment lock the latest row and, while it is
\* pending, ask the gateway; a SUCCESS row whose order is open is confirmed.
Confirmable(o) ==
    LatestIs(o, "SUCCESS") \/ (LatestIs(o, "PENDING") /\ GatewaySaysPaid(o))

PollPayment(o) ==
    \/ Confirmable(o) /\ ApplyPaymentSuccess(o, rows[o])
    \/ /\ LatestIs(o, "PENDING")
       /\ GatewaySaysExpired(o)
       /\ ApplyPaymentFailure(o, rows[o])

GetPaymentStatus(o) == PollPayment(o) /\ UNCHANGED job

VerifyPayment(o) == PollPayment(o) /\ UNCHANGED job

\* abandonPayment after the customer dismissed the checkout: the order stays
\* open for a retry (applyPaymentAbandon).
AbandonPayment(o) ==
    /\ mode[o] = "ONLINE"
    /\ status[o] \in Unconfirmed
    /\ ~LatestIs(o, "SUCCESS")
    /\ pt' = IF LatestIs(o, "PENDING")
             THEN [pt EXCEPT ![o][rows[o]] = "FAILED"] ELSE pt
    /\ pay' = [pay EXCEPT ![o] = "FAILED"]
    /\ UNCHANGED <<status, mode, couponVars, rows, gatewayVars, stock, refund, job,
                   historyVars>>

\* abandonPayment with a definitive reason (declined, sdk or network error).
\* Without a payment row the order is cancelled and keeps its coupon.
AbandonDefinitively(o) ==
    /\ mode[o] = "ONLINE"
    /\ status[o] \in Unconfirmed
    /\ ~LatestIs(o, "SUCCESS")
    /\ \/ rows[o] > 0 /\ ApplyPaymentFailure(o, rows[o])
       \/ /\ rows[o] = 0
          /\ status' = [status EXCEPT ![o] = "CANCELLED"]
          /\ pay' = [pay EXCEPT ![o] = "FAILED"]
          /\ UNCHANGED <<mode, couponVars, paymentVars, gatewayVars, stock, refund,
                         historyVars>>
    /\ UNCHANGED job

------------------------------------------------------------------------------
\* The reconciliation job, one row at a time: reconcileStalePayments.

\* The batch query; how long a row must have been pending is left open.
ReconcilePick(w, o, i) ==
    /\ job[w] = Idle
    /\ i <= rows[o]
    /\ pt[o][i] = "PENDING"
    /\ mode[o] = "ONLINE"
    /\ status[o] \in Unconfirmed
    /\ Goto(w, ReconcileJob(o, i))
    /\ UNCHANGED <<orderVars, couponVars, paymentVars, gatewayVars, stock, refund,
                   historyVars>>

\* Paid at the gateway: the shared success handler, committed if it applied.
ReconcileSuccess(w) ==
    /\ At(w, "poll")
    /\ GatewaySaysPaid(job[w].order)
    /\ ApplyPaymentSuccess(job[w].order, job[w].row)
    /\ Done(w)

\* Expired at the gateway: the row is failed whatever it has become meanwhile,
ReconcileFailRow(w) ==
    /\ At(w, "poll")
    /\ GatewaySaysExpired(job[w].order)
    /\ pt' = [pt EXCEPT ![job[w].order][job[w].row] = "FAILED"]
    /\ Goto(w, [job[w] EXCEPT !.pc = "cancelOrder"])
    /\ UNCHANGED <<orderVars, couponVars, rows, gatewayVars, stock, refund,
                   historyVars>>

\* then cancelOrderForPaymentFailure cancels the order if it is still open,
ReconcileCancelOrder(w) ==
    /\ At(w, "cancelOrder")
    /\ LET o == job[w].order IN
        IF status[o] \in Unconfirmed
        THEN /\ status' = [status EXCEPT ![o] = "CANCELLED"]
             /\ pay' = [pay EXCEPT ![o] = "FAILED"]
        ELSE UNCHANGED <<status, pay>>
    /\ Goto(w, [job[w] EXCEPT !.pc = "releaseRead"])
    /\ UNCHANGED <<mode, couponVars, paymentVars, gatewayVars, stock, refund,
                   historyVars>>

\* and releases the coupon without a transaction: three statements.
ReleaseRead(w) ==
    /\ At(w, "releaseRead")
    /\ IF coupon[job[w].order] = "held"
       THEN Goto(w, [job[w] EXCEPT !.pc = "releaseCount"])
       ELSE Done(w)
    /\ UNCHANGED <<orderVars, couponVars, paymentVars, gatewayVars, stock, refund,
                   historyVars>>

ReleaseCount(w) ==
    /\ At(w, "releaseCount")
    /\ used' = IF used > 0 THEN used - 1 ELSE used
    /\ Goto(w, [job[w] EXCEPT !.pc = "releaseMark"])
    /\ UNCHANGED <<orderVars, coupon, paymentVars, gatewayVars, stock, refund,
                   historyVars>>

ReleaseMark(w) ==
    /\ At(w, "releaseMark")
    /\ coupon' = [coupon EXCEPT ![job[w].order] = "released"]
    /\ Done(w)
    /\ UNCHANGED <<orderVars, used, paymentVars, gatewayVars, stock, refund,
                   historyVars>>

\* Nothing to do: the gateway still has the order open, or the success handler
\* finds the row settled or the shelf too empty and is rolled back.
ReconcileSkip(w) ==
    /\ At(w, "poll")
    /\ LET o == job[w].order IN
        \/ gw[o] = "ACTIVE"
        \/ GatewaySaysPaid(o) /\ ~(SuccessApplies(o, job[w].row) /\ stock >= Qty[o])
    /\ Done(w)
    /\ UNCHANGED <<orderVars, couponVars, paymentVars, gatewayVars, stock, refund,
                   historyVars>>

------------------------------------------------------------------------------
\* Status changes and cancellation: the order lifecycle service.

\* The transition endpoints start transitionOrderState directly, for a role
\* that may ever set the state; only PUT /orders/:id/status, by an admin, may
\* override the payment gate.
TransitionStart(w, o, to, role, override) ==
    /\ job[w] = Idle
    /\ status[o] # NoOrder
    /\ CanActorTriggerState(to, role)
    /\ override => role = "admin"
    /\ Goto(w, TransitionJob(o, to, role, override, FALSE))
    /\ UNCHANGED <<orderVars, couponVars, paymentVars, gatewayVars, stock, refund,
                   historyVars>>

\* transitionOrderState reads the order without a lock and validates,
TransitionAllowed(o, j) ==
    /\ CanTransition(status[o], j.to)
    /\ CanActorTriggerState(j.to, j.role)
    /\ PaymentGate(mode[o], pay[o], j.to, j.override)

TransitionRead(w) ==
    /\ At(w, "read")
    /\ LET o == job[w].order IN
        IF TransitionAllowed(o, job[w])
        THEN /\ Goto(w, [job[w] EXCEPT !.pc = "write"])
             /\ overridden' = IF PaymentGate(mode[o], pay[o], job[w].to, FALSE)
                              THEN overridden ELSE overridden \cup {o}
        ELSE Done(w) /\ UNCHANGED overridden
    /\ UNCHANGED <<orderVars, couponVars, paymentVars, gatewayVars, stock, refund,
                   restored>>

\* then writes the new status over whatever the order's status is by now.
TransitionWrite(w) ==
    /\ At(w, "write")
    /\ status' = [status EXCEPT ![job[w].order] = job[w].to]
    /\ IF job[w].refunding
       THEN Goto(w, [job[w] EXCEPT !.pc = "refund"])
       ELSE Done(w)
    /\ UNCHANGED <<mode, pay, couponVars, paymentVars, gatewayVars, stock, refund,
                   historyVars>>

\* cancelOrder checks the status for a customer, patchOrderCompat does not for
\* an admin; both then run cancelOrderLifecycle.
CustomerCancellable == {"PLACED", "PAYMENT_PENDING", "CONFIRMED"}

CancelStart(w, o, role) ==
    /\ job[w] = Idle
    /\ status[o] # NoOrder
    /\ role = "customer" => status[o] \in CustomerCancellable
    /\ restored[o] < MaxRestores
    /\ Goto(w, CancelJob(o, role))
    /\ UNCHANGED <<orderVars, couponVars, paymentVars, gatewayVars, stock, refund,
                   historyVars>>

\* Mutant: any ONLINE order is refunded.
RefundDueIfOnline(o) == mode[o] = "ONLINE"

\* cancelOrderLifecycle reads the order without a lock,
RefundDueOnCancel(o) == mode[o] = "ONLINE" /\ pay[o] = "PAID"

CancelRead(w) ==
    /\ At(w, "cancelRead")
    /\ LET o == job[w].order IN
        Goto(w, [pc |-> "restore", order |-> o, role |-> job[w].role,
                 seen |-> status[o], refunding |-> RefundDueOnCancel(o)])
    /\ UNCHANGED <<orderVars, couponVars, paymentVars, gatewayVars, stock, refund,
                   historyVars>>

\* puts the units back and releases the coupon in a transaction of its own,
CancelRestore(w) ==
    /\ At(w, "restore")
    /\ LET j == job[w]
           o == j.order
       IN /\ IF ShouldRestoreStockOnCancel(j.seen)
             THEN /\ stock' = stock + Qty[o]
                  /\ restored' = [restored EXCEPT ![o] = @ + 1]
             ELSE UNCHANGED <<stock, restored>>
          /\ ReleaseCoupon(o)
          /\ Goto(w, TransitionJob(o, "CANCELLED", j.role, FALSE, j.refunding))
    /\ UNCHANGED <<orderVars, paymentVars, gatewayVars, refund, overridden>>

\* lets transitionOrderState set CANCELLED, and asks for the refund at the end
\* (processFailedDeliveryRefund: one full refund per order).
CancelRefund(w) ==
    /\ At(w, "refund")
    /\ refund' = [refund EXCEPT ![job[w].order] =
                    IF @ = "NONE" THEN "REQUESTED" ELSE @]
    /\ Done(w)
    /\ UNCHANGED <<orderVars, couponVars, paymentVars, gatewayVars, stock,
                   historyVars>>

\* The gateway accepts the refund and the latest SUCCESS row is closed.
RefundSubmitted(o) ==
    /\ refund[o] = "REQUESTED"
    /\ \E i \in Row(o) :
        /\ pt[o][i] = "SUCCESS"
        /\ \A k \in Row(o) : pt[o][k] = "SUCCESS" => k <= i
        /\ pt' = [pt EXCEPT ![o][i] = "REFUNDED"]
    /\ refund' = [refund EXCEPT ![o] = "SUBMITTED"]
    /\ UNCHANGED <<orderVars, couponVars, rows, gatewayVars, stock, job,
                   historyVars>>

\* A database error, a gateway error or a crash ends a job where it stands.
JobDies(w) ==
    /\ job[w] # Idle
    /\ Done(w)
    /\ UNCHANGED <<orderVars, couponVars, paymentVars, gatewayVars, stock, refund,
                   historyVars>>

------------------------------------------------------------------------------
\* The payment gateway (external): an order with it ends paid or expired, and
\* an attempt may fail before another succeeds.

GatewayPays(o) ==
    /\ gw[o] = "ACTIVE"
    /\ gw' = [gw EXCEPT ![o] = "PAID"]
    /\ hooks' = hooks \cup {<<o, "SUCCESS">>}
    /\ UNCHANGED <<orderVars, couponVars, paymentVars, stock, refund, job,
                   historyVars>>

GatewayAttemptFails(o) ==
    /\ gw[o] = "ACTIVE"
    /\ hooks' = hooks \cup {<<o, "FAILED">>}
    /\ UNCHANGED <<orderVars, couponVars, paymentVars, gw, stock, refund, job,
                   historyVars>>

GatewayExpires(o) ==
    /\ gw[o] = "ACTIVE"
    /\ gw' = [gw EXCEPT ![o] = "EXPIRED"]
    /\ UNCHANGED <<orderVars, couponVars, paymentVars, hooks, stock, refund, job,
                   historyVars>>

------------------------------------------------------------------------------
Init ==
    /\ status = [o \in Orders |-> NoOrder]
    /\ mode = [o \in Orders |-> "COD"]
    /\ pay = [o \in Orders |-> "PENDING"]
    /\ coupon = [o \in Orders |-> "none"]
    /\ rows = [o \in Orders |-> 0]
    /\ pt = [o \in Orders |-> [i \in 1..MaxRows |-> "NONE"]]
    /\ gw = [o \in Orders |-> "NONE"]
    /\ hooks = {}
    /\ stock = InitStock
    /\ used = 0
    /\ refund = [o \in Orders |-> "NONE"]
    /\ job = [w \in Workers |-> Idle]
    /\ restored = [o \in Orders |-> 0]
    /\ overridden = {}

OrderStep(o) ==
    \/ \E m \in Modes, c \in BOOLEAN : CreateOrder(o, m, c)
    \/ WebhookSuccess(o)
    \/ WebhookFailed(o)
    \/ GetPaymentStatus(o)
    \/ VerifyPayment(o)
    \/ AbandonPayment(o)
    \/ AbandonDefinitively(o)
    \/ RefundSubmitted(o)
    \/ GatewayPays(o)
    \/ GatewayAttemptFails(o)
    \/ GatewayExpires(o)

RequestStep(w, o) ==
    \/ InitiateStart(w, o)
    \/ \E i \in 1..MaxRows : ReconcilePick(w, o, i)
    \/ \E to \in Targets, role \in Requesters, override \in BOOLEAN :
            TransitionStart(w, o, to, role, override)
    \/ \E role \in Cancellers : CancelStart(w, o, role)

JobStep(w) ==
    \/ InitiateFinish(w)
    \/ InitiateRefused(w)
    \/ ReconcileSuccess(w)
    \/ ReconcileFailRow(w)
    \/ ReconcileCancelOrder(w)
    \/ ReleaseRead(w)
    \/ ReleaseCount(w)
    \/ ReleaseMark(w)
    \/ ReconcileSkip(w)
    \/ TransitionRead(w)
    \/ TransitionWrite(w)
    \/ CancelRead(w)
    \/ CancelRestore(w)
    \/ CancelRefund(w)

Alive ==
    \/ \E o \in Orders : OrderStep(o)
    \/ \E w \in Workers, o \in Orders : RequestStep(w, o)
    \/ \E w \in Workers : JobStep(w)

Next == Alive \/ \E w \in Workers : JobDies(w)

Spec == Init /\ [][Next]_vars

\* The reconciler is a timer that fires whatever else goes on, and a job it or a
\* request started runs on while the process stays up.
Fairness ==
    /\ \A o \in Orders, i \in 1..MaxRows :
            SF_vars(\E w \in Workers : ReconcilePick(w, o, i))
    /\ \A w \in Workers : WF_vars(JobStep(w))

LiveSpec == Init /\ [][Alive]_vars /\ Fairness

------------------------------------------------------------------------------
\* Properties.

InitiateJobs  == [pc : {"initiate"}, order : Orders]
ReconcileJobs ==
    [pc : {"poll", "cancelOrder", "releaseRead", "releaseCount", "releaseMark"},
     order : Orders, row : 1..MaxRows]
CancelJobs    == [pc : {"cancelRead"}, order : Orders, role : Cancellers]
RestoreJobs   ==
    [pc : {"restore"}, order : Orders, role : Cancellers, seen : Statuses,
     refunding : BOOLEAN]
TransitionJobs ==
    [pc : {"read", "write", "refund"}, order : Orders,
     to : Targets \cup {"CANCELLED"}, role : Roles, override : BOOLEAN,
     refunding : BOOLEAN]
JobType ==
    {Idle} \cup InitiateJobs \cup ReconcileJobs \cup CancelJobs
           \cup RestoreJobs \cup TransitionJobs

\* Every variable stays in its type; the stock and the coupon counter never go
\* below zero (products.stock and coupons.used_count).
TypeOK ==
    /\ status \in [Orders -> Statuses]
    /\ mode \in [Orders -> Modes]
    /\ pay \in [Orders -> {"PENDING", "PAID", "FAILED"}]
    /\ coupon \in [Orders -> {"none", "held", "released"}]
    /\ rows \in [Orders -> 0..MaxRows]
    /\ pt \in [Orders -> [1..MaxRows -> {"NONE", "PENDING", "FAILED"} \cup Settled]]
    /\ gw \in [Orders -> {"NONE", "ACTIVE", "PAID", "EXPIRED"}]
    /\ hooks \subseteq Orders \X {"SUCCESS", "FAILED"}
    /\ stock \in Nat
    /\ used \in Nat
    /\ refund \in [Orders -> {"NONE", "REQUESTED", "SUBMITTED"}]
    /\ job \in [Workers -> JobType]
    /\ restored \in [Orders -> Nat]
    /\ overridden \subseteq Orders

HasSettledRow(o) == \E i \in 1..MaxRows : pt[o][i] \in Settled

\* Nothing is booked as paid, on the order or on a payment row, unless the
\* gateway really holds the money, whichever of webhook, poll, verify or
\* reconciler got there first and whatever failed attempts came before.
PaidOnlyIfCaptured ==
    \A o \in Orders : pay[o] = "PAID" \/ HasSettledRow(o) => gw[o] = "PAID"

\* An ONLINE order is confirmed, packed, sent out or delivered only with the
\* money captured, unless an admin moved it past the gate: also when the read
\* the gate decides on is stale by the time the status is written.
FulfilmentIsPaidFor ==
    \A o \in Orders \ overridden :
        mode[o] = "ONLINE" /\ status[o] \in PostConfirm => gw[o] = "PAID"

\* A settled payment never leaves its order waiting for payment (the legacy
\* status poll bug applyPaymentSuccess recovers from).
SuccessConfirms ==
    \A o \in Orders : HasSettledRow(o) => status[o] \notin Unconfirmed

\* The coupon counter never counts a use that no live order holds, so a
\* customer is never refused a coupon that still has a use left.
CouponNeverOvercharged == used <= Cardinality(Holders)

\* A customer holds the coupon on one order at most, with any interleaving of
\* checkouts, cancels and failed payments.
OneLiveCouponPerCustomer ==
    \A o, p \in Holders : Owner[o] = Owner[p] => o = p

\* Money is only sent back on an order that was paid for, and only where a
\* payment row is there for the refund to close.
RefundOnlyCaptured ==
    \A o \in Orders : refund[o] # "NONE" => gw[o] = "PAID" /\ HasSettledRow(o)

\* How often the units of an order were taken from the shelf: by a COD order as it
\* was placed, by a payment as it was settled.
SettledRows(o) == {i \in 1..MaxRows : pt[o][i] \in Settled}
PlacedCod(o)   == mode[o] = "COD" /\ status[o] # NoOrder
Takings(o)     == Cardinality(SettledRows(o)) + (IF PlacedCod(o) THEN 1 ELSE 0)

UnitsOut(o) == Qty[o] * (Takings(o) - restored[o])

\* Every unit missing from the shelf was taken by a COD order or by a settled
\* payment, and every unit put back by a cancellation that ran: units are never
\* reserved twice for one payment nor lost by a rolled back handler.
StockLedger == stock = InitStock - FoldFunction(+, 0, [o \in Orders |-> UnitsOut(o)])

\* Once settled, a payment row is never failed, reopened or un-refunded by a
\* late webhook, poll, abandon or reconciliation.
SettledIsFinal ==
    [][\A o \in Orders, i \in 1..MaxRows :
            pt[o][i] \in Settled =>
                pt'[o][i] = pt[o][i] \/ pt'[o][i] = "REFUNDED"]_vars

\* A payment row the gateway has decided on does not stay pending on an order
\* that waits for it: the reconciler closes it, unless the shelf is too empty.
StalePaymentResolved ==
    \A o \in Orders, i \in 1..MaxRows :
        (pt[o][i] = "PENDING" /\ gw[o] \in {"PAID", "EXPIRED"}) ~>
            \/ pt[o][i] # "PENDING"
            \/ status[o] \notin Unconfirmed
            \/ gw[o] = "PAID" /\ stock < Qty[o]

\* What the code's comments and documents promise and the code does not keep.

\* releaseCouponForOrder is idempotent: however often an order gives its coupon
\* back, the uses of the other live orders stay counted.
CouponUseCounted ==
    Cardinality({o \in Holders : status[o] \notin {"CANCELLED", "REFUNDED"}}) <= used

\* Stock goes back to the shelf only together with the order being cancelled.
CancelIsAtomic ==
    \A o \in Orders :
        restored[o] > 0 /\ ~JobOn(o) => status[o] \in {"CANCELLED", "REFUNDED"}

\* A paid order that was cancelled has its refund on the way.
PaidCancelRefunded ==
    \A o \in Orders :
        pay[o] = "PAID" /\ status[o] = "CANCELLED" /\ ~JobOn(o) =>
            refund[o] # "NONE"
==============================================================================
