--------------------------- MODULE CheckoutProofs ----------------------------
(***************************************************************************)
(* Proofs about Checkout, for any number of orders, customers, payment     *)
(* rows, workers and units.                                                *)
(***************************************************************************)
EXTENDS Checkout, SumLemmas

------------------------------------------------------------------------------
\* Types.

\* A job that waits at a step is a record of the kind that step belongs to.
LEMMA JobAtStep ==
    ASSUME TypeOK, NEW w \in Workers
    PROVE  /\ At(w, "initiate") => job[w] \in InitiateJobs
           /\ job[w].pc \in {"poll", "cancelOrder", "releaseRead", "releaseCount",
                             "releaseMark"} => job[w] \in ReconcileJobs
           /\ At(w, "cancelRead") => job[w] \in CancelJobs
           /\ At(w, "restore") => job[w] \in RestoreJobs
           /\ job[w].pc \in {"read", "write", "refund"} => job[w] \in TransitionJobs
<1>1. job[w] \in JobType
  BY DEF TypeOK
<1>2. CASE job[w] = Idle
  BY <1>2 DEF Idle, At
<1>3. CASE job[w] \in InitiateJobs
  BY <1>3 DEF InitiateJobs, At
<1>4. CASE job[w] \in ReconcileJobs
  BY <1>4 DEF ReconcileJobs, At
<1>5. CASE job[w] \in CancelJobs
  BY <1>5 DEF CancelJobs, At
<1>6. CASE job[w] \in RestoreJobs
  BY <1>6 DEF RestoreJobs, At
<1>7. CASE job[w] \in TransitionJobs
  BY <1>7 DEF TransitionJobs, At
<1>q. QED
  BY <1>1, <1>2, <1>3, <1>4, <1>5, <1>6, <1>7 DEF JobType

\* The two payment outcomes keep the types, whichever handler applies them.
LEMMA OutcomeTypes ==
    ASSUME TypeOK, NEW o \in Orders, NEW i \in 1..MaxRows,
           ApplyPaymentSuccess(o, i) \/ ApplyPaymentFailure(o, i),
           job' \in [Workers -> JobType]
    PROVE  TypeOK'
<1>1. CASE ApplyPaymentSuccess(o, i)
  <2>1. pt' = [pt EXCEPT ![o] = [@ EXCEPT ![i] = "SUCCESS"]]
    BY <1>1 DEF ApplyPaymentSuccess
  <2>2. pt' \in [Orders -> [1..MaxRows -> {"NONE", "PENDING", "FAILED"} \cup Settled]]
    BY <2>1 DEF TypeOK, Settled
  <2>3. stock' \in Nat
    <3>1. Qty[o] \in Nat
      BY CheckoutAssumption DEF CheckoutAssumption
    <3>2. stock >= Qty[o] /\ stock' = stock - Qty[o]
      BY <1>1 DEF ApplyPaymentSuccess, ConfirmOrderAfterPayment, ReserveStock
    <3>q. QED
      BY <3>1, <3>2 DEF TypeOK
  <2>4. /\ status' \in [Orders -> Statuses]
        /\ pay' \in [Orders -> {"PENDING", "PAID", "FAILED"}]
    BY <1>1 DEF ApplyPaymentSuccess, ConfirmOrderAfterPayment, TypeOK, States, Statuses
  <2>q. QED
    BY <1>1, <2>2, <2>3, <2>4
    DEF ApplyPaymentSuccess, TypeOK, couponVars, gatewayVars, historyVars
<1>2. CASE ApplyPaymentFailure(o, i)
  BY <1>2
  DEF ApplyPaymentFailure, ReleaseCoupon, TypeOK, Settled, States, Statuses, Modes,
      gatewayVars, historyVars
<1>q. QED
  BY <1>1, <1>2

LEMMA TypeInit == Init => TypeOK
  BY CheckoutAssumption DEF CheckoutAssumption, Init, TypeOK, JobType, Modes, Statuses

LEMMA TypeOrderStep ==
    ASSUME TypeOK, NEW o \in Orders, OrderStep(o)
    PROVE  TypeOK'
<1> USE CheckoutAssumption DEF CheckoutAssumption
<1>row. rows[o] > 0 => rows[o] \in 1..MaxRows
  BY DEF TypeOK
<1>1. ASSUME NEW m \in Modes, NEW c \in BOOLEAN, CreateOrder(o, m, c)
      PROVE  TypeOK'
  BY <1>1
  DEF CreateOrder, TypeOK, Modes, States, Statuses, paymentVars, gatewayVars, historyVars
<1>2. CASE WebhookSuccess(o)
  BY <1>2, <1>row, OutcomeTypes DEF WebhookSuccess, LatestIs, TypeOK
<1>3. CASE WebhookFailed(o)
  BY <1>3, <1>row, OutcomeTypes DEF WebhookFailed, LatestIs, TypeOK
<1>4. CASE GetPaymentStatus(o)
  BY <1>4, <1>row, OutcomeTypes
  DEF GetPaymentStatus, PollPayment, Confirmable, LatestIs, TypeOK
<1>5. CASE VerifyPayment(o)
  BY <1>5, <1>row, OutcomeTypes
  DEF VerifyPayment, PollPayment, Confirmable, LatestIs, TypeOK
<1>6. CASE AbandonPayment(o)
  BY <1>6, <1>row
  DEF AbandonPayment, LatestIs, TypeOK, couponVars, gatewayVars, historyVars
<1>7. CASE AbandonDefinitively(o)
  <2>1. CASE rows[o] > 0 /\ ApplyPaymentFailure(o, rows[o])
    BY <2>1, <1>7, <1>row, OutcomeTypes DEF AbandonDefinitively, TypeOK
  <2>2. CASE rows[o] = 0
    <3>1. /\ status' = [status EXCEPT ![o] = "CANCELLED"]
          /\ pay' = [pay EXCEPT ![o] = "FAILED"]
          /\ UNCHANGED <<mode, couponVars, paymentVars, gatewayVars, stock, refund,
                         job, historyVars>>
      BY <2>2, <1>7 DEF AbandonDefinitively
    <3>q. QED
      BY <3>1
      DEF TypeOK, States, Statuses, couponVars, paymentVars, gatewayVars, historyVars
  <2>q. QED
    BY <2>1, <2>2, <1>7 DEF AbandonDefinitively
<1>8. CASE RefundSubmitted(o)
  BY <1>8
  DEF RefundSubmitted, Row, TypeOK, Settled, orderVars, couponVars, gatewayVars,
      historyVars
<1>9. CASE GatewayPays(o)
  BY <1>9 DEF GatewayPays, TypeOK, orderVars, couponVars, paymentVars, historyVars
<1>10. CASE GatewayAttemptFails(o)
  BY <1>10
  DEF GatewayAttemptFails, TypeOK, orderVars, couponVars, paymentVars, historyVars
<1>11. CASE GatewayExpires(o)
  BY <1>11 DEF GatewayExpires, TypeOK, orderVars, couponVars, paymentVars, historyVars
<1>q. QED
  BY <1>1, <1>2, <1>3, <1>4, <1>5, <1>6, <1>7, <1>8, <1>9, <1>10, <1>11
  DEF OrderStep

\* A step that only moves a worker to a well-typed job keeps the types.
OnlyJobMoves ==
    UNCHANGED <<orderVars, couponVars, paymentVars, gatewayVars, stock, refund,
                historyVars>>

LEMMA JobMoveTypes ==
    ASSUME TypeOK, NEW w \in Workers, NEW j \in JobType, Goto(w, j)
    PROVE  /\ job' \in [Workers -> JobType]
           /\ OnlyJobMoves => TypeOK'
<1>1. job' \in [Workers -> JobType]
  BY DEF Goto, TypeOK
<1>2. ASSUME OnlyJobMoves
      PROVE  TypeOK'
  BY <1>1, <1>2
  DEF OnlyJobMoves, TypeOK, orderVars, couponVars, paymentVars, gatewayVars,
      historyVars
<1>q. QED
  BY <1>1, <1>2

LEMMA IdleTyped == Idle \in JobType
  BY DEF JobType

LEMMA TypeRequestStep ==
    ASSUME TypeOK, NEW w \in Workers, NEW o \in Orders, RequestStep(w, o)
    PROVE  TypeOK'
<1>1. CASE InitiateStart(w, o)
  <2>1. InitiateJob(o) \in JobType
    BY DEF InitiateJob, JobType, InitiateJobs
  <2>q. QED
    BY <1>1, <2>1, JobMoveTypes DEF InitiateStart, OnlyJobMoves
<1>2. ASSUME NEW i \in 1..MaxRows, ReconcilePick(w, o, i)
      PROVE  TypeOK'
  <2>1. ReconcileJob(o, i) \in JobType
    BY DEF ReconcileJob, JobType, ReconcileJobs
  <2>q. QED
    BY <1>2, <2>1, JobMoveTypes DEF ReconcilePick, OnlyJobMoves
<1>3. ASSUME NEW to \in Targets, NEW role \in Requesters, NEW override \in BOOLEAN,
             TransitionStart(w, o, to, role, override)
      PROVE  TypeOK'
  <2>1. TransitionJob(o, to, role, override, FALSE) \in JobType
    BY CheckoutAssumption
    DEF CheckoutAssumption, TransitionJob, JobType, TransitionJobs
  <2>q. QED
    BY <1>3, <2>1, JobMoveTypes DEF TransitionStart, OnlyJobMoves
<1>4. ASSUME NEW role \in Cancellers, CancelStart(w, o, role)
      PROVE  TypeOK'
  <2>1. CancelJob(o, role) \in JobType
    BY DEF CancelJob, JobType, CancelJobs
  <2>q. QED
    BY <1>4, <2>1, JobMoveTypes DEF CancelStart, OnlyJobMoves
<1>q. QED
  BY <1>1, <1>2, <1>3, <1>4 DEF RequestStep

LEMMA TypeJobStep ==
    ASSUME TypeOK, NEW w \in Workers, JobStep(w)
    PROVE  TypeOK'
<1> USE JobAtStep
<1>1. CASE InitiateFinish(w)
  <2>1. job' \in [Workers -> JobType]
    BY <1>1, IdleTyped, JobMoveTypes DEF InitiateFinish, Done
  <2>2. /\ job[w].order \in Orders
        /\ rows[job[w].order] < MaxRows
    BY <1>1 DEF InitiateFinish, InitiateJobs
  <2>3. /\ rows' = [rows EXCEPT ![job[w].order] = @ + 1]
        /\ pt' = [pt EXCEPT ![job[w].order] =
                        [@ EXCEPT ![rows[job[w].order] + 1] = "PENDING"]]
        /\ gw' = [gw EXCEPT ![job[w].order] = "ACTIVE"]
        /\ UNCHANGED <<orderVars, couponVars, hooks, stock, refund, historyVars>>
    BY <1>1 DEF InitiateFinish
  <2>4. rows' \in [Orders -> 0..MaxRows]
    BY <2>2, <2>3, CheckoutAssumption DEF CheckoutAssumption, TypeOK
  <2>5. pt' \in [Orders -> [1..MaxRows -> {"NONE", "PENDING", "FAILED"} \cup Settled]]
    BY <2>2, <2>3 DEF TypeOK
  <2>q. QED
    BY <2>1, <2>2, <2>3, <2>4, <2>5
    DEF TypeOK, orderVars, couponVars, historyVars
<1>2. CASE InitiateRefused(w)
  BY <1>2, IdleTyped, JobMoveTypes DEF InitiateRefused, Done, OnlyJobMoves
<1>3. CASE ReconcileSuccess(w)
  <2>1. job[w].order \in Orders /\ job[w].row \in 1..MaxRows
    BY <1>3 DEF ReconcileSuccess, At, ReconcileJobs
  <2>2. job' \in [Workers -> JobType]
    BY <1>3, IdleTyped, JobMoveTypes DEF ReconcileSuccess, Done
  <2>q. QED
    BY <1>3, <2>1, <2>2, OutcomeTypes DEF ReconcileSuccess
<1>4. CASE ReconcileFailRow(w)
  <2>1. job[w] \in ReconcileJobs
    BY <1>4 DEF ReconcileFailRow, At
  <2>2. [job[w] EXCEPT !.pc = "cancelOrder"] \in JobType
    BY <2>1 DEF ReconcileJobs, JobType
  <2>3. job' \in [Workers -> JobType]
    BY <1>4, <2>2, JobMoveTypes DEF ReconcileFailRow
  <2>4. pt' = [pt EXCEPT ![job[w].order] = [@ EXCEPT ![job[w].row] = "FAILED"]]
    BY <1>4 DEF ReconcileFailRow
  <2>5. pt' \in [Orders -> [1..MaxRows -> {"NONE", "PENDING", "FAILED"} \cup Settled]]
    BY <2>1, <2>4 DEF ReconcileJobs, TypeOK
  <2>q. QED
    BY <1>4, <2>3, <2>5
    DEF ReconcileFailRow, TypeOK, orderVars, couponVars, gatewayVars, historyVars
<1>5. CASE ReconcileCancelOrder(w)
  <2>1. job[w] \in ReconcileJobs
    BY <1>5 DEF ReconcileCancelOrder, At
  <2>2. [job[w] EXCEPT !.pc = "releaseRead"] \in JobType
    BY <2>1 DEF ReconcileJobs, JobType
  <2>3. job' \in [Workers -> JobType]
    BY <1>5, <2>2, JobMoveTypes DEF ReconcileCancelOrder
  <2>4. /\ status' \in [Orders -> Statuses]
        /\ pay' \in [Orders -> {"PENDING", "PAID", "FAILED"}]
    BY <1>5, <2>1 DEF ReconcileCancelOrder, ReconcileJobs, TypeOK, States, Statuses
  <2>q. QED
    BY <1>5, <2>3, <2>4
    DEF ReconcileCancelOrder, TypeOK, couponVars, paymentVars, gatewayVars,
        historyVars
<1>6. CASE ReleaseRead(w)
  <2>1. job[w] \in ReconcileJobs
    BY <1>6 DEF ReleaseRead, At
  <2>2. [job[w] EXCEPT !.pc = "releaseCount"] \in JobType
    BY <2>1 DEF ReconcileJobs, JobType
  <2>q. QED
    BY <1>6, <2>2, IdleTyped, JobMoveTypes DEF ReleaseRead, Done, OnlyJobMoves
<1>7. CASE ReleaseCount(w)
  <2>1. job[w] \in ReconcileJobs
    BY <1>7 DEF ReleaseCount, At
  <2>2. [job[w] EXCEPT !.pc = "releaseMark"] \in JobType
    BY <2>1 DEF ReconcileJobs, JobType
  <2>3. job' \in [Workers -> JobType]
    BY <1>7, <2>2, JobMoveTypes DEF ReleaseCount
  <2>4. used' \in Nat
    BY <1>7 DEF ReleaseCount, TypeOK
  <2>q. QED
    BY <1>7, <2>3, <2>4
    DEF ReleaseCount, TypeOK, orderVars, paymentVars, gatewayVars, historyVars
<1>8. CASE ReleaseMark(w)
  <2>1. job[w].order \in Orders
    BY <1>8 DEF ReleaseMark, At, ReconcileJobs
  <2>2. job' \in [Workers -> JobType]
    BY <1>8, IdleTyped, JobMoveTypes DEF ReleaseMark, Done
  <2>q. QED
    BY <1>8, <2>1, <2>2
    DEF ReleaseMark, TypeOK, orderVars, paymentVars, gatewayVars, historyVars
<1>9. CASE ReconcileSkip(w)
  BY <1>9, IdleTyped, JobMoveTypes DEF ReconcileSkip, Done, OnlyJobMoves
<1>10. CASE TransitionRead(w)
  <2>1. job[w] \in TransitionJobs
    BY <1>10 DEF TransitionRead, At
  <2>2. [job[w] EXCEPT !.pc = "write"] \in JobType
    BY <2>1 DEF TransitionJobs, JobType
  <2>3. job' \in [Workers -> JobType]
    BY <1>10, <2>2, IdleTyped, JobMoveTypes DEF TransitionRead, Done
  <2>4. overridden' \subseteq Orders
    BY ZenonT(60), <1>10, <2>1 DEF TransitionRead, TransitionJobs, TypeOK
  <2>q. QED
    BY <1>10, <2>3, <2>4
    DEF TransitionRead, TypeOK, orderVars, couponVars, paymentVars, gatewayVars
<1>11. CASE TransitionWrite(w)
  <2>1. job[w] \in TransitionJobs
    BY <1>11 DEF TransitionWrite, At
  <2>2. [job[w] EXCEPT !.pc = "refund"] \in JobType
    BY <2>1 DEF TransitionJobs, JobType
  <2>3. job' \in [Workers -> JobType]
    BY <1>11, <2>2, IdleTyped, JobMoveTypes DEF TransitionWrite, Done
  <2>4. status' \in [Orders -> Statuses]
    BY <1>11, <2>1, CheckoutAssumption
    DEF CheckoutAssumption, TransitionWrite, TransitionJobs, TypeOK, States, Statuses
  <2>q. QED
    BY <1>11, <2>3, <2>4
    DEF TransitionWrite, TypeOK, couponVars, paymentVars, gatewayVars, historyVars
<1>12. CASE CancelRead(w)
  <2>1. job[w] \in CancelJobs /\ job[w].order \in Orders
    BY <1>12 DEF CancelRead, CancelJobs
  <2> DEFINE o == job[w].order
             j == [pc |-> "restore", order |-> o, role |-> job[w].role,
                   seen |-> status[o], refunding |-> RefundDueOnCancel(o)]
  <2>2. j \in JobType
    BY <2>1 DEF CancelJobs, RestoreJobs, JobType, TypeOK, RefundDueOnCancel
  <2>q. QED
    BY <1>12, <2>2, JobMoveTypes DEF CancelRead, OnlyJobMoves
<1>13. CASE CancelRestore(w)
  <2>1. job[w] \in RestoreJobs
    BY <1>13 DEF CancelRestore, At
  <2>2. TransitionJob(job[w].order, "CANCELLED", job[w].role, FALSE, job[w].refunding)
            \in JobType
    BY <2>1, CheckoutAssumption
    DEF CheckoutAssumption, RestoreJobs, TransitionJob, TransitionJobs, JobType, Roles
  <2>3. job' \in [Workers -> JobType]
    BY <1>13, <2>2, JobMoveTypes DEF CancelRestore
  <2>4. stock' \in Nat /\ restored' \in [Orders -> Nat]
    <3>1. job[w].order \in Orders /\ Qty[job[w].order] \in Nat
      BY <2>1, CheckoutAssumption DEF CheckoutAssumption, RestoreJobs
    <3>2. \/ /\ stock' = stock + Qty[job[w].order]
             /\ restored' = [restored EXCEPT ![job[w].order] = @ + 1]
          \/ UNCHANGED <<stock, restored>>
      BY <1>13 DEF CancelRestore
    <3>3. stock \in Nat /\ restored \in [Orders -> Nat]
      BY DEF TypeOK
    <3>4. stock + Qty[job[w].order] \in Nat
      BY <3>1, <3>3
    <3>5. [restored EXCEPT ![job[w].order] = @ + 1] \in [Orders -> Nat]
      BY <3>1, <3>3
    <3>q. QED
      BY <3>2, <3>3, <3>4, <3>5
  <2>5. coupon' \in [Orders -> {"none", "held", "released"}] /\ used' \in Nat
    BY <1>13, <2>1 DEF CancelRestore, ReleaseCoupon, RestoreJobs, TypeOK
  <2>q. QED
    BY <1>13, <2>3, <2>4, <2>5
    DEF CancelRestore, TypeOK, orderVars, paymentVars, gatewayVars
<1>14. CASE CancelRefund(w)
  <2>1. job[w].order \in Orders
    BY <1>14 DEF CancelRefund, At, TransitionJobs
  <2>2. job' \in [Workers -> JobType]
    BY <1>14, IdleTyped, JobMoveTypes DEF CancelRefund, Done
  <2>q. QED
    BY <1>14, <2>1, <2>2
    DEF CancelRefund, TypeOK, orderVars, couponVars, paymentVars, gatewayVars,
        historyVars
<1>q. QED
  BY <1>1, <1>2, <1>3, <1>4, <1>5, <1>6, <1>7, <1>8, <1>9, <1>10, <1>11, <1>12,
     <1>13, <1>14
  DEF JobStep

LEMMA TypeStep == TypeOK /\ [Next]_vars => TypeOK'
<1> SUFFICES ASSUME TypeOK, [Next]_vars
             PROVE  TypeOK'
  OBVIOUS
<1>1. ASSUME NEW o \in Orders, OrderStep(o)
      PROVE  TypeOK'
  BY <1>1, TypeOrderStep
<1>2. ASSUME NEW w \in Workers, NEW o \in Orders, RequestStep(w, o)
      PROVE  TypeOK'
  BY <1>2, TypeRequestStep
<1>3. ASSUME NEW w \in Workers, JobStep(w)
      PROVE  TypeOK'
  BY <1>3, TypeJobStep
<1>4. ASSUME NEW w \in Workers, JobDies(w)
      PROVE  TypeOK'
  BY <1>4, IdleTyped, JobMoveTypes DEF JobDies, Done, OnlyJobMoves
<1>5. CASE UNCHANGED vars
  BY <1>5
  DEF vars, TypeOK, orderVars, couponVars, paymentVars, gatewayVars, historyVars
<1>q. QED
  BY <1>1, <1>2, <1>3, <1>4, <1>5 DEF Next, Alive

\* Every variable stays in its type: in particular the stock and the coupon
\* counter never go negative, however many handlers run at once.
THEOREM TypeCorrect == Spec => []TypeOK
<1>1. Init => TypeOK
  BY TypeInit
<1>2. TypeOK /\ [Next]_vars => TypeOK'
  BY TypeStep
<1>q. QED
  BY <1>1, <1>2, PTL DEF Spec

------------------------------------------------------------------------------
\* The strengthening under which the safety invariants are inductive.

\* What holds of an order by itself: an order without a row is the only kind
\* that may not exist, a paid order has a settled row, and a settled row means
\* the gateway has the money and the order is past waiting for it.
OrderInv(o) ==
    /\ rows[o] > 0 => status[o] # NoOrder
    /\ \A i \in 1..MaxRows : i > rows[o] => pt[o][i] = "NONE"
    /\ <<o, "SUCCESS">> \in hooks => gw[o] = "PAID"
    /\ pay[o] = "PAID" => HasSettledRow(o)
    /\ HasSettledRow(o) => /\ gw[o] = "PAID"
                           /\ status[o] \notin Unconfirmed
                           /\ status[o] # NoOrder

\* What a worker remembers and later acts on is still true then.
JobInv(w) ==
    /\ job[w] # Idle => status[job[w].order] # NoOrder
    /\ job[w] \in ReconcileJobs => job[w].row <= rows[job[w].order]
    /\ At(w, "write") /\ job[w].to \in PostConfirm /\ mode[job[w].order] = "ONLINE"
         => gw[job[w].order] = "PAID" \/ job[w].order \in overridden
    /\ job[w] \in RestoreJobs \cup TransitionJobs /\ job[w].refunding
         => gw[job[w].order] = "PAID" /\ HasSettledRow(job[w].order)
    /\ At(w, "refund") => job[w].refunding

PaymentInv ==
    /\ TypeOK
    /\ \A o \in Orders : OrderInv(o)
    /\ \A w \in Workers : JobInv(w)
    /\ FulfilmentIsPaidFor
    /\ RefundOnlyCaptured

\* What no step takes back from an order.
Keeps(o) ==
    /\ gw[o] = "PAID" => gw'[o] = "PAID"
    /\ status[o] # NoOrder => status'[o] # NoOrder /\ mode'[o] = mode[o]
    /\ rows[o] <= rows'[o]
    /\ o \in overridden => o \in overridden'
    /\ \A i \in 1..MaxRows :
          pt[o][i] \in Settled => pt'[o][i] = pt[o][i] \/ pt'[o][i] = "REFUNDED"

LEMMA PaymentInit == Init => PaymentInv
<1> SUFFICES ASSUME Init
             PROVE  PaymentInv
  OBVIOUS
<1>1. TypeOK
  BY TypeInit
<1>2. ASSUME NEW o \in Orders
      PROVE  OrderInv(o)
  BY DEF Init, OrderInv, HasSettledRow, Settled
<1>3. ASSUME NEW w \in Workers
      PROVE  JobInv(w)
  BY DEF Init, JobInv, At, Idle, ReconcileJobs, RestoreJobs, TransitionJobs
<1>4. FulfilmentIsPaidFor /\ RefundOnlyCaptured
  BY DEF Init, FulfilmentIsPaidFor, RefundOnlyCaptured
<1>q. QED
  BY <1>1, <1>2, <1>3, <1>4 DEF PaymentInv

\* Most steps leave orders, payment rows and the gateway alone.
Money == <<orderVars, paymentVars, gatewayVars>>

LEMMA QuietStep ==
    ASSUME TypeOK, UNCHANGED Money, overridden \subseteq overridden', NEW o \in Orders
    PROVE  /\ OrderInv(o) => OrderInv(o)'
           /\ Keeps(o)
  BY DEF Money, orderVars, paymentVars, gatewayVars, OrderInv, Keeps, HasSettledRow,
         TypeOK

LEMMA QuietSteps ==
    ASSUME NEW w \in Workers,
           \/ \E o \in Orders : RequestStep(w, o)
           \/ InitiateRefused(w) \/ ReleaseRead(w) \/ ReleaseCount(w)
           \/ ReleaseMark(w) \/ ReconcileSkip(w) \/ TransitionRead(w)
           \/ CancelRead(w) \/ CancelRestore(w) \/ CancelRefund(w) \/ JobDies(w)
    PROVE  UNCHANGED Money /\ overridden \subseteq overridden'
  BY DEF Money, historyVars, RequestStep, InitiateStart, ReconcilePick,
         TransitionStart, CancelStart, InitiateRefused, ReleaseRead, ReleaseCount,
         ReleaseMark, ReconcileSkip, TransitionRead, CancelRead, CancelRestore,
         CancelRefund, JobDies

LEMMA SuccessOutcome ==
    ASSUME TypeOK, NEW o \in Orders, NEW i \in 1..MaxRows, i <= rows[o],
           gw[o] = "PAID", ApplyPaymentSuccess(o, i), NEW p \in Orders, OrderInv(p)
    PROVE  OrderInv(p)' /\ Keeps(p)
<1>1. pt' = [pt EXCEPT ![o] = [@ EXCEPT ![i] = "SUCCESS"]]
  BY DEF ApplyPaymentSuccess
<1>2. pt[o][i] \in {"PENDING", "SUCCESS"}
  BY DEF ApplyPaymentSuccess, SuccessApplies
<1>3. UNCHANGED <<rows, gw, hooks, mode, overridden>>
  BY DEF ApplyPaymentSuccess, gatewayVars, historyVars
<1>4. \/ status[o] \in Unconfirmed /\ status' = [status EXCEPT ![o] = "CONFIRMED"]
      \/ status[o] \notin Unconfirmed /\ UNCHANGED <<status, pay>>
  BY DEF ApplyPaymentSuccess, ConfirmOrderAfterPayment
<1>5. pay'[p] = pay[p] \/ p = o
  BY DEF ApplyPaymentSuccess, ConfirmOrderAfterPayment, TypeOK
<1>6. CASE p # o
  BY <1>1, <1>3, <1>4, <1>5, <1>6 DEF OrderInv, HasSettledRow, Keeps, TypeOK
<1>7. CASE p = o
  <2>1. pt'[o][i] = "SUCCESS" /\ HasSettledRow(o)'
    BY <1>1 DEF TypeOK, HasSettledRow, Settled
  <2>2. status[o] # NoOrder
    BY <1>7 DEF OrderInv, TypeOK
  <2>3. status'[o] # NoOrder /\ status'[o] \notin Unconfirmed
    BY <1>4, <2>2 DEF TypeOK, Unconfirmed, NoOrder
  <2>4. \A k \in 1..MaxRows : k # i => pt'[o][k] = pt[o][k]
    BY <1>1 DEF TypeOK
  <2>5. OrderInv(o)'
    <3>1. \A k \in 1..MaxRows : k > rows'[o] => pt'[o][k] = "NONE"
      <4> SUFFICES ASSUME NEW k \in 1..MaxRows, k > rows[o]
                   PROVE  pt'[o][k] = "NONE"
        BY <1>3
      <4>1. rows[o] \in Int /\ k \in Int
        BY CheckoutAssumption DEF CheckoutAssumption, TypeOK
      <4>2. k # i
        BY <4>1
      <4>q. QED
        BY <1>7, <2>4, <4>2 DEF OrderInv
    <3>2. <<o, "SUCCESS">> \in hooks' => gw'[o] = "PAID"
      BY <1>3
    <3>q. QED
      BY <1>3, <2>1, <2>3, <3>1, <3>2 DEF OrderInv
  <2>6. Keeps(o)
    BY <1>2, <1>3, <2>1, <2>3, <2>4 DEF Keeps, Settled, TypeOK
  <2>q. QED
    BY <1>7, <2>5, <2>6
<1>q. QED
  BY <1>6, <1>7

LEMMA FailureOutcome ==
    ASSUME TypeOK, NEW o \in Orders, NEW i \in 1..MaxRows, i <= rows[o],
           pt[o][i] \notin Settled, ApplyPaymentFailure(o, i),
           NEW p \in Orders, OrderInv(p)
    PROVE  OrderInv(p)' /\ Keeps(p)
<1>1. pt' = [pt EXCEPT ![o] = [@ EXCEPT ![i] = "FAILED"]]
  BY DEF ApplyPaymentFailure
<1>2. /\ UNCHANGED <<rows, gw, hooks, mode, overridden>>
      /\ status' = [status EXCEPT ![o] = "CANCELLED"]
      /\ pay' = [pay EXCEPT ![o] = "FAILED"]
  BY DEF ApplyPaymentFailure, gatewayVars, historyVars
<1>3. \A k \in 1..MaxRows :
         pt'[p][k] = pt[p][k] \/ (p = o /\ k = i /\ pt'[p][k] = "FAILED")
  BY <1>1 DEF TypeOK
<1>4. HasSettledRow(p)' <=> HasSettledRow(p)
  BY <1>3 DEF HasSettledRow, Settled
<1>5. OrderInv(p)'
  <2>1. \A k \in 1..MaxRows : k > rows'[p] => pt'[p][k] = "NONE"
    <3> SUFFICES ASSUME NEW k \in 1..MaxRows, k > rows[p]
                 PROVE  pt'[p][k] = "NONE"
      BY <1>2
    <3>1. rows[p] \in Int /\ k \in Int
      BY CheckoutAssumption DEF CheckoutAssumption, TypeOK
    <3>2. ~(p = o /\ k = i)
      BY <3>1
    <3>q. QED
      BY <1>3, <3>2 DEF OrderInv
  <2>2. \/ status'[p] = status[p] /\ pay'[p] = pay[p]
        \/ status'[p] = "CANCELLED" /\ pay'[p] = "FAILED"
    BY <1>2 DEF TypeOK
  <2>q. QED
    BY <1>2, <1>4, <2>1, <2>2 DEF OrderInv, Unconfirmed, NoOrder
<1>6. Keeps(p)
  BY <1>2, <1>3 DEF Keeps, TypeOK, NoOrder
<1>q. QED
  BY <1>5, <1>6

\* A row the gateway has not said is paid is not settled.
LEMMA NotSettled ==
    ASSUME NEW o \in Orders, OrderInv(o), NEW i \in 1..MaxRows,
           gw[o] # "PAID" \/ status[o] \in Unconfirmed
    PROVE  pt[o][i] \notin Settled
  BY DEF OrderInv, HasSettledRow

LEMMA LatestRow ==
    ASSUME TypeOK, NEW o \in Orders, rows[o] > 0
    PROVE  rows[o] \in 1..MaxRows /\ rows[o] <= rows[o]
  BY CheckoutAssumption DEF CheckoutAssumption, TypeOK

LEMMA PollKeeps ==
    ASSUME PaymentInv, NEW o \in Orders, PollPayment(o), NEW p \in Orders
    PROVE  OrderInv(p)' /\ Keeps(p)
<1>1. TypeOK /\ OrderInv(o) /\ OrderInv(p)
  BY DEF PaymentInv
<1>2. rows[o] > 0
  BY DEF PollPayment, Confirmable, LatestIs
<1>3. CASE Confirmable(o) /\ ApplyPaymentSuccess(o, rows[o])
  <2>1. gw[o] = "PAID"
    BY <1>1, <1>2, <1>3, LatestRow
    DEF Confirmable, GatewaySaysPaid, LatestIs, OrderInv, HasSettledRow, Settled
  <2>q. QED
    BY <1>1, <1>2, <1>3, <2>1, LatestRow, SuccessOutcome
<1>4. CASE /\ LatestIs(o, "PENDING")
           /\ GatewaySaysExpired(o)
           /\ ApplyPaymentFailure(o, rows[o])
  BY <1>1, <1>2, <1>4, LatestRow, FailureOutcome DEF LatestIs, Settled
<1>q. QED
  BY <1>3, <1>4 DEF PollPayment

LEMMA OrderStepKeeps ==
    ASSUME PaymentInv, NEW o \in Orders, OrderStep(o), NEW p \in Orders
    PROVE  OrderInv(p)' /\ Keeps(p)
<1>1. TypeOK /\ OrderInv(o) /\ OrderInv(p)
  BY DEF PaymentInv
<1>2. rows[p] \in Int
  BY <1>1, CheckoutAssumption DEF CheckoutAssumption, TypeOK
<1>3. ASSUME NEW m \in Modes, NEW c \in BOOLEAN, CreateOrder(o, m, c)
      PROVE  OrderInv(p)' /\ Keeps(p)
  <2>1. /\ status[o] = NoOrder
        /\ mode' = [mode EXCEPT ![o] = m]
        /\ status' = [status EXCEPT ![o] =
                        IF m = "COD" THEN "CONFIRMED" ELSE "PAYMENT_PENDING"]
        /\ UNCHANGED <<pay, rows, pt, gw, hooks, overridden>>
    BY <1>3 DEF CreateOrder, paymentVars, gatewayVars, historyVars
  <2>2. (status'[p] = status[p] /\ mode'[p] = mode[p]) \/ p = o
    BY <1>1, <2>1 DEF TypeOK
  <2>3. status'[p] # NoOrder \/ status'[p] = status[p]
    BY <1>1, <2>1 DEF TypeOK, NoOrder
  <2>4. HasSettledRow(p)' <=> HasSettledRow(p)
    BY <2>1 DEF HasSettledRow
  <2>5. p = o => ~HasSettledRow(p)
    BY <1>1, <2>1 DEF OrderInv
  <2>6. OrderInv(p)'
    BY <1>1, <2>1, <2>2, <2>3, <2>4, <2>5 DEF OrderInv
  <2>q. QED
    BY <1>2, <2>1, <2>2, <2>3, <2>6 DEF Keeps
<1>4. CASE WebhookSuccess(o)
  <2>1. rows[o] > 0 /\ gw[o] = "PAID" /\ ApplyPaymentSuccess(o, rows[o])
    BY <1>1, <1>4 DEF WebhookSuccess, LatestIs, OrderInv
  <2>q. QED
    BY <1>1, <2>1, LatestRow, SuccessOutcome
<1>5. CASE WebhookFailed(o)
  <2>1. /\ rows[o] > 0
        /\ pt[o][rows[o]] \notin Settled
        /\ ApplyPaymentFailure(o, rows[o])
    BY <1>5 DEF WebhookFailed, LatestIs, Settled
  <2>q. QED
    BY <1>1, <2>1, LatestRow, FailureOutcome
<1>6. CASE GetPaymentStatus(o)
  BY <1>6, PollKeeps DEF GetPaymentStatus
<1>7. CASE VerifyPayment(o)
  BY <1>7, PollKeeps DEF VerifyPayment
<1>8. CASE AbandonPayment(o)
  <2>1. /\ pay' = [pay EXCEPT ![o] = "FAILED"]
        /\ UNCHANGED <<status, mode, rows, gw, hooks, overridden>>
    BY <1>8 DEF AbandonPayment, gatewayVars, historyVars
  <2>2. \A k \in 1..MaxRows :
           \/ pt'[p][k] = pt[p][k]
           \/ rows[p] > 0 /\ k = rows[p] /\ pt[p][k] = "PENDING" /\ pt'[p][k] = "FAILED"
    <3>1. CASE LatestIs(o, "PENDING")
      <4>1. pt' = [pt EXCEPT ![o] = [@ EXCEPT ![rows[o]] = "FAILED"]]
        BY <1>8, <3>1 DEF AbandonPayment
      <4>q. QED
        BY <1>1, <3>1, <4>1 DEF LatestIs, TypeOK
    <3>2. CASE ~LatestIs(o, "PENDING")
      BY <1>8, <3>2 DEF AbandonPayment
    <3>q. QED
      BY <3>1, <3>2
  <2>3. HasSettledRow(p)' <=> HasSettledRow(p)
    BY <2>2 DEF HasSettledRow, Settled
  <2>4. pay'[p] = pay[p] \/ pay'[p] = "FAILED"
    BY <1>1, <2>1 DEF TypeOK
  <2>5. \A k \in 1..MaxRows : k > rows[p] => pt'[p][k] = pt[p][k]
    BY <1>2, <2>2
  <2>6. OrderInv(p)'
    BY <1>1, <2>1, <2>3, <2>4, <2>5 DEF OrderInv
  <2>q. QED
    BY <1>2, <2>1, <2>2, <2>6 DEF Keeps, Settled
<1>9. CASE AbandonDefinitively(o)
  <2>1. CASE rows[o] > 0 /\ ApplyPaymentFailure(o, rows[o])
    BY <1>1, <1>9, <2>1, LatestRow, NotSettled, FailureOutcome
    DEF AbandonDefinitively
  <2>2. CASE /\ status' = [status EXCEPT ![o] = "CANCELLED"]
             /\ pay' = [pay EXCEPT ![o] = "FAILED"]
             /\ UNCHANGED <<mode, couponVars, paymentVars, gatewayVars, stock, refund,
                            historyVars>>
    <3>1. UNCHANGED <<mode, rows, pt, gw, hooks, overridden>>
      BY <2>2 DEF paymentVars, gatewayVars, historyVars
    <3>2. \/ status'[p] = status[p] /\ pay'[p] = pay[p]
          \/ status'[p] = "CANCELLED" /\ pay'[p] = "FAILED"
      BY <1>1, <2>2 DEF TypeOK
    <3>3. HasSettledRow(p)' <=> HasSettledRow(p)
      BY <3>1 DEF HasSettledRow
    <3>4. OrderInv(p)'
      BY <1>1, <3>1, <3>2, <3>3 DEF OrderInv, Unconfirmed, NoOrder
    <3>q. QED
      BY <1>2, <3>1, <3>2, <3>4 DEF Keeps, NoOrder
  <2>q. QED
    BY <1>9, <2>1, <2>2 DEF AbandonDefinitively
<1>10. CASE RefundSubmitted(o)
  <2>1. PICK i \in Row(o) : /\ pt[o][i] = "SUCCESS"
                            /\ pt' = [pt EXCEPT ![o] = [@ EXCEPT ![i] = "REFUNDED"]]
    BY <1>10 DEF RefundSubmitted
  <2>2. UNCHANGED <<status, mode, pay, rows, gw, hooks, overridden>>
    BY <1>10 DEF RefundSubmitted, orderVars, gatewayVars, historyVars
  <2>3. \A k \in 1..MaxRows :
           pt'[p][k] = pt[p][k] \/ (pt[p][k] = "SUCCESS" /\ pt'[p][k] = "REFUNDED")
    <3>1. i \in 1..MaxRows
      BY <1>1, CheckoutAssumption DEF CheckoutAssumption, Row, TypeOK
    <3>q. QED
      BY <1>1, <2>1, <3>1 DEF TypeOK
  <2>4. HasSettledRow(p)' <=> HasSettledRow(p)
    BY <2>3 DEF HasSettledRow, Settled
  <2>5. \A k \in 1..MaxRows : pt[p][k] = "NONE" => pt'[p][k] = "NONE"
    BY <2>3
  <2>6. OrderInv(p)'
    BY <1>1, <2>2, <2>4, <2>5 DEF OrderInv
  <2>q. QED
    BY <1>2, <2>2, <2>3, <2>6 DEF Keeps
<1>11. CASE GatewayPays(o) \/ GatewayAttemptFails(o) \/ GatewayExpires(o)
  <2>1. UNCHANGED <<status, mode, pay, rows, pt, overridden>>
    BY <1>11
    DEF GatewayPays, GatewayAttemptFails, GatewayExpires, orderVars, paymentVars,
        historyVars
  <2>2. gw'[p] = gw[p] \/ (p = o /\ gw[p] = "ACTIVE")
    BY <1>1, <1>11
    DEF GatewayPays, GatewayAttemptFails, GatewayExpires, TypeOK
  <2>3. <<p, "SUCCESS">> \in hooks' =>
            <<p, "SUCCESS">> \in hooks \/ gw'[p] = "PAID"
    BY <1>1, <1>11
    DEF GatewayPays, GatewayAttemptFails, GatewayExpires, TypeOK
  <2>4. HasSettledRow(p)' <=> HasSettledRow(p)
    BY <2>1 DEF HasSettledRow
  <2>5. OrderInv(p)'
    BY <1>1, <2>1, <2>2, <2>3, <2>4 DEF OrderInv
  <2>q. QED
    BY <1>2, <2>1, <2>2, <2>5 DEF Keeps
<1>q. QED
  BY <1>3, <1>4, <1>5, <1>6, <1>7, <1>8, <1>9, <1>10, <1>11 DEF OrderStep

LEMMA JobStepKeeps ==
    ASSUME PaymentInv, NEW w \in Workers, JobStep(w), NEW p \in Orders
    PROVE  OrderInv(p)' /\ Keeps(p)
<1>1. TypeOK /\ OrderInv(p) /\ JobInv(w)
  BY DEF PaymentInv
<1>2. rows[p] \in Int
  BY <1>1, CheckoutAssumption DEF CheckoutAssumption, TypeOK
<1>3. CASE InitiateFinish(w)
  <2> DEFINE o == job[w].order
  <2>1. o \in Orders /\ job[w] # Idle
    BY <1>1, <1>3, JobAtStep DEF InitiateFinish, InitiateJobs, At, Idle
  <2>2. OrderInv(o) /\ status[o] # NoOrder
    BY <1>1, <2>1 DEF JobInv, PaymentInv
  <2>3. /\ gw[o] # "PAID"
        /\ rows[o] < MaxRows
        /\ gw' = [gw EXCEPT ![o] = "ACTIVE"]
        /\ rows' = [rows EXCEPT ![o] = @ + 1]
        /\ pt' = [pt EXCEPT ![o] = [@ EXCEPT ![rows[o] + 1] = "PENDING"]]
        /\ UNCHANGED <<status, mode, pay, hooks, overridden>>
    BY <1>3 DEF InitiateFinish, orderVars, historyVars
  <2>4. rows[o] + 1 \in 1..MaxRows
    BY <1>1, <2>1, <2>3, CheckoutAssumption DEF CheckoutAssumption, TypeOK
  <2>5. \A k \in 1..MaxRows :
           pt'[p][k] = pt[p][k] \/ (p = o /\ k = rows[o] + 1 /\ pt'[p][k] = "PENDING")
    BY <1>1, <2>1, <2>3, <2>4 DEF TypeOK
  <2>6. CASE p # o
    <3>1. /\ rows'[p] = rows[p] /\ gw'[p] = gw[p]
          /\ \A k \in 1..MaxRows : pt'[p][k] = pt[p][k]
      BY <1>1, <2>1, <2>3, <2>5, <2>6 DEF TypeOK
    <3>2. HasSettledRow(p)' <=> HasSettledRow(p)
      BY <3>1 DEF HasSettledRow
    <3>3. OrderInv(p)'
      BY <1>1, <2>3, <3>1, <3>2 DEF OrderInv
    <3>q. QED
      BY <1>2, <2>3, <3>1, <3>3 DEF Keeps
  <2>7. CASE p = o
    <3>1. ~HasSettledRow(p) /\ pay[p] # "PAID"
      BY <2>2, <2>3, <2>7 DEF OrderInv
    <3>2. ~HasSettledRow(p)'
      BY <2>5, <3>1 DEF HasSettledRow, Settled
    <3>3. rows'[p] = rows[p] + 1 /\ gw'[p] = "ACTIVE"
      BY <1>1, <2>1, <2>3, <2>7 DEF TypeOK
    <3>4. \A k \in 1..MaxRows : k > rows'[p] => pt'[p][k] = "NONE"
      <4> SUFFICES ASSUME NEW k \in 1..MaxRows, k > rows'[p]
                   PROVE  pt'[p][k] = "NONE"
        OBVIOUS
      <4>1. k > rows[p] /\ k # rows[p] + 1
        BY <1>2, <3>3, CheckoutAssumption DEF CheckoutAssumption
      <4>q. QED
        BY <1>1, <2>5, <2>7, <4>1 DEF OrderInv
    <3>5. <<p, "SUCCESS">> \notin hooks'
      BY <1>1, <2>3, <2>7 DEF OrderInv
    <3>6. OrderInv(p)'
      BY <2>2, <2>3, <2>7, <3>1, <3>2, <3>4, <3>5 DEF OrderInv
    <3>7. \A k \in 1..MaxRows : pt[p][k] \notin Settled
      BY <3>1 DEF HasSettledRow
    <3>q. QED
      BY <1>2, <2>3, <2>7, <3>3, <3>6, <3>7 DEF Keeps
  <2>q. QED
    BY <2>6, <2>7
<1>4. CASE ReconcileSuccess(w)
  <2>1. job[w] \in ReconcileJobs
    BY <1>1, <1>4, JobAtStep DEF ReconcileSuccess, At
  <2>2. /\ job[w].order \in Orders
        /\ job[w].row \in 1..MaxRows
        /\ job[w].row <= rows[job[w].order]
    BY <1>1, <2>1 DEF JobInv, ReconcileJobs
  <2>3. /\ gw[job[w].order] = "PAID"
        /\ ApplyPaymentSuccess(job[w].order, job[w].row)
    BY <1>4 DEF ReconcileSuccess, GatewaySaysPaid
  <2>q. QED
    BY <1>1, <2>2, <2>3, SuccessOutcome
<1>5. CASE ReconcileFailRow(w)
  <2> DEFINE o == job[w].order
             i == job[w].row
  <2>1. job[w] \in ReconcileJobs
    BY <1>1, <1>5, JobAtStep DEF ReconcileFailRow, At
  <2>2. o \in Orders /\ i \in 1..MaxRows /\ i <= rows[o]
    BY <1>1, <2>1 DEF JobInv, ReconcileJobs
  <2>3. /\ gw[o] # "PAID"
        /\ pt' = [pt EXCEPT ![o] = [@ EXCEPT ![i] = "FAILED"]]
        /\ UNCHANGED <<status, mode, pay, rows, gw, hooks, overridden>>
    BY <1>5
    DEF ReconcileFailRow, GatewaySaysExpired, orderVars, gatewayVars, historyVars
  <2>4. \A k \in 1..MaxRows :
           pt'[p][k] = pt[p][k] \/ (p = o /\ k = i /\ pt'[p][k] = "FAILED")
    BY <1>1, <2>2, <2>3 DEF TypeOK
  <2>5. p = o => \A k \in 1..MaxRows : pt[p][k] \notin Settled
    BY <1>1, <2>3, NotSettled
  <2>6. HasSettledRow(p)' <=> HasSettledRow(p)
    BY <2>4, <2>5 DEF HasSettledRow, Settled
  <2>7. \A k \in 1..MaxRows : k > rows[p] => pt'[p][k] = pt[p][k]
    BY <1>2, <2>2, <2>4, CheckoutAssumption DEF CheckoutAssumption
  <2>8. OrderInv(p)'
    BY <1>1, <2>3, <2>6, <2>7 DEF OrderInv
  <2>q. QED
    BY <1>2, <2>3, <2>4, <2>5, <2>8 DEF Keeps
<1>6. CASE ReconcileCancelOrder(w)
  <2>1. job[w].order \in Orders
    BY <1>1, <1>6, JobAtStep DEF ReconcileCancelOrder, At, ReconcileJobs
  <2>2. UNCHANGED <<mode, rows, pt, gw, hooks, overridden>>
    BY <1>6 DEF ReconcileCancelOrder, paymentVars, gatewayVars, historyVars
  <2>3. \/ status'[p] = status[p] /\ pay'[p] = pay[p]
        \/ status'[p] = "CANCELLED" /\ pay'[p] = "FAILED"
    BY <1>1, <1>6, <2>1 DEF ReconcileCancelOrder, TypeOK
  <2>4. HasSettledRow(p)' <=> HasSettledRow(p)
    BY <2>2 DEF HasSettledRow
  <2>5. OrderInv(p)'
    BY <1>1, <2>2, <2>3, <2>4 DEF OrderInv, Unconfirmed, NoOrder
  <2>q. QED
    BY <1>2, <2>2, <2>3, <2>5 DEF Keeps, NoOrder
<1>7. CASE TransitionWrite(w)
  <2>1. job[w] \in TransitionJobs
    BY <1>1, <1>7, JobAtStep DEF TransitionWrite, At
  <2>2. UNCHANGED <<mode, pay, rows, pt, gw, hooks, overridden>>
    BY <1>7 DEF TransitionWrite, paymentVars, gatewayVars, historyVars
  <2>3. job[w].to \notin Unconfirmed /\ job[w].to # NoOrder
    BY <2>1, CheckoutAssumption
    DEF CheckoutAssumption, TransitionJobs, Unconfirmed, States, NoOrder
  <2>4. status'[p] = status[p] \/ status'[p] = job[w].to
    BY <1>1, <1>7 DEF TransitionWrite, TypeOK
  <2>5. HasSettledRow(p)' <=> HasSettledRow(p)
    BY <2>2 DEF HasSettledRow
  <2>6. OrderInv(p)'
    BY <1>1, <2>2, <2>3, <2>4, <2>5 DEF OrderInv
  <2>q. QED
    BY <1>2, <2>2, <2>3, <2>4, <2>6 DEF Keeps
<1>8. CASE \/ InitiateRefused(w) \/ ReleaseRead(w) \/ ReleaseCount(w)
           \/ ReleaseMark(w) \/ ReconcileSkip(w) \/ TransitionRead(w)
           \/ CancelRead(w) \/ CancelRestore(w) \/ CancelRefund(w)
  BY <1>1, <1>8, QuietSteps, QuietStep
<1>q. QED
  BY <1>3, <1>4, <1>5, <1>6, <1>7, <1>8 DEF JobStep

LEMMA StepKeeps ==
    ASSUME PaymentInv, [Next]_vars, NEW p \in Orders
    PROVE  OrderInv(p)' /\ Keeps(p)
<1>1. TypeOK /\ OrderInv(p)
  BY DEF PaymentInv
<1>2. ASSUME NEW o \in Orders, OrderStep(o)
      PROVE  OrderInv(p)' /\ Keeps(p)
  BY <1>2, OrderStepKeeps
<1>3. ASSUME NEW w \in Workers, NEW o \in Orders, RequestStep(w, o)
      PROVE  OrderInv(p)' /\ Keeps(p)
  BY <1>1, <1>3, QuietSteps, QuietStep
<1>4. ASSUME NEW w \in Workers, JobStep(w)
      PROVE  OrderInv(p)' /\ Keeps(p)
  BY <1>4, JobStepKeeps
<1>5. ASSUME NEW w \in Workers, JobDies(w)
      PROVE  OrderInv(p)' /\ Keeps(p)
  BY <1>1, <1>5, QuietSteps, QuietStep
<1>6. CASE UNCHANGED vars
  BY <1>1, <1>6, QuietStep DEF vars, Money, historyVars
<1>q. QED
  BY <1>2, <1>3, <1>4, <1>5, <1>6 DEF Next, Alive

LEMMA SettledKept ==
    ASSUME NEW o \in Orders, Keeps(o), HasSettledRow(o)
    PROVE  HasSettledRow(o)'
  BY DEF Keeps, HasSettledRow, Settled

\* Jobs.

LEMMA JobOrder ==
    ASSUME TypeOK, NEW w \in Workers, job[w] # Idle
    PROVE  job[w].order \in Orders
  BY DEF TypeOK, JobType, InitiateJobs, ReconcileJobs, CancelJobs, RestoreJobs,
         TransitionJobs

LEMMA OneKind ==
    /\ Idle \notin ReconcileJobs \cup RestoreJobs \cup TransitionJobs
    /\ \A j \in ReconcileJobs : j.pc # "write" /\ j.pc # "refund"
    /\ \A j \in InitiateJobs \cup CancelJobs :
          /\ j \notin ReconcileJobs \cup RestoreJobs \cup TransitionJobs
          /\ j.pc # "write" /\ j.pc # "refund"
    /\ \A j \in RestoreJobs : j.pc # "write" /\ j.pc # "refund" /\ j \notin ReconcileJobs
    /\ \A j \in TransitionJobs : j \notin ReconcileJobs
    /\ \A j \in ReconcileJobs : j \notin RestoreJobs \cup TransitionJobs
  BY DEF Idle, InitiateJobs, ReconcileJobs, CancelJobs, RestoreJobs, TransitionJobs

\* A job that stays what it is stays true to its order, whatever step is taken.
LEMMA JobStays ==
    ASSUME PaymentInv, [Next]_vars, NEW w \in Workers, job'[w] = job[w]
    PROVE  JobInv(w)'
<1>1. TypeOK /\ JobInv(w)
  BY DEF PaymentInv
<1>2. CASE job[w] = Idle
  BY <1>2, OneKind DEF JobInv, At, Idle
<1>3. CASE job[w] # Idle
  <2> DEFINE o == job[w].order
  <2>1. o \in Orders /\ status[o] # NoOrder
    BY <1>1, <1>3, JobOrder DEF JobInv
  <2>2. Keeps(o) /\ (HasSettledRow(o) => HasSettledRow(o)')
    BY <2>1, StepKeeps, SettledKept
  <2>3. rows[o] \in Int /\ rows'[o] \in Int
    BY <1>1, <2>1, TypeStep, CheckoutAssumption DEF CheckoutAssumption, TypeOK
  <2>4. job[w] \in ReconcileJobs => job[w].row \in Int
    BY CheckoutAssumption DEF CheckoutAssumption, ReconcileJobs
  <2>5. job[w] \in ReconcileJobs => job[w].row <= rows'[o]
    BY <1>1, <2>2, <2>3, <2>4 DEF JobInv, Keeps
  <2>6. /\ gw[o] = "PAID" => gw'[o] = "PAID"
        /\ status'[o] # NoOrder /\ mode'[o] = mode[o]
        /\ o \in overridden => o \in overridden'
    BY <2>1, <2>2 DEF Keeps
  <2>q. QED
    BY <1>1, <2>2, <2>5, <2>6 DEF JobInv, At
<1>q. QED
  BY <1>2, <1>3

\* A worker that becomes idle, or starts a job on an order that exists.
LEMMA JobEnds ==
    ASSUME NEW w \in Workers, job'[w] = Idle
    PROVE  JobInv(w)'
  BY OneKind DEF JobInv, At, Idle

LEMMA JobStarts ==
    ASSUME TypeOK, NEW w \in Workers, NEW o \in Orders, RequestStep(w, o)
    PROVE  JobInv(w)'
<1>1. status[o] # NoOrder /\ UNCHANGED <<status, rows>>
  BY DEF RequestStep, InitiateStart, ReconcilePick, TransitionStart, CancelStart,
         Unconfirmed, NoOrder, orderVars, paymentVars
<1>2. CASE InitiateStart(w, o)
  <2>1. job'[w] = InitiateJob(o) /\ InitiateJob(o) \in InitiateJobs
    BY <1>2 DEF InitiateStart, Goto, InitiateJob, InitiateJobs, TypeOK
  <2>q. QED
    BY <1>1, <2>1, OneKind DEF JobInv, At, InitiateJob
<1>3. ASSUME NEW i \in 1..MaxRows, ReconcilePick(w, o, i)
      PROVE  JobInv(w)'
  <2>1. /\ job'[w] = ReconcileJob(o, i)
        /\ ReconcileJob(o, i) \in ReconcileJobs
        /\ i <= rows[o]
    BY <1>3 DEF ReconcilePick, Goto, ReconcileJob, ReconcileJobs, TypeOK
  <2>q. QED
    BY <1>1, <2>1, OneKind DEF JobInv, At, ReconcileJob
<1>4. ASSUME NEW to \in Targets, NEW role \in Requesters, NEW override \in BOOLEAN,
             TransitionStart(w, o, to, role, override)
      PROVE  JobInv(w)'
  <2>1. job'[w] = [pc |-> "read", order |-> o, to |-> to, role |-> role,
                   override |-> override, refunding |-> FALSE]
    BY <1>4 DEF TransitionStart, Goto, TransitionJob, TypeOK
  <2>2. job'[w] \notin ReconcileJobs
    BY <2>1 DEF ReconcileJobs
  <2>q. QED
    BY <1>1, <2>1, <2>2 DEF JobInv, At
<1>5. ASSUME NEW role \in Cancellers, CancelStart(w, o, role)
      PROVE  JobInv(w)'
  <2>1. job'[w] = CancelJob(o, role) /\ CancelJob(o, role) \in CancelJobs
    BY <1>5 DEF CancelStart, Goto, CancelJob, CancelJobs, TypeOK
  <2>q. QED
    BY <1>1, <2>1, OneKind DEF JobInv, At, CancelJob
<1>q. QED
  BY <1>2, <1>3, <1>4, <1>5 DEF RequestStep

\* A reconciler that moves on keeps its row.
LEMMA ReconcilerMoves ==
    ASSUME PaymentInv, [Next]_vars, NEW w \in Workers, job[w] \in ReconcileJobs,
           NEW pc \in {"cancelOrder", "releaseRead", "releaseCount", "releaseMark"},
           job'[w] = [job[w] EXCEPT !.pc = pc]
    PROVE  JobInv(w)'
<1> DEFINE o == job[w].order
<1>1. TypeOK /\ JobInv(w)
  BY DEF PaymentInv
<1>2. /\ o \in Orders /\ job[w].row \in Int
      /\ job'[w].order = o /\ job'[w].row = job[w].row /\ job'[w].pc = pc
      /\ job'[w] \in ReconcileJobs
  BY CheckoutAssumption DEF CheckoutAssumption, ReconcileJobs
<1>3. status[o] # NoOrder /\ job[w].row <= rows[o]
  BY <1>1, OneKind DEF JobInv
<1>4. Keeps(o)
  BY <1>2, StepKeeps
<1>5. rows[o] \in Int /\ rows'[o] \in Int
  <2>1. TypeOK'
    BY <1>1, TypeStep
  <2>q. QED
    BY <1>1, <1>2, <2>1, CheckoutAssumption DEF CheckoutAssumption, TypeOK
<1>6. status'[o] # NoOrder /\ job[w].row <= rows'[o]
  BY <1>2, <1>3, <1>4, <1>5 DEF Keeps
<1>q. QED
  BY <1>2, <1>6, OneKind DEF JobInv, At

LEMMA JobAdvances ==
    ASSUME PaymentInv, NEW w \in Workers, JobStep(w)
    PROVE  JobInv(w)'
<1> DEFINE o == job[w].order
<1>1. TypeOK /\ JobInv(w) /\ \A p \in Orders : OrderInv(p)
  BY DEF PaymentInv
<1>2. [Next]_vars
  BY DEF Next, Alive
<1>3. CASE \/ InitiateFinish(w) \/ InitiateRefused(w) \/ ReconcileSuccess(w)
           \/ ReleaseMark(w) \/ ReconcileSkip(w) \/ CancelRefund(w)
  <2>1. job'[w] = Idle
    BY <1>1, <1>3
    DEF InitiateFinish, InitiateRefused, ReconcileSuccess, ReleaseMark, ReconcileSkip,
        CancelRefund, Done, Goto, TypeOK
  <2>q. QED
    BY <2>1, JobEnds
<1>4. CASE \/ ReconcileFailRow(w) \/ ReconcileCancelOrder(w) \/ ReleaseRead(w)
           \/ ReleaseCount(w)
  <2>1. job[w] \in ReconcileJobs
    BY <1>1, <1>4, JobAtStep
    DEF ReconcileFailRow, ReconcileCancelOrder, ReleaseRead, ReleaseCount, At
  <2>2. \/ job'[w] = Idle
        \/ \E pc \in {"cancelOrder", "releaseRead", "releaseCount", "releaseMark"} :
              job'[w] = [job[w] EXCEPT !.pc = pc]
    BY <1>1, <1>4
    DEF ReconcileFailRow, ReconcileCancelOrder, ReleaseRead, ReleaseCount, Done, Goto,
        TypeOK
  <2>q. QED
    BY <1>2, <2>1, <2>2, JobEnds, ReconcilerMoves
<1>5. CASE TransitionRead(w)
  <2>1. job[w] \in TransitionJobs /\ job[w] # Idle
    BY <1>1, <1>5, JobAtStep DEF TransitionRead, At, Idle
  <2>2. o \in Orders /\ status[o] # NoOrder /\ OrderInv(o)
    BY <1>1, <2>1 DEF JobInv, TransitionJobs
  <2>3. UNCHANGED <<status, mode, pay, pt, gw>>
    BY <1>5 DEF TransitionRead, orderVars, paymentVars, gatewayVars
  <2>4. \A p \in Orders : HasSettledRow(p)' <=> HasSettledRow(p)
    BY <2>3 DEF HasSettledRow
  <2>5. CASE TransitionAllowed(o, job[w])
    <3>1. /\ job'[w] = [job[w] EXCEPT !.pc = "write"]
          /\ overridden' = IF PaymentGate(mode[o], pay[o], job[w].to, FALSE)
                           THEN overridden ELSE overridden \cup {o}
      BY <1>1, <1>5, <2>5 DEF TransitionRead, Goto, TypeOK
    <3>2. /\ job'[w].order = o /\ job'[w].to = job[w].to /\ job'[w].pc = "write"
          /\ job'[w].refunding = job[w].refunding
          /\ job'[w] \in TransitionJobs
      BY <2>1, <3>1 DEF TransitionJobs
    <3>3. job[w].to \in PostConfirm /\ mode[o] = "ONLINE" =>
              gw[o] = "PAID" \/ o \in overridden'
      BY <2>2, <3>1 DEF PaymentGate, OrderInv
    <3>4. job[w].refunding => gw[o] = "PAID" /\ HasSettledRow(o)
      BY <1>1, <2>1 DEF JobInv
    <3>q. QED
      BY <2>2, <2>3, <2>4, <3>2, <3>3, <3>4, OneKind DEF JobInv, At
  <2>6. CASE ~TransitionAllowed(o, job[w])
    <3>1. job'[w] = Idle
      BY <1>1, <1>5, <2>6 DEF TransitionRead, Done, Goto, TypeOK
    <3>q. QED
      BY <3>1, JobEnds
  <2>q. QED
    BY <2>5, <2>6
<1>6. CASE TransitionWrite(w)
  <2>1. job[w] \in TransitionJobs /\ job[w] # Idle
    BY <1>1, <1>6, JobAtStep DEF TransitionWrite, At, Idle
  <2>2. o \in Orders /\ status[o] # NoOrder
    BY <1>1, <2>1 DEF JobInv, TransitionJobs
  <2>3. UNCHANGED <<pt, gw>>
    BY <1>6 DEF TransitionWrite, paymentVars, gatewayVars
  <2>4. \A p \in Orders : HasSettledRow(p)' <=> HasSettledRow(p)
    BY <2>3 DEF HasSettledRow
  <2>5. CASE job[w].refunding
    <3>1. job'[w] = [job[w] EXCEPT !.pc = "refund"]
      BY <1>1, <1>6, <2>5 DEF TransitionWrite, Goto, TypeOK
    <3>2. /\ job'[w].order = o /\ job'[w].pc = "refund"
          /\ job'[w].refunding = job[w].refunding
          /\ job'[w] \in TransitionJobs
      BY <2>1, <3>1 DEF TransitionJobs
    <3>3. status'[o] # NoOrder
      BY <1>2, <2>2, StepKeeps DEF Keeps
    <3>4. gw[o] = "PAID" /\ HasSettledRow(o)
      BY <1>1, <2>1, <2>5 DEF JobInv
    <3>q. QED
      BY <2>2, <2>3, <2>4, <2>5, <3>2, <3>3, <3>4, OneKind DEF JobInv, At
  <2>6. CASE ~job[w].refunding
    <3>1. job'[w] = Idle
      BY <1>1, <1>6, <2>6 DEF TransitionWrite, Done, Goto, TypeOK
    <3>q. QED
      BY <3>1, JobEnds
  <2>q. QED
    BY <2>5, <2>6
<1>7. CASE CancelRead(w)
  <2>1. job[w] \in CancelJobs /\ job[w] # Idle
    BY <1>1, <1>7, JobAtStep DEF CancelRead, At, Idle
  <2>2. o \in Orders /\ status[o] # NoOrder /\ OrderInv(o)
    BY <1>1, <2>1 DEF JobInv, CancelJobs
  <2>3. /\ job'[w] = [pc |-> "restore", order |-> o, role |-> job[w].role,
                      seen |-> status[o], refunding |-> RefundDueOnCancel(o)]
        /\ UNCHANGED <<status, pt, gw>>
    BY <1>1, <1>7
    DEF CancelRead, Goto, TypeOK, orderVars, paymentVars, gatewayVars
  <2>4. \A p \in Orders : HasSettledRow(p)' <=> HasSettledRow(p)
    BY <2>3 DEF HasSettledRow
  <2>5. job'[w] \notin ReconcileJobs
    BY <2>3 DEF ReconcileJobs
  <2>6. RefundDueOnCancel(o) => gw[o] = "PAID" /\ HasSettledRow(o)
    BY <2>2 DEF RefundDueOnCancel, OrderInv
  <2>q. QED
    BY <2>2, <2>3, <2>4, <2>5, <2>6 DEF JobInv, At
<1>8. CASE CancelRestore(w)
  <2>1. job[w] \in RestoreJobs /\ job[w] # Idle
    BY <1>1, <1>8, JobAtStep DEF CancelRestore, At, Idle
  <2>2. o \in Orders /\ status[o] # NoOrder
    BY <1>1, <2>1 DEF JobInv, RestoreJobs
  <2>3. /\ job'[w] = [pc |-> "read", order |-> o, to |-> "CANCELLED",
                      role |-> job[w].role, override |-> FALSE,
                      refunding |-> job[w].refunding]
        /\ UNCHANGED <<status, pt, gw>>
    BY <1>1, <1>8
    DEF CancelRestore, TransitionJob, Goto, TypeOK, orderVars, paymentVars,
        gatewayVars
  <2>4. \A p \in Orders : HasSettledRow(p)' <=> HasSettledRow(p)
    BY <2>3 DEF HasSettledRow
  <2>5. job'[w] \notin ReconcileJobs
    BY <2>3 DEF ReconcileJobs
  <2>6. job[w].refunding => gw[o] = "PAID" /\ HasSettledRow(o)
    BY <1>1, <2>1 DEF JobInv
  <2>q. QED
    BY <2>2, <2>3, <2>4, <2>5, <2>6 DEF JobInv, At
<1>q. QED
  BY <1>3, <1>4, <1>5, <1>6, <1>7, <1>8 DEF JobStep

LEMMA JobInvStep ==
    ASSUME PaymentInv, [Next]_vars, NEW w \in Workers
    PROVE  JobInv(w)'
<1>1. TypeOK
  BY DEF PaymentInv
<1>2. ASSUME NEW o \in Orders, OrderStep(o)
      PROVE  JobInv(w)'
  <2>1. UNCHANGED job
    BY <1>2
    DEF OrderStep, CreateOrder, WebhookSuccess, WebhookFailed, GetPaymentStatus,
        VerifyPayment, AbandonPayment, AbandonDefinitively, RefundSubmitted,
        GatewayPays, GatewayAttemptFails, GatewayExpires
  <2>q. QED
    BY <2>1, JobStays
<1>3. ASSUME NEW v \in Workers, NEW o \in Orders, RequestStep(v, o)
      PROVE  JobInv(w)'
  <2>1. v # w => job'[w] = job[w]
    BY <1>1, <1>3
    DEF RequestStep, InitiateStart, ReconcilePick, TransitionStart, CancelStart, Goto,
        TypeOK
  <2>q. QED
    BY <1>1, <1>3, <2>1, JobStays, JobStarts
<1>4. ASSUME NEW v \in Workers, JobStep(v)
      PROVE  JobInv(w)'
  <2>1. v # w => job'[w] = job[w]
    BY ZenonT(60), <1>1, <1>4
    DEF JobStep, InitiateFinish, InitiateRefused, ReconcileSuccess, ReconcileFailRow,
        ReconcileCancelOrder, ReleaseRead, ReleaseCount, ReleaseMark, ReconcileSkip,
        TransitionRead, TransitionWrite, CancelRead, CancelRestore, CancelRefund,
        Done, Goto, TypeOK
  <2>q. QED
    BY <1>4, <2>1, JobStays, JobAdvances
<1>5. ASSUME NEW v \in Workers, JobDies(v)
      PROVE  JobInv(w)'
  <2>1. job'[w] = job[w] \/ job'[w] = Idle
    BY <1>1, <1>5 DEF JobDies, Done, Goto, TypeOK
  <2>q. QED
    BY <2>1, JobStays, JobEnds
<1>6. CASE UNCHANGED vars
  BY <1>6, JobStays DEF vars
<1>q. QED
  BY <1>2, <1>3, <1>4, <1>5, <1>6 DEF Next, Alive

\* How the status of an order changes.
LEMMA StatusStep ==
    ASSUME PaymentInv, [Next]_vars, NEW p \in Orders
    PROVE  \/ status'[p] \in {status[p], "CANCELLED", "PAYMENT_PENDING"}
           \/ mode'[p] = "COD"
           \/ HasSettledRow(p)'
           \/ \E w \in Workers :
                /\ TransitionWrite(w)
                /\ job[w].order = p
                /\ status'[p] = job[w].to
<1> DEFINE Goal == \/ status'[p] \in {status[p], "CANCELLED", "PAYMENT_PENDING"}
                   \/ mode'[p] = "COD"
                   \/ HasSettledRow(p)'
                   \/ \E w \in Workers :
                        /\ TransitionWrite(w)
                        /\ job[w].order = p
                        /\ status'[p] = job[w].to
<1>1. TypeOK
  BY DEF PaymentInv
<1>2. ASSUME NEW o \in Orders, NEW i \in 1..MaxRows, ApplyPaymentSuccess(o, i)
      PROVE  Goal
  <2>1. pt'[o][i] = "SUCCESS"
    BY <1>1, <1>2 DEF ApplyPaymentSuccess, TypeOK
  <2>2. p # o => status'[p] = status[p]
    BY <1>1, <1>2 DEF ApplyPaymentSuccess, ConfirmOrderAfterPayment, TypeOK
  <2>3. HasSettledRow(o)'
    BY <2>1 DEF HasSettledRow, Settled
  <2>q. QED
    BY <2>2, <2>3
<1>3. ASSUME NEW o \in Orders, NEW i \in 1..MaxRows, ApplyPaymentFailure(o, i)
      PROVE  Goal
  BY <1>1, <1>3 DEF ApplyPaymentFailure, TypeOK
<1>4. ASSUME NEW o \in Orders, OrderStep(o)
      PROVE  Goal
  <2>1. ASSUME NEW m \in Modes, NEW c \in BOOLEAN, CreateOrder(o, m, c)
        PROVE  Goal
    BY <1>1, <2>1 DEF CreateOrder, TypeOK, Modes
  <2>2. CASE WebhookSuccess(o) \/ WebhookFailed(o)
    BY <1>1, <1>2, <1>3, <2>2, LatestRow DEF WebhookSuccess, WebhookFailed, LatestIs
  <2>3. CASE GetPaymentStatus(o) \/ VerifyPayment(o)
    BY <1>1, <1>2, <1>3, <2>3, LatestRow
    DEF GetPaymentStatus, VerifyPayment, PollPayment, Confirmable, LatestIs
  <2>4. CASE AbandonDefinitively(o)
    <3>1. CASE rows[o] > 0 /\ ApplyPaymentFailure(o, rows[o])
      BY <1>1, <1>3, <3>1, LatestRow
    <3>2. CASE status' = [status EXCEPT ![o] = "CANCELLED"]
      BY <1>1, <3>2 DEF TypeOK
    <3>q. QED
      BY <2>4, <3>1, <3>2 DEF AbandonDefinitively
  <2>5. CASE \/ AbandonPayment(o) \/ RefundSubmitted(o) \/ GatewayPays(o)
             \/ GatewayAttemptFails(o) \/ GatewayExpires(o)
    BY <2>5
    DEF AbandonPayment, RefundSubmitted, GatewayPays, GatewayAttemptFails,
        GatewayExpires, orderVars
  <2>q. QED
    BY <1>4, <2>1, <2>2, <2>3, <2>4, <2>5 DEF OrderStep
<1>5. ASSUME NEW w \in Workers, JobStep(w)
      PROVE  Goal
  <2>1. CASE ReconcileSuccess(w)
    <3>1. job[w].order \in Orders /\ job[w].row \in 1..MaxRows
      BY <1>1, <2>1, JobAtStep DEF ReconcileSuccess, At, ReconcileJobs
    <3>q. QED
      BY <1>2, <2>1, <3>1 DEF ReconcileSuccess
  <2>2. CASE ReconcileCancelOrder(w)
    BY <1>1, <2>2 DEF ReconcileCancelOrder, TypeOK
  <2>3. CASE TransitionWrite(w)
    <3>1. status' = [status EXCEPT ![job[w].order] = job[w].to]
      BY <2>3 DEF TransitionWrite
    <3>2. CASE job[w].order = p
      BY <1>1, <2>3, <3>1, <3>2 DEF TypeOK
    <3>3. CASE job[w].order # p
      BY <1>1, <3>1, <3>3 DEF TypeOK
    <3>q. QED
      BY <3>2, <3>3
  <2>4. CASE InitiateFinish(w) \/ ReconcileFailRow(w)
    BY <2>4 DEF InitiateFinish, ReconcileFailRow, orderVars
  <2>5. CASE \/ InitiateRefused(w) \/ ReleaseRead(w) \/ ReleaseCount(w)
             \/ ReleaseMark(w) \/ ReconcileSkip(w) \/ TransitionRead(w)
             \/ CancelRead(w) \/ CancelRestore(w) \/ CancelRefund(w)
    BY <2>5, QuietSteps DEF Money, orderVars
  <2>q. QED
    BY <1>5, <2>1, <2>2, <2>3, <2>4, <2>5 DEF JobStep
<1>6. CASE \/ \E w \in Workers, o \in Orders : RequestStep(w, o)
           \/ \E w \in Workers : JobDies(w)
  BY <1>6, QuietSteps DEF Money, orderVars
<1>7. CASE UNCHANGED vars
  BY <1>7 DEF vars, orderVars
<1>q. QED
  BY <1>4, <1>5, <1>6, <1>7 DEF Next, Alive

LEMMA FulfilmentStep ==
    ASSUME PaymentInv, [Next]_vars
    PROVE  FulfilmentIsPaidFor'
<1> SUFFICES ASSUME NEW p \in Orders, p \notin overridden',
                    mode'[p] = "ONLINE", status'[p] \in PostConfirm
             PROVE  gw'[p] = "PAID"
  BY DEF FulfilmentIsPaidFor
<1>1. OrderInv(p)' /\ Keeps(p)
  BY StepKeeps
<1>2. CASE status'[p] = status[p]
  <2>1. status[p] # NoOrder
    BY <1>2 DEF PostConfirm, NoOrder
  <2>2. mode[p] = "ONLINE" /\ p \notin overridden
    BY <1>1, <2>1 DEF Keeps
  <2>q. QED
    BY <1>1, <1>2, <2>2 DEF PaymentInv, FulfilmentIsPaidFor, Keeps
<1>3. CASE HasSettledRow(p)'
  BY <1>1, <1>3 DEF OrderInv
<1>4. ASSUME NEW w \in Workers, TransitionWrite(w), job[w].order = p,
             status'[p] = job[w].to
      PROVE  gw'[p] = "PAID"
  <2>1. JobInv(w) /\ At(w, "write")
    BY <1>4 DEF PaymentInv, TransitionWrite
  <2>2. UNCHANGED <<mode, gw, overridden>>
    BY <1>4 DEF TransitionWrite, gatewayVars, historyVars
  <2>q. QED
    BY <1>4, <2>1, <2>2 DEF JobInv
<1>q. QED
  BY <1>2, <1>3, <1>4, StatusStep DEF PostConfirm

LEMMA RefundStep ==
    ASSUME PaymentInv, [Next]_vars
    PROVE  RefundOnlyCaptured'
<1> SUFFICES ASSUME NEW p \in Orders, refund'[p] # "NONE"
             PROVE  gw'[p] = "PAID" /\ HasSettledRow(p)'
  BY DEF RefundOnlyCaptured
<1>1. Keeps(p) /\ TypeOK
  BY StepKeeps DEF PaymentInv
<1>2. CASE refund[p] # "NONE"
  <2>1. gw[p] = "PAID" /\ HasSettledRow(p)
    BY <1>2 DEF PaymentInv, RefundOnlyCaptured
  <2>q. QED
    BY <1>1, <2>1, SettledKept DEF Keeps
<1>3. ASSUME NEW w \in Workers, CancelRefund(w), job[w].order = p
      PROVE  gw'[p] = "PAID" /\ HasSettledRow(p)'
  <2>1. job[w] \in TransitionJobs /\ JobInv(w) /\ At(w, "refund")
    BY <1>1, <1>3, JobAtStep DEF PaymentInv, CancelRefund, At
  <2>2. gw[p] = "PAID" /\ HasSettledRow(p)
    BY <1>3, <2>1 DEF JobInv
  <2>q. QED
    BY <1>1, <2>2, SettledKept DEF Keeps
<1>4. ASSUME NEW o \in Orders, OrderStep(o), refund[p] = "NONE"
      PROVE  FALSE
  <2>1. CASE RefundSubmitted(o)
    BY <1>1, <1>4, <2>1 DEF RefundSubmitted, TypeOK
  <2>2. CASE refund' = refund
    BY <1>4, <2>2
  <2>q. QED
    BY <1>4, <2>1, <2>2
    DEF OrderStep, CreateOrder, WebhookSuccess, WebhookFailed, GetPaymentStatus,
        VerifyPayment, PollPayment, ApplyPaymentSuccess, ApplyPaymentFailure,
        AbandonPayment, AbandonDefinitively, GatewayPays, GatewayAttemptFails,
        GatewayExpires
<1>5. ASSUME NEW w \in Workers, JobStep(w), ~CancelRefund(w)
      PROVE  refund' = refund
  BY <1>5
  DEF JobStep, InitiateFinish, InitiateRefused, ReconcileSuccess, ApplyPaymentSuccess,
      ReconcileFailRow, ReconcileCancelOrder, ReleaseRead, ReleaseCount, ReleaseMark,
      ReconcileSkip, TransitionRead, TransitionWrite, CancelRead, CancelRestore
<1>6. ASSUME NEW w \in Workers, CancelRefund(w), job[w].order # p
      PROVE  refund'[p] = refund[p]
  BY <1>1, <1>6 DEF CancelRefund, TypeOK
<1>7. ASSUME NEW w \in Workers, NEW o \in Orders, RequestStep(w, o)
      PROVE  refund' = refund
  BY <1>7 DEF RequestStep, InitiateStart, ReconcilePick, TransitionStart, CancelStart
<1>8. ASSUME NEW w \in Workers, JobDies(w)
      PROVE  refund' = refund
  BY <1>8 DEF JobDies
<1>9. UNCHANGED vars => refund' = refund
  BY DEF vars
<1>q. QED
  BY <1>2, <1>3, <1>4, <1>5, <1>6, <1>7, <1>8, <1>9 DEF Next, Alive

------------------------------------------------------------------------------
\* The theorems.

LEMMA PaymentInvInductive == PaymentInv /\ [Next]_vars => PaymentInv'
<1> SUFFICES ASSUME PaymentInv, [Next]_vars
             PROVE  PaymentInv'
  OBVIOUS
<1>1. TypeOK'
  BY TypeStep DEF PaymentInv
<1>2. \A o \in Orders : OrderInv(o)'
  BY StepKeeps
<1>3. \A w \in Workers : JobInv(w)'
  BY JobInvStep
<1>q. QED
  BY <1>1, <1>2, <1>3, FulfilmentStep, RefundStep DEF PaymentInv

THEOREM PaymentInvariant == Spec => []PaymentInv
  BY PaymentInit, PaymentInvInductive, PTL DEF Spec

\* Whatever mix of webhooks, polls, abandons, cancels, crashes and runs of the
\* reconciler an order goes through, it is booked as paid only if the gateway
\* has the money.
THEOREM PaidIsCaptured == Spec => []PaidOnlyIfCaptured
<1>1. PaymentInv => PaidOnlyIfCaptured
  BY DEF PaymentInv, OrderInv, PaidOnlyIfCaptured
<1>q. QED
  BY <1>1, PaymentInvariant, PTL

\* No ONLINE order passes the payment gate unpaid, although the gate decides on
\* a read that may be stale when the status is written.
THEOREM FulfilmentPaidFor == Spec => []FulfilmentIsPaidFor
<1>1. PaymentInv => FulfilmentIsPaidFor
  BY DEF PaymentInv
<1>q. QED
  BY <1>1, PaymentInvariant, PTL

\* A settled payment always has its order out of the waiting states.
THEOREM SuccessAlwaysConfirms == Spec => []SuccessConfirms
<1>1. PaymentInv => SuccessConfirms
  BY DEF PaymentInv, OrderInv, SuccessConfirms
<1>q. QED
  BY <1>1, PaymentInvariant, PTL

\* A refund is only ever asked for on an order whose payment was captured.
THEOREM RefundsAreCaptured == Spec => []RefundOnlyCaptured
<1>1. PaymentInv => RefundOnlyCaptured
  BY DEF PaymentInv
<1>q. QED
  BY <1>1, PaymentInvariant, PTL

\* A settled payment row is never reopened or failed by any later step.
THEOREM SettledRowsAreFinal == Spec => SettledIsFinal
<1>1. PaymentInv /\ [Next]_vars =>
        [\A o \in Orders, i \in 1..MaxRows :
            pt[o][i] \in Settled =>
                pt'[o][i] = pt[o][i] \/ pt'[o][i] = "REFUNDED"]_vars
  BY StepKeeps DEF Keeps
<1>q. QED
  BY <1>1, PaymentInvariant, PTL DEF Spec, SettledIsFinal

------------------------------------------------------------------------------
\* The coupon.

\* Orders whose coupon a reconciler has uncounted and not yet marked released.
BeingMarked == {o \in Orders : \E w \in Workers : At(w, "releaseMark") /\ job[w].order = o}

\* The reconciler gives a use back before it marks the order, so the counter is
\* bounded by the holders no reconciler is about to mark.
CouponInv ==
    /\ PaymentInv
    /\ \A o \in Orders : status[o] = NoOrder => coupon[o] = "none"
    /\ used <= Cardinality(Holders \ BeingMarked)
    /\ OneLiveCouponPerCustomer

LEMMA CouponSets ==
    ASSUME NEW S \in SUBSET Orders
    PROVE  /\ Cardinality(S) \in Nat
           /\ \A T \in SUBSET S : Cardinality(T) <= Cardinality(S)
           /\ \A o \in Orders \ S : Cardinality(S \cup {o}) = Cardinality(S) + 1
           /\ \A o \in S : Cardinality(S \ {o}) = Cardinality(S) - 1
<1>1. IsFiniteSet(S)
  BY CheckoutAssumption, FS_Subset DEF CheckoutAssumption
<1>2. Cardinality(S) \in Nat
  BY <1>1, FS_CardinalityType
<1>3. \A T \in SUBSET S : Cardinality(T) <= Cardinality(S)
  BY <1>1, FS_Subset
<1>4. \A o \in Orders \ S : Cardinality(S \cup {o}) = Cardinality(S) + 1
  BY <1>1, FS_AddElement
<1>5. \A o \in S : Cardinality(S \ {o}) = Cardinality(S) - 1
  BY <1>1, FS_RemoveElement
<1>q. QED
  BY <1>2, <1>3, <1>4, <1>5

LEMMA CouponInit == Init => CouponInv
<1> SUFFICES ASSUME Init
             PROVE  CouponInv
  OBVIOUS
<1>1. Holders = {}
  BY DEF Init, Holders
<1>2. Cardinality(Holders \ BeingMarked) \in Nat
  BY <1>1, CouponSets
<1>3. used = 0
  BY DEF Init
<1>4. \A o \in Orders : coupon[o] = "none"
  BY DEF Init
<1>q. QED
  BY <1>1, <1>2, <1>3, <1>4, PaymentInit DEF CouponInv, OneLiveCouponPerCustomer

\* What a step does to the coupon.
CouponQuiet == UNCHANGED couponVars /\ BeingMarked' \subseteq BeingMarked

CouponPlaced(o) ==
    /\ status[o] = NoOrder
    /\ UNCHANGED job
    /\ status'[o] # NoOrder
    /\ \/ coupon' = [coupon EXCEPT ![o] = "none"] /\ UNCHANGED used
       \/ /\ CouponValid(o)
          /\ coupon' = [coupon EXCEPT ![o] = "held"]
          /\ used' = used + 1

CouponReturned(o) == ReleaseCoupon(o) /\ BeingMarked' \subseteq BeingMarked

CouponEffect ==
    \/ CouponQuiet
    \/ \E o \in Orders : CouponPlaced(o) \/ CouponReturned(o)
    \/ \E w \in Workers : ReleaseCount(w) \/ ReleaseMark(w)

LEMMA CouponStep ==
    ASSUME TypeOK, [Next]_vars
    PROVE  CouponEffect
<1>1. UNCHANGED job => BeingMarked' \subseteq BeingMarked
  BY DEF BeingMarked, At
<1>2. ASSUME NEW o \in Orders, OrderStep(o)
      PROVE  CouponEffect
  <2>1. ASSUME NEW m \in Modes, NEW c \in BOOLEAN, CreateOrder(o, m, c)
        PROVE  CouponEffect
    <3>1. /\ status[o] = NoOrder /\ status'[o] # NoOrder
          /\ UNCHANGED job
      BY <2>1 DEF CreateOrder, TypeOK, NoOrder
    <3>2. \/ coupon' = [coupon EXCEPT ![o] = "none"] /\ UNCHANGED used
          \/ /\ CouponValid(o)
             /\ coupon' = [coupon EXCEPT ![o] = "held"]
             /\ used' = used + 1
      BY <2>1 DEF CreateOrder
    <3>q. QED
      BY <3>1, <3>2 DEF CouponEffect, CouponPlaced
  <2>2. CASE \/ GetPaymentStatus(o) \/ VerifyPayment(o) \/ WebhookSuccess(o)
             \/ WebhookFailed(o) \/ AbandonDefinitively(o)
    <3>1. UNCHANGED job /\ (ReleaseCoupon(o) \/ UNCHANGED couponVars)
      BY <2>2
      DEF GetPaymentStatus, VerifyPayment, PollPayment, WebhookSuccess, WebhookFailed,
          AbandonDefinitively, ApplyPaymentFailure, ApplyPaymentSuccess
    <3>q. QED
      BY <1>1, <3>1 DEF CouponEffect, CouponReturned, CouponQuiet
  <2>3. CASE \/ AbandonPayment(o) \/ RefundSubmitted(o) \/ GatewayPays(o)
             \/ GatewayAttemptFails(o) \/ GatewayExpires(o)
    <3>1. UNCHANGED <<job, couponVars>>
      BY <2>3
      DEF AbandonPayment, RefundSubmitted, GatewayPays, GatewayAttemptFails,
          GatewayExpires
    <3>q. QED
      BY <1>1, <3>1 DEF CouponEffect, CouponQuiet
  <2>q. QED
    BY <1>2, <2>1, <2>2, <2>3 DEF OrderStep
<1>3. ASSUME NEW w \in Workers, NEW o \in Orders, RequestStep(w, o)
      PROVE  CouponEffect
  <2>1. /\ UNCHANGED couponVars
        /\ \A v \in Workers : job'[v] = job[v] \/ job'[v].pc # "releaseMark"
    BY <1>3
    DEF RequestStep, InitiateStart, ReconcilePick, TransitionStart, CancelStart, Goto,
        InitiateJob, ReconcileJob, TransitionJob, CancelJob, TypeOK
  <2>2. BeingMarked' \subseteq BeingMarked
    BY <2>1 DEF BeingMarked, At
  <2>q. QED
    BY <2>1, <2>2 DEF CouponEffect, CouponQuiet
<1>4. ASSUME NEW w \in Workers, JobStep(w), ~ReleaseCount(w), ~ReleaseMark(w)
      PROVE  CouponEffect
  <2>1. \A v \in Workers : job'[v] = job[v] \/ job'[v].pc # "releaseMark"
    <3>1. CASE \/ InitiateFinish(w) \/ InitiateRefused(w) \/ ReconcileSuccess(w)
               \/ ReconcileSkip(w) \/ CancelRefund(w)
      BY <3>1
      DEF InitiateFinish, InitiateRefused, ReconcileSuccess, ReconcileSkip,
          CancelRefund, Done, Goto, TypeOK, Idle
    <3>2. CASE CancelRead(w) \/ CancelRestore(w)
      BY <3>2 DEF CancelRead, CancelRestore, TransitionJob, Goto, TypeOK
    <3>3. ASSUME NEW pc \in {"cancelOrder", "releaseRead", "releaseCount"},
                 job[w] \in ReconcileJobs, Goto(w, [job[w] EXCEPT !.pc = pc])
          PROVE  \A v \in Workers : job'[v] = job[v] \/ job'[v].pc # "releaseMark"
      <4>1. [job[w] EXCEPT !.pc = pc].pc # "releaseMark"
        BY <3>3 DEF ReconcileJobs
      <4>q. QED
        BY <3>3, <4>1 DEF Goto, TypeOK
    <3>4. Done(w) => \A v \in Workers : job'[v] = job[v] \/ job'[v].pc # "releaseMark"
      BY DEF Done, Goto, TypeOK, Idle
    <3>5. CASE ReconcileFailRow(w)
      BY <3>3, <3>5, JobAtStep DEF ReconcileFailRow, At
    <3>6. CASE ReconcileCancelOrder(w)
      BY <3>3, <3>6, JobAtStep DEF ReconcileCancelOrder, At
    <3>7. CASE ReleaseRead(w)
      BY <3>3, <3>4, <3>7, JobAtStep DEF ReleaseRead, At
    <3>8. ASSUME NEW pc \in {"write", "refund"},
                 job[w] \in TransitionJobs, Goto(w, [job[w] EXCEPT !.pc = pc])
          PROVE  \A v \in Workers : job'[v] = job[v] \/ job'[v].pc # "releaseMark"
      <4>1. [job[w] EXCEPT !.pc = pc].pc # "releaseMark"
        BY <3>8 DEF TransitionJobs
      <4>q. QED
        BY <3>8, <4>1 DEF Goto, TypeOK
    <3>9. CASE TransitionRead(w)
      BY <3>4, <3>8, <3>9, JobAtStep DEF TransitionRead, At
    <3>10. CASE TransitionWrite(w)
      BY <3>4, <3>8, <3>10, JobAtStep DEF TransitionWrite, At
    <3>q. QED
      BY <1>4, <3>1, <3>2, <3>5, <3>6, <3>7, <3>9, <3>10 DEF JobStep
  <2>2. BeingMarked' \subseteq BeingMarked
    BY <2>1 DEF BeingMarked, At
  <2>3. CASE CancelRestore(w)
    <3>1. job[w].order \in Orders /\ ReleaseCoupon(job[w].order)
      BY <2>3, JobAtStep DEF CancelRestore, RestoreJobs
    <3>q. QED
      BY <2>2, <3>1 DEF CouponEffect, CouponReturned
  <2>4. CASE ~CancelRestore(w)
    <3>1. UNCHANGED couponVars
      BY <1>4, <2>4
      DEF JobStep, InitiateFinish, InitiateRefused, ReconcileSuccess,
          ApplyPaymentSuccess, ReconcileFailRow, ReconcileCancelOrder, ReleaseRead,
          ReconcileSkip, TransitionRead, TransitionWrite, CancelRead, CancelRefund
    <3>q. QED
      BY <2>2, <3>1 DEF CouponEffect, CouponQuiet
  <2>q. QED
    BY <2>3, <2>4
<1>5. ASSUME NEW w \in Workers, JobDies(w)
      PROVE  CouponEffect
  <2>1. \A v \in Workers : job'[v] = job[v] \/ job'[v].pc # "releaseMark"
    BY <1>5 DEF JobDies, Done, Goto, TypeOK, Idle
  <2>2. BeingMarked' \subseteq BeingMarked
    BY <2>1 DEF BeingMarked, At
  <2>q. QED
    BY <1>5, <2>2 DEF JobDies, CouponEffect, CouponQuiet
<1>6. CASE UNCHANGED vars
  BY <1>1, <1>6 DEF vars, CouponEffect, CouponQuiet
<1>q. QED
  BY <1>2, <1>3, <1>4, <1>5, <1>6 DEF Next, Alive, CouponEffect

\* If a step frees at least as many uses as it takes holders out of the count,
\* the bound on the counter is kept.
LEMMA CouponBound ==
    ASSUME TypeOK, used <= Cardinality(Holders \ BeingMarked), NEW o \in Orders,
           used' = IF used > 0 THEN used - 1 ELSE used,
           (Holders \ BeingMarked) \ {o} \subseteq (Holders \ BeingMarked)',
           Holders' \subseteq Orders
    PROVE  used' <= Cardinality((Holders \ BeingMarked)')
<1> DEFINE S == Holders \ BeingMarked
           T == (Holders \ BeingMarked)'
<1>1. S \in SUBSET Orders /\ S \ {o} \in SUBSET T /\ T \in SUBSET Orders
  BY DEF Holders
<1>2. Cardinality(S) \in Nat /\ Cardinality(T) \in Nat
  BY <1>1, CouponSets
<1>3. Cardinality(S \ {o}) \in Nat /\ Cardinality(S \ {o}) <= Cardinality(T)
  BY <1>1, CouponSets
<1>4. used \in Nat /\ used <= Cardinality(S)
  BY DEF TypeOK
<1> HIDE DEF S, T
<1>5. Cardinality(S) - 1 <= Cardinality(S \ {o})
  <2>1. CASE o \in S
    BY <1>1, <1>2, <2>1, CouponSets
  <2>2. CASE o \notin S
    <3>1. S \ {o} = S
      BY <2>2
    <3>q. QED
      BY <1>2, <3>1
  <2>q. QED
    BY <2>1, <2>2
<1>6. used' <= Cardinality(T)
  BY <1>2, <1>3, <1>4, <1>5
<1>q. QED
  BY <1>6 DEF T

\* The bound is also kept by a step that leaves the counter alone.
LEMMA CouponBoundQuiet ==
    ASSUME used <= Cardinality(Holders \ BeingMarked), UNCHANGED used,
           TypeOK, TypeOK', Holders \ BeingMarked \subseteq (Holders \ BeingMarked)'
    PROVE  used' <= Cardinality((Holders \ BeingMarked)')
<1> DEFINE S == Holders \ BeingMarked
           T == (Holders \ BeingMarked)'
<1>1. S \in SUBSET T /\ S \in SUBSET Orders /\ T \in SUBSET Orders
  BY DEF Holders
<1>2. /\ Cardinality(S) \in Nat /\ Cardinality(T) \in Nat
      /\ Cardinality(S) <= Cardinality(T)
  BY <1>1, CouponSets
<1>3. used \in Nat /\ used' = used /\ used <= Cardinality(S)
  BY DEF TypeOK
<1> HIDE DEF S, T
<1>4. used' <= Cardinality(T)
  BY <1>2, <1>3
<1>q. QED
  BY <1>4 DEF T

LEMMA CouponInvStep == CouponInv /\ [Next]_vars => CouponInv'
<1> SUFFICES ASSUME CouponInv, [Next]_vars
             PROVE  CouponInv'
  OBVIOUS
<1>1. TypeOK /\ TypeOK' /\ PaymentInv'
  BY PaymentInvInductive, TypeStep DEF CouponInv, PaymentInv
<1>2. \A o \in Orders : status'[o] = NoOrder => status[o] = NoOrder
  BY StepKeeps DEF CouponInv, Keeps
<1>3. CouponEffect
  BY <1>1, CouponStep
<1>4. /\ used <= Cardinality(Holders \ BeingMarked)
      /\ \A o \in Orders : status[o] = NoOrder => coupon[o] = "none"
      /\ OneLiveCouponPerCustomer
      /\ \A w \in Workers : JobInv(w)
  BY DEF CouponInv, PaymentInv
<1> DEFINE Fresh == \A o \in Orders : status'[o] = NoOrder => coupon'[o] = "none"
           Bound == used' <= Cardinality((Holders \ BeingMarked)')
<1>5. CASE CouponQuiet
  <2>1. Holders' = Holders
    BY <1>5 DEF CouponQuiet, couponVars, Holders
  <2>2. Bound
    BY <1>1, <1>4, <1>5, <2>1, CouponBoundQuiet DEF CouponQuiet, couponVars
  <2>3. Fresh
    BY <1>2, <1>4, <1>5 DEF CouponQuiet, couponVars
  <2>4. OneLiveCouponPerCustomer'
    BY <1>4, <2>1 DEF OneLiveCouponPerCustomer
  <2>q. QED
    BY <1>1, <2>2, <2>3, <2>4 DEF CouponInv
<1>6. ASSUME NEW o \in Orders, CouponPlaced(o)
      PROVE  CouponInv'
  <2>1. coupon[o] = "none" /\ o \notin Holders
    BY <1>4, <1>6 DEF CouponPlaced, Holders
  <2>2. BeingMarked' = BeingMarked
    BY <1>6 DEF CouponPlaced, BeingMarked, At
  <2>3. o \notin BeingMarked
    BY <1>4, <1>6 DEF CouponPlaced, BeingMarked, At, JobInv, Idle
  <2>4. CASE coupon' = [coupon EXCEPT ![o] = "none"] /\ UNCHANGED used
    <3>1. Holders' = Holders
      BY <1>1, <2>1, <2>4 DEF Holders, TypeOK
    <3>2. Bound
      BY <1>1, <1>4, <2>2, <2>4, <3>1, CouponBoundQuiet
    <3>3. Fresh
      BY <1>1, <1>2, <1>4, <2>4 DEF TypeOK
    <3>4. OneLiveCouponPerCustomer'
      BY <1>4, <3>1 DEF OneLiveCouponPerCustomer
    <3>q. QED
      BY <1>1, <3>2, <3>3, <3>4 DEF CouponInv
  <2>5. CASE /\ CouponValid(o)
             /\ coupon' = [coupon EXCEPT ![o] = "held"]
             /\ used' = used + 1
    <3>1. Holders' = Holders \cup {o}
      BY <1>1, <2>5 DEF Holders, TypeOK
    <3>2. Bound
      <4> DEFINE S == Holders \ BeingMarked
      <4>1. S \in SUBSET Orders /\ o \in Orders \ S
        BY <2>1 DEF Holders
      <4>2. (Holders \ BeingMarked)' = S \cup {o}
        BY <2>2, <2>3, <3>1
      <4>3. /\ Cardinality(S) \in Nat
            /\ Cardinality(S \cup {o}) = Cardinality(S) + 1
        BY <4>1, CouponSets
      <4>4. used \in Nat /\ used <= Cardinality(S) /\ used' = used + 1
        BY <1>1, <1>4, <2>5 DEF TypeOK
      <4> HIDE DEF S
      <4>5. used' <= Cardinality(S \cup {o})
        BY <4>3, <4>4
      <4>q. QED
        BY <4>2, <4>5
    <3>3. Fresh
      BY <1>1, <1>2, <1>4, <1>6, <2>5 DEF TypeOK, CouponPlaced
    <3>4. OneLiveCouponPerCustomer'
      <4>1. \A p \in Holders : Owner[p] # Owner[o]
        BY <2>5 DEF CouponValid
      <4>q. QED
        BY <1>4, <3>1, <4>1 DEF OneLiveCouponPerCustomer
    <3>q. QED
      BY <1>1, <3>2, <3>3, <3>4 DEF CouponInv
  <2>q. QED
    BY <1>6, <2>4, <2>5 DEF CouponPlaced
<1>7. ASSUME NEW o \in Orders, CouponReturned(o)
      PROVE  CouponInv'
  <2>1. /\ coupon' = [coupon EXCEPT ![o] = IF @ = "held" THEN "released" ELSE @]
        /\ used' = IF coupon[o] = "held" /\ used > 0 THEN used - 1 ELSE used
        /\ BeingMarked' \subseteq BeingMarked
    BY <1>7 DEF CouponReturned, ReleaseCoupon
  <2>2. Holders' = Holders \ {o}
    BY <1>1, <2>1 DEF Holders, TypeOK
  <2>3. Bound
    <3>1. CASE coupon[o] = "held"
      <4>1. (Holders \ BeingMarked) \ {o} \subseteq (Holders \ BeingMarked)'
        BY <2>1, <2>2
      <4>2. Holders' \subseteq Orders
        BY <2>2 DEF Holders
      <4>q. QED
        BY <1>1, <1>4, <2>1, <3>1, <4>1, <4>2, CouponBound
    <3>2. CASE coupon[o] # "held"
      <4>1. Holders' = Holders
        BY <2>2, <3>2 DEF Holders
      <4>q. QED
        BY <1>1, <1>4, <2>1, <3>2, <4>1, CouponBoundQuiet
    <3>q. QED
      BY <3>1, <3>2
  <2>4. Fresh
    BY <1>1, <1>2, <1>4, <2>1 DEF TypeOK
  <2>5. OneLiveCouponPerCustomer'
    BY <1>4, <2>2 DEF OneLiveCouponPerCustomer
  <2>q. QED
    BY <1>1, <2>3, <2>4, <2>5 DEF CouponInv
<1>8. ASSUME NEW w \in Workers, ReleaseCount(w)
      PROVE  CouponInv'
  <2>1. job[w] \in ReconcileJobs
    BY <1>1, <1>8, JobAtStep DEF ReleaseCount, At
  <2>2. job[w].order \in Orders
    BY <2>1 DEF ReconcileJobs
  <2>3. coupon' = coupon /\ used' = IF used > 0 THEN used - 1 ELSE used
    BY <1>8 DEF ReleaseCount
  <2>4. BeingMarked' \subseteq BeingMarked \cup {job[w].order}
    <3>1. job' = [job EXCEPT ![w] = [job[w] EXCEPT !.pc = "releaseMark"]]
      BY <1>8 DEF ReleaseCount, Goto
    <3>2. [job[w] EXCEPT !.pc = "releaseMark"].order = job[w].order
      BY <2>1 DEF ReconcileJobs
    <3>q. QED
      BY <1>1, <3>1, <3>2 DEF BeingMarked, At, TypeOK
  <2>5. Holders' = Holders
    BY <2>3 DEF Holders
  <2>6. Bound
    <3>1. (Holders \ BeingMarked) \ {job[w].order} \subseteq (Holders \ BeingMarked)'
      BY <2>4, <2>5
    <3>2. Holders' \subseteq Orders
      BY <2>5 DEF Holders
    <3>q. QED
      BY <1>1, <1>4, <2>2, <2>3, <3>1, <3>2, CouponBound
  <2>7. Fresh
    BY <1>2, <1>4, <2>3
  <2>8. OneLiveCouponPerCustomer'
    BY <1>4, <2>5 DEF OneLiveCouponPerCustomer
  <2>q. QED
    BY <1>1, <2>6, <2>7, <2>8 DEF CouponInv
<1>9. ASSUME NEW w \in Workers, ReleaseMark(w)
      PROVE  CouponInv'
  <2>1. job[w] \in ReconcileJobs
    BY <1>1, <1>9, JobAtStep DEF ReleaseMark, At
  <2>2. job[w].order \in Orders
    BY <2>1 DEF ReconcileJobs
  <2>3. /\ coupon' = [coupon EXCEPT ![job[w].order] = "released"]
        /\ used' = used
        /\ job' = [job EXCEPT ![w] = Idle]
    BY <1>9 DEF ReleaseMark, Done, Goto
  <2>4. job[w].order \in BeingMarked
    BY <1>9, <2>2 DEF ReleaseMark, BeingMarked
  <2>5. BeingMarked' \subseteq BeingMarked
    BY <1>1, <2>3 DEF BeingMarked, At, TypeOK, Idle
  <2>6. Holders' = Holders \ {job[w].order}
    BY <1>1, <2>2, <2>3 DEF Holders, TypeOK
  <2>7. Bound
    <3>1. Holders \ BeingMarked \subseteq (Holders \ BeingMarked)'
      BY <2>4, <2>5, <2>6
    <3>q. QED
      BY <1>1, <1>4, <2>3, <3>1, CouponBoundQuiet
  <2>8. Fresh
    <3>1. status[job[w].order] # NoOrder
      BY <1>4, <1>9 DEF ReleaseMark, At, JobInv, Idle
    <3>q. QED
      BY <1>1, <1>2, <1>4, <2>3, <3>1 DEF TypeOK
  <2>9. OneLiveCouponPerCustomer'
    BY <1>4, <2>6 DEF OneLiveCouponPerCustomer
  <2>q. QED
    BY <1>1, <2>7, <2>8, <2>9 DEF CouponInv
<1>q. QED
  BY <1>3, <1>5, <1>6, <1>7, <1>8, <1>9 DEF CouponEffect

THEOREM CouponInvariant == Spec => []CouponInv
  BY CouponInit, CouponInvStep, PTL DEF Spec

\* The counter never exceeds the orders that hold the coupon, although the
\* reconciler spreads a release over statements, may be interleaved with a
\* cancel that releases the same coupon, and may die in between.
THEOREM CouponBounded == Spec => []CouponNeverOvercharged
<1>1. CouponInv => CouponNeverOvercharged
  <2> SUFFICES ASSUME CouponInv
               PROVE  CouponNeverOvercharged
    OBVIOUS
  <2>1. Holders \in SUBSET Orders /\ Holders \ BeingMarked \in SUBSET Holders
    BY DEF Holders
  <2>2. /\ Cardinality(Holders) \in Nat /\ Cardinality(Holders \ BeingMarked) \in Nat
        /\ Cardinality(Holders \ BeingMarked) <= Cardinality(Holders)
    BY <2>1, CouponSets
  <2>3. used \in Nat /\ used <= Cardinality(Holders \ BeingMarked)
    BY DEF CouponInv, PaymentInv, TypeOK
  <2>q. QED
    BY <2>2, <2>3 DEF CouponNeverOvercharged
<1>q. QED
  BY <1>1, CouponInvariant, PTL

\* A customer never has the coupon on two orders at a time.
THEOREM OneCouponPerCustomer == Spec => []OneLiveCouponPerCustomer
<1>1. CouponInv => OneLiveCouponPerCustomer
  BY DEF CouponInv
<1>q. QED
  BY <1>1, CouponInvariant, PTL

------------------------------------------------------------------------------
\* The stock.  Each step takes or returns the units of one order at most, and
\* the shelf by as much.

LEMMA OutIsNumber ==
    ASSUME TypeOK, NEW p \in Orders
    PROVE  /\ IsFiniteSet(SettledRows(p)) /\ Cardinality(SettledRows(p)) \in Nat
           /\ Takings(p) \in Int /\ restored[p] \in Int /\ Qty[p] \in Int
           /\ UnitsOut(p) \in Int
<1>1. IsFiniteSet(1..MaxRows) /\ SettledRows(p) \subseteq 1..MaxRows
  BY FS_Interval, CheckoutAssumption DEF CheckoutAssumption, SettledRows
<1>2. IsFiniteSet(SettledRows(p)) /\ Cardinality(SettledRows(p)) \in Nat
  BY <1>1, FS_Subset, FS_CardinalityType
<1>3. Takings(p) \in Int
  BY <1>2 DEF Takings
<1>4. restored[p] \in Int /\ Qty[p] \in Int
  BY CheckoutAssumption DEF CheckoutAssumption, TypeOK
<1>q. QED
  BY <1>2, <1>3, <1>4 DEF UnitsOut

\* One more taking, or one more return, of an order.
LEMMA OneMoreTimes ==
    ASSUME NEW q \in Int, NEW t \in Int, NEW r \in Int
    PROVE  /\ q * ((t + 1) - r) = q * (t - r) + q
           /\ q * (t - (r + 1)) = q * (t - r) - q
  OBVIOUS

\* What takes nothing and returns nothing of an order: no row is settled anew,
\* and the order is not placed.
LEMMA OutUnchanged ==
    ASSUME PaymentInv, [Next]_vars, NEW p \in Orders,
           status[p] = NoOrder => status'[p] = NoOrder,
           \A i \in 1..MaxRows : pt'[p][i] \in Settled => pt[p][i] \in Settled,
           restored'[p] = restored[p]
    PROVE  UnitsOut(p)' = UnitsOut(p)
<1>1. Keeps(p)
  BY StepKeeps
<1>2. SettledRows(p)' = SettledRows(p)
  BY <1>1 DEF Keeps, SettledRows, Settled
<1>3. PlacedCod(p)' <=> PlacedCod(p)
  BY <1>1 DEF Keeps, PlacedCod
<1>q. QED
  BY <1>2, <1>3 DEF UnitsOut, Takings

StockMoves(o) ==
    /\ \A p \in Orders \ {o} : UnitsOut(p)' = UnitsOut(p)
    /\ stock' = stock - (UnitsOut(o)' - UnitsOut(o))

StockStays == stock' = stock /\ \A p \in Orders : UnitsOut(p)' = UnitsOut(p)

\* A payment that is applied takes its order's units: its row was not settled,
\* because the order of a settled row does not wait for a payment.
LEMMA SuccessTakes ==
    ASSUME PaymentInv, [Next]_vars, NEW o \in Orders, NEW i \in 1..MaxRows, i <= rows[o],
           ApplyPaymentSuccess(o, i)
    PROVE  StockMoves(o)
<1>1. TypeOK /\ OrderInv(o)
  BY DEF PaymentInv
<1>2. /\ pt' = [pt EXCEPT ![o] = [@ EXCEPT ![i] = "SUCCESS"]]
      /\ restored' = restored /\ stock' = stock - Qty[o]
      /\ status' = status \/ status' = [status EXCEPT ![o] = "CONFIRMED"]
  BY DEF ApplyPaymentSuccess, ConfirmOrderAfterPayment, ReserveStock, historyVars
<1>3. pt[o][i] \notin Settled
  BY <1>1 DEF ApplyPaymentSuccess, SuccessApplies, OrderInv, HasSettledRow, Settled
<1>4. status[o] # NoOrder
  BY <1>1, CheckoutAssumption DEF CheckoutAssumption, OrderInv, TypeOK
<1>5. ASSUME NEW p \in Orders \ {o} PROVE UnitsOut(p)' = UnitsOut(p)
  BY <1>1, <1>2, <1>5, OutUnchanged DEF TypeOK
<1>6. SettledRows(o)' = SettledRows(o) \cup {i}
  BY ZenonT(60), <1>1, <1>2 DEF SettledRows, Settled, TypeOK
<1>7. Cardinality(SettledRows(o))' = Cardinality(SettledRows(o)) + 1
  <2>1. i \notin SettledRows(o)
    BY <1>3 DEF SettledRows
  <2>q. QED
    BY <1>1, <1>6, <2>1, OutIsNumber, FS_AddElement
<1>8. PlacedCod(o)' <=> PlacedCod(o)
  BY <1>4, StepKeeps DEF Keeps, PlacedCod
<1>9. Takings(o)' = Takings(o) + 1
  BY <1>1, <1>7, <1>8, OutIsNumber DEF Takings
<1>10. UnitsOut(o)' = UnitsOut(o) + Qty[o]
  BY <1>1, <1>2, <1>9, OutIsNumber, OneMoreTimes DEF UnitsOut
<1>11. stock \in Int /\ UnitsOut(o) \in Int /\ Qty[o] \in Int
  BY <1>1, OutIsNumber DEF TypeOK
<1>q. QED
  BY <1>2, <1>5, <1>10, <1>11 DEF StockMoves

\* A COD order takes its units as it is placed, an ONLINE order none.
LEMMA PlacingTakes ==
    ASSUME PaymentInv, [Next]_vars, NEW o \in Orders, NEW m \in Modes, NEW c \in BOOLEAN,
           CreateOrder(o, m, c)
    PROVE  StockMoves(o)
<1>1. TypeOK /\ OrderInv(o)
  BY DEF PaymentInv
<1>2. /\ status[o] = NoOrder
      /\ status' = [status EXCEPT ![o] = IF m = "COD" THEN "CONFIRMED" ELSE "PAYMENT_PENDING"]
      /\ mode' = [mode EXCEPT ![o] = m]
      /\ stock' = IF m = "COD" THEN stock - Qty[o] ELSE stock
      /\ pt' = pt /\ restored' = restored
  BY DEF CreateOrder, paymentVars, historyVars
<1>3. ASSUME NEW p \in Orders \ {o} PROVE UnitsOut(p)' = UnitsOut(p)
  BY <1>1, <1>2, <1>3, OutUnchanged DEF TypeOK
<1>4. SettledRows(o)' = SettledRows(o)
  BY <1>2 DEF SettledRows
<1>5. ~PlacedCod(o) /\ (PlacedCod(o)' <=> m = "COD")
  BY <1>1, <1>2 DEF PlacedCod, TypeOK, NoOrder
<1>6. Takings(o)' = IF m = "COD" THEN Takings(o) + 1 ELSE Takings(o)
  BY <1>1, <1>4, <1>5, OutIsNumber DEF Takings
<1>7. UnitsOut(o)' = IF m = "COD" THEN UnitsOut(o) + Qty[o] ELSE UnitsOut(o)
  <2>1. UnitsOut(o)' = Qty[o] * (Takings(o)' - restored[o]) /\ UnitsOut(o) = Qty[o] * (Takings(o) - restored[o])
    BY <1>2 DEF UnitsOut
  <2>2. Takings(o) \in Int /\ restored[o] \in Int /\ Qty[o] \in Int
    BY <1>1, OutIsNumber
  <2>3. CASE m = "COD"
    <3>1. Qty[o] * ((Takings(o) + 1) - restored[o]) = Qty[o] * (Takings(o) - restored[o]) + Qty[o]
      BY <2>2, OneMoreTimes
    <3>q. QED
      BY <1>6, <2>1, <2>3, <3>1
  <2>4. CASE m # "COD"
    BY <1>6, <2>1, <2>4
  <2>q. QED
    BY <2>3, <2>4
<1>8. stock \in Int /\ UnitsOut(o) \in Int /\ Qty[o] \in Int
  BY <1>1, OutIsNumber DEF TypeOK
<1>q. QED
  BY <1>2, <1>3, <1>7, <1>8 DEF StockMoves

\* A cancellation returns the units of its order, or leaves all as it is.
LEMMA CancelReturns ==
    ASSUME PaymentInv, [Next]_vars, NEW w \in Workers, CancelRestore(w)
    PROVE  StockStays \/ \E o \in Orders : StockMoves(o)
<1>1. TypeOK
  BY DEF PaymentInv
<1>2. PICK o \in Orders : o = job[w].order
  BY <1>1, JobAtStep DEF CancelRestore, At, RestoreJobs
<1>3. status' = status /\ pt' = pt /\ mode' = mode
  BY DEF CancelRestore, orderVars, paymentVars
<1>4. CASE UNCHANGED <<stock, restored>>
  BY <1>3, <1>4, OutUnchanged DEF StockStays
<1>5. CASE stock' = stock + Qty[o] /\ restored' = [restored EXCEPT ![o] = @ + 1]
  <2>1. ASSUME NEW p \in Orders \ {o} PROVE UnitsOut(p)' = UnitsOut(p)
    BY <1>1, <1>3, <1>5, OutUnchanged DEF TypeOK
  <2>2. Takings(o)' = Takings(o) /\ restored'[o] = restored[o] + 1
    <3>1. Takings(o)' = Takings(o)
      BY <1>3 DEF Takings, SettledRows, PlacedCod
    <3>2. restored'[o] = restored[o] + 1
      <4>1. restored \in [Orders -> Nat]
        BY <1>1 DEF TypeOK
      <4>q. QED
        BY <1>2, <1>5, <4>1
    <3>q. QED
      BY <3>1, <3>2
  <2>3. UnitsOut(o)' = UnitsOut(o) - Qty[o]
    <3>1. UnitsOut(o) = Qty[o] * (Takings(o) - restored[o])
      BY DEF UnitsOut
    <3>2. UnitsOut(o)' = Qty[o] * (Takings(o) - (restored[o] + 1))
      BY <2>2 DEF UnitsOut
    <3>3. Takings(o) \in Int /\ restored[o] \in Int /\ Qty[o] \in Int
      BY <1>1, <1>2, OutIsNumber
    <3>4. Qty[o] * (Takings(o) - (restored[o] + 1)) = Qty[o] * (Takings(o) - restored[o]) - Qty[o]
      BY <3>3, OneMoreTimes
    <3>q. QED
      BY <3>1, <3>2, <3>4
  <2>4. stock \in Int /\ UnitsOut(o) \in Int /\ Qty[o] \in Int
    BY <1>1, <1>2, OutIsNumber DEF TypeOK
  <2>5. StockMoves(o)
    BY <1>5, <2>1, <2>3, <2>4 DEF StockMoves
  <2>q. QED
    BY <1>2, <2>5
<1>q. QED
  BY <1>2, <1>4, <1>5 DEF CancelRestore

\* The other steps touch neither the shelf nor what counts as taken.
LEMMA OthersTakeNothing ==
    ASSUME PaymentInv, [Next]_vars, stock' = stock, restored' = restored,
           \A p \in Orders : status[p] = NoOrder => status'[p] = NoOrder,
           \A p \in Orders, i \in 1..MaxRows : pt'[p][i] \in Settled => pt[p][i] \in Settled
    PROVE  StockStays
  BY OutUnchanged DEF StockStays, PaymentInv, TypeOK

\* A failed payment settles nothing, and its order exists.
LEMMA FailureTakesNothing ==
    ASSUME PaymentInv, [Next]_vars, NEW o \in Orders, rows[o] > 0, ApplyPaymentFailure(o, rows[o])
    PROVE  StockStays
<1>1. TypeOK /\ status[o] # NoOrder
  BY DEF PaymentInv, OrderInv
<1>2. /\ stock' = stock /\ restored' = restored
      /\ pt' = [pt EXCEPT ![o] = [@ EXCEPT ![rows[o]] = "FAILED"]]
      /\ status' = [status EXCEPT ![o] = "CANCELLED"]
  BY DEF ApplyPaymentFailure, historyVars
<1>3. \A p \in Orders, i \in 1..MaxRows : pt'[p][i] = pt[p][i] \/ pt'[p][i] = "FAILED"
  BY <1>1, <1>2 DEF TypeOK
<1>4. \A p \in Orders : status[p] = NoOrder => status'[p] = NoOrder
  BY <1>1, <1>2 DEF TypeOK
<1>q. QED
  BY <1>2, <1>3, <1>4, OthersTakeNothing DEF Settled

LEMMA OrderStepStock ==
    ASSUME PaymentInv, [Next]_vars, NEW o \in Orders, OrderStep(o)
    PROVE  StockStays \/ StockMoves(o)
<1>1. TypeOK /\ OrderInv(o) /\ (rows[o] > 0 => rows[o] \in 1..MaxRows /\ rows[o] <= rows[o])
  BY LatestRow DEF PaymentInv
<1>2. CASE \E m \in Modes, c \in BOOLEAN : CreateOrder(o, m, c)
  BY <1>2, PlacingTakes
<1>3. CASE WebhookSuccess(o)
  BY <1>1, <1>3, SuccessTakes DEF WebhookSuccess, LatestIs
<1>4. CASE WebhookFailed(o)
  BY <1>4, FailureTakesNothing DEF WebhookFailed, LatestIs
<1>5. CASE GetPaymentStatus(o) \/ VerifyPayment(o)
  <2>1. rows[o] > 0 /\ (ApplyPaymentSuccess(o, rows[o]) \/ ApplyPaymentFailure(o, rows[o]))
    BY <1>5 DEF GetPaymentStatus, VerifyPayment, PollPayment, Confirmable, LatestIs
  <2>q. QED
    BY <1>1, <2>1, SuccessTakes, FailureTakesNothing
<1>6. CASE AbandonPayment(o)
  <2>1. UNCHANGED <<status, stock, restored>>
    BY <1>6 DEF AbandonPayment, historyVars
  <2>2. \A p \in Orders, i \in 1..MaxRows : pt'[p][i] = pt[p][i] \/ pt'[p][i] = "FAILED"
    <3>1. CASE pt' = [pt EXCEPT ![o] = [@ EXCEPT ![rows[o]] = "FAILED"]]
      BY <1>1, <3>1 DEF TypeOK
    <3>q. QED
      BY <1>6, <3>1 DEF AbandonPayment
  <2>q. QED
    BY <2>1, <2>2, OthersTakeNothing DEF Settled
<1>7. CASE AbandonDefinitively(o)
  <2>1. CASE rows[o] > 0 /\ ApplyPaymentFailure(o, rows[o])
    BY <2>1, FailureTakesNothing
  <2>2. CASE /\ status' = [status EXCEPT ![o] = "CANCELLED"]
             /\ UNCHANGED <<paymentVars, stock, historyVars>>
    <3>1. status[o] # NoOrder /\ UNCHANGED <<pt, stock, restored>>
      BY <1>7, <2>2 DEF AbandonDefinitively, Unconfirmed, NoOrder, paymentVars, historyVars
    <3>2. \A p \in Orders : status[p] = NoOrder => status'[p] = NoOrder
      BY <1>1, <2>2, <3>1 DEF TypeOK
    <3>q. QED
      BY <3>1, <3>2, OthersTakeNothing
  <2>q. QED
    BY <1>7, <2>1, <2>2 DEF AbandonDefinitively
<1>8. CASE RefundSubmitted(o)
  <2>1. UNCHANGED <<status, stock, restored>>
    BY <1>8 DEF RefundSubmitted, orderVars, historyVars
  <2>2. PICK i \in Row(o) : /\ pt[o][i] = "SUCCESS"
                            /\ pt' = [pt EXCEPT ![o] = [@ EXCEPT ![i] = "REFUNDED"]]
    BY <1>8 DEF RefundSubmitted
  <2>3. \A p \in Orders, k \in 1..MaxRows : pt'[p][k] = pt[p][k] \/ pt[p][k] = "SUCCESS"
    BY <1>1, <2>2 DEF TypeOK
  <2>q. QED
    BY <2>1, <2>3, OthersTakeNothing DEF Settled
<1>9. CASE GatewayPays(o) \/ GatewayAttemptFails(o) \/ GatewayExpires(o)
  <2>1. UNCHANGED <<status, pt, stock, restored>>
    BY <1>9 DEF GatewayPays, GatewayAttemptFails, GatewayExpires, orderVars, paymentVars, historyVars
  <2>q. QED
    BY <2>1, OthersTakeNothing
<1>q. QED
  BY <1>2, <1>3, <1>4, <1>5, <1>6, <1>7, <1>8, <1>9 DEF OrderStep

LEMMA JobStepStock ==
    ASSUME PaymentInv, [Next]_vars, NEW w \in Workers, JobStep(w)
    PROVE  StockStays \/ \E o \in Orders : StockMoves(o)
<1>1. TypeOK /\ JobInv(w)
  BY DEF PaymentInv
<1>2. CASE InitiateFinish(w)
  <2>1. UNCHANGED <<status, stock, restored>>
    BY <1>2 DEF InitiateFinish, orderVars, historyVars
  <2>2. pt' = [pt EXCEPT ![job[w].order] = [@ EXCEPT ![rows[job[w].order] + 1] = "PENDING"]]
    BY <1>2 DEF InitiateFinish
  <2>3. \A p \in Orders, i \in 1..MaxRows : pt'[p][i] = pt[p][i] \/ pt'[p][i] = "PENDING"
    BY <1>1, <2>2 DEF TypeOK
  <2>q. QED
    BY <2>1, <2>3, OthersTakeNothing DEF Settled
<1>3. CASE ReconcileSuccess(w)
  <2>1. job[w] \in ReconcileJobs
    BY <1>1, <1>3, JobAtStep DEF ReconcileSuccess, At
  <2>2. /\ job[w].order \in Orders /\ job[w].row \in 1..MaxRows
        /\ job[w].row <= rows[job[w].order] /\ ApplyPaymentSuccess(job[w].order, job[w].row)
    BY <1>1, <1>3, <2>1 DEF JobInv, ReconcileJobs, ReconcileSuccess
  <2>q. QED
    BY <2>2, SuccessTakes
<1>4. CASE ReconcileFailRow(w)
  <2>1. UNCHANGED <<status, stock, restored>>
    BY <1>4 DEF ReconcileFailRow, orderVars, historyVars
  <2>2. pt' = [pt EXCEPT ![job[w].order] = [@ EXCEPT ![job[w].row] = "FAILED"]]
    BY <1>4 DEF ReconcileFailRow
  <2>3. \A p \in Orders, i \in 1..MaxRows : pt'[p][i] = pt[p][i] \/ pt'[p][i] = "FAILED"
    BY <1>1, <2>2 DEF TypeOK
  <2>q. QED
    BY <2>1, <2>3, OthersTakeNothing DEF Settled
<1>5. CASE ReconcileCancelOrder(w)
  <2>1. UNCHANGED <<pt, stock, restored>>
    BY <1>5 DEF ReconcileCancelOrder, paymentVars, historyVars
  <2>2. status' = status \/ (status[job[w].order] \in Unconfirmed /\ status' = [status EXCEPT ![job[w].order] = "CANCELLED"])
    BY <1>5 DEF ReconcileCancelOrder
  <2>3. \A p \in Orders : status[p] = NoOrder => status'[p] = NoOrder
    BY <1>1, <2>2 DEF TypeOK, Unconfirmed, NoOrder
  <2>q. QED
    BY <2>1, <2>3, OthersTakeNothing
<1>6. CASE TransitionWrite(w)
  <2>1. UNCHANGED <<pt, stock, restored>> /\ status' = [status EXCEPT ![job[w].order] = job[w].to]
    BY <1>6 DEF TransitionWrite, paymentVars, historyVars
  <2>2. status[job[w].order] # NoOrder
    BY <1>1, <1>6 DEF JobInv, TransitionWrite, At, Idle
  <2>3. \A p \in Orders : status[p] = NoOrder => status'[p] = NoOrder
    BY <1>1, <2>1, <2>2 DEF TypeOK
  <2>q. QED
    BY <2>1, <2>3, OthersTakeNothing
<1>7. CASE CancelRestore(w)
  BY <1>7, CancelReturns
<1>8. CASE \/ InitiateRefused(w) \/ ReleaseRead(w) \/ ReleaseCount(w)
           \/ ReleaseMark(w) \/ ReconcileSkip(w) \/ TransitionRead(w)
           \/ CancelRead(w) \/ CancelRefund(w)
  <2>1. UNCHANGED <<status, pt, stock, restored>>
    BY <1>8 DEF InitiateRefused, ReleaseRead, ReleaseCount, ReleaseMark, ReconcileSkip,
                TransitionRead, CancelRead, CancelRefund, orderVars, paymentVars, historyVars
  <2>q. QED
    BY <2>1, OthersTakeNothing
<1>q. QED
  BY <1>2, <1>3, <1>4, <1>5, <1>6, <1>7, <1>8 DEF JobStep

LEMMA StepStock ==
    ASSUME PaymentInv, [Next]_vars
    PROVE  StockStays \/ \E o \in Orders : StockMoves(o)
<1>1. ASSUME NEW o \in Orders, OrderStep(o)
      PROVE  StockStays \/ \E p \in Orders : StockMoves(p)
  BY <1>1, OrderStepStock
<1>2. ASSUME NEW w \in Workers, JobStep(w)
      PROVE  StockStays \/ \E p \in Orders : StockMoves(p)
  BY <1>2, JobStepStock
<1>3. ASSUME NEW w \in Workers, JobDies(w) \/ \E o \in Orders : RequestStep(w, o)
      PROVE  StockStays
  <2>1. UNCHANGED <<status, pt, stock, restored>>
    BY <1>3 DEF JobDies, RequestStep, InitiateStart, ReconcilePick, TransitionStart, CancelStart,
                orderVars, paymentVars, historyVars
  <2>q. QED
    BY <2>1, OthersTakeNothing
<1>4. CASE UNCHANGED vars
  <2>1. UNCHANGED <<status, pt, stock, restored>>
    BY <1>4 DEF vars, orderVars, paymentVars, historyVars
  <2>q. QED
    BY <2>1, OthersTakeNothing
<1>q. QED
  BY <1>1, <1>2, <1>3, <1>4 DEF Next, Alive

\* What is out, order by order.
OutOf == [o \in Orders |-> UnitsOut(o)]

LEMMA OutOfTyped == TypeOK => OutOf \in [Orders -> Int]
  BY OutIsNumber DEF OutOf

LEMMA LedgerIsSum == StockLedger <=> stock = InitStock - SumOf(OutOf)
  BY DEF StockLedger, SumOf, OutOf

LEMMA LedgerStep == PaymentInv /\ StockLedger /\ [Next]_vars => StockLedger'
<1>a. StockLedger' <=> (stock = InitStock - SumOf(OutOf))'
  BY LedgerIsSum, PTL
<1> SUFFICES ASSUME PaymentInv, stock = InitStock - SumOf(OutOf), [Next]_vars
             PROVE  stock' = InitStock - SumOf(OutOf')
  BY <1>a, LedgerIsSum
<1>1. TypeOK /\ TypeOK'
  BY TypeStep DEF PaymentInv
<1>2. OutOf \in [Orders -> Int]
  BY <1>1, OutOfTyped
<1>3. (OutOf \in [Orders -> Int])'
  BY <1>1, OutOfTyped, PTL
<1>4. CASE StockStays
  <2>1. OutOf' = OutOf
    BY <1>4 DEF StockStays, OutOf
  <2>q. QED
    BY <1>4, <2>1 DEF StockStays
<1>5. ASSUME NEW o \in Orders, StockMoves(o)
      PROVE  stock' = InitStock - SumOf(OutOf')
  <2>1. \A p \in Orders \ {o} : OutOf'[p] = OutOf[p]
    BY <1>5 DEF StockMoves, OutOf
  <2>2. OutOf'[o] = UnitsOut(o)' /\ OutOf[o] = UnitsOut(o)
    BY DEF OutOf
  <2>3. SumOf(OutOf) \in Int /\ SumOf(OutOf') = SumOf(OutOf) + OutOf'[o] - OutOf[o]
    BY <1>2, <1>3, <2>1, SumChanges, CheckoutAssumption DEF CheckoutAssumption
  <2>4. OutOf'[o] \in Int /\ OutOf[o] \in Int
    BY <1>2, <1>3
  <2>q. QED
    BY <1>5, <2>2, <2>3, <2>4, CheckoutAssumption DEF CheckoutAssumption, StockMoves
<1>q. QED
  BY <1>4, <1>5, StepStock

LEMMA LedgerInit == Init => StockLedger
<1> SUFFICES ASSUME Init PROVE StockLedger
  OBVIOUS
<1>1. ASSUME NEW p \in Orders PROVE UnitsOut(p) = 0
  <2>1. SettledRows(p) = {} /\ ~PlacedCod(p) /\ restored[p] = 0
    BY DEF Init, SettledRows, PlacedCod, Settled
  <2>2. Takings(p) = 0
    BY <2>1, FS_EmptySet DEF Takings
  <2>q. QED
    BY <2>1, <2>2, CheckoutAssumption DEF CheckoutAssumption, UnitsOut
<1>2. SumOf(OutOf) = 0
  <2>1. OutOf \in [Orders -> Int] /\ \A p \in Orders : OutOf[p] = 0
    BY <1>1 DEF OutOf
  <2>q. QED
    BY <2>1, SumOfNothing, CheckoutAssumption DEF CheckoutAssumption
<1>3. stock = InitStock - SumOf(OutOf)
  BY <1>2, CheckoutAssumption DEF CheckoutAssumption, Init
<1>q. QED
  BY <1>3 DEF StockLedger, SumOf, OutOf

\* The shelf and the orders agree for ever: what is missing from it was taken
\* once by each COD order and each settled payment, and what came back came
\* from cancellations (reserveStockForPaidOrder, createOrder, cancelOrderLifecycle).
THEOREM StockAddsUp == Spec => []StockLedger
<1>1. Init => PaymentInv /\ StockLedger
  BY PaymentInit, LedgerInit
<1>2. PaymentInv /\ StockLedger /\ [Next]_vars => PaymentInv' /\ StockLedger'
  BY PaymentInvInductive, LedgerStep
<1>q. QED
  BY <1>1, <1>2, PTL DEF Spec
==============================================================================
