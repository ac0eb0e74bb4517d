------------------------------- MODULE Refunds -------------------------------
(***************************************************************************)
(* Money that goes back to the customer of an order: a partial refund for  *)
(* each line that weighs less than ordered, and one full refund when the   *)
(* order is cancelled or its delivery failed.                              *)
(*                                                                         *)
(* Nothing here runs in one transaction from end to end.  The packing and  *)
(* the resolution commit and then start the refund without waiting for it; *)
(* the submission reads its row, calls the gateway and writes the outcome  *)
(* in separate statements, and the retry job submits the same rows again.  *)
(* A request that timed out may still reach the gateway afterwards.        *)
(*                                                                         *)
(* What packing does to weights and stock, how an order gets from the      *)
(* store to a failed delivery, and the goods that come back are left to    *)
(* other modules; the refund of a short line is any amount in Shortfalls.  *)
(***************************************************************************)
EXTENDS Integers, FiniteSets, FiniteSetsExt, OrderStateMachine

CONSTANTS
    Orders,       \* order ids
    Items,        \* lines of an order
    Full,         \* stands for the order_item_id NULL of a full refund
    Price,        \* what each order cost, and was paid if it was paid online
    Shortfalls,   \* refunds per line a packing may come to
    Workers,      \* bound: handlers and jobs in flight at once
    MaxRestarts   \* bound: restarts of the process

ASSUME RefundsAssumption ==
    /\ Full \notin Items
    /\ Price \in [Orders -> Nat]
    /\ Shortfalls \subseteq [Items -> Nat]
    /\ MaxRestarts \in Nat

VARIABLES
    mode,      \* orders.payment_mode
    status,    \* orders.status
    weighed,   \* weight_reconciliation_status is COMPLETED
    total,     \* orders.total_amount
    pay,       \* orders.payment_status
    ptx,       \* status of the latest Cashfree payment row
    row,       \* order_partial_refunds, by idempotency key
    old,       \* rows created more than 7 days ago
    requests,  \* refund requests that have left for the gateway
    gw,        \* amount the gateway has paid out per refund id (external)
    job,       \* what each worker is doing
    restarts   \* how often the process was restarted

orderVars   == <<mode, status, weighed, total, pay>>
refundVars  == <<ptx, row, old>>
gatewayVars == <<requests, gw>>
vars == <<orderVars, refundVars, gatewayVars, job, restarts>>

Lines == Items \cup {Full}
Keys  == Orders \X Lines
KeysOf(o) == {o} \X Lines

NoRow == [st |-> "none", amount |-> 0]
Recorded(k)  == row[k].st # "none"
Submitted(k) == row[k].st = "SUBMITTED"
Online(o)    == mode[o] = "ONLINE"

Idle == [pc |-> "idle"]
CancelJob(o, a)   == [pc |-> "cancel", order |-> o, amount |-> a]
FullJob(o, a)     == [pc |-> "full", order |-> o, amount |-> a]
InsertJob(o, a)   == [pc |-> "insert", order |-> o, amount |-> a]
LinesJob(o)       == [pc |-> "lines", order |-> o]
SendJob(ks)       == [pc |-> "send", keys |-> ks]
CallJob(pc, ks, k) == [pc |-> pc, keys |-> ks, key |-> k]

At(w, pc) == job[w].pc = pc
Goto(w, j) == job' = [job EXCEPT ![w] = j]
Done(w) == Goto(w, Idle)

\* The loop over the rows to submit goes on, or the job is over.
Continue(w, ks) == IF ks = {} THEN Done(w) ELSE Goto(w, SendJob(ks))

------------------------------------------------------------------------------
\* The orders the refunds belong to.

\* Mutant: without the lower bound.
RemainingUnbounded(t, refunds) == t - refunds

\* Math.max(0, total - refunds), put so that it is a natural number whatever
\* the refunds come to.
Remaining(t, refunds) ==
    IF \E r \in 0..t : r + refunds = t
    THEN CHOOSE r \in 0..t : r + refunds = t
    ELSE 0

RefundTotal(short) == MapThenSumSet(LAMBDA i : short[i], Items)

\* executePackingWeightReconciliation: one transaction that records a refund
\* for every short line and lowers the total, then submits without waiting.
Pack(w, o, short) ==
    /\ At(w, "idle")
    /\ status[o] = "CONFIRMED"
    /\ ~weighed[o]
    /\ weighed' = [weighed EXCEPT ![o] = TRUE]
    /\ total' = [total EXCEPT ![o] = Remaining(@, RefundTotal(short))]
    /\ row' = [k \in Keys |->
                 IF k[1] = o /\ k[2] \in Items /\ short[k[2]] > 0
                 THEN [st |-> IF Online(o) THEN "PENDING" ELSE "RECORDED",
                       amount |-> short[k[2]]]
                 ELSE row[k]]
    /\ Goto(w, IF Online(o) /\ \E i \in Items : short[i] > 0
               THEN LinesJob(o) ELSE Idle)
    /\ UNCHANGED <<mode, status, pay, ptx, old, gatewayVars, restarts>>

\* The transition that follows the packing, or an admin's: only weighed orders
\* may be PACKED.
MarkPacked(o) ==
    /\ status[o] = "CONFIRMED"
    /\ weighed[o]
    /\ status' = [status EXCEPT ![o] = "PACKED"]
    /\ UNCHANGED <<mode, weighed, total, pay, refundVars, gatewayVars, job,
                   restarts>>

\* The delivery fails and the goods are back at the store.
DeliveryFails(o) ==
    /\ status[o] = "PACKED"
    /\ status' = [status EXCEPT ![o] = "FAILED_DELIVERY"]
    /\ UNCHANGED <<mode, weighed, total, pay, refundVars, gatewayVars, job,
                   restarts>>

Outcome(resolution) ==
    CASE resolution = "REDELIVER" -> "PACKED"
      [] resolution = "REFUND"    -> "REFUNDED"
      [] resolution = "DISCARD"   -> "CANCELLED"

\* resolveFailedDelivery: the order is closed in a transaction, the refund
\* starts after it.  The amount is the total read inside the transaction.
Resolve(w, o, resolution) ==
    /\ At(w, "idle")
    /\ status[o] = "FAILED_DELIVERY"
    /\ status' = [status EXCEPT ![o] = Outcome(resolution)]
    /\ pay' = [pay EXCEPT ![o] =
                 IF \/ resolution = "REFUND"
                    \/ resolution = "DISCARD" /\ Online(o)
                 THEN "REFUNDED" ELSE @]
    /\ Goto(w, IF Online(o) /\ resolution # "REDELIVER"
               THEN FullJob(o, total[o]) ELSE Idle)
    /\ UNCHANGED <<mode, weighed, total, refundVars, gatewayVars, restarts>>

\* cancelOrderLifecycle decides on the refund and its amount when it starts.
RefundDue(o) == IF Online(o) /\ pay[o] = "PAID" THEN total[o] ELSE 0

CancelRead(w, o) ==
    /\ At(w, "idle")
    /\ Goto(w, CancelJob(o, RefundDue(o)))
    /\ UNCHANGED <<orderVars, refundVars, gatewayVars, restarts>>

\* The status is checked, and written unconditionally, by the transition.
CancelCheck(w) ==
    /\ At(w, "cancel")
    /\ IF CanTransition(status[job[w].order], "CANCELLED")
       THEN Goto(w, [job[w] EXCEPT !.pc = "write"])
       ELSE Done(w)
    /\ UNCHANGED <<orderVars, refundVars, gatewayVars, restarts>>

CancelWrite(w) ==
    /\ At(w, "write")
    /\ status' = [status EXCEPT ![job[w].order] = "CANCELLED"]
    /\ Goto(w, IF job[w].amount > 0
               THEN FullJob(job[w].order, job[w].amount) ELSE Idle)
    /\ UNCHANGED <<mode, weighed, total, pay, refundVars, gatewayVars, restarts>>

------------------------------------------------------------------------------
\* processFailedDeliveryRefund: one row per order, found or inserted.

FullRead(w) ==
    /\ At(w, "full")
    /\ LET o == job[w].order
           k == <<o, Full>>
       IN IF job[w].amount <= 0 \/ Submitted(k)
          THEN Done(w)
          ELSE Goto(w, IF Recorded(k) THEN SendJob({k})
                       ELSE InsertJob(o, job[w].amount))
    /\ UNCHANGED <<orderVars, refundVars, gatewayVars, restarts>>

\* The unique index on the idempotency key stops a second insert.
FullInsert(w) ==
    /\ At(w, "insert")
    /\ LET k == <<job[w].order, Full>>
       IN IF Recorded(k)
          THEN Done(w) /\ row' = row
          ELSE /\ row' = [row EXCEPT ![k] =
                            [st |-> "PENDING", amount |-> job[w].amount]]
               /\ Goto(w, SendJob({k}))
    /\ UNCHANGED <<orderVars, ptx, old, gatewayVars, restarts>>

------------------------------------------------------------------------------
\* The jobs that collect the rows of an order to be sent.

\* retryAllFailedRefunds, every REFUND_RETRY_INTERVAL_MS: orders with a FAILED
\* row that is not older than 7 days.
Retriable(o) ==
    Online(o) /\ \E k \in KeysOf(o) : row[k].st = "FAILED" /\ k \notin old

RetryPick(w, o) ==
    /\ At(w, "idle")
    /\ Retriable(o)
    /\ Goto(w, LinesJob(o))
    /\ UNCHANGED <<orderVars, refundVars, gatewayVars, restarts>>

\* Mutant: what failed once is left alone.
UnsentIfNew(o) == {k \in KeysOf(o) : Online(o) /\ row[k].st = "PENDING"}

\* processPendingRefundsForOrder: the rows of an ONLINE order not yet sent.
Unsent(o) == {k \in KeysOf(o) : Online(o) /\ row[k].st \in {"PENDING", "FAILED"}}

LinesRead(w) ==
    /\ At(w, "lines")
    /\ Continue(w, Unsent(job[w].order))
    /\ UNCHANGED <<orderVars, refundVars, gatewayVars, restarts>>

------------------------------------------------------------------------------
\* submitPartialRefundToGateway, one row of the job after the other.

\* The row is read first; one that went out already is skipped.
SubmitSkip(w, k) ==
    /\ At(w, "send")
    /\ k \in job[w].keys
    /\ Submitted(k)
    /\ Continue(w, job[w].keys \ {k})
    /\ UNCHANGED <<orderVars, refundVars, gatewayVars, restarts>>

SubmitRow(w, k) ==
    /\ At(w, "send")
    /\ k \in job[w].keys
    /\ ~Submitted(k)
    /\ Goto(w, CallJob("check", job[w].keys \ {k}, k))
    /\ UNCHANGED <<orderVars, refundVars, gatewayVars, restarts>>

\* There must be a successful payment, and the row may not exceed it.
Payable(k) == ptx[k[1]] = "SUCCESS" /\ row[k].amount <= Price[k[1]]

SubmitRefused(w) ==
    /\ At(w, "check")
    /\ ~Payable(job[w].key)
    /\ Goto(w, [job[w] EXCEPT !.pc = "fail"])
    /\ UNCHANGED <<orderVars, refundVars, gatewayVars, restarts>>

SubmitSend(w) ==
    /\ At(w, "check")
    /\ Payable(job[w].key)
    /\ requests' = requests \cup {job[w].key}
    /\ Goto(w, [job[w] EXCEPT !.pc = "wait"])
    /\ UNCHANGED <<orderVars, refundVars, gw, restarts>>

\* The gateway (external) pays out once per refund id, and may do so long after
\* we gave up waiting; it repeats its answer when it is asked again.
GatewayPays(k) ==
    /\ k \in requests
    /\ gw[k] = 0
    /\ gw' = [gw EXCEPT ![k] = row[k].amount]
    /\ UNCHANGED <<orderVars, refundVars, requests, job, restarts>>

AnswerOk(w, k) ==
    /\ At(w, "wait")
    /\ job[w].key = k
    /\ gw[k] > 0
    /\ Goto(w, [job[w] EXCEPT !.pc = "book"])
    /\ UNCHANGED <<orderVars, refundVars, gatewayVars, restarts>>

\* A timeout, a refusal or a network error.
AnswerError(w) ==
    /\ At(w, "wait")
    /\ Goto(w, [job[w] EXCEPT !.pc = "fail"])
    /\ UNCHANGED <<orderVars, refundVars, gatewayVars, restarts>>

\* Mutant: the payment is closed whether the refund went out or not.
MarkFailedCloses(w) ==
    /\ At(w, "fail")
    /\ row' = [row EXCEPT ![job[w].key].st =
                 IF @ = "SUBMITTED" THEN @ ELSE "FAILED"]
    /\ Goto(w, [job[w] EXCEPT !.pc = "close"])
    /\ UNCHANGED <<orderVars, ptx, old, gatewayVars, restarts>>

\* Mutant: a late failure overwrites a success.
MarkFailedBlindly(w) ==
    /\ At(w, "fail")
    /\ row' = [row EXCEPT ![job[w].key].st = "FAILED"]
    /\ Continue(w, job[w].keys)
    /\ UNCHANGED <<orderVars, ptx, old, gatewayVars, restarts>>

\* markRefundFailed leaves a row alone that has its gateway_refund_id.
MarkFailed(w) ==
    /\ At(w, "fail")
    /\ row' = [row EXCEPT ![job[w].key].st =
                 IF @ = "SUBMITTED" THEN @ ELSE "FAILED"]
    /\ Continue(w, job[w].keys)
    /\ UNCHANGED <<orderVars, ptx, old, gatewayVars, restarts>>

\* markRefundSubmitted; a full refund then closes the payment as well.
MarkSubmitted(w) ==
    /\ At(w, "book")
    /\ row' = [row EXCEPT ![job[w].key].st = "SUBMITTED"]
    /\ IF job[w].key[2] = Full
       THEN Goto(w, [job[w] EXCEPT !.pc = "close"])
       ELSE Continue(w, job[w].keys)
    /\ UNCHANGED <<orderVars, ptx, old, gatewayVars, restarts>>

MarkPaymentRefunded(w) ==
    /\ At(w, "close")
    /\ ptx' = [ptx EXCEPT ![job[w].key[1]] = IF @ = "SUCCESS" THEN "REFUNDED" ELSE @]
    /\ Continue(w, job[w].keys)
    /\ UNCHANGED <<orderVars, row, old, gatewayVars, restarts>>

------------------------------------------------------------------------------
\* Seven days pass since a row was created.
Age(k) ==
    /\ Recorded(k)
    /\ old' = old \cup {k}
    /\ UNCHANGED <<orderVars, ptx, row, gatewayVars, job, restarts>>

\* The jobs live in the process; the rows and the requests do not.
Restart ==
    /\ restarts < MaxRestarts
    /\ restarts' = restarts + 1
    /\ job' = [w \in Workers |-> Idle]
    /\ UNCHANGED <<orderVars, refundVars, gatewayVars>>

\* Checkout's outcome: confirmed orders, paid online or not, or cash on delivery.
Init ==
    /\ mode \in [Orders -> {"COD", "ONLINE"}]
    /\ status = [o \in Orders |-> "CONFIRMED"]
    /\ weighed = [o \in Orders |-> FALSE]
    /\ total = Price
    /\ ptx \in {p \in [Orders -> {"none", "SUCCESS"}] :
                  \A o \in Orders : p[o] = "SUCCESS" => Online(o)}
    /\ pay = [o \in Orders |-> IF ptx[o] = "SUCCESS" THEN "PAID" ELSE "PENDING"]
    /\ row = [k \in Keys |-> NoRow]
    /\ old = {}
    /\ requests = {}
    /\ gw = [k \in Keys |-> 0]
    /\ job = [w \in Workers |-> Idle]
    /\ restarts = 0

JobStep(w) ==
    \/ CancelCheck(w) \/ CancelWrite(w)
    \/ FullRead(w) \/ FullInsert(w) \/ LinesRead(w)
    \/ \E k \in Keys : SubmitSkip(w, k) \/ SubmitRow(w, k)
    \/ SubmitRefused(w) \/ SubmitSend(w)
    \/ AnswerError(w) \/ \E k \in Keys : AnswerOk(w, k)
    \/ MarkFailed(w) \/ MarkSubmitted(w) \/ MarkPaymentRefunded(w)

Next ==
    \/ \E w \in Workers, o \in Orders :
        \/ \E short \in Shortfalls : Pack(w, o, short)
        \/ \E res \in {"REDELIVER", "REFUND", "DISCARD"} : Resolve(w, o, res)
        \/ CancelRead(w, o)
        \/ RetryPick(w, o)
    \/ \E o \in Orders : MarkPacked(o) \/ DeliveryFails(o)
    \/ \E w \in Workers : JobStep(w)
    \/ \E k \in Keys : GatewayPays(k) \/ Age(k)
    \/ Restart

Spec == Init /\ [][Next]_vars

\* A job runs on, the retry timer keeps coming round and finds a free handler,
\* and the gateway works off its requests and does not time out forever.
LiveSpec ==
    /\ Spec
    /\ \A w \in Workers : WF_vars(JobStep(w))
    /\ \A o \in Orders : SF_vars(\E w \in Workers : RetryPick(w, o))
    /\ \A k \in Keys : /\ WF_vars(GatewayPays(k))
                       /\ SF_vars(\E w \in Workers : AnswerOk(w, k))

------------------------------------------------------------------------------
Stages == {"CONFIRMED", "PACKED", "FAILED_DELIVERY", "CANCELLED", "REFUNDED"}

AmountJobs == [pc : {"cancel", "write", "full", "insert"}, order : Orders, amount : Nat]
LinesJobs  == [pc : {"lines"}, order : Orders]
SendJobs   == [pc : {"send"}, keys : SUBSET Keys]
CallJobs   == [pc : {"check", "wait", "book", "fail", "close"}, keys : SUBSET Keys,
               key : Keys]
Jobs == {Idle} \cup AmountJobs \cup LinesJobs \cup SendJobs \cup CallJobs

RowStates == {"none", "RECORDED", "PENDING", "FAILED", "SUBMITTED"}

TypeOK ==
    /\ mode \in [Orders -> {"COD", "ONLINE"}]
    /\ status \in [Orders -> Stages]
    /\ weighed \in [Orders -> BOOLEAN]
    /\ total \in [Orders -> Nat]
    /\ pay \in [Orders -> {"PENDING", "PAID", "REFUNDED"}]
    /\ ptx \in [Orders -> {"none", "SUCCESS", "REFUNDED"}]
    /\ row \in [Keys -> [st : RowStates, amount : Nat]]
    /\ old \subseteq Keys
    /\ requests \subseteq Keys
    /\ gw \in [Keys -> Nat]
    /\ job \in [Workers -> Jobs]
    /\ restarts \in Nat

\* The payment row is closed as REFUNDED only after the gateway paid the whole
\* refund out and we know it: never because a submission was tried, however the
\* jobs that submit the same row overlap.
RefundedPaymentPaidOut ==
    \A o \in Orders : ptx[o] = "REFUNDED" =>
        Submitted(<<o, Full>>) /\ gw[<<o, Full>>] > 0

\* The rows, the gateway and what we believe about it keep the ledger's promise:
\* no refund id is paid out twice or in another amount, and none is booked that
\* was not paid, through timeouts, late payouts, retries and restarts.
Ledger == INSTANCE RefundLedger WITH
    owed   <- [k \in Keys |-> row[k].amount],
    paid   <- gw,
    booked <- {k \in Keys : Submitted(k)}

KeepsLedger == Ledger!Spec

\* A failed refund that could be paid is sent again until it goes out, its row
\* has become too old, or the payment is closed by the full refund.
FailedRefundRetried ==
    \A k \in Keys :
        (row[k].st = "FAILED" /\ Payable(k)) ~>
            (Submitted(k) \/ k \in old \/ ptx[k[1]] # "SUCCESS")

\* What the comments and documents promise and the code does not keep.

\* The refunds recorded for an order stay within what was paid.
RefundsCovered ==
    \A o \in Orders : Online(o) =>
        MapThenSumSet(LAMBDA k : row[k].amount, KeysOf(o)) <= Price[o]

\* Every FAILED refund of the last seven days is retried until it goes out, the
\* full refund of the order notwithstanding.
EveryFailedRefundRetried ==
    \A k \in Keys :
        (row[k].st = "FAILED" /\ ptx[k[1]] # "none" /\ row[k].amount <= Price[k[1]]) ~>
            (Submitted(k) \/ k \in old)
==============================================================================
