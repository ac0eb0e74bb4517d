------------------------------- MODULE Packing -------------------------------
(***************************************************************************)
(* Packing an order by weight (packingWeightReconciliation.service.js,     *)
(* weightReconciliation.service.js, weightBasedProduct.util.js): what is   *)
(* on the scale is compared with what was ordered, a short line is filled  *)
(* from the next cut while the product has stock, and refunded otherwise;  *)
(* only then, in a second step, does the order become PACKED.              *)
(*                                                                         *)
(* All lines are of one product, so that they compete for its stock.       *)
(* Weights are in grams of any size, a line's refund is counted in the     *)
(* grams that are paid back; rounding to paise is left out.  How the       *)
(* recorded refund reaches the gateway is in Refunds.                      *)
(***************************************************************************)
EXTENDS Integers, Sequences, FiniteSetsExt, OrderStateMachine

CONSTANTS
    Trays,       \* orders waiting to be packed
    Ordered,     \* for each order, the ordered grams of its lines
    Scale,       \* bound: the weights a scale may show
    Cut,         \* grams of one stock unit (defaultWeightGrams)
    Tolerance,   \* WEIGHT.toleranceG
    Packers,     \* bound: packing requests in flight at once
    MaxUnits     \* bound: stock units

ASSUME PackingAssumption ==
    /\ IsFiniteSet(Trays) /\ Trays # {}
    /\ Ordered \in [Trays -> Seq(Nat \ {0})]
    /\ Scale \subseteq Nat
    /\ Cut \in Nat \ {0}
    /\ Tolerance \in Nat
    /\ MaxUnits \in Nat

VARIABLES
    tray,     \* orders: status and weight_reconciliation_status
    lines,    \* order_items: how each line was reconciled
    units,    \* products.stock
    packer,   \* what each packing request in flight is doing
    taken,    \* history: units taken for supplements
    broken    \* history: orders whose packing request failed, was refused or was undone

packVars == <<tray, lines, units, packer, taken, broken>>

TrayStates  == {"CONFIRMED", "PACKING_STARTED", "PACKED", "CANCELLED"}
ReconStates == {"PENDING", "COMPLETED"}
LineActions == {"none", "ACCEPT", "SUPPLEMENT_FROM_NEXT_CUT", "AUTO_REFUND"}

IdlePacker == [at |-> "free", tray |-> CHOOSE o \in Trays : TRUE]

Unweighed == [action |-> "none", actual |-> 0, supplement |-> 0, refund |-> 0]
Weighed   == [action : LineActions, actual : Nat, supplement : Nat, refund : Nat]

\* Mutant: the refund of a line is not lowered by what is put on top of it.
RefundWholeShortage(ordered, w, available) ==
    LET short == ordered - w
    IN  IF short <= Tolerance
        THEN [action |-> "ACCEPT", actual |-> w, supplement |-> 0, refund |-> 0]
        ELSE IF available >= short
        THEN [action |-> "SUPPLEMENT_FROM_NEXT_CUT", actual |-> w,
              supplement |-> short, refund |-> 0]
        ELSE [action |-> "AUTO_REFUND", actual |-> w,
              supplement |-> available, refund |-> short]

\* reconcileLineItemWeight: what is done about a line of so many ordered grams
\* when the scale shows w and the next cut has that many grams available.
Reconcile(ordered, w, available) ==
    LET short == ordered - w
    IN  IF short <= Tolerance
        THEN [action |-> "ACCEPT", actual |-> w, supplement |-> 0, refund |-> 0]
        ELSE IF available >= short
        THEN [action |-> "SUPPLEMENT_FROM_NEXT_CUT", actual |-> w,
              supplement |-> short, refund |-> 0]
        ELSE [action |-> "AUTO_REFUND", actual |-> w,
              supplement |-> available, refund |-> short - available]

\* Mutant: one unit on top of the whole ones, also when there is no rest.
DeductionOneMore(grams) == grams \div Cut + 1

\* supplementStockDeductionUnits: whole units, rounded up.
Deduction(grams) == (grams + Cut - 1) \div Cut

\* The stock left after line i of order o has been reconciled with the weights
\* ws: each line sees the stock the lines before it have left.
StockAfter(o, ws, start) ==
    LET left[i \in 0..Len(Ordered[o])] ==
            IF i = 0 THEN start
            ELSE left[i - 1] -
                 Deduction(Reconcile(Ordered[o][i], ws[i], left[i - 1] * Cut).supplement)
    IN  left

\* Mutant: every line sees the stock the transaction began with.
LinesFromStart(o, ws, start) ==
    [i \in 1..Len(Ordered[o]) |-> Reconcile(Ordered[o][i], ws[i], start * Cut)]

LinesAfter(o, ws, start) ==
    [i \in 1..Len(Ordered[o]) |->
        Reconcile(Ordered[o][i], ws[i], StockAfter(o, ws, start)[i - 1] * Cut)]

-----------------------------------------------------------------------------
Packable(o) == tray[o].st \in {"CONFIRMED", "PACKING_STARTED"}

\* startPacking is a transition of its own: it reads the status, then writes
\* the new one over whatever the order has become meanwhile.
StartPacking(p, o) ==
    /\ packer[p].at = "free"
    /\ tray[o].st = "CONFIRMED"
    /\ packer' = [packer EXCEPT ![p] = [at |-> "start", tray |-> o]]
    /\ UNCHANGED <<tray, lines, units, taken, broken>>

StartWrite(p) ==
    /\ packer[p].at = "start"
    /\ LET o == packer[p].tray
       IN  /\ tray' = [tray EXCEPT ![o].st = "PACKING_STARTED"]
           /\ broken' = IF Packable(o) THEN broken ELSE broken \cup {o}
    /\ packer' = [packer EXCEPT ![p] = IdlePacker]
    /\ UNCHANGED <<lines, units, taken>>

\* executePackingWeightReconciliation: one transaction over the locked order,
\* its lines and their products.  Without a weight for every line it is refused.
ExecuteReconciliation(p, o, ws) ==
    /\ packer[p].at = "free"
    /\ Packable(o)
    /\ tray[o].recon # "COMPLETED"
    /\ lines' = [lines EXCEPT ![o] = LinesAfter(o, ws, units)]
    /\ units' = StockAfter(o, ws, units)[Len(Ordered[o])]
    /\ taken' = taken + units - units'
    /\ tray' = [tray EXCEPT ![o].recon = "COMPLETED"]
    /\ packer' = [packer EXCEPT ![p] = [at |-> "read", tray |-> o]]
    /\ UNCHANGED broken

\* transitionOrderState to PACKED reads the status first; an order that was
\* cancelled meanwhile is refused.
PackRead(p) ==
    /\ packer[p].at = "read"
    /\ LET o == packer[p].tray
       IN  IF CanTransition(tray[o].st, "PACKED")
           THEN /\ packer' = [packer EXCEPT ![p].at = "write"]
                /\ UNCHANGED broken
           ELSE /\ packer' = [packer EXCEPT ![p] = IdlePacker]
                /\ broken' = broken \cup {o}
    /\ UNCHANGED <<tray, lines, units, taken>>

\* Mutant: the request gives up before it writes.
PackForgets(p) ==
    /\ packer[p].at = "write"
    /\ packer' = [packer EXCEPT ![p] = IdlePacker]
    /\ UNCHANGED <<tray, lines, units, taken, broken>>

PackWrite(p) ==
    /\ packer[p].at = "write"
    /\ tray' = [tray EXCEPT ![packer[p].tray].st = "PACKED"]
    /\ packer' = [packer EXCEPT ![p] = IdlePacker]
    /\ UNCHANGED <<lines, units, taken, broken>>

\* A customer or an admin cancels: cancelOrderLifecycle gives back the units the
\* customer bought, not those the supplements took.
CancelTray(o) ==
    /\ tray[o].st # "CANCELLED"
    /\ units + Len(Ordered[o]) <= MaxUnits
    /\ tray' = [tray EXCEPT ![o].st = "CANCELLED"]
    /\ units' = units + Len(Ordered[o])
    /\ UNCHANGED <<lines, packer, taken, broken>>

\* Another customer buys a unit of the product.
OthersBuy ==
    /\ units > 0
    /\ units' = units - 1
    /\ UNCHANGED <<tray, lines, packer, taken, broken>>

\* A query fails, or the process dies, between the transaction and the end of
\* the transition.
PackerFails(p) ==
    /\ packer[p].at # "free"
    /\ packer' = [packer EXCEPT ![p] = IdlePacker]
    /\ broken' = broken \cup {packer[p].tray}
    /\ UNCHANGED <<tray, lines, units, taken>>

PackInit ==
    /\ tray = [o \in Trays |-> [st |-> "CONFIRMED", recon |-> "PENDING"]]
    /\ lines = [o \in Trays |-> [i \in 1..Len(Ordered[o]) |-> Unweighed]]
    /\ units \in 0..MaxUnits
    /\ packer = [p \in Packers |-> IdlePacker]
    /\ taken = 0
    /\ broken = {}

PackNext ==
    \/ \E o \in Trays : CancelTray(o)
    \/ \E p \in Packers, o \in Trays : StartPacking(p, o)
    \/ \E p \in Packers, o \in Trays :
         \E ws \in [1..Len(Ordered[o]) -> Scale] : ExecuteReconciliation(p, o, ws)
    \/ \E p \in Packers : StartWrite(p) \/ PackRead(p) \/ PackWrite(p) \/ PackerFails(p)
    \/ OthersBuy

PackSpec == PackInit /\ [][PackNext]_packVars

-----------------------------------------------------------------------------
\* Every variable of the packing keeps its type: the stock never goes below
\* zero, however many lines are filled from it.
PackTypeOK ==
    /\ tray \in [Trays -> [st : TrayStates, recon : ReconStates]]
    /\ DOMAIN lines = Trays
    /\ \A o \in Trays : lines[o] \in [1..Len(Ordered[o]) -> Weighed]
    /\ units \in 0..MaxUnits
    /\ packer \in [Packers -> [at : {"free", "start", "read", "write"}, tray : Trays]]
    /\ taken \in Nat
    /\ broken \subseteq Trays

\* Every gram a customer ordered and the scale did not show is put on top or
\* paid back, except the tolerance; nothing is paid back that was delivered
\* (reconcileOrderPacking).
MadeWhole ==
    \A o \in Trays : tray[o].recon = "COMPLETED" =>
        \A i \in 1..Len(Ordered[o]) :
            LET got == lines[o][i].actual + lines[o][i].supplement + lines[o][i].refund
            IN  /\ got >= Ordered[o][i] - Tolerance
                /\ lines[o][i].supplement + lines[o][i].refund > 0 => got = Ordered[o][i]

\* What was put on top of the lines ls of an order.
Supplements(ls) ==
    LET sum[i \in 0..Len(ls)] == IF i = 0 THEN 0 ELSE sum[i - 1] + ls[i].supplement
    IN  sum[Len(ls)]

\* What was put on top of all short lines.
PutOnTop == FoldFunction(+, 0, [o \in Trays |-> Supplements(lines[o])])

\* The grams put on top of short lines never exceed the stock taken for them.
SupplementsTaken == PutOnTop <= taken * Cut

\* Customers and stock together: short lines are made good, and nothing is put
\* on top that the stock did not give (reconcileOrderPacking).
ShortagesSettled == MadeWhole /\ SupplementsTaken

\* An order whose weights are reconciled is packed or being packed, unless its
\* request failed or was refused, or another one that had read the old status
\* put it back: after that no request can pack it.
ReconciledGetsPacked ==
    \A o \in Trays : tray[o].recon = "COMPLETED" =>
        \/ tray[o].st \in {"PACKED", "CANCELLED"}
        \/ \E p \in Packers : packer[p].tray = o /\ packer[p].at \in {"read", "write"}
        \/ o \in broken
=============================================================================
