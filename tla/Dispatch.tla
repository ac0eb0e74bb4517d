------------------------------ MODULE Dispatch ------------------------------
(***************************************************************************)
(* Finding a rider for a packed order (assignment.service.js,              *)
(* order-batcher.js, dispatch.service.js) and what riders, customers and   *)
(* admins do to the order meanwhile (delivery.controller.js,               *)
(* orderLifecycle.service.js).                                             *)
(*                                                                         *)
(* The order and its one assignment row are in the database, the attempt   *)
(* counter and the broadcast claim in Redis; the acceptance timers and the *)
(* batch windows are Maps of the process.  Every procedure is a job: what  *)
(* it read before an await it uses after it, while the other job runs.     *)
(* Reads that follow one another without a write in between are one step.  *)
(*                                                                         *)
(* Distances, scores and road times choose among riders: any eligible      *)
(* rider may be the nearest, and any may be out of reach of every tier.    *)
(* All riders are approved.  An order that is packed has been weighed.     *)
(* PICKED_UP stands for ON_THE_WAY as well.  What the rider does with the  *)
(* order's code, its return and its earnings is in Doorstep and           *)
(* FailedDelivery.                                                         *)
(***************************************************************************)
EXTENDS Integers, FiniteSets, FiniteSetsExt

CONSTANTS
    Orders,           \* order ids
    Riders,           \* approved delivery partners
    None,             \* no rider, or no order
    Edge,             \* orders too far out to wait for a batch
    MaxActiveOrders,  \* ASSIGNMENT.maxActiveOrders: orders a rider may have
    MaxAttempts,      \* ASSIGNMENT.maxAttempts
    SmallFleet,       \* ASSIGNMENT.smallFleetThreshold
    MaxBatchSize,     \* BATCHING.maxBatchSize
    Jobs,             \* bound: procedures in flight at once
    MaxRestarts       \* bound: restarts of the process

ASSUME DispatchAssumption ==
    /\ IsFiniteSet(Orders)
    /\ None \notin Orders \cup Riders
    /\ Edge \subseteq Orders
    /\ MaxActiveOrders \in Nat \ {0}
    /\ MaxAttempts \in Nat \ {0}
    /\ SmallFleet \in Nat
    /\ MaxBatchSize \in Nat \ {0}
    /\ MaxRestarts \in Nat

VARIABLES
    status,    \* orders.status
    row,       \* order_assignments: one row per order at most
    failed,    \* open admin tasks of type assignment_failed
    attempts,  \* Redis assign:attempts:<order>
    claim,     \* Redis order:broadcast_claim:<order>
    online,    \* delivery_partners.is_online
    timer,     \* pendingAssignmentTimeouts: the rider the timer was armed for
    window,    \* pendingBatchWindows, by anchor order
    job,       \* what each procedure in flight is doing
    restarts,  \* how often the process was restarted
    alone,     \* history: orders no two procedures ever handled at once
    kept       \* history: the rider who accepted an order nobody else held

database == <<status, row, failed, online>>
memory   == <<timer, window>>
cache    == <<attempts, claim>>
history  == <<alone, kept>>
vars == <<database, memory, cache, job, restarts, history>>

InFlight  == {"OUT_FOR_DELIVERY", "PICKED_UP"}
Statuses  == InFlight \cup
    {"PACKING_STARTED", "PACKED", "DELIVERED", "FAILED_DELIVERY", "CANCELLED"}
Active    == {"ASSIGNED", "ACCEPTED", "PICKED"}
RowStates == Active \cup {"none", "DELIVERED", "FAILED", "CANCELLED"}

NoRow    == [st |-> "none", rider |-> None]
NoWindow == [rider |-> None, orders |-> {}, cap |-> 0]

\* A procedure: where it is, the order it is about, the rider it chose, the
\* rider it must not choose, how many orders it may assign, which it still has
\* to and already did assign, which the dispatch queue has for it after this
\* one, and whether it found its rider in a distance tier.
Idle == [pc |-> "idle", order |-> None, rider |-> None, except |-> None,
         cap |-> 0, todo |-> {}, done |-> {}, queue |-> {}, tier |-> FALSE]

At(w, pc)  == job[w].pc = pc
Goto(w, j) == job' = [job EXCEPT ![w] = j]
To(w, pc)  == Goto(w, [job[w] EXCEPT !.pc = pc])
Stop(w)    == Goto(w, Idle)

\* What is left to do is clearAssignmentTimeout.
Clear(w, o) == Goto(w, [Idle EXCEPT !.pc = "clear", !.order = o])

\* Start of assignOrderToPartner: job w must not choose rider r.
Assign(o, r) == [Idle EXCEPT !.pc = "begin", !.order = o, !.except = r]

\* The job is done with its order: on with the dispatch queue, if it runs one.
Finish(w) ==
    Goto(w, IF job[w].queue = {} THEN Idle
            ELSE [Idle EXCEPT !.pc = "queue", !.queue = job[w].queue])

About(j, o)     == j.order = o \/ o \in j.todo \/ o \in j.done
HeldByJob(o)    == \E w \in Jobs : About(job[w], o)
HeldByWindow(o) == \E a \in Orders : o \in window[a].orders
Open(a)         == window[a] # NoWindow

\* Mutant: the timer asks whose row it is, not whether it is still an offer.
HeldBy(o, r) == row[o].rider = r

OfferedTo(o, r) == row[o] = [st |-> "ASSIGNED", rider |-> r]
IsActive(o)     == row[o].st \in Active
Assignable(o)   == status[o] = "PACKED" /\ ~IsActive(o)

\* countRiderActiveOrders, isRiderAtLoadCap and getRiderRemainingCapacity.
OrdersOf(r) ==
    {o \in Orders : /\ row[o].rider = r
                    /\ IsActive(o)
                    /\ status[o] \notin {"DELIVERED", "CANCELLED"}}
AtLoadCap(r) == Cardinality(OrdersOf(r)) >= MaxActiveOrders
Remaining(r) == IF AtLoadCap(r) THEN 0
                ELSE MaxActiveOrders - Cardinality(OrdersOf(r))
\* Mutant: the batch is bounded by the rider's room alone.
BatchRoomOfRider(r) == Remaining(r)

\* How many orders one batch may give the rider.
BatchRoom(r) == IF Remaining(r) < MaxBatchSize THEN Remaining(r) ELSE MaxBatchSize

SetRow(o, st, r)  == row' = [row EXCEPT ![o] = [st |-> st, rider |-> r]]
SetRowState(o, s) == row' = [row EXCEPT ![o].st = s]
SetStatus(o, s)   == status' = [status EXCEPT ![o] = s]
-----------------------------------------------------------------------------
\* Where a procedure may be, and what it carries along.
Places == {"idle", "begin", "check", "batch", "write", "arm", "report", "insert",
           "queueRead", "queue", "manual", "manualArm", "auto", "autoTx", "expire",
           "expireTx", "accepted", "rejected", "clear", "cancelOrder", "cancelRow",
           "offline"}
JobRecords ==
    [pc: Places, order: Orders \cup {None}, rider: Riders \cup {None},
     except: Riders \cup {None}, cap: 0..MaxBatchSize, todo: SUBSET Orders,
     done: SUBSET Orders, queue: SUBSET Orders, tier: BOOLEAN]

\* Every variable of the dispatch keeps its type.
TypeOK ==
    /\ status \in [Orders -> Statuses]
    /\ row \in [Orders -> [st: RowStates, rider: Riders \cup {None}]]
    /\ failed \in [Orders -> Nat]
    /\ attempts \in [Orders -> 0..(MaxAttempts + 1)]
    /\ claim \in [Orders -> {"free", "pending"} \cup Riders]
    /\ online \in SUBSET Riders
    /\ timer \in [Orders -> Riders \cup {None}]
    /\ window \in [Orders -> [rider: Riders \cup {None}, orders: SUBSET Orders,
                              cap: 0..MaxBatchSize]]
    /\ job \in [Jobs -> JobRecords]
    /\ restarts \in 0..MaxRestarts
    /\ alone \in SUBSET Orders
    /\ kept \in [Orders -> Riders \cup {None}]

Init ==
    /\ status \in [Orders -> {"PACKING_STARTED", "PACKED"}]
    /\ row = [o \in Orders |-> NoRow]
    /\ failed = [o \in Orders |-> 0]
    /\ attempts = [o \in Orders |-> 0]
    /\ claim = [o \in Orders |-> "free"]
    /\ online \in SUBSET Riders
    /\ timer = [o \in Orders |-> None]
    /\ window = [o \in Orders |-> NoWindow]
    /\ job = [w \in Jobs |-> Idle]
    /\ restarts = 0
    /\ alone = Orders
    /\ kept = [o \in Orders |-> None]
-----------------------------------------------------------------------------
(* What starts an assignment.                                              *)

\* transitionOrderState to PACKED, whose state action assigns the order.
MarkPacked(w, o) ==
    /\ At(w, "idle")
    /\ status[o] = "PACKING_STARTED"
    /\ SetStatus(o, "PACKED")
    /\ Goto(w, Assign(o, None))
    /\ UNCHANGED <<row, failed, online, memory, cache, restarts, kept>>

\* What the customer's GET of an order looks at: packed, and no assignment row
\* at all, withdrawn ones count as well.
NeverAssigned(o) == status[o] = "PACKED" /\ row[o].st = "none"

\* The GET then ends in ensureOrderAssigned, which starts the attempts over when
\* they are used up.
PollOrder(w, o) ==
    /\ At(w, "idle")
    /\ NeverAssigned(o)
    /\ attempts' = [attempts EXCEPT ![o] = IF @ >= MaxAttempts THEN 0 ELSE @]
    /\ Goto(w, Assign(o, None))
    /\ UNCHANGED <<database, memory, claim, restarts, kept>>

\* An admin asks for another attempt (assignRiderToOrder, no rider named).
AdminRetry(w, o) ==
    /\ At(w, "idle")
    /\ status[o] # "PACKING_STARTED"
    /\ \/ attempts' = [attempts EXCEPT ![o] = 0]
       \/ UNCHANGED attempts
    /\ Goto(w, Assign(o, None))
    /\ UNCHANGED <<database, memory, claim, restarts, kept>>

\* processDispatchQueue after a delivery: the packed orders no rider has.
QueueRead(w) ==
    /\ At(w, "queueRead")
    /\ LET queued == {o \in Orders : Assignable(o)} IN
       Goto(w, IF queued = {} THEN Idle
               ELSE [Idle EXCEPT !.pc = "queue", !.queue = queued])
    /\ UNCHANGED <<database, memory, cache, restarts, kept>>

QueueNext(w) ==
    /\ At(w, "queue")
    /\ \E o \in job[w].queue :
         Goto(w, [Assign(o, None) EXCEPT !.queue = job[w].queue \ {o}])
    /\ UNCHANGED <<database, memory, cache, restarts, kept>>
-----------------------------------------------------------------------------
(* assignOrderToPartner                                                    *)

\* The failure to assign is reported; the queue goes on with the orders in q.
Report(w, q) ==
    Goto(w, [Idle EXCEPT !.pc = "report", !.order = job[w].order, !.queue = q])

\* INCR of the attempt counter; attempts past the limit are not told apart.
AssignBegin(w) ==
    /\ At(w, "begin")
    /\ LET o == job[w].order
           n == IF attempts[o] > MaxAttempts THEN attempts[o] ELSE attempts[o] + 1 IN
       /\ attempts' = [attempts EXCEPT ![o] = n]
       /\ IF n > MaxAttempts THEN Report(w, job[w].queue) ELSE To(w, "check")
    /\ UNCHANGED <<database, memory, claim, restarts, kept>>

\* emitAssignmentFailure: createOpenAdminTask looks for an open task first.
ReportFailure(w) ==
    /\ At(w, "report")
    /\ IF failed[job[w].order] > 0 THEN Finish(w) ELSE To(w, "insert")
    /\ UNCHANGED <<database, memory, cache, restarts, kept>>

InsertTask(w) ==
    /\ At(w, "insert")
    /\ failed' = [failed EXCEPT ![job[w].order] = @ + 1]
    /\ Finish(w)
    /\ UNCHANGED <<status, row, online, memory, cache, restarts, kept>>

\* getStoreToCustomerDistanceKm past EDGE_ZONE_BATCH_SKIP_KM: the order does not
\* wait for others.  An order whose distance is unknown does.
TooFarToWait(o) == o \in Edge

\* tryJoinBatchWindow: the window may be any rider's.
Joinable(a, o) ==
    /\ Open(a)
    /\ ~TooFarToWait(o)
    /\ \/ o \in window[a].orders
       \/ Cardinality(window[a].orders) < MaxBatchSize

AssignRefused(w) ==
    /\ At(w, "check")
    /\ ~Assignable(job[w].order)
    /\ Finish(w)
    /\ UNCHANGED <<database, memory, cache, restarts, kept>>

AssignJoins(w) ==
    /\ At(w, "check")
    /\ Assignable(job[w].order)
    /\ \E a \in Orders :
         /\ Joinable(a, job[w].order)
         /\ window' = [window EXCEPT ![a].orders = @ \cup {job[w].order}]
    /\ Finish(w)
    /\ UNCHANGED <<database, timer, cache, restarts, kept>>

\* assignWithBatching starts: the batch is sized by what the rider has now.
Choose(w, r, tier) ==
    Goto(w, [job[w] EXCEPT !.pc = "batch", !.rider = r, !.except = None,
                           !.cap = BatchRoom(r), !.tier = tier])

MayChoose(w) ==
    /\ At(w, "check")
    /\ Assignable(job[w].order)
    /\ \A a \in Orders : ~Joinable(a, job[w].order)

\* getEligiblePartners found somebody in one of the distance tiers.
AssignInTier(w) ==
    /\ MayChoose(w)
    /\ \E r \in online \ {job[w].except} :
         /\ ~AtLoadCap(r)
         /\ Choose(w, r, TRUE)
    /\ UNCHANGED <<database, memory, cache, restarts, kept>>

\* Nobody in a tier, and few riders online: whichever comes first gets it,
\* even the one who was to be left out.
AssignSmallFleet(w) ==
    /\ MayChoose(w)
    /\ Cardinality(online) <= SmallFleet
    /\ \E r \in online : IF AtLoadCap(r) THEN Stop(w) ELSE Choose(w, r, FALSE)
    /\ UNCHANGED <<database, memory, cache, restarts, kept>>

\* Many riders online: offer it to all (SET ... NX of the claim).
Broadcast(w) ==
    /\ MayChoose(w)
    /\ Cardinality(online) > SmallFleet
    /\ claim' = [claim EXCEPT ![job[w].order] = IF @ = "free" THEN "pending" ELSE @]
    /\ Finish(w)
    /\ UNCHANGED <<database, memory, attempts, restarts, kept>>

\* Nobody online: getFirstApprovedPartner takes one who is not.
AssignFallback(w) ==
    /\ MayChoose(w)
    /\ online = {}
    /\ \E r \in Riders \ {job[w].except} :
         IF AtLoadCap(r) THEN Stop(w) ELSE Choose(w, r, FALSE)
    /\ UNCHANGED <<database, memory, cache, restarts, kept>>

AssignNobody(w) ==
    /\ MayChoose(w)
    /\ online = {}
    /\ Riders \subseteq {job[w].except}
    /\ IF attempts[job[w].order] >= MaxAttempts THEN Report(w, {}) ELSE Stop(w)
    /\ UNCHANGED <<database, memory, cache, restarts, kept>>
-----------------------------------------------------------------------------
(* order-batcher.js                                                        *)

\* getBatchForRider: orders that may be delivered along with order o.
Nearby(o) == {p \in Orders \ {o} : Assignable(p)}

\* scheduleBatchAssignment for an order too far out to wait: assign it at once,
\* with others nearby, never more than the rider had room for.
BatchNow(w) ==
    /\ At(w, "batch")
    /\ TooFarToWait(job[w].order)
    /\ \E others \in SUBSET Nearby(job[w].order) :
         /\ Cardinality(others) < job[w].cap
         /\ Goto(w, [job[w] EXCEPT !.pc = "write", !.todo = others \cup {job[w].order}])
    /\ UNCHANGED <<database, memory, cache, restarts, kept>>

\* An assignment that ends in a window resolves the task of one that failed
\* before it, though no rider has been offered the order yet.
ResolveFailed(o, tier) == failed' = IF tier THEN [failed EXCEPT ![o] = 0] ELSE failed

\* Otherwise it opens a window of its own, unless it has one already...
OpenWindow(w) ==
    /\ At(w, "batch")
    /\ LET o == job[w].order IN
       /\ ~TooFarToWait(o)
       /\ window' = IF Open(o) THEN window
                    ELSE [window EXCEPT ![o] = [rider |-> job[w].rider, orders |-> {o},
                                                cap |-> job[w].cap]]
       /\ ResolveFailed(o, job[w].tier)
    /\ Finish(w)
    /\ UNCHANGED <<status, row, online, timer, cache, restarts, kept>>

\* ...or joins one of the rider's that still has room.
JoinWindowOfRider(w) ==
    /\ At(w, "batch")
    /\ ~TooFarToWait(job[w].order)
    /\ ~Open(job[w].order)
    /\ \E a \in Orders :
         /\ Open(a)
         /\ window[a].rider = job[w].rider
         /\ Cardinality(window[a].orders) < MaxBatchSize
         /\ window' = [window EXCEPT ![a].orders = @ \cup {job[w].order}]
    /\ ResolveFailed(job[w].order, job[w].tier)
    /\ Finish(w)
    /\ UNCHANGED <<status, row, online, timer, cache, restarts, kept>>

\* Mutant: a window that fires takes everybody who joined.
BatchesOfWindow(a, scanned) ==
    {b \in SUBSET (window[a].orders \cup scanned) : window[a].orders \subseteq b}

\* What a batch assigns: its window's orders as far as the rider's room at the
\* time goes, then others nearby.
Batches(a, scanned) ==
    LET waiting == window[a].orders
        room    == window[a].cap IN
    {b \in SUBSET (waiting \cup scanned) :
        /\ a \in b
        /\ Cardinality(b) <= room
        /\ \/ waiting \subseteq b
           \/ b \subseteq waiting /\ Cardinality(b) = room}

\* finalizeBatchWindow: whether its orders are still packed is not asked.
WindowFires(w, a) ==
    /\ At(w, "idle")
    /\ Open(a)
    /\ window' = [window EXCEPT ![a] = NoWindow]
    /\ \E b \in Batches(a, Nearby(a)) :
         Goto(w, [Idle EXCEPT !.pc = "write", !.order = a, !.rider = window[a].rider,
                              !.cap = window[a].cap, !.todo = b])
    /\ UNCHANGED <<database, timer, cache, restarts, kept>>

\* assignBatchToRider, one upsert per order: it replaces whatever row is there.
WriteRow(w) ==
    /\ At(w, "write")
    /\ \E o \in job[w].todo :
         /\ SetRow(o, "ASSIGNED", job[w].rider)
         /\ Goto(w, [job[w] EXCEPT !.todo = @ \ {o}, !.done = @ \cup {o},
                                   !.pc = IF job[w].todo = {o} THEN "arm" ELSE @])
    /\ UNCHANGED <<status, failed, online, memory, cache, restarts, kept>>

\* onAssigned: scheduleAssignmentTimeout for each of them.
ArmTimers(w) ==
    /\ At(w, "arm")
    /\ timer' = [o \in Orders |-> IF o \in job[w].done THEN job[w].rider ELSE timer[o]]
    /\ ResolveFailed(job[w].order, job[w].tier)
    /\ Finish(w)
    /\ UNCHANGED <<status, row, online, window, cache, restarts, kept>>
-----------------------------------------------------------------------------
(* The acceptance timer (scheduleAssignmentTimeout).                       *)

TimerFires(w, o) ==
    /\ At(w, "idle")
    /\ timer[o] # None
    /\ timer' = [timer EXCEPT ![o] = None]
    /\ IF OfferedTo(o, timer[o])
         THEN Goto(w, [Idle EXCEPT !.pc = "auto", !.order = o, !.except = timer[o]])
         ELSE UNCHANGED job
    /\ UNCHANGED <<database, window, cache, restarts, kept>>

\* Mutant: when nobody can take the order, the offer is left as it is.
AutoReadOrStop(w) ==
    /\ At(w, "auto")
    /\ LET o == job[w].order
           nearest == IF status[o] = "PACKED" /\ row[o].st = "ASSIGNED"
                      THEN online ELSE {} IN
       \/ nearest = {} /\ Stop(w)
       \/ \E r \in nearest :
            Goto(w, [job[w] EXCEPT !.rider = r, !.pc = "autoTx"])
    /\ UNCHANGED <<database, memory, cache, restarts, kept>>

\* autoAcceptNearestStoreRider reads the order, its row and the riders...
AutoRead(w) ==
    /\ At(w, "auto")
    /\ LET o == job[w].order
           nearest == IF status[o] = "PACKED" /\ row[o].st = "ASSIGNED"
                      THEN online ELSE {} IN
       \/ /\ nearest = {}
          /\ To(w, "expire")
       \/ \E r \in nearest :
            Goto(w, [job[w] EXCEPT !.rider = r,
                                   !.pc = IF AtLoadCap(r) THEN "expire" ELSE "autoTx"])
    /\ UNCHANGED <<database, memory, cache, restarts, kept>>

\* ...and later takes the row if it is still an offer, anybody's, and sends the
\* order out whatever its state is by then.
AutoAccept(w) ==
    /\ At(w, "autoTx")
    /\ LET o == job[w].order IN
       IF row[o].st = "ASSIGNED"
       THEN /\ SetRow(o, "ACCEPTED", job[w].rider)
            /\ SetStatus(o, "OUT_FOR_DELIVERY")
            /\ Clear(w, o)
       ELSE Stop(w) /\ UNCHANGED <<status, row>>
    /\ UNCHANGED <<failed, online, memory, cache, restarts, kept>>

\* Nobody to take it: if the offer still stands, withdraw it and ask others.
ExpireRead(w) ==
    /\ At(w, "expire")
    /\ IF OfferedTo(job[w].order, job[w].except) THEN To(w, "expireTx") ELSE Stop(w)
    /\ UNCHANGED <<database, memory, cache, restarts, kept>>

ExpireWrite(w) ==
    /\ At(w, "expireTx")
    /\ SetRowState(job[w].order, "CANCELLED")
    /\ Goto(w, Assign(job[w].order, job[w].except))
    /\ UNCHANGED <<status, failed, online, memory, cache, restarts, kept>>
-----------------------------------------------------------------------------
(* The admin assigns a rider of her choice.                                *)

\* manualAssignOrderToPartner: any row may be there already.
ManualCheck(w, o, r) ==
    /\ At(w, "idle")
    /\ status[o] = "PACKED"
    /\ ~AtLoadCap(r)
    /\ Goto(w, [Idle EXCEPT !.pc = "manual", !.order = o, !.rider = r])
    /\ UNCHANGED <<database, memory, cache, restarts, kept>>

ManualWrite(w) ==
    /\ At(w, "manual")
    /\ SetRow(job[w].order, "ASSIGNED", job[w].rider)
    /\ To(w, "manualArm")
    /\ UNCHANGED <<status, failed, online, memory, cache, restarts, kept>>

\* Mutant: an assignment by hand arms no timer.
ManualNoTimer(w) ==
    /\ At(w, "manualArm")
    /\ attempts' = [attempts EXCEPT ![job[w].order] = 0]
    /\ failed' = [failed EXCEPT ![job[w].order] = 0]
    /\ Stop(w)
    /\ UNCHANGED <<status, row, online, memory, claim, restarts, kept>>

ManualArm(w) ==
    /\ At(w, "manualArm")
    /\ attempts' = [attempts EXCEPT ![job[w].order] = 0]
    /\ timer' = [timer EXCEPT ![job[w].order] = job[w].rider]
    /\ failed' = [failed EXCEPT ![job[w].order] = 0]
    /\ Stop(w)
    /\ UNCHANGED <<status, row, online, window, claim, restarts, kept>>

\* bulkAssignZones offers the order to the rider in one transaction and arms
\* no timer; a row of another rider, withdrawn or not, stops it.
BulkAssign(o, r) ==
    /\ status[o] = "PACKED"
    /\ row[o].rider \in {None, r}
    /\ SetRow(o, "ASSIGNED", r)
    /\ UNCHANGED <<status, failed, online, memory, cache, job, restarts, kept>>
-----------------------------------------------------------------------------
(* What riders, customers and admins do to an order.                       *)

\* tryClaimBroadcastOrder, under the lock on the order.
Claims(o, r) == claim[o] \in {"free", "pending", r}

\* acceptOrder: only a packed order, and no row of another rider.
Accept(w, o, r) ==
    /\ At(w, "idle")
    /\ status[o] = "PACKED"
    /\ \/ /\ row[o].rider = r
          /\ UNCHANGED claim
       \/ /\ row[o] = NoRow
          /\ Claims(o, r)
          /\ claim' = [claim EXCEPT ![o] = IF @ = "pending" THEN r ELSE @]
    /\ SetRow(o, "ACCEPTED", r)
    /\ SetStatus(o, "OUT_FOR_DELIVERY")
    /\ Goto(w, [Idle EXCEPT !.pc = "accepted", !.order = o])
    /\ kept' = [kept EXCEPT ![o] = IF HeldByJob(o) \/ HeldByWindow(o) THEN None ELSE r]
    /\ UNCHANGED <<failed, online, memory, attempts, restarts>>

\* After the commit: clearAssignmentTimeout and releaseBroadcastClaim.
AfterAccept(w) ==
    /\ At(w, "accepted")
    /\ timer' = [timer EXCEPT ![job[w].order] = None]
    /\ claim' = [claim EXCEPT ![job[w].order] = "free"]
    /\ Stop(w)
    /\ UNCHANGED <<database, window, attempts, restarts, kept>>

\* rejectOrder asks neither for the state of the order nor for that of the
\* offer, and makes a row to withdraw when there is none.
Reject(w, o, r) ==
    /\ At(w, "idle")
    /\ row[o].rider \in {None, r}
    /\ status[o] # "PACKING_STARTED"
    /\ SetRow(o, "CANCELLED", r)
    /\ SetStatus(o, IF status[o] = "OUT_FOR_DELIVERY" THEN "PACKED" ELSE status[o])
    /\ Goto(w, [Idle EXCEPT !.pc = "rejected", !.order = o, !.except = r])
    /\ kept' = [kept EXCEPT ![o] = None]
    /\ UNCHANGED <<failed, online, memory, cache, restarts>>

AfterReject(w) ==
    /\ At(w, "rejected")
    /\ timer' = [timer EXCEPT ![job[w].order] = None]
    /\ Goto(w, Assign(job[w].order, job[w].except))
    /\ UNCHANGED <<database, window, cache, restarts, kept>>

\* updateDeliveryOrderStatus: DELIVERY_STATUS_TRANSITIONS lets a rider with a
\* row, in whatever state, send out a packed order without accepting it.
MayMove(o, s) ==
    \/ status[o] = s
    \/ s = "OUT_FOR_DELIVERY" /\ status[o] = "PACKED"
    \/ s = "PICKED_UP" /\ status[o] = "OUT_FOR_DELIVERY"
    \/ s = "DELIVERED" /\ status[o] \in InFlight

\* Mutant: the row of the rider is not asked for.
UpdateStatusOfAny(o, r, s) ==
    /\ MayMove(o, s)
    /\ SetRowState(o, IF s = "PICKED_UP" THEN "PICKED" ELSE "ACCEPTED")
    /\ SetStatus(o, s)
    /\ UNCHANGED <<failed, online, memory, cache, job, restarts, kept>>

UpdateStatus(o, r, s) ==
    /\ row[o].rider = r
    /\ MayMove(o, s)
    /\ SetRowState(o, IF s = "PICKED_UP" THEN "PICKED" ELSE "ACCEPTED")
    /\ SetStatus(o, s)
    /\ UNCHANGED <<failed, online, memory, cache, job, restarts, kept>>

\* A delivery frees the rider and works off the dispatch queue.
Deliver(w, o, r) ==
    /\ At(w, "idle")
    /\ row[o].rider = r
    /\ MayMove(o, "DELIVERED")
    /\ SetRowState(o, "DELIVERED")
    /\ SetStatus(o, "DELIVERED")
    /\ Goto(w, [Idle EXCEPT !.pc = "queueRead"])
    /\ kept' = [kept EXCEPT ![o] = None]
    /\ UNCHANGED <<failed, online, memory, cache, restarts>>

\* markFailedDelivery, then clearAssignmentTimeout.
MarkFailed(w, o, r) ==
    /\ At(w, "idle")
    /\ status[o] \in InFlight
    /\ row[o].rider = r
    /\ SetStatus(o, "FAILED_DELIVERY")
    /\ SetRowState(o, "FAILED")
    /\ Clear(w, o)
    /\ kept' = [kept EXCEPT ![o] = None]
    /\ UNCHANGED <<failed, online, memory, cache, restarts>>

\* resolveFailedDelivery with REDELIVER, then assignOrderToPartner.
Redeliver(w, o) ==
    /\ At(w, "idle")
    /\ status[o] = "FAILED_DELIVERY"
    /\ SetStatus(o, "PACKED")
    /\ SetRowState(o, "CANCELLED")
    /\ Goto(w, Assign(o, None))
    /\ UNCHANGED <<failed, online, memory, cache, restarts, kept>>

\* cancelOrderLifecycle: reads the state, writes CANCELLED, then withdraws the
\* assignment if one is active and clears its timer.
CancelRead(w, o) ==
    /\ At(w, "idle")
    /\ status[o] \in {"PACKING_STARTED", "PACKED", "FAILED_DELIVERY", "CANCELLED"}
    /\ Goto(w, [Idle EXCEPT !.pc = "cancelOrder", !.order = o])
    /\ UNCHANGED <<database, memory, cache, restarts, kept>>

CancelOrder(w) ==
    /\ At(w, "cancelOrder")
    /\ SetStatus(job[w].order, "CANCELLED")
    /\ To(w, "cancelRow")
    /\ UNCHANGED <<row, failed, online, memory, cache, restarts, kept>>

CancelRow(w) ==
    /\ At(w, "cancelRow")
    /\ IF IsActive(job[w].order)
       THEN SetRowState(job[w].order, "CANCELLED") /\ Clear(w, job[w].order)
       ELSE UNCHANGED row /\ Stop(w)
    /\ UNCHANGED <<status, failed, online, memory, cache, restarts, kept>>

ClearTimer(w) ==
    /\ At(w, "clear")
    /\ timer' = [timer EXCEPT ![job[w].order] = None]
    /\ Stop(w)
    /\ UNCHANGED <<database, window, cache, restarts, kept>>

\* toggleOnline: a rider with active orders may not leave.
GoOnline(r) ==
    /\ r \notin online
    /\ online' = online \cup {r}
    /\ UNCHANGED <<status, row, failed, memory, cache, job, restarts, kept>>

GoOfflineCheck(w, r) ==
    /\ At(w, "idle")
    /\ r \in online
    /\ OrdersOf(r) = {}
    /\ Goto(w, [Idle EXCEPT !.pc = "offline", !.rider = r])
    /\ UNCHANGED <<database, memory, cache, restarts, kept>>

GoOffline(w) ==
    /\ At(w, "offline")
    /\ online' = online \ {job[w].rider}
    /\ Stop(w)
    /\ UNCHANGED <<status, row, failed, memory, cache, restarts, kept>>

\* The process stops: timers, windows and procedures in flight are gone.
Restart ==
    /\ restarts < MaxRestarts
    /\ restarts' = restarts + 1
    /\ timer' = [o \in Orders |-> None]
    /\ window' = [o \in Orders |-> NoWindow]
    /\ job' = [w \in Jobs |-> Idle]
    /\ UNCHANGED <<database, cache, kept>>
-----------------------------------------------------------------------------
\* The steps the process takes by itself once a procedure has started.
JobStep(w) ==
    \/ QueueRead(w) \/ QueueNext(w)
    \/ AssignBegin(w) \/ ReportFailure(w) \/ InsertTask(w)
    \/ AssignRefused(w) \/ AssignJoins(w) \/ AssignInTier(w) \/ AssignSmallFleet(w)
    \/ Broadcast(w) \/ AssignFallback(w) \/ AssignNobody(w)
    \/ BatchNow(w) \/ OpenWindow(w) \/ JoinWindowOfRider(w)
    \/ WriteRow(w) \/ ArmTimers(w)
    \/ AutoRead(w) \/ AutoAccept(w) \/ ExpireRead(w) \/ ExpireWrite(w)
    \/ ManualWrite(w) \/ ManualArm(w)
    \/ AfterAccept(w) \/ AfterReject(w)
    \/ CancelOrder(w) \/ CancelRow(w) \/ ClearTimer(w) \/ GoOffline(w)

Timers(w) ==
    \/ \E o \in Orders : TimerFires(w, o)
    \/ \E a \in Orders : WindowFires(w, a)

Requests(w) ==
    \/ \E o \in Orders :
         MarkPacked(w, o) \/ PollOrder(w, o) \/ AdminRetry(w, o)
         \/ Redeliver(w, o) \/ CancelRead(w, o)
    \/ \E o \in Orders, r \in Riders :
         ManualCheck(w, o, r) \/ Accept(w, o, r) \/ Reject(w, o, r)
         \/ Deliver(w, o, r) \/ MarkFailed(w, o, r)
    \/ \E r \in Riders : GoOfflineCheck(w, r)

\* The orders that no second procedure has come near so far.
StillAlone == {o \in alone : \A v, w \in Jobs :
                   About(job'[v], o) /\ About(job'[w], o) => v = w}

\* What the process does by itself, and what is asked of it.
OwnStep == \E w \in Jobs : JobStep(w) \/ Timers(w)
Request ==
    \/ \E w \in Jobs : Requests(w)
    \/ \E o \in Orders, r \in Riders, s \in InFlight : UpdateStatus(o, r, s)
    \/ \E r \in Riders : GoOnline(r)
Bulk    == \E o \in Orders, r \in Riders : BulkAssign(o, r) /\ alone' = alone \ {o}
Crash   == Restart /\ alone' = {}

Next ==
    \/ (OwnStep \/ Request) /\ alone' = StillAlone
    \/ Bulk
    \/ Crash

Spec == Init /\ [][Next]_vars

\* Node goes on with what is in flight, and fires a timer that is due however
\* many requests come in between.
LiveSpec ==
    /\ Spec
    /\ \A w \in Jobs : WF_vars(JobStep(w) /\ alone' = StillAlone)
    /\ \A o \in Orders :
         SF_vars(\E w \in Jobs : TimerFires(w, o) /\ alone' = StillAlone)
-----------------------------------------------------------------------------
(* Properties                                                              *)

\* An order that has left the store has an assignment row with a rider on it,
\* and a timer is armed only for an order that was offered to somebody
\* (acceptOrder, autoAcceptNearestStoreRider, updateDeliveryOrderStatus).
OutOnlyWithRider ==
    \A o \in Orders :
        /\ status[o] \in InFlight \cup {"DELIVERED", "FAILED_DELIVERY"} => row[o].rider # None
        /\ timer[o] # None => row[o].rider # None

\* A batch is never larger than the room its rider had when it was sized, and
\* a window never holds more orders than a batch may have.
BatchWithinRoom ==
    /\ \A a \in Orders : Open(a) =>
         /\ window[a].orders # {}
         /\ Cardinality(window[a].orders) <= MaxBatchSize
         /\ window[a].cap > 0
    /\ \A w \in Jobs : Cardinality(job[w].todo \cup job[w].done) <= job[w].cap

\* A rider who accepted an order that nothing else was handling keeps it: no
\* timer, window, poll, admin retry or assignment started later takes it away
\* before the rider gives it up, fails or delivers it.
AcceptedOrderIsKept ==
    \A o \in Orders : kept[o] # None =>
        /\ status[o] \in InFlight
        /\ row[o].rider = kept[o]
        /\ row[o].st \in {"ACCEPTED", "PICKED"}

\* An offer is watched: as long as the order has only been handled by one
\* procedure at a time and the process stayed up, a timer runs for the rider
\* the order is offered to, or the procedure that will see to it is on its way.
OfferIsWatched ==
    \A o \in alone : row[o].st = "ASSIGNED" => timer[o] = row[o].rider \/ HeldByJob(o)

\* Nobody has to answer an offer: it is accepted for the nearest rider or
\* withdrawn when its time is up (docs/APP_FLOWS.md, reassignment on timeout).
OfferEnds ==
    \A o \in Orders : (row[o].st = "ASSIGNED" /\ o \in alone)
                      ~> (row[o].st # "ASSIGNED" \/ o \notin alone)
=============================================================================
