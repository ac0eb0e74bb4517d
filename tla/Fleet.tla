--------------------------------- MODULE Fleet ---------------------------------
(***************************************************************************)
(* One rider on the road: where the rider is, whether the rider is online, *)
(* the row of the fleet board the shop looks at, and the delivery times    *)
(* the customers are shown (tracking.service.js, eta.service.js,           *)
(* deliveryPartner.util.js, and the online switches of the rider app and   *)
(* of the admin).  Every statement against the database is a step of its   *)
(* own, and any request may fail between two of them.                      *)
(*                                                                         *)
(* How orders come to the rider and are delivered is in Dispatch and       *)
(* Doorstep; here they only change hands.  Times are those of the default  *)
(* speed outside the rush hours.                                           *)
(***************************************************************************)
EXTENDS Routes

CONSTANTS
    Parcels,      \* orders, by number
    Batch,        \* those of them that were accepted in one batch
    NoParcel,     \* no order
    Spots,        \* places the rider may report
    NearRange,    \* nearbyThresholdMeters, in kilometres of the line
    Phones,       \* bound: requests in flight at once
    Refreshes     \* bound: refreshes of the board in flight at once

ASSUME FleetAssumption ==
    /\ Parcels \subseteq 1..MaxWaiting /\ Batch \subseteq Parcels
    /\ NoParcel \notin Parcels
    /\ Spots \subseteq Nat /\ Store \in Spots /\ NearRange \in Nat

VARIABLES
    rider,     \* delivery_partners: is_online and current_lat, current_lng
    board,     \* delivery_partners: availability_status, active_order_count, a return time
    leg,       \* how far each order is
    request,   \* what each request in flight is doing
    refresh    \* what each refresh of the board in flight is doing

roadVars == <<rider, board, leg, request, refresh>>

NoRequest == [at |-> "idle", spot |-> Store, order |-> NoParcel, on |-> FALSE]
NoRefresh == [at |-> "idle", online |-> FALSE, count |-> 0, back |-> FALSE]

\* The orders that count as the rider's load: an active assignment, and the
\* order neither delivered nor cancelled.
Carried == {o \in Parcels : leg[o] \in {"accepted", "out", "near"}}

-----------------------------------------------------------------------------
\* The times.  60 minutes at ROUTING.avgSpeedKmh, and at 25 km/h on a road a
\* fifth longer than the line (roadDistanceFactor), rounded up.
StopMinutes   == 5
BufferMinutes == 2

DirectEta(o, from) == BufferMinutes + (72 * Kilometres(from, Door[o]) + 24) \div 25

\* resolveBatchQueueContext: the stops of the batch that are still open, in the
\* order a greedy tour from where the rider is visits them.  Before it is
\* accepted there is no batch (batch_ids).
BatchRoute(from) == Greedy(from, {o \in Batch : leg[o] \notin {"packed", "over"}})

Position(o, route) == CHOOSE i \in DOMAIN route : route[i] = o

QueueEta(o, from) ==
    LET route == BatchRoute(from)
        n     == Position(o, route)
    IN  3 * KilometresTo(from, route, n) + n * StopMinutes + BufferMinutes

\* getOrderTrackingInfo, and updateLiveETA after every report of the rider, who
\* writes it to eta_minutes for when there is no live one: the first stop has a
\* time of its own.
EtaOf(o, from) ==
    LET route == BatchRoute(from)
    IN  IF o \in ToSet(route) /\ Len(route) > 1 /\ Position(o, route) > 1
        THEN QueueEta(o, from) ELSE DirectEta(o, from)

-----------------------------------------------------------------------------
FleetInit ==
    /\ rider = [online |-> FALSE, spot |-> Store]
    /\ board = [status |-> "offline", count |-> 0, back |-> FALSE]
    /\ leg = [o \in Parcels |-> "packed"]
    /\ request = [q \in Phones |-> NoRequest]
    /\ refresh = [r \in Refreshes |-> NoRefresh]

\* refreshPartnerOperationalState is started and not waited for; what it
\* throws is caught, so that it may also come to nothing at once.
StartRefresh ==
    \/ UNCHANGED refresh
    \/ \E r \in Refreshes :
         /\ refresh[r].at = "idle"
         /\ refresh' = [refresh EXCEPT ![r] = [NoRefresh EXCEPT !.at = "partner"]]

-----------------------------------------------------------------------------
\* The rider accepts an order, or a batch; each refreshes the board.
AcceptLoad(load) ==
    /\ \A o \in load : leg[o] = "packed"
    /\ leg' = [o \in Parcels |-> IF o \in load THEN "accepted" ELSE leg[o]]
    /\ StartRefresh
    /\ UNCHANGED <<rider, board, request>>

SetOut(o) ==
    /\ leg[o] = "accepted"
    /\ leg' = [leg EXCEPT ![o] = "out"]
    /\ UNCHANGED <<rider, board, request, refresh>>

\* The rider app's DELIVERED refreshes the board.
DeliverLoad(o) ==
    /\ leg[o] \in {"out", "near"}
    /\ leg' = [leg EXCEPT ![o] = "over"]
    /\ StartRefresh
    /\ UNCHANGED <<rider, board, request>>

\* POST /complete, a cancel, and the admin's PATCH do not.
LoadEnds(o) ==
    /\ leg[o] \in {"accepted", "out", "near"}
    /\ leg' = [leg EXCEPT ![o] = "over"]
    /\ UNCHANGED <<rider, board, request, refresh>>

-----------------------------------------------------------------------------
\* updateRiderLocation, over HTTP or the socket, perhaps naming an order.
ReportSpot(q, s, o) ==
    /\ request[q].at = "idle"
    /\ request' = [request EXCEPT ![q] = [NoRequest EXCEPT !.at = "move", !.spot = s, !.order = o]]
    /\ UNCHANGED <<rider, board, leg, refresh>>

MoveRider(q) ==
    /\ request[q].at = "move"
    /\ rider' = [rider EXCEPT !.spot = request[q].spot]
    /\ request' = [request EXCEPT ![q].at = "verify"]
    /\ UNCHANGED <<board, leg, refresh>>

\* Then the board is refreshed, and the order the rider named is looked at if
\* there is an assignment row that gives it to the rider, whatever its status.
VerifyOrder(q) ==
    /\ request[q].at = "verify"
    /\ StartRefresh
    /\ request' = [request EXCEPT ![q] =
           IF @.order # NoParcel /\ leg[@.order] # "packed" THEN [@ EXCEPT !.at = "look"] ELSE NoRequest]
    /\ UNCHANGED <<rider, board, leg>>

\* checkRiderNearby reads the order, then moves it with a guarded UPDATE.
LookNearby(q) ==
    /\ request[q].at = "look"
    /\ request' = [request EXCEPT ![q] =
           IF Kilometres(@.spot, Door[@.order]) <= NearRange /\ leg[@.order] = "out"
           THEN [@ EXCEPT !.at = "mark"] ELSE NoRequest]
    /\ UNCHANGED <<rider, board, leg, refresh>>

\* Mutant: the UPDATE relies on the status that was read.
MarkNearbyAnyway(q) ==
    /\ request[q].at = "mark"
    /\ leg' = [leg EXCEPT ![request[q].order] = "near"]
    /\ request' = [request EXCEPT ![q] = NoRequest]
    /\ UNCHANGED <<rider, board, refresh>>

MarkNearby(q) ==
    /\ request[q].at = "mark"
    /\ leg' = [leg EXCEPT ![request[q].order] = IF @ = "out" THEN "near" ELSE @]
    /\ request' = [request EXCEPT ![q] = NoRequest]
    /\ UNCHANGED <<rider, board, refresh>>

-----------------------------------------------------------------------------
\* toggleOnline of the rider, and toggleDeliveryPartner of the admin, which
\* turns is_online over where the rider's sets what was asked for.  Both look at
\* the load first when the rider is to go offline.
AskOnline(q, on) ==
    /\ request[q].at = "idle"
    /\ request' = [request EXCEPT ![q] = [NoRequest EXCEPT !.at = IF on THEN "switch" ELSE "load", !.on = on]]
    /\ UNCHANGED <<rider, board, leg, refresh>>

AskToggle(q) ==
    /\ request[q].at = "idle"
    /\ request' = [request EXCEPT ![q] =
           [NoRequest EXCEPT !.at = IF rider.online THEN "load_toggle" ELSE "toggle"]]
    /\ UNCHANGED <<rider, board, leg, refresh>>

CheckLoad(q) ==
    /\ \/ /\ request[q].at = "load"
          /\ request' = [request EXCEPT ![q] = IF Carried = {} THEN [@ EXCEPT !.at = "switch"] ELSE NoRequest]
       \/ /\ request[q].at = "load_toggle"
          /\ request' = [request EXCEPT ![q] = IF Carried = {} THEN [@ EXCEPT !.at = "toggle"] ELSE NoRequest]
    /\ UNCHANGED <<rider, board, leg, refresh>>

\* The rider's switch also takes the coordinates it sends; online without any,
\* the rider is put at the store.
SwitchOnline(q) ==
    /\ \/ /\ request[q].at = "switch"
          /\ \E s \in Spots \cup {rider.spot} :
               /\ request[q].on => s \in Spots
               /\ rider' = [online |-> request[q].on, spot |-> s]
       \/ /\ request[q].at = "toggle"
          /\ rider' = [rider EXCEPT !.online = ~@]
    /\ request' = [request EXCEPT ![q] = NoRequest]
    /\ StartRefresh
    /\ UNCHANGED <<board, leg>>

\* patchDeliveryPartner sets is_online with no look at the load and no refresh.
PatchOnline(on) ==
    /\ rider.online # on
    /\ rider' = [rider EXCEPT !.online = on]
    /\ UNCHANGED <<board, leg, request, refresh>>

\* A request dies between two statements.  A location sent over HTTP is then
\* written by the handler once more.
RequestFails(q) ==
    /\ request[q].at # "idle"
    /\ \/ UNCHANGED rider
       \/ request[q].at \in {"move", "verify", "look"} /\ rider' = [rider EXCEPT !.spot = request[q].spot]
    /\ request' = [request EXCEPT ![q] = NoRequest]
    /\ UNCHANGED <<board, leg, refresh>>

-----------------------------------------------------------------------------
\* deriveFleetOperationalStatus
FleetStatus(online, count) ==
    IF ~online THEN "offline" ELSE IF count > 0 THEN "busy" ELSE "available"

\* refreshPartnerOperationalState reads the partner, counts the load, reads the
\* stops for the way back when the rider is busy, and writes the board.
ReadPartner(r) ==
    /\ refresh[r].at = "partner"
    /\ refresh' = [refresh EXCEPT ![r].at = "count", ![r].online = rider.online]
    /\ UNCHANGED <<rider, board, leg, request>>

CountLoad(r) ==
    /\ refresh[r].at = "count"
    /\ LET count == Cardinality(Carried)
           busy  == FleetStatus(refresh[r].online, count) = "busy"
       IN  refresh' = [refresh EXCEPT ![r].at = IF busy THEN "stops" ELSE "write", ![r].count = count]
    /\ UNCHANGED <<rider, board, leg, request>>

ReadStops(r) ==
    /\ refresh[r].at = "stops"
    /\ refresh' = [refresh EXCEPT ![r].at = "write", ![r].back = Carried # {}]
    /\ UNCHANGED <<rider, board, leg, request>>

WriteBoard(r) ==
    /\ refresh[r].at = "write"
    /\ board' = [status |-> FleetStatus(refresh[r].online, refresh[r].count),
                 count |-> refresh[r].count, back |-> refresh[r].back]
    /\ refresh' = [refresh EXCEPT ![r] = NoRefresh]
    /\ UNCHANGED <<rider, leg, request>>

RefreshFails(r) ==
    /\ refresh[r].at # "idle"
    /\ refresh' = [refresh EXCEPT ![r] = NoRefresh]
    /\ UNCHANGED <<rider, board, leg, request>>

-----------------------------------------------------------------------------
OrdersMove ==
    \/ \E load \in {Batch} \cup {{o} : o \in Parcels \ Batch} : AcceptLoad(load)
    \/ \E o \in Parcels : SetOut(o) \/ DeliverLoad(o) \/ LoadEnds(o)

RequestStep(q) ==
    \/ \E s \in Spots, o \in Parcels \cup {NoParcel} : ReportSpot(q, s, o)
    \/ MoveRider(q) \/ VerifyOrder(q) \/ LookNearby(q) \/ MarkNearby(q)
    \/ \E on \in BOOLEAN : AskOnline(q, on)
    \/ AskToggle(q) \/ CheckLoad(q) \/ SwitchOnline(q)
    \/ RequestFails(q)

RefreshStep(r) == ReadPartner(r) \/ CountLoad(r) \/ ReadStops(r) \/ WriteBoard(r) \/ RefreshFails(r)

RoadNext ==
    \/ OrdersMove
    \/ \E q \in Phones : RequestStep(q)
    \/ \E on \in BOOLEAN : PatchOnline(on)
    \/ \E r \in Refreshes : RefreshStep(r)

\* The planning screen of Routes moves on its own.
FleetNext ==
    \/ RoadNext /\ UNCHANGED routesVars
    \/ RoutesNext /\ UNCHANGED roadVars

FleetSpec == FleetInit /\ RoutesInit /\ [][FleetNext]_<<roadVars, routesVars>>

-----------------------------------------------------------------------------
\* Every variable of the rider on the road keeps its type.
FleetTypeOK ==
    /\ rider \in [online : BOOLEAN, spot : Spots]
    /\ board \in [status : {"offline", "busy", "available"}, count : 0..Cardinality(Parcels), back : BOOLEAN]
    /\ leg \in [Parcels -> {"packed", "accepted", "out", "near", "over"}]
    /\ request \in [Phones ->
           [at : {"idle", "move", "verify", "look", "mark", "load", "switch", "load_toggle", "toggle"},
            spot : Spots, order : Parcels \cup {NoParcel}, on : BOOLEAN]]
    /\ refresh \in [Refreshes ->
           [at : {"idle", "partner", "count", "stops", "write"}, online : BOOLEAN,
            count : 0..Cardinality(Parcels), back : BOOLEAN]]

\* Of two customers of a batch who wait behind another, the one the rider
\* visits later is shown a later time, wherever the rider is and whichever
\* stops are over (resolveBatchQueueContext adds up the tour and a stop each).
LaterStopsLater ==
    LET route == BatchRoute(rider.spot)
    IN  \A i, j \in 2..Len(route) : i < j => EtaOf(route[i], rider.spot) < EtaOf(route[j], rider.spot)

\* What the shop plans and what the customers are told hold together: a plan
\* leaves out no order and no rider, and along a tour the times only grow
\* (assignMultiRiderRoutes, getOrderTrackingInfo).
ToursServeAll == PlanServesEveryRider /\ LaterStopsLater

\* An order that was delivered or cancelled is not taken back on the road by a
\* location report that had seen it there (checkRiderNearby), and no other
\* report or switch moves an order at all.
NoWayBack == [][\A o \in Parcels : leg[o] = "over" => leg'[o] = "over"]_leg
=============================================================================
