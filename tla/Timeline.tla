------------------------------ MODULE Timeline -------------------------------
(***************************************************************************)
(* What the system writes down about an order's way: operational events,   *)
(* the order's lifecycle timestamps, and the alerts about orders that wait *)
(* too long.  Handlers publish after their commit and do not wait: the     *)
(* publications of one order overlap, each of their writes can fail on its *)
(* own, and a restart drops those that are not done.  The monitors of      *)
(* index.js run by a timer, and a slow run overlaps the next.              *)
(***************************************************************************)
EXTENDS Naturals, FiniteSets

CONSTANTS
    Runs,           \* monitor runs at a time
    PackedWarning, PackedCritical,    \* PACK_AGE.warningMinutes, criticalMinutes
    MaxMinute,      \* bound: how long the order is followed
    Followed,       \* bound: the timestamp columns that are followed
    MaxInFlight     \* bound: publications at a time

ASSUME TimelineAssumption ==
    /\ {"packed_at", "returned_at"} \subseteq Followed
    /\ MaxMinute \in Nat \ {0}

VARIABLES
    stage,        \* orders.status
    minute,       \* the time
    carried,      \* the order has an active order_assignments row
    weighed,      \* orders.weight_reconciliation_status is COMPLETED
    stamps,       \* the timestamp columns of orders, 0 for NULL
    inFlight,     \* publications that were asked for and are not done
    alertKeys,    \* the Redis keys pack_age:alert:* and ops:peak_alert
    rung,         \* alerts emitted in the life of each key
    runs,         \* the monitors' runs
    helpWanted    \* delivery_partners.operational_status is not 'normal'

timelineVars == <<stage, minute, carried, weighed, stamps, inFlight,
                  alertKeys, rung, runs, helpWanted>>

Kitchen  == {"CONFIRMED", "PACKING_STARTED", "PACKED"}
Stages   == {"PLACED", "OUT_FOR_DELIVERY", "FAILED_DELIVERY", "DELIVERED"} \cup Kitchen
AgeTiers == {"warning", "critical"}
Alerts   == AgeTiers \cup {"peak"}

\* The column an event stamps, for the events that have one (EVENT_TIMESTAMP_COLUMNS).
ColumnOf == [ORDER_CONFIRMED |-> "confirmed_at", PACKING_STARTED |-> "packing_started_at",
             WEIGHT_RECONCILIATION_COMPLETED |-> "weight_reconciliation_completed_at",
             ORDER_PACKED |-> "packed_at", ENTERED_DISPATCH_QUEUE |-> "dispatch_queued_at",
             RIDER_ASSIGNED |-> "assigned_at", RIDER_ACCEPTED |-> "rider_accepted_at",
             OUT_FOR_DELIVERY |-> "out_for_delivery_at", DELIVERED |-> "delivered_at",
             FAILED_DELIVERY |-> "failed_delivery_at", RETURN_TO_STORE |-> "returned_at"]
Stamped == {e \in DOMAIN ColumnOf : ColumnOf[e] \in Followed}

-----------------------------------------------------------------------------
\* setImmediate: the publications are on their way, their times not yet taken.  One
\* that stamps nothing leaves a row for the reports only and is not followed.
PublishAsync(types) ==
    /\ inFlight' = inFlight \cup {[type |-> e, step |-> "asked", at |-> 0] : e \in types \cap Stamped}
    /\ Cardinality(inFlight') <= MaxInFlight

\* The time is the start of publishOperationalEvent, not of what happened.  Whether
\* the event's row is recorded makes no difference to the stamp.
Begin(p) ==
    /\ p.step = "asked"
    /\ inFlight' = (inFlight \ {p}) \cup {[p EXCEPT !.step = "stamp", !.at = minute]}
    /\ UNCHANGED <<stage, minute, carried, weighed, stamps, alertKeys, rung, runs, helpWanted>>

\* Mutant: the later publication wins.
Overwritten(s, c, t) == [s EXCEPT ![c] = t]

Stamp(s, c, t) == [s EXCEPT ![c] = IF @ # 0 THEN @ ELSE t]

StampOrder(p) ==
    /\ p.step = "stamp"
    /\ stamps' \in {stamps, Stamp(stamps, ColumnOf[p.type], p.at)}
    /\ inFlight' = inFlight \ {p}
    /\ UNCHANGED <<stage, minute, carried, weighed, alertKeys, rung, runs, helpWanted>>

-----------------------------------------------------------------------------
\* The handlers' commits (what else they do is in the other modules), with the
\* columns that their own UPDATE sets to NOW() and the events they publish.
Publishing(from, to, columns, types) ==
    /\ stage \in from /\ stage' = to
    /\ stamps' = [c \in Followed |-> IF c \in columns THEN minute ELSE stamps[c]]
    /\ PublishAsync(types)
    /\ UNCHANGED <<minute, alertKeys, rung, runs>>

ConfirmOrder ==
    /\ Publishing({"PLACED"}, "CONFIRMED", {}, {"ORDER_CONFIRMED"})
    /\ UNCHANGED <<carried, weighed, helpWanted>>

BeginPacking ==
    /\ Publishing({"CONFIRMED"}, "PACKING_STARTED", {}, {"PACKING_STARTED"})
    /\ UNCHANGED <<carried, weighed, helpWanted>>

Weigh ==
    /\ ~weighed /\ weighed' = TRUE
    /\ Publishing({"CONFIRMED", "PACKING_STARTED"}, stage,
             {"packed_at", "weight_reconciliation_completed_at"},
             {"WEIGHT_RECONCILIATION_COMPLETED"})
    /\ UNCHANGED <<carried, helpWanted>>

Pack ==
    /\ weighed
    /\ Publishing({"CONFIRMED", "PACKING_STARTED"}, "PACKED", {},
             {"ORDER_PACKED", "ENTERED_DISPATCH_QUEUE"})
    /\ UNCHANGED <<carried, weighed, helpWanted>>

AssignRider ==
    /\ Publishing({"PACKED"}, stage, {}, {"RIDER_ASSIGNED"})
    /\ carried' = TRUE /\ UNCHANGED <<weighed, helpWanted>>

\* A rejection, or an offer that times out, publishes nothing that is followed.
Unassign ==
    /\ carried /\ Publishing({"PACKED"}, stage, {}, {})
    /\ carried' = FALSE /\ UNCHANGED <<weighed, helpWanted>>

AcceptAndGo ==
    /\ Publishing({"PACKED"}, "OUT_FOR_DELIVERY", {}, {"RIDER_ACCEPTED", "OUT_FOR_DELIVERY"})
    /\ carried' = TRUE /\ UNCHANGED <<weighed, helpWanted>>

DeliverOrder ==
    /\ Publishing({"OUT_FOR_DELIVERY"}, "DELIVERED", {}, {"DELIVERED"})
    /\ carried' \in {carried, FALSE} /\ UNCHANGED <<weighed, helpWanted>>

FailAtDoor ==
    /\ carried
    /\ Publishing({"OUT_FOR_DELIVERY"}, "FAILED_DELIVERY", {"failed_delivery_at"},
             {"DELIVERY_ATTEMPTED", "FAILED_DELIVERY"})
    /\ carried' = FALSE /\ UNCHANGED <<weighed, helpWanted>>

ConfirmReturn ==
    /\ stamps["returned_at"] = 0
    /\ Publishing({"FAILED_DELIVERY"}, stage, {"returned_at"}, {"RETURN_TO_STORE"})
    /\ UNCHANGED <<carried, weighed, helpWanted>>

\* The order waits for a rider again without having been packed again: neither the
\* timestamps nor the alert keys of the first time are cleared (clearPackAgeAlerts
\* has no caller).
SendAgain ==
    /\ stamps["returned_at"] # 0
    /\ Publishing({"FAILED_DELIVERY"}, "PACKED", {}, {"REDELIVERED"})
    /\ UNCHANGED <<carried, weighed, helpWanted>>

\* Nothing sets the rider's operational status back to normal.
ReportException ==
    /\ carried
    /\ Publishing({"OUT_FOR_DELIVERY"}, stage, {}, {"OPERATIONAL_EXCEPTION"})
    /\ helpWanted' = TRUE /\ UNCHANGED <<carried, weighed>>

-----------------------------------------------------------------------------
TierOf(age) == IF age >= PackedCritical THEN {"critical"}
               ELSE IF age >= PackedWarning THEN {"warning"} ELSE {}

\* What a run finds: the tier of an order that waits unassigned, or a kitchen at its
\* peak (the other orders of the queue are not modelled, so that it may be).
Found ==
    (IF stage = "PACKED" /\ ~carried /\ stamps["packed_at"] # 0
     THEN TierOf(minute - stamps["packed_at"]) ELSE {})
    \cup (IF stage \in Kitchen THEN {"peak"} ELSE {})

IdleRun == [step |-> "idle", alert |-> "peak"]

RunReads(r) ==
    /\ runs[r].step = "idle"
    /\ \E a \in Found : runs' = [runs EXCEPT ![r] = [step |-> "claim", alert |-> a]]
    /\ UNCHANGED <<stage, minute, carried, weighed, stamps, inFlight, alertKeys, rung, helpWanted>>

\* Mutant: SET without NX, as the fallback without Redis does it.
ClaimAlways(r) ==
    /\ runs[r].step = "claim"
    /\ alertKeys' = alertKeys \cup {runs[r].alert}
    /\ runs' = [runs EXCEPT ![r].step = "ring"]
    /\ UNCHANGED <<stage, minute, carried, weighed, stamps, inFlight, rung, helpWanted>>

\* SET key NX EX: who sets it rings, unless the answer comes too late (Redis has set
\* it by then, and nobody rings until it expires).
Claim(r) ==
    /\ runs[r].step = "claim"
    /\ alertKeys' = alertKeys \cup {runs[r].alert}
    /\ \/ runs' = [runs EXCEPT ![r] = IdleRun]
       \/ /\ runs[r].alert \notin alertKeys
          /\ runs' = [runs EXCEPT ![r].step = "ring"]
    /\ UNCHANGED <<stage, minute, carried, weighed, stamps, inFlight, rung, helpWanted>>

EventOfAlert == [warning |-> "PACK_AGE_WARNING", critical |-> "PACK_AGE_CRITICAL",
                 peak |-> "PEAK_ALERT_TRIGGERED"]

\* Also when a rider has taken the order since the run read it.
Ring(r) ==
    /\ runs[r].step = "ring"
    /\ LET a == runs[r].alert
       IN  /\ rung' = [rung EXCEPT ![a] = @ + 1]
           /\ PublishAsync({EventOfAlert[a]})
    /\ runs' = [runs EXCEPT ![r] = IdleRun]
    /\ UNCHANGED <<stage, minute, carried, weighed, stamps, alertKeys, helpWanted>>

\* A day, or the cooldown, has passed: far longer than a run waits for an answer.
AlertExpires(a) ==
    /\ a \in alertKeys
    /\ \A r \in Runs : ~(runs[r].step = "ring" /\ runs[r].alert = a)
    /\ alertKeys' = alertKeys \ {a} /\ rung' = [rung EXCEPT ![a] = 0]
    /\ UNCHANGED <<stage, minute, carried, weighed, stamps, inFlight, runs, helpWanted>>

MinutePasses ==
    /\ minute < MaxMinute /\ minute' = minute + 1
    /\ UNCHANGED <<stage, carried, weighed, stamps, inFlight, alertKeys, rung, runs, helpWanted>>

\* A restart: what was on its way is lost, a claimed alert included.
DropInFlight ==
    /\ inFlight' = {} /\ runs' = [r \in Runs |-> IdleRun]
    /\ UNCHANGED <<stage, minute, carried, weighed, stamps, alertKeys, rung, helpWanted>>

-----------------------------------------------------------------------------
TimelineInit ==
    /\ stage = "PLACED" /\ minute = 1 /\ carried = FALSE /\ weighed = FALSE
    /\ stamps = [c \in Followed |-> 0] /\ inFlight = {}
    /\ alertKeys = {} /\ rung = [a \in Alerts |-> 0]
    /\ runs = [r \in Runs |-> IdleRun]
    /\ helpWanted = FALSE

TimelineNext ==
    \/ ConfirmOrder \/ BeginPacking \/ Weigh \/ Pack \/ AssignRider \/ Unassign \/ AcceptAndGo
    \/ DeliverOrder \/ FailAtDoor \/ ConfirmReturn \/ SendAgain \/ ReportException
    \/ \E p \in inFlight : Begin(p) \/ StampOrder(p)
    \/ \E r \in Runs : RunReads(r) \/ Claim(r) \/ Ring(r)
    \/ \E a \in Alerts : AlertExpires(a)
    \/ MinutePasses \/ DropInFlight

TimelineSpec == TimelineInit /\ [][TimelineNext]_timelineVars

-----------------------------------------------------------------------------
TimelineTypeOK ==
    /\ stage \in Stages /\ minute \in 1 .. MaxMinute
    /\ carried \in BOOLEAN /\ weighed \in BOOLEAN
    /\ stamps \in [Followed -> 0 .. MaxMinute]
    /\ inFlight \subseteq [type : Stamped, step : {"asked", "stamp"}, at : 0 .. MaxMinute]
    /\ alertKeys \subseteq Alerts /\ rung \in [Alerts -> Nat]
    /\ runs \in [Runs -> [step : {"idle", "claim", "ring"}, alert : Alerts]]
    /\ helpWanted \in BOOLEAN

\* However many runs of the monitors overlap, and however often the process restarts
\* between two of their steps, an alert is raised once in the life of its key.
AlertedOnce == \A a \in Alerts : rung[a] <= 1

\* A timestamp stands once it is written: publications that overlap, or that a second
\* delivery attempt repeats, do not move it (stampOrderTimestamp: "never overwrite").
\* Only failed_delivery_at does, which markFailedDelivery sets itself each time.
FirstStampStands ==
    [][\A c \in Followed \ {"failed_delivery_at"} :
          stamps[c] # 0 => stamps'[c] = stamps[c]]_timelineVars
=============================================================================
