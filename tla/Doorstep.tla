------------------------------ MODULE Doorstep ------------------------------
(***************************************************************************)
(* An order handed over at the door: the delivery code in Redis            *)
(* (deliveryProof.service.js), the two requests that deliver an order      *)
(* against it (delivery.controller.js, enhancedOrders.controller.js) and   *)
(* the rider's earnings, which are booked after the commit                 *)
(* (earnings.service.js).                                                  *)
(*                                                                         *)
(* One order with one rider; how it gets there is in Dispatch, how it      *)
(* fails in FailedDelivery.  Codes are numbered in the order in which they *)
(* are drawn, and what a code hashes to is the code.  Each delivery is     *)
(* worth one unit of earnings.  A request is served by a hand, one         *)
(* statement after the other; it may end between any two of them.          *)
(***************************************************************************)
EXTENDS Naturals, FiniteSets

CONSTANTS
    Hands,       \* bound: requests served at once
    MaxCodes,    \* bound: codes drawn
    MaxEarned    \* bound: deliveries booked

ASSUME DoorAssumption == MaxCodes \in Nat /\ MaxEarned \in Nat /\ IsFiniteSet(Hands)

VARIABLES
    parcel,    \* orders.status
    otpHash,   \* Redis delivery_otp:<order>, 0 when absent
    otpShown,  \* Redis delivery_otp_display:<order>, 0 when absent
    drawn,     \* codes drawn so far
    earned,    \* rows of rider_earnings_history
    balance,   \* delivery_partners.earnings
    cash,      \* orders.payment_status of a COD order
    hand,      \* what each request in flight is doing
    booked,    \* history: commits that made the order DELIVERED
    crossed    \* history: two requests handled the code at the same time

otp      == <<otpHash, otpShown, drawn, crossed>>
money    == <<earned, balance, cash, booked>>
doorVars == <<parcel, otp, money, hand>>

\* PICKED_UP stands for ON_THE_WAY, OUT_FOR_DELIVERY for RIDER_NEARBY; gone is
\* every status from which the order cannot be delivered.
OnTheRoad    == {"OUT_FOR_DELIVERY", "PICKED_UP"}
DoorStatuses == OnTheRoad \cup {"PACKED", "DELIVERED", "gone"}

Free == [at |-> "free", arg |-> 0, to |-> "none"]
HandAt(h, at)  == hand[h].at = at
Moves(h, at)   == hand' = [hand EXCEPT ![h].at = at]
Frees(h)       == hand' = [hand EXCEPT ![h] = Free]
Takes(h, r)    == HandAt(h, "free") /\ hand' = [hand EXCEPT ![h] = r]

AboutCode == {"hash", "show", "drop_hash", "drop_shown"}
OthersAboutCode(h) == \E g \in Hands \ {h} : hand[g].at \in AboutCode

\* Every step of a hand about the code notes whether another one is about it.
Crossing(h) == crossed' = (crossed \/ OthersAboutCode(h))

-----------------------------------------------------------------------------
\* The delivery code.

\* generateOTP, at the start of createDeliveryOTP, by hand h.
Draws(h) ==
    /\ drawn < MaxCodes
    /\ drawn' = drawn + 1
    /\ Takes(h, [Free EXCEPT !.at = "hash", !.arg = drawn + 1])
    /\ Crossing(h)
    /\ UNCHANGED <<otpHash, otpShown>>

\* After a COD order is placed its code is made without a look at the store.
\* The job may run late, but not after the order has left.
CreateForCOD(h) ==
    /\ parcel = "PACKED"
    /\ Draws(h)
    /\ UNCHANGED <<parcel, money>>

\* ensureDeliveryOTP when a rider accepts, getDeliveryOTPForCustomer whenever
\* the customer asks: a code that is on display is kept.
EnsureCode(h) ==
    /\ otpShown = 0
    /\ Draws(h)
    /\ UNCHANGED <<parcel, money>>

SetHash(h) ==
    /\ HandAt(h, "hash")
    /\ otpHash' = hand[h].arg
    /\ Moves(h, "show")
    /\ Crossing(h)
    /\ UNCHANGED <<parcel, otpShown, drawn, money>>

\* Mutant: SET NX.
SetShownIfNone(h) ==
    /\ HandAt(h, "show")
    /\ otpShown' = IF otpShown = 0 THEN hand[h].arg ELSE otpShown
    /\ Frees(h)
    /\ Crossing(h)
    /\ UNCHANGED <<parcel, otpHash, drawn, money>>

SetShown(h) ==
    /\ HandAt(h, "show")
    /\ otpShown' = hand[h].arg
    /\ Frees(h)
    /\ Crossing(h)
    /\ UNCHANGED <<parcel, otpHash, drawn, money>>

\* Both keys live ten minutes from the moment each was set.
HashExpires ==
    /\ otpHash # 0
    /\ otpHash' = 0
    /\ UNCHANGED <<parcel, otpShown, drawn, crossed, money, hand>>

ShownExpires ==
    /\ otpShown # 0
    /\ otpShown' = 0
    /\ UNCHANGED <<parcel, otpHash, drawn, crossed, money, hand>>

\* verifyDeliveryOTP with the right code, for PUT /status (to = "route") or
\* POST /complete (to = "transition").  A wrong code changes nothing.
VerifyCode(h) ==
    /\ otpHash # 0
    /\ \/ Takes(h, [Free EXCEPT !.at = "drop_hash", !.to = "route"])
       \/ /\ parcel = "OUT_FOR_DELIVERY"
          /\ Takes(h, [Free EXCEPT !.at = "drop_hash", !.to = "transition"])
    /\ Crossing(h)
    /\ UNCHANGED <<parcel, otpHash, otpShown, drawn, money>>

DropHash(h) ==
    /\ HandAt(h, "drop_hash")
    /\ otpHash' = 0
    /\ Moves(h, "drop_shown")
    /\ Crossing(h)
    /\ UNCHANGED <<parcel, otpShown, drawn, money>>

\* The code is spent before anything else is checked: PUT /status may still
\* refuse the photo (validateRiderProofUpload), POST /complete the cash that was
\* handed over (verifyCODCollection).
DropShown(h) ==
    /\ HandAt(h, "drop_shown")
    /\ otpShown' = 0
    /\ Crossing(h)
    /\ \/ Moves(h, IF hand[h].to = "route" THEN "deliver" ELSE "read")
       \/ Frees(h)
    /\ UNCHANGED <<parcel, otpHash, drawn, money>>

\* completeDeliveryWithVerification without a code: it asks for none.
CompleteWithoutCode(h) ==
    /\ parcel = "OUT_FOR_DELIVERY"
    /\ Takes(h, [Free EXCEPT !.at = "read", !.to = "transition"])
    /\ UNCHANGED <<parcel, otp, money>>

-----------------------------------------------------------------------------
\* Delivery and earnings.

Delivers(h) ==
    /\ booked < MaxEarned
    /\ parcel' = "DELIVERED"
    /\ booked' = booked + 1
    /\ Moves(h, "record")
    /\ UNCHANGED <<otp, earned, balance>>

Refused(h) == Frees(h) /\ UNCHANGED <<parcel, otp, money>>

\* The transaction of updateDeliveryOrderStatus, refused unless the rider's
\* table allows it.  A delivered order may be delivered again.
DeliverCommit(h) ==
    /\ HandAt(h, "deliver")
    /\ IF parcel \in OnTheRoad \cup {"DELIVERED"}
       THEN Delivers(h) /\ cash' = "COLLECTED"
       ELSE Refused(h)

\* transitionOrderState, for POST /complete and for an admin's PATCH: the status
\* it checks may have changed when it writes, and the payment is left as it is.
AskDelivered(h) ==
    /\ Takes(h, [Free EXCEPT !.at = "read"])
    /\ UNCHANGED <<parcel, otp, money>>

ReadStatus(h) ==
    /\ HandAt(h, "read")
    /\ IF parcel \in {"OUT_FOR_DELIVERY", "DELIVERED"}
       THEN Moves(h, "write") /\ UNCHANGED <<parcel, otp, money>>
       ELSE Refused(h)

WriteDelivered(h) ==
    /\ HandAt(h, "write")
    /\ Delivers(h)
    /\ UNCHANGED cash

RecordEarnings(h) ==
    /\ HandAt(h, "record")
    /\ earned' = earned + 1
    /\ Moves(h, "balance")
    /\ UNCHANGED <<parcel, otp, balance, cash, booked>>

ReadBalance(h) ==
    /\ HandAt(h, "balance")
    /\ hand' = [hand EXCEPT ![h].at = "pay", ![h].arg = balance]
    /\ UNCHANGED <<parcel, otp, money>>

\* Mutant: the balance is increased in place and again from what was read.
PayTwice(h) ==
    /\ HandAt(h, "pay")
    /\ balance' = hand[h].arg + 2
    /\ Frees(h)
    /\ UNCHANGED <<parcel, otp, earned, cash, booked>>

\* updateRiderEarnings writes the sum of what it read and the new earnings.
WriteBalance(h) ==
    /\ HandAt(h, "pay")
    /\ balance' = hand[h].arg + 1
    /\ Frees(h)
    /\ UNCHANGED <<parcel, otp, earned, cash, booked>>

-----------------------------------------------------------------------------
\* What others do to the order: it leaves the store, is picked up, is lost to
\* a failure or a cancel, and goes out again.
OthersMove(to) ==
    /\ \/ parcel \in {"PACKED", "gone"} /\ to = "OUT_FOR_DELIVERY"
       \/ parcel = "OUT_FOR_DELIVERY" /\ to = "PICKED_UP"
       \/ parcel = "PICKED_UP" /\ to = "OUT_FOR_DELIVERY"
       \/ parcel \in OnTheRoad \cup {"DELIVERED"} /\ to = "gone"
    /\ parcel' = to
    /\ UNCHANGED <<otp, money, hand>>

\* A command fails, or the process dies: what the request had done stays.
HandFails(h) ==
    /\ ~HandAt(h, "free")
    /\ Frees(h)
    /\ crossed' = (crossed \/ hand[h].at \in AboutCode)
    /\ UNCHANGED <<parcel, otpHash, otpShown, drawn, money>>

DoorInit ==
    /\ parcel = "PACKED"
    /\ otpHash = 0 /\ otpShown = 0 /\ drawn = 0
    /\ earned = 0 /\ balance = 0 /\ cash = "PENDING"
    /\ hand = [h \in Hands |-> Free]
    /\ booked = 0 /\ crossed = FALSE

HandStep(h) ==
    \/ CreateForCOD(h) \/ EnsureCode(h) \/ SetHash(h) \/ SetShown(h)
    \/ VerifyCode(h) \/ DropHash(h) \/ DropShown(h) \/ CompleteWithoutCode(h)
    \/ DeliverCommit(h) \/ AskDelivered(h) \/ ReadStatus(h) \/ WriteDelivered(h)
    \/ RecordEarnings(h) \/ ReadBalance(h) \/ WriteBalance(h) \/ HandFails(h)

DoorNext ==
    \/ \E h \in Hands : HandStep(h)
    \/ HashExpires
    \/ ShownExpires
    \/ \E to \in DoorStatuses : OthersMove(to)

DoorSpec == DoorInit /\ [][DoorNext]_doorVars

-----------------------------------------------------------------------------
HandPlaces == AboutCode \cup
    {"free", "deliver", "read", "write", "record", "balance", "pay"}

\* Every variable of the delivery keeps its type; no more codes are drawn and
\* no more deliveries booked than the bounds allow.
DoorTypeOK ==
    /\ parcel \in DoorStatuses
    /\ drawn \in 0..MaxCodes
    /\ otpHash \in 0..drawn
    /\ otpShown \in 0..drawn
    /\ earned \in Nat
    /\ balance \in Nat
    /\ cash \in {"PENDING", "COLLECTED"}
    /\ hand \in [Hands -> [at : HandPlaces, arg : Nat,
                           to : {"none", "route", "transition"}]]
    /\ booked \in 0..MaxEarned
    /\ crossed \in BOOLEAN

\* A rider is never credited with more than the earnings history shows, and the
\* history never shows more deliveries than were committed, although the three
\* writes are separate, may be lost and may overtake one another
\* (updateDeliveryOrderStatus, recordEarningsHistory, updateRiderEarnings).
EarningsCovered == balance <= earned /\ earned <= booked

\* The code the customer is shown is the one the rider's entry is compared
\* with, as long as no two requests about the code ever overlapped and none
\* died half-way (createDeliveryOTP, verifyDeliveryOTP).
ShownCodeWorks ==
    ~crossed /\ (\A h \in Hands : hand[h].at \notin AboutCode)
        => otpHash = 0 \/ otpShown = 0 \/ otpHash = otpShown
=============================================================================
