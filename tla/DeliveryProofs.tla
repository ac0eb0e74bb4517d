------------------------------ MODULE DeliveryProofs ------------------------------
(***************************************************************************)
(* What Doorstep, FailedDelivery and Fleet promise for any number of       *)
(* riders, orders and requests in flight: at the door a rider is never     *)
(* credited with more than was delivered, and the code the customer is     *)
(* shown is the one the rider needs; a failed delivery waits for an admin  *)
(* exactly as long as there is a task for it; on the road no position that *)
(* comes late takes an order back from where it has been; a plan leaves    *)
(* out no order and no rider, and the times along a tour only grow.        *)
(***************************************************************************)
EXTENDS Doorstep, FailedDelivery, Fleet, SumLemmas, SequenceTheorems, FiniteSetTheorems, TLAPS

-----------------------------------------------------------------------------
(* At the door. *)

HandType == [at : HandPlaces, arg : Nat, to : {"none", "route", "transition"}]

\* A hand that sets the keys has a code that was drawn.
CodesDrawn == \A h \in Hands : hand[h].at \in {"hash", "show"} => hand[h].arg \in 0 .. drawn

DoorInv == DoorTypeOK /\ CodesDrawn

\* Hands between the commit and the row of the history, and between that row and
\* the rider's balance.
Unrecorded == {h \in Hands : HandAt(h, "record")}
Unpaid     == {h \in Hands : HandAt(h, "balance") \/ HandAt(h, "pay")}

\* What is on its way is still to come on top of what is booked: each hand that is
\* to pay writes what it read, so that what it read counts as well.
EarningsLedger ==
    /\ earned + Cardinality(Unrecorded) <= booked
    /\ balance + Cardinality(Unpaid) <= earned
    /\ \A h \in Hands : HandAt(h, "pay") => hand[h].arg + Cardinality(Unpaid) <= earned

\* Where the one hand that is about the code leaves the two keys, unless hands crossed.
CodeLedger ==
    ~crossed =>
      /\ \A g, h \in Hands : hand[g].at \in AboutCode /\ hand[h].at \in AboutCode => g = h
      /\ \A h \in Hands : /\ HandAt(h, "show") => otpHash \in {0, hand[h].arg}
                          /\ HandAt(h, "drop_shown") => otpHash = 0
      /\ (\A h \in Hands : hand[h].at \notin AboutCode)
            => otpHash = 0 \/ otpShown = 0 \/ otpHash = otpShown

-----------------------------------------------------------------------------
\* A hand that is free, moves on or takes a request keeps its type.
LEMMA FreesTyped ==
    ASSUME DoorTypeOK, NEW h \in Hands, Frees(h)
    PROVE  hand' \in [Hands -> HandType]
  <1>1. Free \in HandType
    BY DEF Free, HandType, HandPlaces
  <1> QED  BY <1>1 DEF Frees, DoorTypeOK, HandType

LEMMA MovesTyped ==
    ASSUME DoorTypeOK, NEW h \in Hands, NEW at \in HandPlaces, Moves(h, at)
    PROVE  hand' \in [Hands -> HandType]
  <1>1. hand \in [Hands -> HandType] /\ hand[h] \in HandType
    BY DEF DoorTypeOK, HandType
  <1>2. [hand[h] EXCEPT !.at = at] \in HandType
    BY <1>1 DEF HandType
  <1> QED  BY <1>1, <1>2 DEF Moves

LEMMA TakesTyped ==
    ASSUME DoorTypeOK, NEW h \in Hands, NEW r \in HandType, Takes(h, r)
    PROVE  hand' \in [Hands -> HandType]
  BY DEF Takes, DoorTypeOK, HandType

LEMMA RequestForms ==
    ASSUME NEW at \in HandPlaces, NEW n \in Nat, NEW to \in {"none", "route", "transition"}
    PROVE  /\ [Free EXCEPT !.at = at, !.arg = n] \in HandType
           /\ [Free EXCEPT !.at = at, !.to = to] \in HandType
           /\ [Free EXCEPT !.at = at] \in HandType
  BY DEF Free, HandType, HandPlaces

\* Every step of a hand keeps the types.
LEMMA HandStepTyped ==
    ASSUME DoorTypeOK, CodesDrawn, NEW h \in Hands, HandStep(h)
    PROVE  DoorTypeOK'
  <1> DEFINE Hand == [Hands -> HandType]
  <1>1. HandPlaces = {"hash", "show", "drop_hash", "drop_shown", "free", "deliver", "read",
                      "write", "record", "balance", "pay"}
    BY DEF HandPlaces, AboutCode
  <1>2. hand' \in Hand
    <2>1. CASE CreateForCOD(h) \/ EnsureCode(h)
      <3>1. Takes(h, [Free EXCEPT !.at = "hash", !.arg = drawn + 1]) /\ drawn + 1 \in Nat
        BY <2>1 DEF CreateForCOD, EnsureCode, Draws, DoorTypeOK
      <3> QED  BY <1>1, <3>1, TakesTyped, RequestForms
    <2>2. CASE \/ SetHash(h) \/ SetShown(h) \/ DropHash(h) \/ DropShown(h) \/ ReadStatus(h)
               \/ DeliverCommit(h) \/ WriteDelivered(h) \/ RecordEarnings(h) \/ WriteBalance(h)
               \/ HandFails(h)
      <3>1. Frees(h) \/ \E at \in HandPlaces : Moves(h, at)
        BY <1>1, <2>2
           DEF SetHash, SetShown, DropHash, DropShown, ReadStatus, DeliverCommit, WriteDelivered,
               Delivers, Refused, RecordEarnings, WriteBalance, HandFails
      <3> QED  BY <3>1, FreesTyped, MovesTyped
    <2>3. CASE VerifyCode(h) \/ CompleteWithoutCode(h) \/ AskDelivered(h)
      <3>1. \/ \E to \in {"route", "transition"} :
                  Takes(h, [Free EXCEPT !.at = "drop_hash", !.to = to])
            \/ Takes(h, [Free EXCEPT !.at = "read", !.to = "transition"])
            \/ Takes(h, [Free EXCEPT !.at = "read"])
        BY <2>3 DEF VerifyCode, CompleteWithoutCode, AskDelivered
      <3> QED  BY <1>1, <3>1, TakesTyped, RequestForms
    <2>4. CASE ReadBalance(h)
      <3>1. hand \in Hand /\ hand[h] \in HandType /\ balance \in Nat /\ "pay" \in HandPlaces
        BY <1>1 DEF DoorTypeOK, HandType
      <3>2. [hand[h] EXCEPT !.at = "pay", !.arg = balance] \in HandType
        BY <3>1 DEF HandType
      <3>3. hand' = [hand EXCEPT ![h] = [hand[h] EXCEPT !.at = "pay", !.arg = balance]]
        BY <2>4, <3>1 DEF ReadBalance
      <3> QED  BY <3>1, <3>2, <3>3
    <2> QED  BY <2>1, <2>2, <2>3, <2>4 DEF HandStep
  <1>3. hand[h].arg \in Nat
    BY DEF DoorTypeOK
  <1>4. parcel' \in DoorStatuses /\ cash' \in {"PENDING", "COLLECTED"} /\ crossed' \in BOOLEAN
    BY DEF HandStep, CreateForCOD, EnsureCode, Draws, SetHash, SetShown, VerifyCode, DropHash,
           DropShown, CompleteWithoutCode, DeliverCommit, Delivers, Refused, AskDelivered,
           ReadStatus, WriteDelivered, RecordEarnings, ReadBalance, WriteBalance, HandFails,
           Crossing, OthersAboutCode, otp, money, DoorTypeOK, DoorStatuses
  <1>5. earned' \in Nat /\ balance' \in Nat
    BY <1>3
       DEF HandStep, CreateForCOD, EnsureCode, Draws, SetHash, SetShown, VerifyCode, DropHash,
           DropShown, CompleteWithoutCode, DeliverCommit, Delivers, Refused, AskDelivered,
           ReadStatus, WriteDelivered, RecordEarnings, ReadBalance, WriteBalance, HandFails,
           otp, money, DoorTypeOK
  <1>6. booked' \in 0 .. MaxEarned
    <2>1. CASE booked' = booked + 1 /\ booked < MaxEarned
      BY <2>1, DoorAssumption DEF DoorAssumption, DoorTypeOK
    <2>2. CASE booked' = booked
      BY <2>2 DEF DoorTypeOK
    <2> QED
      BY <2>1, <2>2
         DEF HandStep, CreateForCOD, EnsureCode, Draws, SetHash, SetShown, VerifyCode, DropHash,
             DropShown, CompleteWithoutCode, DeliverCommit, Delivers, Refused, AskDelivered,
             ReadStatus, WriteDelivered, RecordEarnings, ReadBalance, WriteBalance, HandFails,
             otp, money
  <1>7. drawn' \in 0 .. MaxCodes /\ otpHash' \in 0 .. drawn' /\ otpShown' \in 0 .. drawn'
    <2>1. CASE CreateForCOD(h) \/ EnsureCode(h)
      BY <2>1, DoorAssumption DEF DoorAssumption, CreateForCOD, EnsureCode, Draws, DoorTypeOK
    <2>2. CASE SetHash(h)
      BY <2>2 DEF SetHash, HandAt, CodesDrawn, DoorTypeOK
    <2>3. CASE SetShown(h)
      BY <2>3 DEF SetShown, HandAt, CodesDrawn, DoorTypeOK
    <2>4. CASE DropHash(h) \/ DropShown(h)
      BY <2>4, DoorAssumption DEF DoorAssumption, DropHash, DropShown, DoorTypeOK
    <2>5. CASE UNCHANGED <<otpHash, otpShown, drawn>>
      BY <2>5 DEF DoorTypeOK
    <2> QED
      BY <2>1, <2>2, <2>3, <2>4, <2>5
         DEF HandStep, VerifyCode, CompleteWithoutCode, DeliverCommit, Delivers, Refused,
             AskDelivered, ReadStatus, WriteDelivered, RecordEarnings, ReadBalance, WriteBalance,
             HandFails, otp
  <1> QED
    BY <1>2, <1>4, <1>5, <1>6, <1>7 DEF DoorTypeOK, HandType

\* A hand that is to set a key has a code that was drawn, whatever the others do.
LEMMA CodesDrawnStep ==
    ASSUME DoorTypeOK, CodesDrawn, NEW h \in Hands, HandStep(h)
    PROVE  CodesDrawn'
  <1>1. drawn \in Nat /\ drawn' \in Nat /\ drawn <= drawn'
    BY HandStepTyped, DoorAssumption
       DEF DoorAssumption, HandStep, CreateForCOD, EnsureCode, Draws, SetHash, SetShown,
           VerifyCode, DropHash, DropShown, CompleteWithoutCode, DeliverCommit, Delivers, Refused,
           AskDelivered, ReadStatus, WriteDelivered, RecordEarnings, ReadBalance, WriteBalance,
           HandFails, otp, DoorTypeOK
  <1>2. hand \in [Hands -> HandType]
    BY DEF DoorTypeOK, HandType
  <1>3. \A g \in Hands \ {h} : hand'[g] = hand[g]
    BY <1>2 DEF HandStep, CreateForCOD, EnsureCode, Draws, SetHash, SetShown, VerifyCode,
           DropHash, DropShown, CompleteWithoutCode, DeliverCommit, Delivers, Refused,
           AskDelivered, ReadStatus, WriteDelivered, RecordEarnings, ReadBalance, WriteBalance,
           HandFails, Frees, Moves, Takes
  <1>4. hand'[h].at \in {"hash", "show"} => hand'[h].arg \in 0 .. drawn'
    <2>1. CASE CreateForCOD(h) \/ EnsureCode(h)
      <3>1. hand'[h].arg = drawn' /\ drawn' \in Nat
        BY <1>1, <1>2, <2>1 DEF CreateForCOD, EnsureCode, Draws, Takes, Free
      <3> QED  BY <3>1
    <2>2. CASE SetHash(h)
      <3>1. hand'[h].arg = hand[h].arg /\ hand[h].arg \in 0 .. drawn /\ drawn' = drawn
        BY <1>2, <2>2 DEF SetHash, Moves, HandAt, CodesDrawn, HandType
      <3> QED  BY <3>1
    <2>3. CASE SetShown(h) \/ HandFails(h) \/ WriteBalance(h)
      BY <1>2, <2>3 DEF SetShown, HandFails, WriteBalance, Frees, Free
    <2>4. CASE VerifyCode(h) \/ CompleteWithoutCode(h) \/ AskDelivered(h)
      BY <1>2, <2>4 DEF VerifyCode, CompleteWithoutCode, AskDelivered, Takes, Free
    <2>5. CASE DropHash(h) \/ DropShown(h) \/ DeliverCommit(h) \/ ReadStatus(h)
      BY <1>2, <2>5 DEF DropHash, DropShown, DeliverCommit, Delivers, Refused, ReadStatus,
                        Moves, Frees, Free, HandType
    <2>6. CASE WriteDelivered(h) \/ RecordEarnings(h) \/ ReadBalance(h)
      BY <1>2, <2>6 DEF WriteDelivered, Delivers, RecordEarnings, ReadBalance, Moves, HandType
    <2> QED  BY <2>1, <2>2, <2>3, <2>4, <2>5, <2>6 DEF HandStep
  <1>5. ASSUME NEW g \in Hands \ {h}, hand'[g].at \in {"hash", "show"}
        PROVE  hand'[g].arg \in 0 .. drawn'
    <2>1. hand[g].arg \in 0 .. drawn
      BY <1>3, <1>5 DEF CodesDrawn
    <2> QED  BY <1>1, <1>3, <2>1
  <1> QED  BY <1>4, <1>5 DEF CodesDrawn

\* Both hold in every reachable state.
LEMMA DoorInvariant == DoorSpec => []DoorInv
  <1>1. DoorInit => DoorInv
    <2> SUFFICES ASSUME DoorInit PROVE DoorInv
      OBVIOUS
    <2>1. hand \in [Hands -> HandType]
      BY DEF DoorInit, Free, HandType, HandPlaces
    <2>2. \A h \in Hands : hand[h].at = "free"
      BY DEF DoorInit, Free
    <2>3. 0 \in 0 .. MaxCodes /\ 0 \in 0 .. MaxEarned /\ 0 \in 0 .. 0
      BY DoorAssumption DEF DoorAssumption
    <2> QED
      BY <2>1, <2>2, <2>3 DEF DoorInit, DoorInv, DoorTypeOK, CodesDrawn, HandType, DoorStatuses
  <1>2. DoorInv /\ [DoorNext]_doorVars => DoorInv'
    <2> SUFFICES ASSUME DoorTypeOK, CodesDrawn, [DoorNext]_doorVars PROVE DoorInv'
      BY DEF DoorInv
    <2>1. ASSUME NEW h \in Hands, HandStep(h) PROVE DoorInv'
      BY <2>1, HandStepTyped, CodesDrawnStep DEF DoorInv
    <2>2. CASE HashExpires \/ ShownExpires
      <3>1. 0 \in 0 .. drawn
        BY DoorAssumption DEF DoorAssumption, DoorTypeOK
      <3> QED
        BY <2>2, <3>1 DEF HashExpires, ShownExpires, DoorInv, DoorTypeOK, CodesDrawn, money
    <2>3. ASSUME NEW to \in DoorStatuses, OthersMove(to) PROVE DoorInv'
      BY <2>3 DEF OthersMove, DoorInv, DoorTypeOK, CodesDrawn, otp, money
    <2>4. CASE UNCHANGED doorVars
      BY <2>4 DEF doorVars, otp, money, DoorInv, DoorTypeOK, CodesDrawn
    <2> QED  BY <2>1, <2>2, <2>3, <2>4 DEF DoorNext
  <1> QED  BY <1>1, <1>2, PTL DEF DoorSpec

\* Whatever requests overlap or fail, every variable of the delivery keeps its type.
THEOREM DoorTypes == DoorSpec => []DoorTypeOK
  BY DoorInvariant, PTL DEF DoorInv

-----------------------------------------------------------------------------
\* A step of hand h moves no other hand.
LEMMA OthersStandStill ==
    ASSUME DoorTypeOK, NEW h \in Hands, HandStep(h)
    PROVE  \A g \in Hands \ {h} : hand'[g] = hand[g]
  <1>1. hand \in [Hands -> HandType]
    BY DEF DoorTypeOK, HandType
  <1> QED
    BY <1>1 DEF HandStep, CreateForCOD, EnsureCode, Draws, SetHash, SetShown, VerifyCode,
           DropHash, DropShown, CompleteWithoutCode, DeliverCommit, Delivers, Refused,
           AskDelivered, ReadStatus, WriteDelivered, RecordEarnings, ReadBalance, WriteBalance,
           HandFails, Frees, Moves, Takes

\* The hands with money on its way are finitely many, and a hand that comes or goes
\* counts for one.
LEMMA CountingHands ==
    ASSUME NEW h \in Hands, NEW S \in SUBSET Hands, NEW T \in SUBSET Hands,
           S \ {h} = T \ {h}
    PROVE  /\ Cardinality(S) \in Nat /\ Cardinality(T) \in Nat
           /\ h \in S /\ h \in T => Cardinality(T) = Cardinality(S)
           /\ h \notin S /\ h \notin T => Cardinality(T) = Cardinality(S)
           /\ h \notin S /\ h \in T => Cardinality(T) = Cardinality(S) + 1
           /\ h \in S /\ h \notin T => Cardinality(T) = Cardinality(S) - 1
           /\ h \in S => Cardinality(S) >= 1
  <1>1. IsFiniteSet(S) /\ IsFiniteSet(T)
    BY DoorAssumption, FS_Subset DEF DoorAssumption
  <1>2. Cardinality(S) \in Nat /\ Cardinality(T) \in Nat
    BY <1>1, FS_CardinalityType
  <1>3. h \in S => Cardinality(S) >= 1
    <2>1. h \in S => Cardinality(S) # 0
      BY <1>1, FS_EmptySet
    <2> QED  BY <1>2, <2>1
  <1>4. (h \in S <=> h \in T) => Cardinality(T) = Cardinality(S)
    <2>1. (h \in S <=> h \in T) => S = T
      OBVIOUS
    <2> QED  BY <2>1
  <1>5. h \notin S /\ h \in T => Cardinality(T) = Cardinality(S) + 1
    <2>1. h \notin S /\ h \in T => T = S \cup {h}
      OBVIOUS
    <2> QED  BY <1>1, <2>1, FS_AddElement
  <1>6. h \in S /\ h \notin T => Cardinality(T) = Cardinality(S) - 1
    <2>1. h \in S /\ h \notin T => T = S \ {h}
      OBVIOUS
    <2> QED  BY <1>1, <2>1, FS_RemoveElement
  <1> QED  BY <1>2, <1>3, <1>4, <1>5, <1>6

\* The ledger of the earnings survives every step of a hand.
LEMMA EarningsLedgerStep ==
    ASSUME DoorTypeOK, CodesDrawn, EarningsLedger, NEW h \in Hands, HandStep(h)
    PROVE  EarningsLedger'
  <1> DEFINE R == Cardinality(Unrecorded)
             P == Cardinality(Unpaid)
             Rn == Cardinality(Unrecorded')
             Pn == Cardinality(Unpaid')
  <1>1. hand \in [Hands -> HandType] /\ hand' \in [Hands -> HandType]
    BY HandStepTyped, CodesDrawnStep DEF DoorTypeOK, HandType
  <1>2. \A g \in Hands \ {h} : hand'[g] = hand[g]
    BY OthersStandStill
  <1>3. /\ Unrecorded \in SUBSET Hands /\ Unrecorded' \in SUBSET Hands
        /\ Unrecorded \ {h} = Unrecorded' \ {h}
        /\ h \in Unrecorded <=> hand[h].at = "record"
        /\ h \in Unrecorded' <=> hand'[h].at = "record"
    BY <1>2 DEF Unrecorded, HandAt
  <1>4. /\ Unpaid \in SUBSET Hands /\ Unpaid' \in SUBSET Hands
        /\ Unpaid \ {h} = Unpaid' \ {h}
        /\ h \in Unpaid <=> hand[h].at \in {"balance", "pay"}
        /\ h \in Unpaid' <=> hand'[h].at \in {"balance", "pay"}
    BY <1>2 DEF Unpaid, HandAt
  <1>5. /\ R \in Nat /\ Rn \in Nat
        /\ hand[h].at = "record" /\ hand'[h].at # "record" => Rn = R - 1
        /\ hand[h].at # "record" /\ hand'[h].at = "record" => Rn = R + 1
        /\ hand[h].at # "record" /\ hand'[h].at # "record" => Rn = R
    BY <1>3, CountingHands
  <1>6. /\ P \in Nat /\ Pn \in Nat
        /\ hand[h].at \in {"balance", "pay"} /\ hand'[h].at \notin {"balance", "pay"} => Pn = P - 1
        /\ hand[h].at \notin {"balance", "pay"} /\ hand'[h].at \in {"balance", "pay"} => Pn = P + 1
        /\ hand[h].at \in {"balance", "pay"} <=> hand'[h].at \in {"balance", "pay"} => Pn = P
    BY <1>4, CountingHands
  <1>7. /\ earned \in Nat /\ balance \in Nat /\ booked \in Nat
        /\ \A g \in Hands : hand[g].arg \in Nat
    BY DoorAssumption DEF DoorTypeOK, DoorAssumption
  <1>8. /\ earned + R <= booked
        /\ balance + P <= earned
        /\ \A g \in Hands : hand[g].at = "pay" => hand[g].arg + P <= earned
    BY DEF EarningsLedger, HandAt
  <1> SUFFICES /\ earned' + Rn <= booked'
               /\ balance' + Pn <= earned'
               /\ \A g \in Hands : hand'[g].at = "pay" => hand'[g].arg + Pn <= earned'
    BY DEF EarningsLedger, HandAt
  <1> HIDE DEF R, P, Rn, Pn
  \* Steps that leave the money alone and the hand, if it moves, away from it.
  <1>9. CASE /\ UNCHANGED <<earned, balance, booked>>
             /\ hand'[h].at \notin {"record", "balance", "pay"}
    <2>1. Rn <= R /\ Pn <= P
      BY <1>5, <1>6, <1>9
    <2>2. ASSUME NEW g \in Hands, hand'[g].at = "pay" PROVE hand'[g].arg + Pn <= earned'
      <3>1. g # h /\ hand'[g] = hand[g]
        BY <1>2, <1>9, <2>2
      <3>2. hand[g].arg + P <= earned /\ hand[g].arg \in Nat
        BY <1>7, <1>8, <2>2, <3>1
      <3> QED  BY <1>6, <1>7, <1>9, <2>1, <3>1, <3>2
    <2> QED  BY <1>5, <1>6, <1>7, <1>8, <1>9, <2>1, <2>2
  <1>10. CASE Delivers(h) /\ hand[h].at \in {"deliver", "write"}
    <2>1. /\ hand'[h].at = "record" /\ booked' = booked + 1
          /\ earned' = earned /\ balance' = balance
      BY <1>1, <1>10 DEF Delivers, Moves, HandType
    <2>2. Rn = R + 1 /\ Pn = P
      BY <1>5, <1>6, <1>10, <2>1
    <2>3. ASSUME NEW g \in Hands, hand'[g].at = "pay" PROVE hand'[g].arg + Pn <= earned'
      BY <1>2, <1>8, <2>1, <2>2, <2>3
    <2> QED  BY <1>5, <1>6, <1>7, <1>8, <2>1, <2>2, <2>3
  <1>11. CASE RecordEarnings(h)
    <2>1. /\ hand[h].at = "record" /\ hand'[h].at = "balance" /\ booked' = booked
          /\ earned' = earned + 1 /\ balance' = balance
      BY <1>1, <1>11 DEF RecordEarnings, Moves, HandAt, HandType
    <2>2. Rn = R - 1 /\ Pn = P + 1
      BY <1>5, <1>6, <2>1
    <2>3. ASSUME NEW g \in Hands, hand'[g].at = "pay" PROVE hand'[g].arg + Pn <= earned'
      <3>1. g # h /\ hand'[g] = hand[g]
        BY <1>2, <2>1, <2>3
      <3>2. hand[g].arg + P <= earned /\ hand[g].arg \in Nat
        BY <1>7, <1>8, <2>3, <3>1
      <3> QED  BY <1>6, <1>7, <2>1, <2>2, <3>1, <3>2
    <2> QED  BY <1>5, <1>6, <1>7, <1>8, <2>1, <2>2, <2>3
  <1>12. CASE ReadBalance(h)
    <2>1. /\ hand[h].at = "balance" /\ hand'[h].at = "pay" /\ hand'[h].arg = balance
          /\ booked' = booked /\ earned' = earned /\ balance' = balance
      BY <1>1, <1>12 DEF ReadBalance, HandAt, HandType, money
    <2>2. Rn = R /\ Pn = P
      BY <1>5, <1>6, <2>1
    <2>3. ASSUME NEW g \in Hands, hand'[g].at = "pay" PROVE hand'[g].arg + Pn <= earned'
      BY <1>2, <1>8, <2>1, <2>2, <2>3
    <2> QED  BY <1>8, <2>1, <2>2, <2>3
  <1>13. CASE WriteBalance(h)
    <2>1. /\ hand[h].at = "pay" /\ hand'[h].at = "free" /\ balance' = hand[h].arg + 1
          /\ booked' = booked /\ earned' = earned
      BY <1>1, <1>13 DEF WriteBalance, Frees, Free, HandAt
    <2>2. Rn = R /\ Pn = P - 1
      BY <1>5, <1>6, <2>1
    <2>3. hand[h].arg + P <= earned /\ hand[h].arg \in Nat
      BY <1>7, <1>8, <2>1
    <2>4. ASSUME NEW g \in Hands, hand'[g].at = "pay" PROVE hand'[g].arg + Pn <= earned'
      <3>1. g # h /\ hand'[g] = hand[g]
        BY <1>2, <2>1, <2>4
      <3>2. hand[g].arg + P <= earned /\ hand[g].arg \in Nat
        BY <1>7, <1>8, <2>4, <3>1
      <3> QED  BY <1>6, <1>7, <2>1, <2>2, <3>1, <3>2
    <2> QED  BY <1>5, <1>6, <1>7, <1>8, <2>1, <2>2, <2>3, <2>4
  <1>14. \/ UNCHANGED <<earned, balance, booked>> /\ hand'[h].at \notin {"record", "balance", "pay"}
         \/ Delivers(h) /\ hand[h].at \in {"deliver", "write"}
         \/ RecordEarnings(h) \/ ReadBalance(h) \/ WriteBalance(h)
    <2>1. CASE CreateForCOD(h) \/ EnsureCode(h) \/ VerifyCode(h) \/ CompleteWithoutCode(h)
               \/ AskDelivered(h)
      BY ZenonT(60), <1>1, <2>1 DEF CreateForCOD, EnsureCode, Draws, VerifyCode, CompleteWithoutCode,
                        AskDelivered, Takes, Free, money
    <2>2. CASE SetHash(h) \/ SetShown(h) \/ DropHash(h) \/ DropShown(h) \/ HandFails(h)
      BY <1>1, <2>2 DEF SetHash, SetShown, DropHash, DropShown, HandFails, Moves, Frees, Free,
                        money, HandType
    <2>3. CASE DeliverCommit(h) \/ ReadStatus(h) \/ WriteDelivered(h)
      BY <1>1, <2>3 DEF DeliverCommit, ReadStatus, WriteDelivered, Refused, HandAt, Moves,
                        Frees, Free, money, HandType
    <2>4. CASE RecordEarnings(h) \/ ReadBalance(h) \/ WriteBalance(h)
      BY <2>4
    <2> QED  BY <2>1, <2>2, <2>3, <2>4 DEF HandStep
  <1> QED  BY <1>9, <1>10, <1>11, <1>12, <1>13, <1>14

\* A rider's balance never exceeds the earnings history, nor that the deliveries that
\* were committed, whichever requests overlap and wherever they fail.
THEOREM EarningsAreCovered == DoorSpec => []EarningsCovered
  <1>1. DoorInit => EarningsLedger
    <2> SUFFICES ASSUME DoorInit PROVE EarningsLedger
      OBVIOUS
    <2>1. Unrecorded = {} /\ Unpaid = {} /\ \A h \in Hands : ~HandAt(h, "pay")
      BY DEF DoorInit, Free, Unrecorded, Unpaid, HandAt
    <2> QED  BY <2>1, FS_EmptySet DEF DoorInit, EarningsLedger
  <1>2. DoorInv /\ EarningsLedger /\ [DoorNext]_doorVars => EarningsLedger'
    <2> SUFFICES ASSUME DoorTypeOK, CodesDrawn, EarningsLedger, [DoorNext]_doorVars
                 PROVE  EarningsLedger'
      BY DEF DoorInv
    <2>1. ASSUME NEW h \in Hands, HandStep(h) PROVE EarningsLedger'
      BY <2>1, EarningsLedgerStep
    <2>2. CASE UNCHANGED <<money, hand>>
      BY <2>2 DEF money, EarningsLedger, Unrecorded, Unpaid, HandAt
    <2> QED
      BY <2>1, <2>2 DEF DoorNext, HashExpires, ShownExpires, OthersMove, doorVars
  <1>3. DoorInv /\ EarningsLedger => EarningsCovered
    <2> SUFFICES ASSUME DoorTypeOK, EarningsLedger PROVE EarningsCovered
      BY DEF DoorInv
    <2>1. Unrecorded \in SUBSET Hands /\ Unpaid \in SUBSET Hands
      BY DEF Unrecorded, Unpaid
    <2>2. Cardinality(Unrecorded) \in Nat /\ Cardinality(Unpaid) \in Nat
      BY <2>1, DoorAssumption, FS_Subset, FS_CardinalityType DEF DoorAssumption
    <2> QED
      BY <2>2, DoorAssumption DEF DoorAssumption, EarningsLedger, EarningsCovered, DoorTypeOK
  <1> QED  BY <1>1, <1>2, <1>3, DoorInvariant, PTL DEF DoorSpec

-----------------------------------------------------------------------------
\* A step of a hand is one of the seven about the code, or keeps away from it.
LEMMA AwayFromCode ==
    ASSUME DoorTypeOK, NEW h \in Hands, HandStep(h), ~crossed'
    PROVE  \/ CreateForCOD(h) \/ EnsureCode(h) \/ VerifyCode(h) \/ SetHash(h) \/ SetShown(h)
           \/ DropHash(h) \/ DropShown(h)
           \/ /\ UNCHANGED <<otpHash, otpShown>> /\ hand[h].at \notin AboutCode
              /\ hand'[h].at \notin AboutCode
  <1>1. hand \in [Hands -> HandType]
    BY DEF DoorTypeOK, HandType
  <1>2. CASE CompleteWithoutCode(h) \/ AskDelivered(h) \/ HandFails(h)
    <2>1. UNCHANGED <<otpHash, otpShown>>
      BY <1>2 DEF CompleteWithoutCode, AskDelivered, HandFails, otp
    <2>2. hand[h].at \notin AboutCode
      BY <1>2 DEF CompleteWithoutCode, AskDelivered, HandFails, Takes, HandAt, AboutCode
    <2>3. hand'[h].at \in {"free", "read"}
      <3>1. CASE CompleteWithoutCode(h)
        BY <1>1, <3>1 DEF CompleteWithoutCode, Takes, Free
      <3>2. CASE AskDelivered(h)
        BY <1>1, <3>2 DEF AskDelivered, Takes, Free
      <3>3. CASE HandFails(h)
        BY <1>1, <3>3 DEF HandFails, Frees, Free
      <3> QED  BY <1>2, <3>1, <3>2, <3>3
    <2> QED  BY <2>1, <2>2, <2>3 DEF AboutCode
  <1>3. CASE DeliverCommit(h) \/ ReadStatus(h) \/ WriteDelivered(h)
    <2>1. hand[h].at \in {"deliver", "read", "write"} /\ UNCHANGED <<otpHash, otpShown>>
      BY <1>3 DEF DeliverCommit, ReadStatus, WriteDelivered, Delivers, Refused, HandAt, otp
    <2>2. Frees(h) \/ Moves(h, "record") \/ Moves(h, "write")
      BY <1>3 DEF DeliverCommit, ReadStatus, WriteDelivered, Delivers, Refused
    <2>3. hand'[h].at \in {"free", "record", "write"}
      BY <1>1, <2>2 DEF Frees, Moves, Free, HandType
    <2> QED  BY <2>1, <2>3 DEF AboutCode
  <1>4. CASE RecordEarnings(h) \/ ReadBalance(h) \/ WriteBalance(h)
    BY <1>1, <1>4 DEF RecordEarnings, ReadBalance, WriteBalance, Moves, Frees, Free, HandAt,
                      AboutCode, otp, HandType
  <1> QED  BY <1>2, <1>3, <1>4 DEF HandStep

\* The ledger of the two keys survives every step of a hand.
LEMMA CodeLedgerStep ==
    ASSUME DoorTypeOK, CodesDrawn, CodeLedger, NEW h \in Hands, HandStep(h)
    PROVE  CodeLedger'
  <1> SUFFICES ASSUME ~crossed'
               PROVE  /\ \A g, k \in Hands : hand'[g].at \in AboutCode /\ hand'[k].at \in AboutCode
                                               => g = k
                      /\ \A k \in Hands : /\ hand'[k].at = "show" => otpHash' \in {0, hand'[k].arg}
                                          /\ hand'[k].at = "drop_shown" => otpHash' = 0
                      /\ (\A k \in Hands : hand'[k].at \notin AboutCode)
                            => otpHash' = 0 \/ otpShown' = 0 \/ otpHash' = otpShown'
    BY DEF CodeLedger, HandAt
  <1>1. hand \in [Hands -> HandType] /\ hand' \in [Hands -> HandType]
    BY HandStepTyped, CodesDrawnStep DEF DoorTypeOK, HandType
  <1>2. \A g \in Hands \ {h} : hand'[g] = hand[g]
    BY OthersStandStill
  <1>3. ~crossed
    BY DEF HandStep, CreateForCOD, EnsureCode, Draws, SetHash, SetShown, VerifyCode, DropHash,
           DropShown, CompleteWithoutCode, DeliverCommit, Delivers, Refused, AskDelivered,
           ReadStatus, WriteDelivered, RecordEarnings, ReadBalance, WriteBalance, HandFails,
           Crossing, otp
  <1>4. /\ \A g, k \in Hands : hand[g].at \in AboutCode /\ hand[k].at \in AboutCode => g = k
        /\ \A k \in Hands : /\ hand[k].at = "show" => otpHash \in {0, hand[k].arg}
                            /\ hand[k].at = "drop_shown" => otpHash = 0
        /\ (\A k \in Hands : hand[k].at \notin AboutCode)
              => otpHash = 0 \/ otpShown = 0 \/ otpHash = otpShown
    BY <1>3 DEF CodeLedger, HandAt
  <1>5. AboutCode = {"hash", "show", "drop_hash", "drop_shown"}
    BY DEF AboutCode
  \* A hand that is about the code is the only one.
  <1>6. CASE Crossing(h)
    <2>1. \A g \in Hands \ {h} : hand[g].at \notin AboutCode /\ hand'[g].at \notin AboutCode
      BY <1>2, <1>6 DEF Crossing, OthersAboutCode
    <2>2. CASE CreateForCOD(h) \/ EnsureCode(h) \/ VerifyCode(h)
      <3>1. hand'[h].at \in {"hash", "drop_hash"}
        BY <1>1, <2>2 DEF CreateForCOD, EnsureCode, Draws, VerifyCode, Takes, Free
      <3> QED  BY <1>5, <2>1, <3>1
    <2>3. CASE SetHash(h)
      <3>1. hand'[h].at = "show" /\ otpHash' = hand'[h].arg
        BY <1>1, <2>3 DEF SetHash, Moves, HandType
      <3> QED  BY <1>5, <2>1, <3>1
    <2>4. CASE SetShown(h)
      <3>1. /\ hand'[h].at = "free" /\ otpShown' = hand[h].arg /\ otpHash' = otpHash
            /\ otpHash \in {0, hand[h].arg}
        BY <1>1, <1>4, <2>4 DEF SetShown, HandAt, Frees, Free
      <3> QED  BY <1>5, <2>1, <3>1
    <2>5. CASE DropHash(h)
      <3>1. hand'[h].at = "drop_shown" /\ otpHash' = 0
        BY <1>1, <2>5 DEF DropHash, Moves, HandType
      <3> QED  BY <1>5, <2>1, <3>1
    <2>6. CASE DropShown(h)
      <3>1. hand'[h].at \in {"free", "deliver", "read"} /\ otpShown' = 0
        BY <1>1, <2>6 DEF DropShown, Moves, Frees, Free, HandType
      <3> QED  BY <1>5, <2>1, <3>1
    <2>7. CASE UNCHANGED <<otpHash, otpShown>> /\ hand[h].at \notin AboutCode
               /\ hand'[h].at \notin AboutCode
      BY <1>2, <1>4, <1>5, <2>1, <2>7
    <2>8. \/ CreateForCOD(h) \/ EnsureCode(h) \/ VerifyCode(h) \/ SetHash(h) \/ SetShown(h)
          \/ DropHash(h) \/ DropShown(h)
          \/ /\ UNCHANGED <<otpHash, otpShown>> /\ hand[h].at \notin AboutCode
             /\ hand'[h].at \notin AboutCode
      BY AwayFromCode
    <2> QED  BY <2>2, <2>3, <2>4, <2>5, <2>6, <2>7, <2>8
  <1>7. CASE /\ UNCHANGED <<otpHash, otpShown>> /\ hand[h].at \notin AboutCode
             /\ hand'[h].at \notin AboutCode
    BY <1>2, <1>4, <1>5, <1>7
  <1>8. Crossing(h) \/ (/\ UNCHANGED <<otpHash, otpShown>> /\ hand[h].at \notin AboutCode
                        /\ hand'[h].at \notin AboutCode)
    BY AwayFromCode DEF CreateForCOD, EnsureCode, Draws, VerifyCode, SetHash, SetShown, DropHash,
                        DropShown
  <1> QED  BY <1>6, <1>7, <1>8

\* The code that is shown opens the door, while no two requests about it overlapped
\* and none died half-way.
THEOREM ShownCodesWork == DoorSpec => []ShownCodeWorks
  <1>1. DoorInit => CodeLedger
    BY DEF DoorInit, CodeLedger, HandAt, Free, AboutCode
  <1>2. DoorInv /\ CodeLedger /\ [DoorNext]_doorVars => CodeLedger'
    <2> SUFFICES ASSUME DoorTypeOK, CodesDrawn, CodeLedger, [DoorNext]_doorVars
                 PROVE  CodeLedger'
      BY DEF DoorInv
    <2>1. ASSUME NEW h \in Hands, HandStep(h) PROVE CodeLedger'
      BY <2>1, CodeLedgerStep
    <2>2. CASE HashExpires \/ ShownExpires
      BY <2>2 DEF HashExpires, ShownExpires, CodeLedger, HandAt
    <2>3. CASE UNCHANGED <<otp, hand>>
      BY <2>3 DEF otp, CodeLedger, HandAt
    <2> QED
      BY <2>1, <2>2, <2>3 DEF DoorNext, OthersMove, doorVars
  <1>3. CodeLedger => ShownCodeWorks
    BY DEF CodeLedger, ShownCodeWorks
  <1> QED  BY <1>1, <1>2, <1>3, DoorInvariant, PTL DEF DoorSpec

-----------------------------------------------------------------------------
(* A delivery that failed. *)

FailedInv == FailedTypeOK /\ PendingHasTask

\* The statuses that are written are statuses of an order.
LEMMA WrittenStatuses ==
    /\ Askable \subseteq OrderStatuses
    /\ Failable \subseteq OrderStatuses
    /\ {"PACKED", "OUT_FOR_DELIVERY", "DELIVERED", "FAILED_DELIVERY"} \subseteq OrderStatuses
    /\ \A d \in Decisions : Outcome(d) \in OrderStatuses /\ d \in Resolutions \ {"PENDING", "none"}
  BY DEF Askable, OrderStatuses, States, Failable, Decisions, Outcome, Resolutions

\* The steps of the failed delivery itself keep the invariant.
LEMMA DeliverySteps ==
    ASSUME FailedInv,
           \/ LeaveStore
           \/ \E to \in {"PICKED_UP", "RIDER_NEARBY", "DELIVERED"} : Advance(to)
           \/ MarkFailedDelivery \/ ConfirmReturnToStore
           \/ \E d \in Decisions : ResolveFailedDelivery(d)
    PROVE  FailedInv'
  <1> USE DEF FailedInv, FailedTypeOK, PendingHasTask
  <1>1. CASE LeaveStore
    <2>1. outings + 1 \in 0 .. MaxOutings
      BY <1>1, FailedAssumption DEF LeaveStore, FailedAssumption
    <2> QED  BY <1>1, <2>1, WrittenStatuses DEF LeaveStore
  <1>2. ASSUME NEW to \in {"PICKED_UP", "RIDER_NEARBY", "DELIVERED"}, Advance(to)
        PROVE  FailedInv'
    <2>1. to \in OrderStatuses
      BY DEF OrderStatuses, States
    <2> QED  BY <1>2, <2>1 DEF Advance, goods
  <1>3. CASE MarkFailedDelivery
    <2>1. tasks + 1 \in 0 .. MaxTasks /\ tasks + 1 > 0
      BY <1>3, FailedAssumption DEF MarkFailedDelivery, FailedAssumption
    <2>2. "PENDING" \in Resolutions
      BY DEF Resolutions
    <2> QED  BY <1>3, <2>1, <2>2, WrittenStatuses DEF MarkFailedDelivery, goods
  <1>4. CASE ConfirmReturnToStore
    BY <1>4 DEF ConfirmReturnToStore
  <1>5. ASSUME NEW d \in Decisions, ResolveFailedDelivery(d)
        PROVE  FailedInv'
    <2>1. 0 \in 0 .. MaxTasks
      BY FailedAssumption DEF FailedAssumption
    <2>2. order' = [order EXCEPT !.st = Outcome(d), !.res = d]
      BY <1>5 DEF ResolveFailedDelivery
    <2>3. Outcome(d) \in OrderStatuses /\ d \in Resolutions \ {"PENDING", "none"}
      BY WrittenStatuses
    <2>4. order' \in [st : OrderStatuses, res : Resolutions, returned : BOOLEAN]
      BY <2>2, <2>3
    <2>5. order'.res # "PENDING"
      BY <2>2, <2>3
    <2>6. tasks' = 0 /\ clerk' = clerk /\ outings' = outings /\ inStore' = inStore
      BY <1>5 DEF ResolveFailedDelivery, goods
    <2>7. FailedTypeOK'
      BY <2>1, <2>4, <2>6
    <2>8. PendingHasTask'
      BY <2>5, <2>6
    <2> QED  BY <2>7, <2>8
  <1> QED  BY <1>1, <1>2, <1>3, <1>4, <1>5

\* A bare status change leaves the resolution and the tasks alone.
LEMMA ClerkSteps ==
    ASSUME FailedInv, NEW c \in Clerks,
           \/ \E to \in Askable, role \in Roles : ClerkReads(c, to, role)
           \/ ClerkWrites(c) \/ ClerkFails(c)
    PROVE  FailedInv'
  <1> USE DEF FailedInv, FailedTypeOK, PendingHasTask
  <1>1. ASSUME NEW to \in Askable, NEW role \in Roles, ClerkReads(c, to, role)
        PROVE  FailedInv'
    BY <1>1 DEF ClerkReads, goods
  <1>2. CASE ClerkWrites(c)
    <2>1. clerk[c] \in OrderStatuses
      BY <1>2, WrittenStatuses DEF ClerkWrites
    <2>2. outings' \in 0 .. MaxOutings /\ inStore' \in BOOLEAN
      <3>1. CASE clerk[c] = "OUT_FOR_DELIVERY" /\ inStore
        <4>1. outings < MaxOutings /\ outings' = outings + 1 /\ inStore' = FALSE
          BY <1>2, <3>1 DEF ClerkWrites
        <4>2. outings \in 0 .. MaxOutings /\ MaxOutings \in Nat
          BY FailedAssumption DEF FailedAssumption
        <4>3. outings' \in 0 .. MaxOutings
          BY <4>1, <4>2
        <4> HIDE DEF FailedInv
        <4> QED  BY <4>1, <4>3
      <3>2. CASE ~(clerk[c] = "OUT_FOR_DELIVERY" /\ inStore)
        BY <1>2, <3>2 DEF ClerkWrites
      <3> QED  BY <3>1, <3>2
    <2> QED  BY <1>2, <2>1, <2>2 DEF ClerkWrites
  <1>3. CASE ClerkFails(c)
    BY <1>3 DEF ClerkFails, goods
  <1> QED  BY <1>1, <1>2, <1>3

\* Both parts of the invariant hold in every reachable state.
LEMMA FailedInvariant == FailedSpec => []FailedInv
  <1>1. FailedInit => FailedInv
    <2>1. 0 \in 0 .. MaxTasks /\ 0 \in 0 .. MaxOutings
      BY FailedAssumption DEF FailedAssumption
    <2> QED
      BY <2>1, WrittenStatuses DEF FailedInit, FailedInv, FailedTypeOK, PendingHasTask, Resolutions
  <1>2. FailedInv /\ [FailedNext]_failedVars => FailedInv'
    <2>1. FailedInv /\ UNCHANGED failedVars => FailedInv'
      BY DEF failedVars, goods, FailedInv, FailedTypeOK, PendingHasTask
    <2> QED  BY <2>1, DeliverySteps, ClerkSteps DEF FailedNext
  <1> QED  BY <1>1, <1>2, PTL DEF FailedSpec

\* Whatever status changes overlap, every variable of the failed delivery keeps its
\* type and every status that is written is one the order can have.
THEOREM FailedTypes == FailedSpec => []FailedTypeOK
  BY FailedInvariant, PTL DEF FailedInv

\* A failed delivery waits for an admin exactly as long as there is an open task.
THEOREM PendingTasks == FailedSpec => []PendingHasTask
  BY FailedInvariant, PTL DEF FailedInv

-----------------------------------------------------------------------------
(* On the road. *)

Legs        == {"packed", "accepted", "out", "near", "over"}
PhonePlaces == {"idle", "move", "verify", "look", "mark", "load", "switch", "load_toggle", "toggle"}
PhoneType   == [at : PhonePlaces, spot : Spots, order : Parcels \cup {NoParcel}, on : BOOLEAN]
RefreshType == [at : {"idle", "partner", "count", "stops", "write"}, online : BOOLEAN,
                count : 0..Cardinality(Parcels), back : BOOLEAN]

\* No rider carries more than there is.
LEMMA LoadIsBounded == Cardinality(Parcels) \in Nat /\ Cardinality(Carried) \in 0..Cardinality(Parcels)
<1>1. IsFiniteSet(1..MaxWaiting)
  BY RoutesAssumption, FS_Interval DEF RoutesAssumption
<1>2. IsFiniteSet(Parcels)
  BY <1>1, FleetAssumption, FS_Subset DEF FleetAssumption
<1>3. Carried \in SUBSET Parcels
  BY DEF Carried
<1> QED BY <1>2, <1>3, FS_Subset, FS_CardinalityType

LEMMA NobodyAsks == NoRequest \in PhoneType /\ NoRefresh \in RefreshType
<1>1. 0 \in 0..Cardinality(Parcels)
  BY LoadIsBounded
<1> QED BY <1>1, FleetAssumption DEF FleetAssumption, NoRequest, NoRefresh, PhoneType, PhonePlaces, RefreshType

\* A refresh that is started, or comes to nothing, keeps the types.
LEMMA StartRefreshTyped ==
  ASSUME FleetTypeOK, StartRefresh
  PROVE  refresh' \in [Refreshes -> RefreshType]
<1>1. [NoRefresh EXCEPT !.at = "partner"] \in RefreshType /\ refresh \in [Refreshes -> RefreshType]
  BY NobodyAsks DEF RefreshType, FleetTypeOK
<1> QED BY <1>1 DEF StartRefresh

\* Every variable of the rider on the road keeps its type.
LEMMA FleetTypeInit == FleetInit => FleetTypeOK
<1>1. 0 \in 0..Cardinality(Parcels)
  BY LoadIsBounded
<1> QED BY <1>1, NobodyAsks, FleetAssumption
        DEF FleetAssumption, FleetInit, FleetTypeOK, PhoneType, PhonePlaces, RefreshType

LEMMA OrdersMoveTyped ==
  ASSUME FleetTypeOK, OrdersMove
  PROVE  FleetTypeOK'
<1>1. ASSUME NEW load, AcceptLoad(load) PROVE FleetTypeOK'
  BY <1>1, StartRefreshTyped DEF AcceptLoad, FleetTypeOK, RefreshType
<1>2. ASSUME NEW o \in Parcels, SetOut(o) \/ LoadEnds(o) PROVE FleetTypeOK'
  BY <1>2 DEF SetOut, LoadEnds, FleetTypeOK
<1>3. ASSUME NEW o \in Parcels, DeliverLoad(o) PROVE FleetTypeOK'
  BY <1>3, StartRefreshTyped DEF DeliverLoad, FleetTypeOK, RefreshType
<1> QED BY <1>1, <1>2, <1>3 DEF OrdersMove

LEMMA RequestTyped ==
  ASSUME FleetTypeOK, NEW q \in Phones, RequestStep(q)
  PROVE  FleetTypeOK'
<1>0. /\ request \in [Phones -> PhoneType] /\ request[q] \in PhoneType
      /\ \A p \in PhonePlaces : [request[q] EXCEPT !.at = p] \in PhoneType
      /\ NoRequest \in PhoneType
  BY NobodyAsks DEF FleetTypeOK, PhoneType, PhonePlaces
<1>1. ASSUME NEW s \in Spots, NEW o \in Parcels \cup {NoParcel}, ReportSpot(q, s, o) PROVE FleetTypeOK'
  <2>1. [NoRequest EXCEPT !.at = "move", !.spot = s, !.order = o] \in PhoneType
    BY ZenonT(120), <1>0 DEF NoRequest, PhoneType, PhonePlaces
  <2> QED BY <1>0, <1>1, <2>1 DEF ReportSpot, FleetTypeOK, PhoneType, PhonePlaces
<1>2. CASE MoveRider(q)
  <2>1. request' \in [Phones -> PhoneType]
    BY <1>0, <1>2 DEF MoveRider, PhonePlaces
  <2>2. rider' \in [online : BOOLEAN, spot : Spots]
    BY <1>0, <1>2 DEF MoveRider, FleetTypeOK, PhoneType
  <2> QED BY <1>2, <2>1, <2>2 DEF MoveRider, FleetTypeOK, PhoneType, PhonePlaces
<1>3. CASE VerifyOrder(q)
  <2>1. request' \in [Phones -> PhoneType]
    BY <1>0, <1>3 DEF VerifyOrder, PhonePlaces
  <2> QED BY <1>3, <2>1, StartRefreshTyped DEF VerifyOrder, FleetTypeOK, PhoneType, PhonePlaces, RefreshType
<1>4. CASE LookNearby(q)
  <2>1. request' \in [Phones -> PhoneType]
    BY <1>0, <1>4 DEF LookNearby, PhonePlaces
  <2> QED BY <1>4, <2>1 DEF LookNearby, FleetTypeOK, PhoneType, PhonePlaces
<1>5. CASE MarkNearby(q)
  <2>1. request' \in [Phones -> PhoneType]
    BY <1>0, <1>5 DEF MarkNearby
  <2>2. leg' \in [Parcels -> Legs]
    BY <1>5 DEF MarkNearby, FleetTypeOK, Legs
  <2> QED BY <1>5, <2>1, <2>2 DEF MarkNearby, FleetTypeOK, PhoneType, PhonePlaces, Legs
<1>6. ASSUME NEW on \in BOOLEAN, AskOnline(q, on) PROVE FleetTypeOK'
  <2>1. [NoRequest EXCEPT !.at = IF on THEN "switch" ELSE "load", !.on = on] \in PhoneType
    BY <1>0 DEF PhoneType, PhonePlaces
  <2> QED BY <1>0, <1>6, <2>1 DEF AskOnline, FleetTypeOK, PhoneType, PhonePlaces
<1>7. CASE AskToggle(q)
  <2>1. [NoRequest EXCEPT !.at = IF rider.online THEN "load_toggle" ELSE "toggle"] \in PhoneType
    BY <1>0 DEF PhoneType, PhonePlaces
  <2> QED BY <1>0, <1>7, <2>1 DEF AskToggle, FleetTypeOK, PhoneType, PhonePlaces
<1>8. CASE CheckLoad(q)
  <2>1. request' \in [Phones -> PhoneType]
    BY <1>0, <1>8 DEF CheckLoad, PhonePlaces
  <2> QED BY <1>8, <2>1 DEF CheckLoad, FleetTypeOK, PhoneType, PhonePlaces
<1>9. CASE SwitchOnline(q)
  <2>1. request' \in [Phones -> PhoneType]
    BY <1>0, <1>9 DEF SwitchOnline
  <2>2. rider' \in [online : BOOLEAN, spot : Spots]
    <3>1. rider \in [online : BOOLEAN, spot : Spots] /\ request[q].on \in BOOLEAN
      BY <1>0 DEF FleetTypeOK, PhoneType
    <3>2. ASSUME NEW s \in Spots \cup {rider.spot}, rider' = [online |-> request[q].on, spot |-> s]
          PROVE  rider' \in [online : BOOLEAN, spot : Spots]
      BY <3>1, <3>2
    <3>3. CASE rider' = [rider EXCEPT !.online = ~@]
      <4>1. (~rider.online) \in BOOLEAN
        <5>1. CASE rider.online
          <6>1. (~rider.online) = FALSE
            BY <5>1
          <6> QED BY <6>1
        <5>2. CASE ~rider.online
          <6>1. (~rider.online) = TRUE
            BY <5>2
          <6> QED BY <6>1
        <5> QED BY <5>1, <5>2
      <4> QED BY <3>1, <3>3, <4>1
    <3> QED BY <1>9, <3>2, <3>3 DEF SwitchOnline
  <2> QED BY <1>9, <2>1, <2>2, StartRefreshTyped DEF SwitchOnline, FleetTypeOK, PhoneType, PhonePlaces, RefreshType
<1>10. CASE RequestFails(q)
  <2>1. request' \in [Phones -> PhoneType]
    BY <1>0, <1>10 DEF RequestFails
  <2>2. rider' \in [online : BOOLEAN, spot : Spots]
    BY <1>0, <1>10 DEF RequestFails, FleetTypeOK, PhoneType
  <2> QED BY <1>10, <2>1, <2>2 DEF RequestFails, FleetTypeOK, PhoneType, PhonePlaces
<1> QED BY <1>1, <1>2, <1>3, <1>4, <1>5, <1>6, <1>7, <1>8, <1>9, <1>10 DEF RequestStep

LEMMA RefreshTyped ==
  ASSUME FleetTypeOK, NEW r \in Refreshes, RefreshStep(r)
  PROVE  FleetTypeOK'
<1>0. refresh \in [Refreshes -> RefreshType] /\ refresh[r] \in RefreshType /\ NoRefresh \in RefreshType
  BY NobodyAsks DEF FleetTypeOK, RefreshType
<1>1. CASE ReadPartner(r)
  <2>1. [refresh[r] EXCEPT !.at = "count", !.online = rider.online] \in RefreshType
    BY <1>0 DEF FleetTypeOK, RefreshType
  <2> QED BY <1>0, <1>1, <2>1 DEF ReadPartner, FleetTypeOK, RefreshType
<1>2. CASE CountLoad(r)
  <2>1. refresh' \in [Refreshes -> RefreshType]
    BY <1>0, <1>2, LoadIsBounded DEF CountLoad, RefreshType
  <2> QED BY <1>2, <2>1 DEF CountLoad, FleetTypeOK, RefreshType
<1>3. CASE ReadStops(r)
  <2>1. refresh' \in [Refreshes -> RefreshType]
    BY <1>0, <1>3 DEF ReadStops, RefreshType
  <2> QED BY <1>3, <2>1 DEF ReadStops, FleetTypeOK, RefreshType
<1>4. CASE WriteBoard(r)
  <2>1. board' \in [status : {"offline", "busy", "available"}, count : 0..Cardinality(Parcels), back : BOOLEAN]
    BY <1>0, <1>4 DEF WriteBoard, FleetStatus, RefreshType
  <2> QED BY <1>0, <1>4, <2>1 DEF WriteBoard, FleetTypeOK, RefreshType
<1>5. CASE RefreshFails(r)
  BY <1>0, <1>5 DEF RefreshFails, FleetTypeOK, RefreshType
<1> QED BY <1>1, <1>2, <1>3, <1>4, <1>5 DEF RefreshStep

\* Every variable of the rider on the road keeps its type.
THEOREM FleetTypes == FleetSpec => []FleetTypeOK
<1>1. FleetTypeOK /\ [FleetNext]_<<roadVars, routesVars>> => FleetTypeOK'
  <2> SUFFICES ASSUME FleetTypeOK, [FleetNext]_<<roadVars, routesVars>> PROVE FleetTypeOK'
    OBVIOUS
  <2>1. ASSUME NEW on \in BOOLEAN, PatchOnline(on) PROVE FleetTypeOK'
    BY <2>1 DEF PatchOnline, FleetTypeOK
  <2>2. CASE UNCHANGED roadVars
    BY <2>2 DEF roadVars, FleetTypeOK
  <2> QED BY <2>1, <2>2, OrdersMoveTyped, RequestTyped, RefreshTyped DEF FleetNext, RoadNext, roadVars
<1> QED BY <1>1, FleetTypeInit, PTL DEF FleetSpec

\* An order that is over stays over, whichever location report had seen it on
\* the road, and whatever else moves.
THEOREM OverIsOver == FleetSpec => NoWayBack
<1>1. FleetTypeOK /\ [FleetNext]_<<roadVars, routesVars>>
        => [\A o \in Parcels : leg[o] = "over" => leg'[o] = "over"]_leg
  <2> SUFFICES ASSUME FleetTypeOK, FleetNext, NEW o \in Parcels, leg[o] = "over"
               PROVE  leg'[o] = "over"
    BY DEF roadVars
  <2>1. CASE OrdersMove
    BY <2>1 DEF OrdersMove, AcceptLoad, SetOut, DeliverLoad, LoadEnds, FleetTypeOK
  <2>2. ASSUME NEW q \in Phones, RequestStep(q) PROVE leg'[o] = "over"
    <3>1. CASE MarkNearby(q)
      BY <3>1 DEF MarkNearby, FleetTypeOK
    <3>2. CASE leg' = leg
      BY <3>2
    <3> QED BY <2>2, <3>1, <3>2 DEF RequestStep, ReportSpot, MoveRider, VerifyOrder, LookNearby, AskOnline,
                                    AskToggle, CheckLoad, SwitchOnline, RequestFails
  <2>3. CASE UNCHANGED leg
    BY <2>3
  <2> QED BY <2>1, <2>2, <2>3 DEF FleetNext, RoadNext, PatchOnline, RefreshStep, ReadPartner, CountLoad, ReadStops,
                                  WriteBoard, RefreshFails, roadVars
<1> QED BY <1>1, FleetTypes, PTL DEF FleetSpec, NoWayBack

-----------------------------------------------------------------------------
(* Tours: the nearest stop first, each of them once, the kilometres growing. *)

\* Of stops that are left, one is the nearest.
LEMMA OneIsNearest ==
  ASSUME NEW here \in Nat, NEW stops \in SUBSET (1..MaxWaiting), stops # {}
  PROVE  NearestStop(here, stops) \in stops
<1> DEFINE km(o) == Kilometres(here, Door[o])
           kms == {km(o) : o \in stops}
<1>0. \A o \in stops : o \in Nat /\ km(o) \in Nat
  <2>1. \A o \in stops : o \in Nat /\ Door[o] \in Nat
    BY RoutesAssumption DEF RoutesAssumption
  <2> QED BY <2>1 DEF Kilometres
<1> HIDE DEF km
<1>1. PICK d \in kms : \A e \in kms : d <= e
  <2>1. kms \in SUBSET Nat /\ kms # {}
    BY <1>0
  <2> QED BY <2>1, LeastNatural
<1> DEFINE near == {o \in stops : km(o) = d}
<1>2. PICK o \in near : \A p \in near : o <= p
  <2>1. near \in SUBSET Nat /\ near # {}
    BY <1>0, <1>1
  <2> QED BY <2>1, LeastNatural
<1>3. ASSUME NEW p \in stops PROVE km(o) < km(p) \/ (km(o) = km(p) /\ o <= p)
  <2>1. d <= km(p) /\ km(p) \in Nat /\ km(o) = d /\ d \in Nat
    BY <1>0, <1>1, <1>2
  <2>2. o \in Nat /\ p \in Nat
    BY <1>0, <1>2
  <2>3. CASE km(p) = d
    <3>1. p \in near
      BY <2>3
    <3> QED BY <1>2, <2>1, <2>3, <3>1
  <2>4. CASE km(p) # d
    BY <2>1, <2>4
  <2> QED BY <2>3, <2>4
<1>4. o \in stops
  BY <1>2
<1> QED BY <1>3, <1>4 DEF NearestStop, km

\* Routes of m of the stops, none of them twice.
Tours(stops, m) == {r \in [1..m -> stops] : \A i, j \in 1..m : r[i] = r[j] => i = j}

\* A route to some of the stops goes on to one of the others.
LEMMA TourGoesOn ==
  ASSUME NEW from \in Nat, NEW stops \in SUBSET (1..MaxWaiting), NEW m \in 1..Cardinality(stops),
         NEW r \in Tours(stops, m - 1)
  PROVE  GoOn(from, stops, r) \in Tours(stops, m)
<1> DEFINE here == IF r = <<>> THEN from ELSE Door[Last(r)]
           x    == NearestStop(here, stops \ ToSet(r))
<1>0. IsFiniteSet(stops) /\ Cardinality(stops) \in Nat /\ m \in Nat /\ m - 1 \in Nat
  <2>1. IsFiniteSet(1..MaxWaiting)
    BY FS_Interval, RoutesAssumption DEF RoutesAssumption
  <2>2. IsFiniteSet(stops) /\ Cardinality(stops) \in Nat
    BY <2>1, FS_Subset, FS_CardinalityType
  <2> QED BY <2>2
<1>1. r \in [1..(m - 1) -> stops] /\ r \in Seq(stops) /\ Len(r) = m - 1
  BY <1>0 DEF Tours
<1>2. ToSet(r) = {r[i] : i \in 1..(m - 1)}
  BY <1>1 DEF ToSet
<1>3. stops \ ToSet(r) # {}
  <2> SUFFICES ASSUME stops \ ToSet(r) = {} PROVE FALSE
    OBVIOUS
  <2>1. \A o \in stops : \E i \in 1..(m - 1) : r[i] = o
    BY <1>2
  <2>2. r \in Surjection(1..(m - 1), stops)
    BY <1>1, <2>1 DEF Surjection
  <2>3. IsFiniteSet(1..(m - 1)) /\ Cardinality(1..(m - 1)) = m - 1
    BY <1>0, FS_Interval
  <2>4. Cardinality(stops) <= m - 1
    BY <2>2, <2>3, FS_Surjection
  <2> QED BY <1>0, <2>4
<1>4. here \in Nat
  <2>1. CASE r = <<>>
    BY <2>1
  <2>2. CASE r # <<>>
    <3>1. Len(r) \in 1..(m - 1)
      BY <1>1, <1>0, <2>2
    <3>2. r[Len(r)] \in 1..MaxWaiting
      BY <1>1, <3>1
    <3> QED BY <2>2, <3>2, RoutesAssumption DEF RoutesAssumption, Last
  <2> QED BY <2>1, <2>2
<1>5. x \in stops /\ x \notin ToSet(r)
  <2> HIDE DEF here
  <2>1. stops \ ToSet(r) \in SUBSET (1..MaxWaiting)
    OBVIOUS
  <2> QED BY <1>3, <1>4, <2>1, OneIsNearest
<1>6. GoOn(from, stops, r) = Append(r, x)
  BY DEF GoOn
<1> HIDE DEF x
<1>7. Append(r, x) \in [1..m -> stops]
  <2>1. Append(r, x) \in Seq(stops) /\ Len(Append(r, x)) = m
    BY <1>0, <1>1, <1>5
  <2> QED BY <2>1, LenProperties
<1>8. \A i \in 1..m : Append(r, x)[i] = IF i = m THEN x ELSE r[i]
  BY <1>0, <1>1, <1>5
<1>9. \A i \in 1..(m - 1) : r[i] # x
  BY <1>2, <1>5
<1>10. ASSUME NEW i \in 1..m, NEW j \in 1..m, Append(r, x)[i] = Append(r, x)[j] PROVE i = j
  <2>1. \A k \in 1..m : k = m \/ k \in 1..(m - 1)
    BY <1>0
  <2> QED BY <1>8, <1>9, <1>10, <2>1 DEF Tours
<1> QED BY <1>6, <1>7, <1>10 DEF Tours

\* A greedy tour visits every stop once.
LEMMA GreedyVisitsAll ==
  ASSUME NEW from \in Nat, NEW stops \in SUBSET (1..MaxWaiting)
  PROVE  /\ Cardinality(stops) \in Nat
         /\ Greedy(from, stops) \in Tours(stops, Cardinality(stops))
         /\ ToSet(Greedy(from, stops)) = stops
<1> DEFINE N == Cardinality(stops)
           W == [m \in 0..N |-> Tours(stops, m)]
           d == [m \in 1..N |-> [r \in W[m - 1] |-> GoOn(from, stops, r)]]
           tour == CHOOSE f : f = [n \in 0..N |-> IF n = 0 THEN <<>> ELSE GoOn(from, stops, f[n - 1])]
<1>0. IsFiniteSet(stops) /\ N \in Nat
  <2>1. IsFiniteSet(1..MaxWaiting)
    BY FS_Interval, RoutesAssumption DEF RoutesAssumption
  <2>2. IsFiniteSet(stops) /\ Cardinality(stops) \in Nat
    BY <2>1, FS_Subset, FS_CardinalityType
  <2> QED BY <2>2
<1>1. Greedy(from, stops) = tour[N]
  BY DEF Greedy
<1> HIDE DEF N
<1>2. \A m \in 0..N : W[m] = Tours(stops, m)
  OBVIOUS
<1> HIDE DEF W
<1>3. \A m \in 1..N : \A r \in W[m - 1] : GoOn(from, stops, r) \in W[m]
  <2>1. \A m \in 1..N : m \in 0..N /\ m - 1 \in 0..N
    BY <1>0
  <2> QED BY <1>2, <2>1, TourGoesOn DEF N
<1>4. <<>> \in W[0]
  <2>1. 0 \in 0..N
    BY <1>0
  <2>2. <<>> \in Seq(stops) /\ Len(<<>>) = 0
    OBVIOUS
  <2>3. <<>> \in [1..0 -> stops]
    BY <2>2, LenProperties
  <2>4. ASSUME NEW e \in [1..0 -> stops] PROVE e \in Tours(stops, 0)
    BY DEF Tours
  <2>5. <<>> \in Tours(stops, 0)
    BY <2>3, <2>4
  <2> QED BY <1>2, <2>1, <2>5
<1>5. Fits(d, W, N)
  BY <1>3 DEF Fits
<1>6. \A m \in 1..N : \A r \in W[m - 1] : d[m][r] = GoOn(from, stops, r)
  OBVIOUS
<1> HIDE DEF d
<1>7. \E f : f = [n \in 0..N |-> IF n = 0 THEN <<>> ELSE GoOn(from, stops, f[n - 1])]
  <2>1. PICK f : Recurs(f, <<>>, d, N) /\ \A i \in 0..N : f[i] \in W[i]
    BY <1>0, <1>4, <1>5, RecursionExists
  <2>2. f = [n \in 0..N |-> IF n = 0 THEN <<>> ELSE d[n][f[n - 1]]]
    BY <2>1 DEF Recurs
  <2>3. \A n \in 0..N : n # 0 => d[n][f[n - 1]] = GoOn(from, stops, f[n - 1])
    <3>1. \A n \in 0..N : n # 0 => n \in 1..N /\ n - 1 \in 0..N
      BY <1>0
    <3> QED BY <1>6, <2>1, <3>1
  <2>4. f = [n \in 0..N |-> IF n = 0 THEN <<>> ELSE GoOn(from, stops, f[n - 1])]
    BY <2>2, <2>3
  <2> QED BY <2>4
<1>8. tour = [n \in 0..N |-> IF n = 0 THEN <<>> ELSE GoOn(from, stops, tour[n - 1])]
  BY <1>7
<1> HIDE DEF tour
<1>9. Follows(tour, <<>>, d, W, N)
  <2>1. 0 \in 0..N /\ \A n \in 1..N : n # 0 /\ n \in 0..N
    BY <1>0
  <2> QED BY <1>6, <1>8, <2>1 DEF Follows
<1>10. tour[N] \in Tours(stops, N)
  <2>1. \A i \in 0..N : tour[i] \in W[i]
    BY <1>0, <1>4, <1>5, <1>9, RunsThrough
  <2>2. N \in 0..N
    BY <1>0
  <2> QED BY <1>2, <2>1, <2>2
<1>11. ToSet(tour[N]) = stops
  <2>1. tour[N] \in Injection(1..N, stops)
    BY <1>10 DEF Tours, Injection, IsInjective
  <2>2. Cardinality(1..N) = N /\ IsFiniteSet(1..N)
    BY <1>0, FS_Interval
  <2>3. tour[N] \in Surjection(1..N, stops)
    BY <1>0, <2>1, <2>2, FS_Injection DEF N
  <2>4. DOMAIN tour[N] = 1..N
    BY <1>10 DEF Tours
  <2>5. ToSet(tour[N]) \subseteq stops
    BY <1>10, <2>4 DEF Tours, ToSet
  <2>6. stops \subseteq ToSet(tour[N])
    BY <2>3, <2>4 DEF Surjection, ToSet
  <2> QED BY <2>5, <2>6
<1> QED BY <1>0, <1>1, <1>10, <1>11 DEF N

\* Along a tour the kilometres only grow.
LEMMA KilometresGrow ==
  ASSUME NEW from \in Nat, NEW stops \in SUBSET (1..MaxWaiting), NEW n \in Nat, NEW r \in Tours(stops, n)
  PROVE  /\ \A i \in 0..n : KilometresTo(from, r, i) \in Int
         /\ \A i, j \in 1..n : i <= j => KilometresTo(from, r, i) <= KilometresTo(from, r, j)
<1> DEFINE Leg(i) == Kilometres(IF i = 1 THEN from ELSE Door[r[i - 1]], Door[r[i]])
           km == CHOOSE f : f = [i \in 0..n |-> IF i = 0 THEN 0 ELSE f[i - 1] + Leg(i)]
           d  == [i \in 1..n |-> [x \in Int |-> x + Leg(i)]]
<1>1. Len(r) = n
  <2>1. r \in Seq(stops) /\ r \in [1..n -> stops]
    BY DEF Tours
  <2> QED BY <2>1, LenProperties
<1>2. \A i : KilometresTo(from, r, i) = km[i]
  BY <1>1 DEF KilometresTo
<1>3. \A i \in 1..n : Leg(i) \in Nat
  <2>1. \A i \in 1..n : Door[r[i]] \in Nat
    BY RoutesAssumption DEF RoutesAssumption, Tours
  <2>2. \A i \in 1..n : i # 1 => i - 1 \in 1..n
    OBVIOUS
  <2>3. \A i \in 1..n : (IF i = 1 THEN from ELSE Door[r[i - 1]]) \in Nat
    BY <2>1, <2>2
  <2> QED BY <2>1, <2>3 DEF Kilometres
<1> HIDE DEF Leg
<1>4. d \in [1..n -> [Int -> Int]] /\ \A i \in 1..n, x \in Int : d[i][x] = x + Leg(i)
  BY <1>3
<1> HIDE DEF d
<1>4a. d \in [1..n -> [Int -> Int]] /\ 0 \in Int
  BY <1>4
<1>5. \E f : f = [i \in 0..n |-> IF i = 0 THEN 0 ELSE f[i - 1] + Leg(i)]
  <2>1. PICK f \in [0..n -> Int] : f = [i \in 0..n |-> IF i = 0 THEN 0 ELSE d[i][f[i - 1]]]
    BY ZenonT(60), <1>4a, RecursionExistsInt
  <2>2. \A i \in 0..n : i # 0 => d[i][f[i - 1]] = f[i - 1] + Leg(i)
    <3>1. \A i \in 0..n : i # 0 => i \in 1..n /\ i - 1 \in 0..n
      OBVIOUS
    <3> QED BY <1>4, <3>1
  <2> QED BY <2>1, <2>2
<1>6. km = [i \in 0..n |-> IF i = 0 THEN 0 ELSE km[i - 1] + Leg(i)]
  BY <1>5
<1> HIDE DEF km
<1>7. km[0] = 0 /\ \A i \in 1..n : km[i] = km[i - 1] + Leg(i)
  <2>1. 0 \in 0..n /\ \A i \in 1..n : i # 0 /\ i \in 0..n
    OBVIOUS
  <2> QED BY <1>6, <2>1
<1>8. \A i \in 0..n : km[i] \in Int
  <2>1. \A i \in 1..n : km[i - 1] \in Int => km[i] = d[i][km[i - 1]]
    BY <1>4, <1>7
  <2> QED BY <1>4a, <1>7, <2>1, RunsThroughInt
<1>9. ASSUME NEW i \in 1..n PROVE \A j \in 0..n : i <= j => km[i] <= km[j]
  <2> DEFINE T == {j \in 0..n : i <= j => km[i] <= km[j]}
  <2>1. 0 \in T
    OBVIOUS
  <2>2. ASSUME NEW j \in 0..n, j \in T, j + 1 <= n PROVE j + 1 \in T
    <3>1. j + 1 \in 1..n /\ j + 1 \in 0..n /\ (j + 1) - 1 = j /\ i \in 0..n
      BY <2>2
    <3>2. km[j + 1] = km[j] + Leg(j + 1) /\ Leg(j + 1) \in Nat /\ km[j] \in Int /\ km[i] \in Int
      BY <1>3, <1>7, <1>8, <3>1
    <3>3. i <= j => km[i] <= km[j]
      BY <2>2
    <3>4. CASE i <= j
      BY <3>1, <3>2, <3>3, <3>4
    <3>5. CASE i = j + 1
      BY <3>1, <3>2, <3>5
    <3> QED BY <3>1, <3>4, <3>5
  <2> HIDE DEF T
  <2>3. \A j \in 0..n : j \in T
    BY <2>1, <2>2, BoundedInduction
  <2> QED BY <2>3 DEF T
<1>10. \A i \in 1..n : i \in 0..n
  OBVIOUS
<1> QED BY <1>2, <1>8, <1>9, <1>10

\* Of two customers of a batch who wait behind another, the one visited later is
\* shown the later time.
LEMMA LaterIsLater == FleetTypeOK => LaterStopsLater
<1> SUFFICES ASSUME FleetTypeOK PROVE LaterStopsLater
  OBVIOUS
<1> DEFINE from  == rider.spot
           stops == {o \in Batch : leg[o] \notin {"packed", "over"}}
           route == Greedy(from, stops)
           n     == Cardinality(stops)
<1>1. BatchRoute(from) = route
  BY DEF BatchRoute
<1>2. from \in Nat /\ stops \in SUBSET (1..MaxWaiting)
  BY FleetAssumption DEF FleetAssumption, FleetTypeOK
<1> HIDE DEF from, stops
<1>3. n \in Nat /\ route \in Tours(stops, n) /\ ToSet(route) = stops
  BY <1>2, GreedyVisitsAll
<1> HIDE DEF n, route
<1>4. /\ Len(route) = n /\ DOMAIN route = 1..n /\ route \in [1..n -> stops]
      /\ \A i, j \in 1..n : route[i] = route[j] => i = j
  <2>1. route \in Seq(stops) /\ route \in [1..n -> stops]
    BY <1>3 DEF Tours
  <2> QED BY <1>3, <2>1, LenProperties DEF Tours
<1>5. ASSUME NEW i \in 1..n PROVE Position(route[i], route) = i
  <2>1. \A k \in DOMAIN route : route[k] = route[i] <=> k = i
    BY <1>4
  <2>2. i \in DOMAIN route
    BY <1>4
  <2> QED BY <2>1, <2>2 DEF Position
<1>6. ASSUME NEW i \in 2..n
      PROVE  EtaOf(route[i], from) = 3 * KilometresTo(from, route, i) + i * StopMinutes + BufferMinutes
  <2>1. i \in 1..n /\ n > 1 /\ i > 1
    BY <1>3
  <2>2. route[i] \in ToSet(route) /\ Position(route[i], route) = i
    BY <1>3, <1>4, <1>5, <2>1
  <2>3. EtaOf(route[i], from) = QueueEta(route[i], from)
    BY <1>1, <1>4, <2>1, <2>2 DEF EtaOf
  <2> QED BY <1>1, <2>2, <2>3 DEF QueueEta
<1>7. ASSUME NEW i \in 2..n, NEW j \in 2..n, i < j
      PROVE  EtaOf(route[i], from) < EtaOf(route[j], from)
  <2> DEFINE a == KilometresTo(from, route, i)
             b == KilometresTo(from, route, j)
  <2>1. i \in 1..n /\ j \in 1..n /\ i \in 0..n /\ j \in 0..n /\ i <= j
    BY <1>3, <1>7
  <2>2. a \in Int /\ b \in Int /\ a <= b
    BY <1>2, <1>3, <2>1, KilometresGrow
  <2>3. EtaOf(route[i], from) = 3 * a + i * 5 + 2 /\ EtaOf(route[j], from) = 3 * b + j * 5 + 2
    BY <1>6 DEF StopMinutes, BufferMinutes
  <2> HIDE DEF a, b
  <2> QED BY <1>7, <2>1, <2>2, <2>3
<1> QED BY <1>1, <1>4, <1>7 DEF LaterStopsLater, from

-----------------------------------------------------------------------------
(* Zones: what splitting the largest and evening out leave where it is. *)

\* An order is in a zone, the orders are in one place each, and no zone is empty.
HasOrder(z, o) == \E i \in 1..Len(z) : \E k \in 1..Len(z[i]) : z[i][k] = o

OnceEach(z) ==
    \A i, j \in 1..Len(z) : \A k \in 1..Len(z[i]), l \in 1..Len(z[j]) :
      z[i][k] = z[j][l] => i = j /\ k = l

NoneEmpty(z) == \A i \in 1..Len(z) : Len(z[i]) > 0

\* Zones that deal out the orders 1 to n.
Deals(z, n) == z \in Seq(Seq(1..n)) /\ OnceEach(z) /\ \A o \in 1..n : HasOrder(z, o)

\* Of finitely many numbers, one is the greatest, and the first of its size.
LEMMA GreatestFirst ==
  ASSUME NEW m \in Nat \ {0}, NEW f \in [1..m -> Nat]
  PROVE  \E i \in 1..m : \A j \in 1..m : f[j] < f[i] \/ (f[j] = f[i] /\ i <= j)
<1> DEFINE Top(c, i) == \A j \in 1..c : f[j] < f[i] \/ (f[j] = f[i] /\ i <= j)
           T == {c \in 0..m : c = 0 \/ \E i \in 1..c : Top(c, i)}
<1>1. 0 \in T
  OBVIOUS
<1>2. ASSUME NEW c \in 0..m, c \in T, c + 1 <= m PROVE c + 1 \in T
  <2>1. c + 1 \in 1..m /\ c + 1 \in 0..m /\ (\A j \in 1..(c + 1) : f[j] \in Nat /\ (j = c + 1 \/ j \in 1..c))
    BY <1>2
  <2>2. CASE c = 0
    <3>1. Top(c + 1, c + 1)
      BY <2>2
    <3> QED BY <2>1, <3>1
  <2>3. CASE c # 0
    <3>1. PICK i \in 1..c : Top(c, i)
      BY <1>2, <2>3
    <3>2. i \in 1..(c + 1)
      BY <1>2
    <3>3. CASE f[c + 1] > f[i]
      <4>1. Top(c + 1, c + 1)
        <5> SUFFICES ASSUME NEW j \in 1..(c + 1)
                     PROVE  f[j] < f[c + 1] \/ (f[j] = f[c + 1] /\ c + 1 <= j)
          OBVIOUS
        <5>1. f[j] \in Nat /\ f[i] \in Nat /\ f[c + 1] \in Nat
          BY <2>1, <3>2
        <5>2. CASE j = c + 1
          BY <5>1, <5>2, <3>3
        <5>3. CASE j \in 1..c
          <6>1. f[j] < f[i] \/ (f[j] = f[i] /\ i <= j)
            BY <3>1, <5>3
          <6> QED BY <5>1, <5>3, <6>1, <3>3
        <5> QED BY <2>1, <5>2, <5>3
      <4> QED BY <2>1, <4>1
    <3>4. CASE ~(f[c + 1] > f[i])
      <4>1. Top(c + 1, i)
        <5> SUFFICES ASSUME NEW j \in 1..(c + 1)
                     PROVE  f[j] < f[i] \/ (f[j] = f[i] /\ i <= j)
          OBVIOUS
        <5>1. f[j] \in Nat /\ f[i] \in Nat /\ f[c + 1] \in Nat
          BY <2>1, <3>2
        <5>2. CASE j = c + 1
          BY <5>1, <5>2, <3>4, <3>2
        <5>3. CASE j \in 1..c
          <6>1. f[j] < f[i] \/ (f[j] = f[i] /\ i <= j)
            BY <3>1, <5>3
          <6> QED BY <5>1, <5>3, <6>1, <3>4
        <5> QED BY <2>1, <5>2, <5>3
      <4> QED BY <2>1, <3>2, <4>1
    <3> QED BY <3>3, <3>4
  <2> QED BY <2>2, <2>3
<1> HIDE DEF T
<1>3. m \in T
  <2>1. m \in 0..m
    OBVIOUS
  <2> QED BY <1>1, <1>2, <2>1, BoundedInduction
<1> QED BY <1>3 DEF T

\* One is the least, and the last of its size.
LEMMA LeastLast ==
  ASSUME NEW m \in Nat \ {0}, NEW f \in [1..m -> Nat]
  PROVE  \E i \in 1..m : \A j \in 1..m : f[j] > f[i] \/ (f[j] = f[i] /\ i >= j)
<1> DEFINE Bottom(c, i) == \A j \in 1..c : f[j] > f[i] \/ (f[j] = f[i] /\ i >= j)
           T == {c \in 0..m : c = 0 \/ \E i \in 1..c : Bottom(c, i)}
<1>1. 0 \in T
  OBVIOUS
<1>2. ASSUME NEW c \in 0..m, c \in T, c + 1 <= m PROVE c + 1 \in T
  <2>1. c + 1 \in 1..m /\ c + 1 \in 0..m /\ (\A j \in 1..(c + 1) : f[j] \in Nat /\ (j = c + 1 \/ j \in 1..c))
    BY <1>2
  <2>2. CASE c = 0
    <3>1. Bottom(c + 1, c + 1)
      BY <2>2
    <3> QED BY <2>1, <3>1
  <2>3. CASE c # 0
    <3>1. PICK i \in 1..c : Bottom(c, i)
      BY <1>2, <2>3
    <3>2. i \in 1..(c + 1)
      BY <1>2
    <3>3. CASE f[c + 1] <= f[i]
      <4>1. Bottom(c + 1, c + 1)
        <5> SUFFICES ASSUME NEW j \in 1..(c + 1)
                     PROVE  f[j] > f[c + 1] \/ (f[j] = f[c + 1] /\ c + 1 >= j)
          OBVIOUS
        <5>1. f[j] \in Nat /\ f[i] \in Nat /\ f[c + 1] \in Nat
          BY <2>1, <3>2
        <5>2. CASE j = c + 1
          BY <5>1, <5>2, <3>3
        <5>3. CASE j \in 1..c
          <6>1. f[j] > f[i] \/ (f[j] = f[i] /\ i >= j)
            BY <3>1, <5>3
          <6> QED BY <5>1, <5>3, <6>1, <3>3
        <5> QED BY <2>1, <5>2, <5>3
      <4> QED BY <2>1, <4>1
    <3>4. CASE ~(f[c + 1] <= f[i])
      <4>1. Bottom(c + 1, i)
        <5> SUFFICES ASSUME NEW j \in 1..(c + 1)
                     PROVE  f[j] > f[i] \/ (f[j] = f[i] /\ i >= j)
          OBVIOUS
        <5>1. f[j] \in Nat /\ f[i] \in Nat /\ f[c + 1] \in Nat
          BY <2>1, <3>2
        <5>2. CASE j = c + 1
          BY <5>1, <5>2, <3>4, <3>2
        <5>3. CASE j \in 1..c
          <6>1. f[j] > f[i] \/ (f[j] = f[i] /\ i >= j)
            BY <3>1, <5>3
          <6> QED BY <5>1, <5>3, <6>1, <3>4
        <5> QED BY <2>1, <5>2, <5>3
      <4> QED BY <2>1, <3>2, <4>1
    <3> QED BY <3>3, <3>4
  <2> QED BY <2>2, <2>3
<1> HIDE DEF T
<1>3. m \in T
  <2>1. m \in 0..m
    OBVIOUS
  <2> QED BY <1>1, <1>2, <2>1, BoundedInduction
<1> QED BY <1>3 DEF T

\* There is a longest and a shortest zone.
LEMMA LongestAndShortest ==
  ASSUME NEW S, NEW z \in Seq(Seq(S)), z # <<>>
  PROVE  /\ Longest(z) \in 1..Len(z)  /\ \A j \in 1..Len(z) : Len(z[j]) <= Len(z[Longest(z)])
         /\ Shortest(z) \in 1..Len(z) /\ \A j \in 1..Len(z) : Len(z[j]) >= Len(z[Shortest(z)])
<1> DEFINE f == [i \in 1..Len(z) |-> Len(z[i])]
<1>1. Len(z) \in Nat \ {0} /\ DOMAIN z = 1..Len(z) /\ f \in [1..Len(z) -> Nat]
  <2>1. \A i \in 1..Len(z) : z[i] \in Seq(S)
    BY ElementOfSeq
  <2> QED BY <2>1, EmptySeq, LenProperties
<1>2. \A i \in 1..Len(z) : f[i] = Len(z[i]) /\ f[i] \in Nat
  BY <1>1
<1> HIDE DEF f
<1> DEFINE L(i) == \A j \in DOMAIN z : Len(z[j]) < Len(z[i]) \/ (Len(z[j]) = Len(z[i]) /\ i <= j)
           M(i) == \A j \in DOMAIN z : Len(z[j]) > Len(z[i]) \/ (Len(z[j]) = Len(z[i]) /\ i >= j)
<1>3. \E i \in DOMAIN z : L(i)
  <2>1. PICK i \in 1..Len(z) : \A j \in 1..Len(z) : f[j] < f[i] \/ (f[j] = f[i] /\ i <= j)
    BY <1>1, GreatestFirst
  <2> QED BY <1>1, <1>2, <2>1
<1>4. \E i \in DOMAIN z : M(i)
  <2>1. PICK i \in 1..Len(z) : \A j \in 1..Len(z) : f[j] > f[i] \/ (f[j] = f[i] /\ i >= j)
    BY <1>1, LeastLast
  <2> QED BY <1>1, <1>2, <2>1
<1>5. Longest(z) \in DOMAIN z /\ L(Longest(z))
  <2> HIDE DEF L
  <2>1. Longest(z) = CHOOSE i \in DOMAIN z : L(i)
    BY DEF Longest, L
  <2> QED BY <1>3, <2>1
<1>6. Shortest(z) \in DOMAIN z /\ M(Shortest(z))
  <2> HIDE DEF M
  <2>1. Shortest(z) = CHOOSE i \in DOMAIN z : M(i)
    BY DEF Shortest, M
  <2> QED BY <1>4, <2>1
<1>7. ASSUME NEW j \in 1..Len(z) PROVE Len(z[j]) <= Len(z[Longest(z)]) /\ Len(z[j]) >= Len(z[Shortest(z)])
  <2>1. Len(z[j]) \in Nat /\ Len(z[Longest(z)]) \in Nat /\ Len(z[Shortest(z)]) \in Nat
    BY <1>1, <1>2, <1>5, <1>6
  <2>2. j \in DOMAIN z
    BY <1>1
  <2>3. Len(z[j]) < Len(z[Longest(z)]) \/ Len(z[j]) = Len(z[Longest(z)])
    BY <1>5, <2>2
  <2>4. Len(z[j]) > Len(z[Shortest(z)]) \/ Len(z[j]) = Len(z[Shortest(z)])
    BY <1>6, <2>2
  <2> QED BY <2>1, <2>3, <2>4
<1> QED BY <1>1, <1>5, <1>6, <1>7

\* In y the zones are those of z, but the tail of the zone big, after its first h
\* orders, is at the end of the zone small.
TailGoes(z, big, small, h, y) ==
    /\ Len(y) = Len(z) /\ \A j \in 1..Len(z) : j # big /\ j # small => y[j] = z[j]
    /\ Len(y[big]) = h /\ \A k \in 1..h : y[big][k] = z[big][k]
    /\ Len(y[small]) = Len(z[small]) + Len(z[big]) - h
    /\ \A k \in 1..Len(z[small]) : y[small][k] = z[small][k]
    /\ \A k \in (Len(z[small]) + 1)..(Len(z[small]) + Len(z[big]) - h) :
         y[small][k] = z[big][h + k - Len(z[small])]

\* Then the orders are dealt out as before.
LEMMA TailMoves ==
  ASSUME NEW n \in Nat, NEW z, Deals(z, n), NEW big \in 1..Len(z), NEW small \in 1..Len(z), big # small,
         NEW h \in 0..Len(z[big]), NEW y \in Seq(Seq(1..n)), TailGoes(z, big, small, h, y)
  PROVE  Deals(y, n)
<1> DEFINE m == Len(z)
<1>1. m \in Nat /\ z \in Seq(Seq(1..n)) /\ (\A j \in 1..m : Len(z[j]) \in Nat /\ Len(y[j]) \in Nat)
  <2>1. z \in Seq(Seq(1..n))
    BY DEF Deals
  <2>2. m \in Nat /\ \A j \in 1..m : z[j] \in Seq(1..n) /\ y[j] \in Seq(1..n)
    BY <2>1, LenProperties, ElementOfSeq DEF TailGoes
  <2> QED BY <2>1, <2>2, LenProperties
<1>2. PICK s \in Nat, b \in Nat : s = Len(z[small]) /\ b = Len(z[big])
  BY <1>1
<1>2a. h \in Nat /\ h <= b
  BY <1>2
<1>3. /\ h \in Nat /\ h <= b /\ Len(y[big]) = h /\ Len(y[small]) = s + b - h
      /\ \A k \in 1..h : y[big][k] = z[big][k]
      /\ \A k \in 1..s : y[small][k] = z[small][k]
      /\ \A k \in (s + 1)..(s + b - h) : y[small][k] = z[big][h + k - s]
  <2> HIDE DEF m
  <2> QED BY <1>2, <1>2a DEF TailGoes
<1>4. \A j \in 1..m : j # big /\ j # small => y[j] = z[j]
  BY DEF TailGoes
<1> DEFINE Stays(j, k) == /\ k \in 1..Len(z[j]) /\ y[j][k] = z[j][k]
                          /\ j = big => k <= h
                          /\ j = small => k <= s
           Goes(j, k) == /\ j = small /\ k > s /\ h + k - s \in 1..b /\ h + k - s > h
                          /\ y[j][k] = z[big][h + k - s]
<1>5. ASSUME NEW j \in 1..m, NEW k \in 1..Len(y[j])
      PROVE  k \in Nat /\ (Stays(j, k) \/ Goes(j, k))
  <2>0. k \in Nat /\ k >= 1 /\ k <= Len(y[j])
    BY <1>1
  <2>1. CASE j # small /\ j # big
    BY <1>4, <2>0, <2>1
  <2>2. CASE j = big
    <3>1. k \in 1..h /\ k \in 1..b
      BY <1>3, <2>0, <2>2
    <3>2. y[big][k] = z[big][k]
      BY <1>3, <3>1
    <3>3. k <= h
      BY <1>3, <3>1
    <3> QED BY <1>2, <2>0, <2>2, <3>1, <3>2, <3>3
  <2>3. CASE j = small /\ k <= s
    <3>1. k \in 1..s
      BY <2>0, <2>3
    <3>2. y[small][k] = z[small][k]
      BY <1>3, <3>1
    <3> QED BY <1>2, <2>0, <2>3, <3>1, <3>2
  <2>4. CASE j = small /\ k > s
    <3>1. k <= s + b - h
      BY <1>3, <2>0, <2>4
    <3>2. k \in (s + 1)..(s + b - h) /\ h + k - s \in 1..b /\ h + k - s > h
      BY <1>3, <2>0, <2>4, <3>1
    <3>3. y[small][k] = z[big][h + k - s]
      BY <1>3, <3>2
    <3> QED BY <2>0, <2>4, <3>2, <3>3
  <2> QED BY <2>0, <2>1, <2>2, <2>3, <2>4
<1>6. \A i, j \in 1..m : \A k \in 1..Len(z[i]), l \in 1..Len(z[j]) : z[i][k] = z[j][l] => i = j /\ k = l
  BY DEF Deals, OnceEach
<1>6a. \A p, q \in 1..Len(z[big]) : z[big][p] = z[big][q] => p = q
  BY ZenonT(60), <1>6
<1>7. ASSUME NEW i \in 1..m, NEW j \in 1..m, NEW k \in 1..Len(y[i]), NEW l \in 1..Len(y[j]), y[i][k] = y[j][l]
      PROVE  i = j /\ k = l
  <2>1. CASE Stays(i, k) /\ Stays(j, l)
    <3>1. k \in 1..Len(z[i]) /\ y[i][k] = z[i][k]
      BY <2>1
    <3>2. l \in 1..Len(z[j]) /\ y[j][l] = z[j][l]
      BY <2>1
    <3>3. z[i][k] = z[j][l]
      BY <1>7, <3>1, <3>2
    <3> HIDE DEF Stays, Goes, m
    <3> QED BY ZenonT(120), <1>6, <3>1, <3>2, <3>3
  <2>2. CASE Goes(i, k) /\ Goes(j, l)
    <3>1. PICK p \in 1..Len(z[big]) : p = h + k - s /\ y[i][k] = z[big][p]
      BY <1>2, <2>2
    <3>2. PICK q \in 1..Len(z[big]) : q = h + l - s /\ y[j][l] = z[big][q]
      BY <1>2, <2>2
    <3>3. z[big][p] = z[big][q] /\ i = small /\ j = small
      BY <1>7, <2>2, <3>1, <3>2
    <3>4. p = q
      BY ZenonT(60), <1>6a, <3>3
    <3> QED BY <1>3, <1>5, <3>1, <3>2, <3>3, <3>4
  <2>3. CASE Stays(i, k) /\ Goes(j, l)
    <3>1. k \in 1..Len(z[i]) /\ y[i][k] = z[i][k] /\ (i = big => k <= h)
      BY <2>3
    <3>2. PICK q \in 1..Len(z[big]) : q = h + l - s /\ y[j][l] = z[big][q] /\ q > h
      BY <1>2, <2>3
    <3>3. z[i][k] = z[big][q]
      BY <1>7, <3>1, <3>2
    <3>4. i = big /\ k = q
      <4> HIDE DEF Stays, Goes, m
      <4> QED BY SMTT(60), <1>6, <3>1, <3>3 DEF m
    <3> QED BY <1>3, <1>5, <3>1, <3>2, <3>4
  <2>4. CASE Goes(i, k) /\ Stays(j, l)
    <3>1. l \in 1..Len(z[j]) /\ y[j][l] = z[j][l] /\ (j = big => l <= h)
      BY <2>4
    <3>2. PICK q \in 1..Len(z[big]) : q = h + k - s /\ y[i][k] = z[big][q] /\ q > h
      BY <1>2, <2>4
    <3>3. z[j][l] = z[big][q]
      BY <1>7, <3>1, <3>2
    <3>4. j = big /\ l = q
      <4> HIDE DEF Stays, Goes, m
      <4> QED BY SMTT(60), <1>6, <3>1, <3>3 DEF m
    <3> QED BY <1>3, <1>5, <3>1, <3>2, <3>4
  <2> HIDE DEF Stays, Goes
  <2> QED BY <1>5, <2>1, <2>2, <2>3, <2>4
<1>8. ASSUME NEW o \in 1..n PROVE \E j \in 1..m : \E k \in 1..Len(y[j]) : y[j][k] = o
  <2>1. PICK i \in 1..m : \E k \in 1..Len(z[i]) : z[i][k] = o
    BY DEF Deals, HasOrder
  <2>2. PICK k \in 1..Len(z[i]) : z[i][k] = o
    BY <2>1
  <2>3. k \in Nat /\ k >= 1 /\ k <= Len(z[i])
    BY <1>1
  <2>4. CASE i # big /\ i # small
    <3>1. y[i] = z[i]
      BY <1>4, <2>4
    <3>2. k \in 1..Len(y[i]) /\ y[i][k] = o
      BY <2>2, <3>1
    <3> QED BY <3>2
  <2>5. CASE i = small
    <3>1. k \in Nat /\ k >= 1 /\ k <= s /\ h \in Nat /\ h <= b
      <4>1. Len(z[i]) = s
        BY <1>2, <2>5
      <4> QED BY <1>3, <2>3, <4>1
    <3>2. k \in 1..s /\ k \in 1..(s + b - h)
      BY <3>1
    <3>3. k \in 1..Len(y[small]) /\ y[small][k] = o
      BY <1>3, <2>2, <2>5, <3>2
    <3> QED BY <3>3
  <2>6. CASE i = big /\ k <= h
    <3>1. k \in 1..h
      BY <2>3, <2>6
    <3>2. k \in 1..Len(y[big]) /\ y[big][k] = o
      BY <1>3, <2>2, <2>6, <3>1
    <3> QED BY <3>2
  <2>7. CASE i = big /\ k > h
    <3>1. PICK p \in Nat : p = s + k - h
      BY <1>3, <2>3, <2>7
    <3>2. k <= b
      BY <1>2, <2>3, <2>7
    <3>3. p \in (s + 1)..(s + b - h) /\ p \in 1..(s + b - h) /\ h + p - s = k
      BY <1>3, <2>3, <2>7, <3>1, <3>2
    <3>4. p \in 1..Len(y[small]) /\ y[small][p] = o
      BY <1>3, <2>2, <2>7, <3>3
    <3> QED BY <3>4
  <2> QED BY <1>3, <2>3, <2>4, <2>5, <2>6, <2>7
<1>9. Len(y) = m
  BY DEF TailGoes
<1> QED BY <1>7, <1>8, <1>9 DEF Deals, OnceEach, HasOrder

\* With fewer zones than orders the longest has two at least.
LEMMA LongestHasTwo ==
  ASSUME NEW n \in Nat, NEW z, Deals(z, n), z # <<>>, Len(z) < n
  PROVE  Len(z[Longest(z)]) > 1
<1> SUFFICES ASSUME ~(Len(z[Longest(z)]) > 1) PROVE FALSE
  OBVIOUS
<1>1. z \in Seq(Seq(1..n)) /\ Len(z) \in Nat
  BY LenProperties DEF Deals
<1>2. \A j \in 1..Len(z) : Len(z[j]) \in Nat
  BY <1>1, LenProperties, ElementOfSeq
<1>3. \A j \in 1..Len(z) : Len(z[j]) <= 1
  BY <1>1, <1>2, LongestAndShortest
<1> DEFINE zone(o) == CHOOSE i \in 1..Len(z) : \E k \in 1..Len(z[i]) : z[i][k] = o
           at      == [o \in 1..n |-> zone(o)]
<1>4. \A o \in 1..n : zone(o) \in 1..Len(z) /\ \E k \in 1..Len(z[zone(o)]) : z[zone(o)][k] = o
  <2>1. \A o \in 1..n : \E i \in 1..Len(z) : \E k \in 1..Len(z[i]) : z[i][k] = o
    BY DEF Deals, HasOrder
  <2> QED BY <2>1
<1> HIDE DEF zone
<1>5. at \in [1..n -> 1..Len(z)] /\ \A o \in 1..n : at[o] = zone(o)
  BY <1>4
<1> HIDE DEF at
<1>6. ASSUME NEW o \in 1..n PROVE z[zone(o)][1] = o
  <2>1. PICK k \in 1..Len(z[zone(o)]) : z[zone(o)][k] = o
    BY <1>4
  <2>2. Len(z[zone(o)]) \in Nat /\ Len(z[zone(o)]) <= 1
    BY <1>2, <1>3, <1>4
  <2>3. k = 1
    BY <2>2
  <2> QED BY <2>1, <2>3
<1>7. \E o, p \in 1..n : o # p /\ at[o] = at[p]
  <2>1. IsFiniteSet(1..n) /\ Cardinality(1..n) = n
    BY FS_Interval
  <2>2. IsFiniteSet(1..Len(z)) /\ Cardinality(1..Len(z)) = Len(z)
    <3>1. IsFiniteSet(1..Len(z)) /\ Cardinality(1..Len(z)) = IF 1 > Len(z) THEN 0 ELSE Len(z) - 1 + 1
      BY <1>1, FS_Interval
    <3>2. (IF 1 > Len(z) THEN 0 ELSE Len(z) - 1 + 1) = Len(z)
      BY <1>1
    <3> QED BY <3>1, <3>2
  <2> QED BY <1>5, <2>1, <2>2, FS_PigeonHole
<1> QED BY <1>5, <1>6, <1>7

\* Splitting the largest zone makes one zone more.
LEMMA SplitDeals ==
  ASSUME NEW n \in Nat, NEW z, Deals(z, n), NoneEmpty(z), z # <<>>, Len(z) < n
  PROVE  /\ Deals(SplitLargest(z), n) /\ NoneEmpty(SplitLargest(z)) /\ Len(SplitLargest(z)) = Len(z) + 1
<1> DEFINE i == Longest(z)
           zone == z[i]
           m == Len(z)
           len == Len(zone)
           half == len \div 2
           head == SubSeq(zone, 1, half)
           tail == SubSeq(zone, half + 1, len)
           y == Append([z EXCEPT ![i] = head], tail)
           x == Append(z, <<>>)
<1>1. z \in Seq(Seq(1..n)) /\ m \in Nat /\ i \in 1..m /\ zone \in Seq(1..n) /\ len \in Nat /\ len > 1
  <2>1. z \in Seq(Seq(1..n)) /\ m \in Nat /\ i \in 1..m
    BY LongestAndShortest, LenProperties DEF Deals
  <2>2. zone \in Seq(1..n)
    BY <2>1, ElementOfSeq
  <2> QED BY <2>1, <2>2, LongestHasTwo, LenProperties
<1>2. SplitLargest(z) = y
  <2>1. ~(len <= 1)
    BY <1>1
  <2> QED BY <2>1 DEF SplitLargest
<1>0. m = Len(z) /\ zone = z[i] /\ len = Len(zone)
  OBVIOUS
<1> HIDE DEF i, zone, m, len
<1>3. half \in 1..(len - 1)
  BY <1>1
<1> HIDE DEF half
<1>4. /\ head \in Seq(1..n) /\ Len(head) = half /\ \A k \in 1..half : head[k] = zone[k]
      /\ tail \in Seq(1..n) /\ Len(tail) = len - half /\ \A k \in 1..(len - half) : tail[k] = zone[half + k]
  <2>1. \A k \in 1..len : zone[k] \in 1..n
    BY <1>0, <1>1, ElementOfSeq
  <2>2. (\A k \in 1..half : zone[k] \in 1..n) /\ (\A k \in (half + 1)..len : zone[k] \in 1..n)
    BY <1>1, <1>3, <2>1
  <2>3. half \in Int /\ len \in Int /\ 1 \in Int /\ half + 1 \in Int /\ 1 <= half /\ half + 1 <= len
    BY <1>1, <1>3
  <2>4. head \in Seq(1..n) /\ Len(head) = half - 1 + 1 /\ \A k \in 1..(half - 1 + 1) : head[k] = zone[1 + k - 1]
    BY <2>2, <2>3, SubSeqProperties
  <2>5. tail \in Seq(1..n) /\ Len(tail) = len - (half + 1) + 1
        /\ \A k \in 1..(len - (half + 1) + 1) : tail[k] = zone[(half + 1) + k - 1]
    BY <2>2, <2>3, SubSeqProperties
  <2> HIDE DEF head, tail
  <2>6. half - 1 + 1 = half /\ len - (half + 1) + 1 = len - half
    BY <2>3
  <2>7. \A k \in 1..half : 1 + k - 1 = k
    OBVIOUS
  <2>8. \A k \in 1..(len - half) : (half + 1) + k - 1 = half + k
    BY <2>3
  <2> QED BY <2>4, <2>5, <2>6, <2>7, <2>8
<1> HIDE DEF head, tail
<1>5. /\ x \in Seq(Seq(1..n)) /\ Len(x) = m + 1 /\ x[m + 1] = <<>> /\ \A j \in 1..m : x[j] = z[j]
  <2>1. <<>> \in Seq(1..n)
    BY EmptySeq
  <2> QED BY <1>0, <1>1, <2>1, AppendProperties
<1>6. /\ y \in Seq(Seq(1..n)) /\ Len(y) = m + 1 /\ y[m + 1] = tail /\ y[i] = head
      /\ \A j \in 1..m : j # i => y[j] = z[j]
  <2> DEFINE e == [z EXCEPT ![i] = head]
  <2>1. e \in Seq(Seq(1..n)) /\ Len(e) = m /\ \A j \in 1..m : e[j] = IF j = i THEN head ELSE z[j]
    BY <1>0, <1>1, <1>4, ExceptSeq
  <2> HIDE DEF e
  <2>2. /\ Append(e, tail) \in Seq(Seq(1..n)) /\ Len(Append(e, tail)) = m + 1 /\ Append(e, tail)[m + 1] = tail
        /\ \A j \in 1..m : Append(e, tail)[j] = e[j]
    BY <1>4, <2>1, AppendProperties
  <2> QED BY <1>1, <2>1, <2>2 DEF e
<1> HIDE DEF x, y
<1>7. Deals(x, n)
  <2>0. Len(x[m + 1]) = 0
    BY <1>5
  <2>1. (\A j \in 1..(m + 1) : j = m + 1 \/ j \in 1..m) /\ (\A j \in 1..m : j \in 1..(m + 1))
    BY <1>1
  <2>2. OnceEach(x)
    <3> SUFFICES ASSUME NEW j \in 1..(m + 1), NEW k \in 1..(m + 1), NEW a \in 1..Len(x[j]), NEW b \in 1..Len(x[k]), x[j][a] = x[k][b]
                 PROVE  j = k /\ a = b
      BY <1>5 DEF OnceEach
    <3>1. j \in 1..m /\ k \in 1..m
      BY <2>0, <2>1
    <3>2. x[j] = z[j] /\ x[k] = z[k]
      BY <1>5, <3>1
    <3> QED BY <1>0, <3>1, <3>2 DEF Deals, OnceEach
  <2>3. ASSUME NEW o \in 1..n PROVE HasOrder(x, o)
    <3>0. PICK j \in 1..m : \E k \in 1..Len(z[j]) : z[j][k] = o
      BY <1>0 DEF Deals, HasOrder
    <3>1. PICK k \in 1..Len(z[j]) : z[j][k] = o
      BY <3>0
    <3>2. j \in 1..Len(x) /\ x[j] = z[j]
      BY <1>5, <2>1
    <3> QED BY <3>1, <3>2 DEF HasOrder
  <2> QED BY <1>5, <2>2, <2>3 DEF Deals
<1>8. Deals(y, n)
  <2>1. i \in 1..(m + 1) /\ m + 1 \in 1..(m + 1) /\ i # m + 1 /\ x[i] = zone /\ Len(x[m + 1]) = 0
    BY <1>0, <1>1, <1>5
  <2>2. Len(x[i]) = len /\ Len(y[i]) = half /\ Len(y[m + 1]) = 0 + len - half /\ half \in 0..len
    BY <1>0, <1>1, <1>3, <1>4, <1>6, <2>1
  <2>3. ASSUME NEW j \in 1..(m + 1), j # i, j # m + 1 PROVE y[j] = x[j]
    <3>1. j \in 1..m
      BY <1>1, <2>3
    <3> QED BY <1>5, <1>6, <2>3, <3>1
  <2>4. \A k \in 1..half : y[i][k] = x[i][k]
    BY <1>4, <1>6, <2>1
  <2>5. ASSUME NEW k \in (0 + 1)..(0 + len - half) PROVE y[m + 1][k] = x[i][half + k - 0]
    <3>1. k \in 1..(len - half) /\ half + k - 0 = half + k
      BY <1>1, <1>3
    <3> QED BY <1>4, <1>6, <2>1, <3>1
  <2>6. TailGoes(x, i, m + 1, half, y)
    BY <1>5, <1>6, <2>1, <2>2, <2>3, <2>4, <2>5 DEF TailGoes
  <2> QED BY <1>5, <1>6, <1>7, <2>1, <2>2, <2>6, TailMoves
<1>9. NoneEmpty(y)
  <2> SUFFICES ASSUME NEW j \in 1..(m + 1) PROVE Len(y[j]) > 0
    BY <1>6 DEF NoneEmpty
  <2>1. CASE j = i
    BY <1>1, <1>3, <1>4, <1>6, <2>1
  <2>2. CASE j = m + 1
    BY <1>1, <1>3, <1>4, <1>6, <2>2
  <2>3. CASE j \in 1..m /\ j # i
    <3>1. y[j] = z[j]
      BY <1>6, <2>3
    <3> QED BY <1>0, <2>3, <3>1 DEF NoneEmpty
  <2> QED BY <1>1, <2>1, <2>2, <2>3
<1> QED BY <1>0, <1>2, <1>6, <1>8, <1>9

\* The least of three numbers is a number.
LEMMA LeastOfThree ==
  ASSUME NEW a \in Int, NEW b \in Int, NEW c \in Int
  PROVE  Min({a, b, c}) \in Int
<1>1. \E x \in {a, b, c} : \A y \in {a, b, c} : x <= y
  <2>1. CASE a <= b /\ a <= c
    BY <2>1
  <2>2. CASE b <= a /\ b <= c
    BY <2>2
  <2>3. CASE c <= a /\ c <= b
    BY <2>3
  <2> QED BY <2>1, <2>2, <2>3
<1> QED BY <1>1 DEF Min

\* A round that evens the zones out leaves as many, and none of them empty.
LEMMA EvenOutDeals ==
  ASSUME NEW n \in Nat, NEW z, Deals(z, n), NoneEmpty(z), z # <<>>
  PROVE  /\ Deals(EvenOut(z), n) /\ NoneEmpty(EvenOut(z)) /\ Len(EvenOut(z)) = Len(z)
<1> DEFINE big   == Longest(z)
           small == Shortest(z)
           m     == Len(z)
           most  == Len(z[big])
           least == Len(z[small])
           all   == FoldFunction(+, 0, [i \in DOMAIN z |-> Len(z[i])])
           high  == (6 * all + 5 * Len(z) - 1) \div (5 * Len(z))
           low   == (4 * all) \div (5 * Len(z))
           moved == Min({most - high, low - least, (most - least) \div 2})
           h     == most - moved
           head  == SubSeq(z[big], 1, most - moved)
           tail  == SubSeq(z[big], most - moved + 1, most)
           y     == [z EXCEPT ![big] = head, ![small] = @ \o tail]
<1>1. EvenOut(z) = z \/ (EvenOut(z) = y /\ ~(most <= 2 * least) /\ ~(moved <= 0) /\ ~(most <= moved))
  BY DEF EvenOut
<1>2. z \in Seq(Seq(1..n)) /\ m \in Nat \ {0} /\ DOMAIN z = 1..m /\ big \in 1..m /\ small \in 1..m
  BY LongestAndShortest, LenProperties, EmptySeq DEF Deals
<1>3. /\ z[big] \in Seq(1..n) /\ z[small] \in Seq(1..n) /\ most \in Nat /\ least \in Nat
      /\ \A j \in 1..m : Len(z[j]) \in Nat
  BY <1>2, ElementOfSeq, LenProperties
<1>4. moved \in Int
  <2> DEFINE f == [i \in DOMAIN z |-> Len(z[i])]
  <2>1. all \in Int
    <3>1. f \in [1..m -> Int] /\ IsFiniteSet(1..m)
      BY <1>2, <1>3, FS_Interval
    <3>2. all = SumOf(f)
      BY DEF SumOf
    <3> HIDE DEF f, all
    <3>3. PICK it \in [SUBSET (1..m) -> Int] : SumOf(f) = it[1..m]
      BY <3>1, FoldIsSum
    <3> QED BY <3>2, <3>3
  <2> HIDE DEF all
  <2>2. \A p \in Int, q \in Nat \ {0} : p \div q \in Int
    OBVIOUS
  <2>3. 6 * all + 5 * Len(z) - 1 \in Int /\ 4 * all \in Int /\ 5 * Len(z) \in Nat \ {0} /\ most - least \in Int
    BY <1>2, <1>3, <2>1
  <2>4. high \in Int /\ low \in Int /\ (most - least) \div 2 \in Int
    BY <2>2, <2>3
  <2> HIDE DEF high, low
  <2>5. most - high \in Int /\ low - least \in Int
    BY <1>3, <2>4
  <2> QED BY <2>4, <2>5, LeastOfThree
<1> HIDE DEF moved
<1>5. CASE EvenOut(z) = y /\ ~(most <= 2 * least) /\ ~(moved <= 0) /\ ~(most <= moved)
  <2>1. h \in 1..(most - 1) /\ big # small /\ most - h = moved
    BY <1>3, <1>4, <1>5
  <2> HIDE DEF h
  <2>2. /\ head \in Seq(1..n) /\ Len(head) = h /\ \A k \in 1..h : head[k] = z[big][k]
        /\ tail \in Seq(1..n) /\ Len(tail) = most - h /\ \A k \in 1..(most - h) : tail[k] = z[big][h + k]
    <3>0. head = SubSeq(z[big], 1, h) /\ tail = SubSeq(z[big], h + 1, most)
      BY DEF h
    <3>1. \A k \in 1..most : z[big][k] \in 1..n
      BY <1>3, ElementOfSeq
    <3> HIDE DEF most, big, head, tail
    <3>2. (\A k \in 1..h : z[big][k] \in 1..n) /\ (\A k \in (h + 1)..most : z[big][k] \in 1..n)
      <4>1. \A k \in 1..h : k \in 1..most
        BY <1>3, <2>1
      <4>2. \A k \in (h + 1)..most : k \in 1..most
        BY <1>3, <2>1
      <4> QED BY <3>1, <4>1, <4>2
    <3>3. h \in Int /\ most \in Int /\ 1 \in Int /\ h + 1 \in Int /\ 1 <= h /\ h + 1 <= most
      BY <1>3, <2>1
    <3>4. SubSeq(z[big], 1, h) \in Seq(1..n) /\ Len(SubSeq(z[big], 1, h)) = h - 1 + 1
          /\ \A k \in 1..(h - 1 + 1) : SubSeq(z[big], 1, h)[k] = z[big][1 + k - 1]
      BY <3>2, <3>3, SubSeqProperties
    <3>5. SubSeq(z[big], h + 1, most) \in Seq(1..n) /\ Len(SubSeq(z[big], h + 1, most)) = most - (h + 1) + 1
          /\ \A k \in 1..(most - (h + 1) + 1) : SubSeq(z[big], h + 1, most)[k] = z[big][(h + 1) + k - 1]
      BY <3>2, <3>3, SubSeqProperties
    <3>6. h - 1 + 1 = h /\ most - (h + 1) + 1 = most - h
      BY <3>3
    <3>7. \A k \in 1..h : 1 + k - 1 = k
      OBVIOUS
    <3>8. \A k \in 1..(most - h) : (h + 1) + k - 1 = h + k
      BY <3>3
    <3> QED BY <3>0, <3>4, <3>5, <3>6, <3>7, <3>8
  <2>3. most = Len(z[big]) /\ least = Len(z[small]) /\ m = Len(z)
    OBVIOUS
  <2>4. least > 0
    BY <1>2, <1>3 DEF NoneEmpty
  <2> HIDE DEF head, tail, most, least, big, small, m
  <2> DEFINE joined == z[small] \o tail
             e      == [z EXCEPT ![big] = head]
  <2>5. /\ joined \in Seq(1..n) /\ Len(joined) = least + most - h
        /\ \A k \in 1..least : joined[k] = z[small][k]
        /\ \A k \in (least + 1)..(least + most - h) : joined[k] = z[big][h + k - least]
    <3>1. /\ joined \in Seq(1..n) /\ Len(joined) = least + (most - h)
          /\ \A k \in 1..(least + (most - h)) : joined[k] = IF k <= least THEN z[small][k] ELSE tail[k - least]
      <4>1. /\ joined \in Seq(1..n) /\ Len(joined) = Len(z[small]) + Len(tail)
            /\ \A k \in 1..(Len(z[small]) + Len(tail)) :
                 joined[k] = IF k <= Len(z[small]) THEN z[small][k] ELSE tail[k - Len(z[small])]
        BY ZenonT(120), <1>3, <2>2, ConcatProperties
      <4> QED BY <2>2, <2>3, <4>1
    <3> HIDE DEF joined
    <3>2. ASSUME NEW k \in 1..least PROVE joined[k] = z[small][k]
      <4>1. k \in 1..(least + (most - h)) /\ k <= least
        BY <1>3, <2>1
      <4> QED BY <3>1, <4>1
    <3>3. ASSUME NEW k \in (least + 1)..(least + most - h) PROVE joined[k] = z[big][h + k - least]
      <4>1. k \in 1..(least + (most - h)) /\ ~(k <= least) /\ k - least \in 1..(most - h)
        BY <1>3, <2>1
      <4>2. h + (k - least) = h + k - least
        BY <1>3, <2>1
      <4> QED BY <2>2, <3>1, <4>1, <4>2
    <3>4. least + (most - h) = least + most - h
      BY <1>3, <2>1
    <3> QED BY <3>1, <3>2, <3>3, <3>4
  <2>6. e \in Seq(Seq(1..n)) /\ Len(e) = m /\ \A j \in 1..m : e[j] = IF j = big THEN head ELSE z[j]
    BY <1>2, <2>2, <2>3, ExceptSeq
  <2>7. e[small] = z[small]
    BY <1>2, <2>1, <2>6
  <2>8. y = [e EXCEPT ![small] = joined]
    BY <2>7
  <2> HIDE DEF e, joined, y
  <2>9. /\ y \in Seq(Seq(1..n)) /\ Len(y) = m
        /\ \A j \in 1..m : y[j] = IF j = small THEN joined ELSE e[j]
    BY <1>2, <2>5, <2>6, <2>8, ExceptSeq
  <2>10. y[big] = head /\ y[small] = joined /\ \A j \in 1..m : j # big /\ j # small => y[j] = z[j]
    BY <1>2, <2>1, <2>6, <2>9
  <2>11. TailGoes(z, big, small, h, y)
    BY <2>2, <2>3, <2>5, <2>9, <2>10 DEF TailGoes
  <2>12. h \in 0..most
    BY <1>3, <2>1
  <2>13. Deals(y, n)
    BY <1>2, <2>1, <2>3, <2>9, <2>11, <2>12, TailMoves
  <2>14. ASSUME NEW j \in 1..m PROVE Len(y[j]) > 0
    <3>1. CASE j = big
      BY <2>1, <2>2, <2>10, <3>1
    <3>2. CASE j = small
      BY <1>3, <2>1, <2>4, <2>5, <2>10, <3>2
    <3>3. CASE j # big /\ j # small
      <4>1. y[j] = z[j]
        BY <2>10, <3>3
      <4> QED BY <2>3, <4>1 DEF NoneEmpty
    <3> QED BY <3>1, <3>2, <3>3
  <2> QED BY <1>5, <2>3, <2>9, <2>13, <2>14 DEF NoneEmpty
<1> QED BY <1>1, <1>5

\* The ways to deal out n orders into m zones, none of them empty.
Dealt(n, m) == {z \in Seq(Seq(1..n)) : Deals(z, n) /\ NoneEmpty(z) /\ Len(z) = m}

\* The loop that splits ends with a zone more for each round.
LEMMA SplitUpDeals ==
  ASSUME NEW n \in Nat, NEW m \in Nat \ {0}, NEW missing \in Nat, m + missing <= n, NEW z \in Dealt(n, m)
  PROVE  SplitUp(z, missing) \in Dealt(n, m + missing)
<1> DEFINE N == missing
           W == [k \in 0..N |-> Dealt(n, m + k)]
           d == [k \in 1..N |-> [x \in W[k - 1] |-> SplitLargest(x)]]
           split == CHOOSE f : f = [k \in 0..N |-> IF k = 0 THEN z ELSE SplitLargest(f[k - 1])]
<1>1. SplitUp(z, missing) = split[N]
  BY DEF SplitUp
<1>2. \A k \in 0..N : W[k] = Dealt(n, m + k)
  OBVIOUS
<1> HIDE DEF W
<1>3. ASSUME NEW k \in 1..N, NEW x \in W[k - 1] PROVE SplitLargest(x) \in W[k]
  <2>1. k - 1 \in 0..N /\ k \in 0..N /\ m + (k - 1) < n /\ m + (k - 1) # 0 /\ m + (k - 1) + 1 = m + k
    OBVIOUS
  <2>2. x \in Dealt(n, m + (k - 1))
    BY <1>2, <2>1
  <2>3. Deals(x, n) /\ NoneEmpty(x) /\ Len(x) = m + (k - 1) /\ x # <<>>
    <3>1. Len(<<>>) = 0
      OBVIOUS
    <3> QED BY <2>1, <2>2, <3>1 DEF Dealt
  <2>4. Deals(SplitLargest(x), n) /\ NoneEmpty(SplitLargest(x)) /\ Len(SplitLargest(x)) = m + k
    BY <2>1, <2>3, SplitDeals
  <2>5. SplitLargest(x) \in Dealt(n, m + k)
    BY <2>4 DEF Dealt, Deals
  <2> QED BY <1>2, <2>1, <2>5
<1>4. z \in W[0]
  <2>1. 0 \in 0..N /\ m + 0 = m
    OBVIOUS
  <2> QED BY <1>2, <2>1
<1>5. Fits(d, W, N)
  BY <1>3 DEF Fits
<1>6. \A k \in 1..N : \A x \in W[k - 1] : d[k][x] = SplitLargest(x)
  OBVIOUS
<1> HIDE DEF d
<1>7. \E f : f = [k \in 0..N |-> IF k = 0 THEN z ELSE SplitLargest(f[k - 1])]
  <2>1. PICK f : Recurs(f, z, d, N) /\ \A k \in 0..N : f[k] \in W[k]
    BY <1>4, <1>5, RecursionExists
  <2>2. f = [k \in 0..N |-> IF k = 0 THEN z ELSE d[k][f[k - 1]]]
    BY <2>1 DEF Recurs
  <2>3. \A k \in 0..N : k # 0 => d[k][f[k - 1]] = SplitLargest(f[k - 1])
    <3>1. \A k \in 0..N : k # 0 => k \in 1..N /\ k - 1 \in 0..N
      OBVIOUS
    <3> QED BY <1>6, <2>1, <3>1
  <2>4. f = [k \in 0..N |-> IF k = 0 THEN z ELSE SplitLargest(f[k - 1])]
    BY <2>2, <2>3
  <2> QED BY <2>4
<1>8. split = [k \in 0..N |-> IF k = 0 THEN z ELSE SplitLargest(split[k - 1])]
  BY <1>7
<1> HIDE DEF split
<1>9. Follows(split, z, d, W, N)
  <2>1. 0 \in 0..N /\ \A k \in 1..N : k # 0 /\ k \in 0..N
    OBVIOUS
  <2> QED BY <1>6, <1>8, <2>1 DEF Follows
<1>10. \A k \in 0..N : split[k] \in W[k]
  BY <1>4, <1>5, <1>9, RunsThrough
<1>11. N \in 0..N
  OBVIOUS
<1> QED BY <1>1, <1>2, <1>10, <1>11

\* The loop that evens out ends with as many zones as it began with.
LEMMA EvenOutAllDeals ==
  ASSUME NEW n \in Nat, NEW m \in Nat \ {0}, NEW z \in Dealt(n, m)
  PROVE  EvenOutAll(z) \in Dealt(n, m)
<1> DEFINE N == BalanceRounds
           W == [k \in 0..N |-> Dealt(n, m)]
           d == [k \in 1..N |-> [x \in W[k - 1] |-> EvenOut(x)]]
           even == CHOOSE f : f = [k \in 0..N |-> IF k = 0 THEN z ELSE EvenOut(f[k - 1])]
<1>0. N \in Nat
  BY DEF BalanceRounds
<1>1. EvenOutAll(z) = even[N]
  BY DEF EvenOutAll
<1> HIDE DEF N
<1>2. \A k \in 0..N : W[k] = Dealt(n, m)
  OBVIOUS
<1> HIDE DEF W
<1>3. ASSUME NEW k \in 1..N, NEW x \in W[k - 1] PROVE EvenOut(x) \in W[k]
  <2>1. k - 1 \in 0..N /\ k \in 0..N
    BY <1>0
  <2>2. x \in Dealt(n, m)
    BY <1>2, <2>1
  <2>3. Deals(x, n) /\ NoneEmpty(x) /\ Len(x) = m /\ x # <<>>
    <3>1. Len(<<>>) = 0
      OBVIOUS
    <3> QED BY <2>2, <3>1 DEF Dealt
  <2>4. Deals(EvenOut(x), n) /\ NoneEmpty(EvenOut(x)) /\ Len(EvenOut(x)) = m
    BY <2>3, EvenOutDeals
  <2>5. EvenOut(x) \in Dealt(n, m)
    BY <2>4 DEF Dealt, Deals
  <2> QED BY <1>2, <2>1, <2>5
<1>4. z \in W[0]
  <2>1. 0 \in 0..N
    BY <1>0
  <2> QED BY <1>2, <2>1
<1>5. Fits(d, W, N)
  BY <1>3 DEF Fits
<1>6. \A k \in 1..N : \A x \in W[k - 1] : d[k][x] = EvenOut(x)
  OBVIOUS
<1> HIDE DEF d
<1>7. \E f : f = [k \in 0..N |-> IF k = 0 THEN z ELSE EvenOut(f[k - 1])]
  <2>1. PICK f : Recurs(f, z, d, N) /\ \A k \in 0..N : f[k] \in W[k]
    BY <1>0, <1>4, <1>5, RecursionExists
  <2>2. f = [k \in 0..N |-> IF k = 0 THEN z ELSE d[k][f[k - 1]]]
    BY <2>1 DEF Recurs
  <2>3. \A k \in 0..N : k # 0 => d[k][f[k - 1]] = EvenOut(f[k - 1])
    <3>1. \A k \in 0..N : k # 0 => k \in 1..N /\ k - 1 \in 0..N
      BY <1>0
    <3> QED BY <1>6, <2>1, <3>1
  <2>4. f = [k \in 0..N |-> IF k = 0 THEN z ELSE EvenOut(f[k - 1])]
    BY <2>2, <2>3
  <2> QED BY <2>4
<1>8. even = [k \in 0..N |-> IF k = 0 THEN z ELSE EvenOut(even[k - 1])]
  BY <1>7
<1> HIDE DEF even
<1>9. Follows(even, z, d, W, N)
  <2>1. 0 \in 0..N /\ \A k \in 1..N : k # 0 /\ k \in 0..N
    BY <1>0
  <2> QED BY ZenonT(60), <1>6, <1>8, <2>1 DEF Follows
<1>10. \A k \in 0..N : even[k] \in W[k]
  BY <1>0, <1>4, <1>5, <1>9, RunsThrough
<1>11. N \in 0..N
  BY <1>0
<1> QED BY <1>1, <1>2, <1>10, <1>11

-----------------------------------------------------------------------------
\* Zones that are none of them empty and hold what the first i zones of z hold.
Kept(z, n, i) ==
    {y \in Seq(Seq(1..n)) :
       /\ OnceEach(y) /\ NoneEmpty(y) /\ Len(y) <= i
       /\ \A o \in 1..n : HasOrder(y, o) <=> \E j \in 1..i : \E k \in 1..Len(z[j]) : z[j][k] = o
       /\ Len(y) = i => \A j \in 1..i : z[j] # <<>>}

LEMMA KeptGoesOn ==
  ASSUME NEW n \in Nat, NEW z, Deals(z, n), NEW i \in 1..Len(z), NEW y \in Kept(z, n, i - 1)
  PROVE  (IF z[i] = <<>> THEN y ELSE Append(y, z[i])) \in Kept(z, n, i)
<1> DEFINE m == Len(y)
           x == Append(y, z[i])
<1>1. /\ z \in Seq(Seq(1..n)) /\ Len(z) \in Nat /\ z[i] \in Seq(1..n) /\ Len(z[i]) \in Nat /\ i \in Nat
      /\ y \in Seq(Seq(1..n)) /\ m \in Nat
  <2>1. z \in Seq(Seq(1..n)) /\ y \in Seq(Seq(1..n))
    BY DEF Deals, Kept
  <2> QED BY <2>1, ElementOfSeq, LenProperties
<1>2. /\ OnceEach(y) /\ NoneEmpty(y) /\ m <= i - 1
      /\ \A o \in 1..n : HasOrder(y, o) <=> \E j \in 1..(i - 1) : \E k \in 1..Len(z[j]) : z[j][k] = o
      /\ m = i - 1 => \A j \in 1..(i - 1) : z[j] # <<>>
  BY DEF Kept
<1>3. \A j \in 1..i : j = i \/ j \in 1..(i - 1)
  BY <1>1
<1>4. \A j \in 1..(i - 1) : j \in 1..i /\ j # i
  BY <1>1
<1>5. CASE z[i] = <<>>
  <2>1. Len(z[i]) = 0
    BY <1>5
  <2>2. m <= i /\ m # i
    BY <1>1, <1>2
  <2>3. \A o \in 1..n : HasOrder(y, o) <=> \E j \in 1..i : \E k \in 1..Len(z[j]) : z[j][k] = o
    <3>1. \A k : k \notin 1..Len(z[i])
      BY <2>1
    <3> QED BY <1>2, <1>3, <1>4, <3>1
  <2>4. y \in Kept(z, n, i)
    BY <1>1, <1>2, <2>2, <2>3 DEF Kept
  <2> QED BY <1>5, <2>4
<1>6. CASE z[i] # <<>>
  <2>1. /\ x \in Seq(Seq(1..n)) /\ Len(x) = m + 1 /\ x[m + 1] = z[i] /\ \A j \in 1..m : x[j] = y[j]
    BY <1>1, AppendProperties
  <2> HIDE DEF x
  <2>2. \A j \in 1..(m + 1) : j = m + 1 \/ j \in 1..m
    BY <1>1
  <2>2a. \A j \in 1..m : j \in 1..(m + 1)
    BY <1>1
  <2>2b. m + 1 \in 1..(m + 1)
    BY <1>1
  <2>3. Len(z[i]) > 0
    BY <1>1, <1>6, EmptySeq
  <2>4. NoneEmpty(x)
    BY <1>2, <2>1, <2>2, <2>3 DEF NoneEmpty
  \* What is in y is in an earlier zone of z, and in that one alone.
  <2>5. ASSUME NEW j \in 1..m, NEW k \in 1..Len(y[j]), NEW l \in 1..Len(z[i]), y[j][k] = z[i][l] PROVE FALSE
    <3>1. y[j][k] \in 1..n
      BY <1>1, ElementOfSeq
    <3>2. HasOrder(y, y[j][k])
      BY DEF HasOrder
    <3>3. PICK a \in 1..(i - 1) : \E b \in 1..Len(z[a]) : z[a][b] = y[j][k]
      BY <1>2, <3>1, <3>2
    <3>4. PICK b \in 1..Len(z[a]) : z[a][b] = y[j][k]
      BY <3>3
    <3>5. a \in 1..Len(z) /\ a # i /\ z[a][b] = z[i][l]
      <4>1. a \in 1..Len(z) /\ a # i
        <5>1. Len(z) \in Nat /\ i \in Nat /\ i <= Len(z)
          BY <1>1
        <5>2. a \in Nat /\ a >= 1 /\ a <= i - 1
          BY <5>1
        <5> QED BY <5>1, <5>2
      <4> QED BY <2>5, <3>4, <4>1
    <3>6. \A p, q \in 1..Len(z) : \A r \in 1..Len(z[p]), s \in 1..Len(z[q]) : z[p][r] = z[q][s] => p = q /\ r = s
      BY DEF Deals, OnceEach
    <3> QED BY <3>4, <3>5, <3>6
  <2>6. OnceEach(x)
    <3> SUFFICES ASSUME NEW a \in 1..(m + 1), NEW b \in 1..(m + 1), NEW k \in 1..Len(x[a]), NEW l \in 1..Len(x[b]),
                        x[a][k] = x[b][l]
                 PROVE  a = b /\ k = l
      BY <2>1 DEF OnceEach
    <3>1. CASE a \in 1..m /\ b \in 1..m
      <4>1. x[a] = y[a] /\ x[b] = y[b]
        BY <2>1, <3>1
      <4>2. \A p, q \in 1..m : \A r \in 1..Len(y[p]), s \in 1..Len(y[q]) : y[p][r] = y[q][s] => p = q /\ r = s
        BY <1>2 DEF OnceEach
      <4>3. k \in 1..Len(y[a]) /\ l \in 1..Len(y[b]) /\ y[a][k] = y[b][l]
        BY <4>1
      <4> HIDE DEF m
      <4> QED BY <3>1, <4>2, <4>3
    <3>2. CASE a = m + 1 /\ b = m + 1
      <4>0. m + 1 \in Nat
        BY <1>1
      <4>1. x[a] = z[i] /\ x[b] = z[i]
        BY <2>1, <3>2
      <4>2. \A p, q \in 1..Len(z) : \A r \in 1..Len(z[p]), s \in 1..Len(z[q]) : z[p][r] = z[q][s] => p = q /\ r = s
        BY DEF Deals, OnceEach
      <4>3. k = l
        BY <4>1, <4>2
      <4> QED BY <3>2, <4>3
    <3>3. CASE a \in 1..m /\ b = m + 1
      <4>1. x[a] = y[a] /\ x[b] = z[i]
        BY <2>1, <3>3
      <4> QED BY <2>5, <3>3, <4>1
    <3>4. CASE a = m + 1 /\ b \in 1..m
      <4>1. x[b] = y[b] /\ x[a] = z[i]
        BY <2>1, <3>4
      <4>2. y[b][l] = z[i][k]
        BY <4>1
      <4> QED BY <2>5, <3>4, <4>1, <4>2
    <3> QED BY <2>2, <3>1, <3>2, <3>3, <3>4
  <2>7. ASSUME NEW o \in 1..n
        PROVE  HasOrder(x, o) <=> \E j \in 1..i : \E k \in 1..Len(z[j]) : z[j][k] = o
    <3>1. HasOrder(x, o) <=> HasOrder(y, o) \/ \E k \in 1..Len(z[i]) : z[i][k] = o
      <4>1. HasOrder(y, o) => HasOrder(x, o)
        BY <2>1, <2>2a DEF HasOrder
      <4>2. (\E k \in 1..Len(z[i]) : z[i][k] = o) => HasOrder(x, o)
        BY <2>1, <2>2b DEF HasOrder
      <4>3. HasOrder(x, o) => HasOrder(y, o) \/ \E k \in 1..Len(z[i]) : z[i][k] = o
        BY <2>1, <2>2 DEF HasOrder
      <4> QED BY <4>1, <4>2, <4>3
    <3>2. HasOrder(y, o) <=> \E j \in 1..(i - 1) : \E k \in 1..Len(z[j]) : z[j][k] = o
      BY <1>2
    <3>3. i \in 1..i
      BY <1>1
    <3> QED BY <1>3, <1>4, <3>1, <3>2, <3>3
  <2>8. Len(x) <= i /\ (Len(x) = i => \A j \in 1..i : z[j] # <<>>)
    <3>1. m + 1 <= i /\ (m + 1 = i => m = i - 1)
      BY <1>1, <1>2
    <3> QED BY <1>2, <1>3, <1>6, <2>1, <3>1
  <2>9. x \in Kept(z, n, i)
    BY <2>1, <2>4, <2>6, <2>7, <2>8 DEF Kept
  <2> QED BY <1>6, <2>9 DEF x
<1> QED BY <1>5, <1>6

\* The zones that are not empty hold every order; if they are as many, none was.
LEMMA FilledDeals ==
  ASSUME NEW n \in Nat, NEW z, Deals(z, n)
  PROVE  /\ Deals(Filled(z), n) /\ NoneEmpty(Filled(z)) /\ Len(Filled(z)) <= Len(z)
         /\ Len(Filled(z)) = Len(z) => NoneEmpty(z)
<1> DEFINE N == Len(z)
           Keep(i, y) == IF z[i] = <<>> THEN y ELSE Append(y, z[i])
           W == [i \in 0..N |-> Kept(z, n, i)]
           d == [i \in 1..N |-> [y \in W[i - 1] |-> Keep(i, y)]]
           kept == CHOOSE f : f = [i \in 0..N |-> IF i = 0 THEN <<>> ELSE Keep(i, f[i - 1])]
<1>0. N \in Nat /\ z \in Seq(Seq(1..n))
  BY LenProperties DEF Deals
<1>1. Filled(z) = kept[N]
  BY DEF Filled
<1>2. \A i \in 0..N : W[i] = Kept(z, n, i)
  OBVIOUS
<1> HIDE DEF W
<1>3. ASSUME NEW i \in 1..N, NEW y \in W[i - 1] PROVE Keep(i, y) \in W[i]
  <2>1. i - 1 \in 0..N /\ i \in 0..N
    BY <1>0
  <2> QED BY <1>2, <2>1, KeptGoesOn
<1> HIDE DEF Keep, N
<1>4. <<>> \in W[0]
  <2>1. 0 \in 0..N
    BY <1>0
  <2>2. <<>> \in Seq(Seq(1..n)) /\ Len(<<>>) = 0
    BY EmptySeq
  <2>3. \A j : j \notin 1..0
    OBVIOUS
  <2>4. ASSUME NEW e \in Seq(Seq(1..n)), Len(e) = 0 PROVE e \in Kept(z, n, 0)
    <3>1. OnceEach(e) /\ NoneEmpty(e) /\ \A o \in 1..n : ~HasOrder(e, o)
      BY <2>3, <2>4 DEF OnceEach, NoneEmpty, HasOrder
    <3> QED BY <2>3, <2>4, <3>1 DEF Kept
  <2>5. <<>> \in Kept(z, n, 0)
    BY <2>2, <2>4
  <2> QED BY <1>2, <2>1, <2>5
<1>5. Fits(d, W, N)
  BY <1>3 DEF Fits
<1>6. \A i \in 1..N : \A y \in W[i - 1] : d[i][y] = Keep(i, y)
  OBVIOUS
<1> HIDE DEF d
<1>7. \E f : f = [i \in 0..N |-> IF i = 0 THEN <<>> ELSE Keep(i, f[i - 1])]
  <2>1. PICK f : Recurs(f, <<>>, d, N) /\ \A i \in 0..N : f[i] \in W[i]
    BY <1>0, <1>4, <1>5, RecursionExists
  <2>2. f = [i \in 0..N |-> IF i = 0 THEN <<>> ELSE d[i][f[i - 1]]]
    BY <2>1 DEF Recurs
  <2>3. \A i \in 0..N : i # 0 => d[i][f[i - 1]] = Keep(i, f[i - 1])
    <3>1. \A i \in 0..N : i # 0 => i \in 1..N /\ i - 1 \in 0..N
      BY <1>0
    <3> QED BY <1>6, <2>1, <3>1
  <2>4. f = [i \in 0..N |-> IF i = 0 THEN <<>> ELSE Keep(i, f[i - 1])]
    BY <2>2, <2>3
  <2> QED BY <2>4
<1>8. kept = [i \in 0..N |-> IF i = 0 THEN <<>> ELSE Keep(i, kept[i - 1])]
  BY <1>7
<1> HIDE DEF kept
<1>9. Follows(kept, <<>>, d, W, N)
  <2>1. 0 \in 0..N /\ \A i \in 1..N : i # 0 /\ i \in 0..N
    BY <1>0
  <2> QED BY <1>6, <1>8, <2>1 DEF Follows
<1>10. kept[N] \in Kept(z, n, N)
  <2>1. \A i \in 0..N : kept[i] \in W[i]
    BY <1>0, <1>4, <1>5, <1>9, RunsThrough
  <2>2. N \in 0..N
    BY <1>0
  <2> QED BY <1>2, <2>1, <2>2
<1> DEFINE y == kept[N]
<1>11. Filled(z) = y /\ N = Len(z)
  BY <1>1 DEF N
<1> HIDE DEF y
<1>12. y \in Kept(z, n, N)
  BY <1>10 DEF y
<1>13. \A o \in 1..n : HasOrder(y, o)
  BY <1>11, <1>12 DEF Kept, Deals, HasOrder
<1>14. Deals(y, n) /\ NoneEmpty(y) /\ Len(y) <= N
  BY <1>12, <1>13 DEF Kept, Deals
<1>15. Len(y) = N => NoneEmpty(z)
  <2> SUFFICES ASSUME Len(y) = N, NEW i \in 1..N PROVE Len(z[i]) > 0
    BY <1>11 DEF NoneEmpty
  <2>1. z[i] # <<>> /\ z[i] \in Seq(1..n)
    BY <1>0, <1>11, <1>12, ElementOfSeq DEF Kept
  <2> QED BY <2>1, EmptySeq
<1> QED BY <1>11, <1>14, <1>15

-----------------------------------------------------------------------------
(* Plans. *)

\* Whatever K-means returns deals the orders out, some zones perhaps empty.
LEMMA ClusteringsDeal ==
  ASSUME NEW n \in Nat, NEW slots \in Nat \ {0}, NEW z \in Clusterings(n, slots)
  PROVE  Deals(z, n) /\ Len(z) = slots
<1> DEFINE First(e, i) == IF i = 1 THEN 1 ELSE e[i - 1] + 1
           Zone(e, i) == [k \in 1..(e[i] - First(e, i) + 1) |-> First(e, i) + k - 1]
<1>1. PICK e \in [1..slots -> 0..n] : /\ e[slots] = n /\ \A i \in 2..slots : e[i - 1] <= e[i]
                                      /\ z = [i \in 1..slots |-> Zone(e, i)]
  BY DEF Clusterings
<1> DEFINE b(i) == IF i = 1 THEN 0 ELSE e[i - 1]
<1>2. ASSUME NEW i \in 1..slots PROVE b(i) \in Nat /\ e[i] \in Nat /\ e[i] <= n /\ b(i) <= e[i] /\ First(e, i) = b(i) + 1
  <2>1. CASE i = 1
    BY <2>1
  <2>2. CASE i # 1
    <3>1. i - 1 \in 1..slots /\ i \in 2..slots
      BY <2>2
    <3>2. e[i - 1] <= e[i]
      BY <1>1, <3>1
    <3> QED BY <2>2, <3>1, <3>2
  <2> QED BY <2>1, <2>2
<1>3. ASSUME NEW i \in 1..slots PROVE \A j \in 0..slots : i < j => e[i] <= b(j)
  <2> DEFINE T == {j \in 0..slots : i < j => e[i] <= b(j)}
  <2>1. 0 \in T
    OBVIOUS
  <2>2. ASSUME NEW j \in 0..slots, j \in T, j + 1 <= slots PROVE j + 1 \in T
    <3>1. j + 1 \in 0..slots /\ (j + 1) - 1 = j
      BY <2>2
    <3>2. CASE i = j
      <4>1. b(j + 1) = e[i] /\ e[i] \in Nat
        BY <1>2, <3>1, <3>2
      <4>2. e[i] <= b(j + 1)
        BY <4>1
      <4> QED BY <3>1, <4>2
    <3>3. CASE i < j
      <4>1. j \in 1..slots /\ j + 1 # 1
        BY <2>2, <3>3
      <4>2. b(j + 1) = e[j]
        BY <3>1, <4>1
      <4>3. e[i] <= b(j) /\ b(j) <= e[j] /\ e[i] \in Nat /\ b(j) \in Nat /\ e[j] \in Nat
        BY <1>2, <2>2, <3>3, <4>1
      <4> HIDE DEF b
      <4>4. e[i] <= b(j + 1)
        BY <4>2, <4>3
      <4> QED BY <3>1, <4>4
    <3>4. CASE ~(i < j + 1)
      BY <3>1, <3>4
    <3> QED BY <3>2, <3>3, <3>4
  <2> HIDE DEF T
  <2>3. \A j \in 0..slots : j \in T
    BY <2>1, <2>2, BoundedInduction
  <2> QED BY <2>3 DEF T
<1> HIDE DEF b
<1>4. ASSUME NEW i \in 1..slots
      PROVE  /\ z[i] \in Seq(1..n) /\ Len(z[i]) = e[i] - b(i) /\ \A k \in 1..(e[i] - b(i)) : z[i][k] = b(i) + k
  <2>1. z[i] = [k \in 1..(e[i] - First(e, i) + 1) |-> First(e, i) + k - 1]
    BY <1>1
  <2>2. First(e, i) = b(i) + 1 /\ b(i) \in Nat /\ e[i] \in Nat /\ e[i] <= n /\ b(i) <= e[i]
    BY <1>2
  <2> HIDE DEF First
  <2>3. e[i] - First(e, i) + 1 = e[i] - b(i) /\ e[i] - b(i) \in Nat
    BY <2>2
  <2>4. \A k \in 1..(e[i] - b(i)) : First(e, i) + k - 1 = b(i) + k /\ b(i) + k \in 1..n
    BY <2>2
  <2>5. z[i] = [k \in 1..(e[i] - b(i)) |-> b(i) + k]
    BY <2>1, <2>3, <2>4
  <2>6. z[i] \in [1..(e[i] - b(i)) -> 1..n]
    BY <2>4, <2>5
  <2>7. z[i] \in Seq(1..n) /\ Len(z[i]) = e[i] - b(i)
    BY SMTT(60), <2>3, <2>5, <2>6
  <2> QED BY <2>5, <2>7
<1>5. z \in Seq(Seq(1..n)) /\ Len(z) = slots
  <2> HIDE DEF Zone
  <2>1. z \in [1..slots -> Seq(1..n)]
    BY <1>1, <1>4
  <2> QED BY <1>1, <2>1
<1>6. ASSUME NEW i \in 1..slots, NEW j \in 1..slots, NEW k \in 1..Len(z[i]), NEW l \in 1..Len(z[j]), z[i][k] = z[j][l]
      PROVE  i = j /\ k = l
  <2>1. /\ k \in 1..(e[i] - b(i)) /\ l \in 1..(e[j] - b(j)) /\ b(i) + k = b(j) + l
    BY <1>4, <1>6
  <2>2. b(i) \in Nat /\ e[i] \in Nat /\ b(j) \in Nat /\ e[j] \in Nat
    BY <1>2
  <2>3. k \in Nat /\ l \in Nat /\ k >= 1 /\ l >= 1 /\ b(i) + k <= e[i] /\ b(j) + l <= e[j]
    BY SMTT(60), <2>1, <2>2
  <2>4. CASE i < j
    <3>1. e[i] <= b(j)
      BY <1>3, <2>4
    <3> QED BY SMTT(60), <2>1, <2>2, <2>3, <3>1
  <2>5. CASE j < i
    <3>1. e[j] <= b(i)
      BY <1>3, <2>5
    <3> QED BY SMTT(60), <2>1, <2>2, <2>3, <3>1
  <2>6. CASE i = j
    BY <2>1, <2>2, <2>3, <2>6
  <2> QED BY <2>4, <2>5, <2>6
<1>7. ASSUME NEW o \in 1..n PROVE \E i \in 1..slots : \E k \in 1..Len(z[i]) : z[i][k] = o
  <2> DEFINE T == {i \in 1..slots : o <= e[i]}
  <2>1. T \in SUBSET Nat /\ slots \in T
    BY <1>1
  <2>2. PICK i \in T : \A j \in T : i <= j
    BY <2>1, LeastNatural
  <2>3. b(i) < o
    <3>1. CASE i = 1
      BY <3>1 DEF b
    <3>2. CASE i # 1
      <4>1. i - 1 \in 1..slots /\ i - 1 \notin T
        BY <2>2, <3>2
      <4>2. e[i - 1] < o
        BY <4>1
      <4> QED BY <3>2, <4>2 DEF b
    <3> QED BY <3>1, <3>2
  <2>4. i \in 1..slots /\ b(i) \in Nat /\ o \in Nat
    BY <1>2, <2>2
  <2>5. PICK k \in Nat : k = o - b(i)
    <3>1. o - b(i) \in Nat
      BY <2>3, <2>4
    <3> QED BY <3>1
  <2>6. o <= e[i] /\ e[i] \in Nat
    BY <1>2, <2>2
  <2>7. k \in 1..(e[i] - b(i)) /\ b(i) + k = o
    BY <2>3, <2>4, <2>5, <2>6
  <2>8. k \in 1..Len(z[i]) /\ z[i][k] = o
    BY <1>4, <2>4, <2>7
  <2> QED BY <2>4, <2>8
<1> QED BY <1>5, <1>6, <1>7 DEF Deals, OnceEach, HasOrder

\* balanceZones leaves a zone for every rider, and no zone empty.
LEMMA BalanceDeals ==
  ASSUME NEW n \in Nat, NEW slots \in Nat \ {0}, slots < n, NEW z, Deals(z, n), Len(z) = slots
  PROVE  BalanceZones(z, slots) \in Dealt(n, slots)
<1> DEFINE y == Filled(z)
           m == Len(y)
<1>1. Deals(y, n) /\ NoneEmpty(y) /\ m <= slots /\ (m = slots => NoneEmpty(z))
  BY FilledDeals
<1>2. y \in Seq(Seq(1..n)) /\ m \in Nat
  BY <1>1, LenProperties DEF Deals
<1>3. y # <<>> /\ m # 0
  <2>1. 1 \in 1..n
    OBVIOUS
  <2>2. HasOrder(y, 1)
    BY <1>1, <2>1 DEF Deals
  <2>3. m # 0
    BY <2>2 DEF HasOrder
  <2>4. Len(<<>>) = 0
    OBVIOUS
  <2> QED BY <2>3, <2>4
<1>4. CASE m >= slots
  <2>1. NoneEmpty(z)
    BY <1>1, <1>2, <1>4
  <2>2. BalanceZones(z, slots) = z
    BY <1>4 DEF BalanceZones
  <2> QED BY <2>1, <2>2 DEF Dealt, Deals
<1>5. CASE ~(m >= slots)
  <2>1. BalanceZones(z, slots) = EvenOutAll(SplitUp(y, slots - m))
    BY <1>3, <1>5 DEF BalanceZones
  <2>2. y \in Dealt(n, m)
    BY <1>1, <1>2 DEF Dealt
  <2> HIDE DEF y, m
  <2>3. slots - m \in Nat /\ m \in Nat \ {0} /\ m + (slots - m) = slots /\ m + (slots - m) <= n
    BY <1>2, <1>3, <1>5
  <2>4. SplitUp(y, slots - m) \in Dealt(n, slots)
    BY <2>2, <2>3, SplitUpDeals
  <2> QED BY <2>1, <2>4, EvenOutAllDeals
<1> QED BY <1>4, <1>5

\* A zone for every rider, or for every order when those are fewer.
LEMMA ZoningsDeal ==
  ASSUME NEW n \in Nat, NEW slots \in Nat \ {0}, NEW z \in Zonings(n, slots)
  PROVE  z \in Dealt(n, IF n <= slots THEN n ELSE slots)
<1>1. CASE n <= slots
  <2>1. z = [i \in 1..n |-> <<i>>]
    BY <1>1 DEF Zonings
  <2>2. ASSUME NEW i \in 1..n PROVE z[i] \in Seq(1..n) /\ Len(z[i]) = 1 /\ z[i][1] = i
    <3>1. z[i] = <<i>>
      BY <2>1
    <3> QED BY <3>1
  <2>3. z \in Seq(Seq(1..n)) /\ Len(z) = n
    <3>1. z \in [1..n -> Seq(1..n)]
      BY <2>1, <2>2
    <3> QED BY <2>1, <3>1
  <2>4. OnceEach(z)
    <3>1. ASSUME NEW i \in 1..n, NEW j \in 1..n, NEW k \in 1..Len(z[i]), NEW l \in 1..Len(z[j]), z[i][k] = z[j][l]
          PROVE  i = j /\ k = l
      <4>1. Len(z[i]) = 1 /\ Len(z[j]) = 1 /\ z[i][1] = i /\ z[j][1] = j
        BY <2>2
      <4>2. k = 1 /\ l = 1
        BY <4>1
      <4> QED BY <3>1, <4>1, <4>2
    <3> QED BY <2>3, <3>1 DEF OnceEach
  <2>5. ASSUME NEW o \in 1..n PROVE HasOrder(z, o)
    <3>1. 1 \in 1..Len(z[o]) /\ z[o][1] = o
      BY <2>2
    <3> QED BY <2>3, <3>1 DEF HasOrder
  <2>6. NoneEmpty(z)
    BY <2>2, <2>3 DEF NoneEmpty
  <2> QED BY <1>1, <2>3, <2>4, <2>5, <2>6 DEF Dealt, Deals
<1>2. CASE ~(n <= slots)
  <2>1. PICK c \in Clusterings(n, slots) : z = BalanceZones(c, slots)
    BY <1>2 DEF Zonings
  <2>2. Deals(c, n) /\ Len(c) = slots
    BY <2>1, ClusteringsDeal
  <2> QED BY <1>2, <2>1, <2>2, BalanceDeals
<1> QED BY <1>1, <1>2

-----------------------------------------------------------------------------
RoutesInv == RoutesTypeOK /\ PlanServesEveryRider

\* A plan for the orders that wait serves each of them and every rider.
LEMMA PlanServes ==
  ASSUME RoutesTypeOK, NEW slots \in 1..MaxSlots, waiting > 0, NEW z \in Zonings(waiting, slots),
         plan' = [orders |-> waiting, slots |-> slots,
                  routes |-> [i \in DOMAIN z |-> Greedy(Store, ToSet(z[i]))]]
  PROVE  /\ PlanServesEveryRider'
         /\ \A i \in DOMAIN plan'.routes : plan'.routes[i] \in Seq(1..MaxWaiting)
<1> DEFINE n == waiting
           m == IF n <= slots THEN n ELSE slots
           R == [i \in DOMAIN z |-> Greedy(Store, ToSet(z[i]))]
<1>0. n \in Nat /\ n <= MaxWaiting /\ MaxWaiting \in Nat /\ slots \in Nat \ {0} /\ Store \in Nat /\ m \in Nat
  BY RoutesAssumption DEF RoutesAssumption, RoutesTypeOK, Store
<1>1. z \in Seq(Seq(1..n)) /\ Deals(z, n) /\ NoneEmpty(z) /\ Len(z) = m /\ DOMAIN z = 1..m
  <2>1. z \in Dealt(n, m)
    BY <1>0, ZoningsDeal
  <2> QED BY <2>1, LenProperties DEF Dealt
<1> HIDE DEF m, n
<1>2. R = plan'.routes /\ DOMAIN R = 1..m /\ plan'.orders = n /\ plan'.slots = slots
  BY <1>1 DEF n
<1>3. \A i \in 1..m : R[i] = Greedy(Store, ToSet(z[i]))
  BY <1>1
<1>4. Len(R) = m
  BY <1>0, <1>2
<1> HIDE DEF R
<1>5. ASSUME NEW i \in 1..m
      PROVE  /\ R[i] \in Seq(1..MaxWaiting) /\ ToSet(R[i]) = ToSet(z[i]) /\ ToSet(z[i]) \subseteq 1..n /\ ToSet(z[i]) # {}
             /\ \A k, l \in DOMAIN R[i] : R[i][k] = R[i][l] => k = l
             /\ \A k \in DOMAIN R[i] : \E a \in 1..Len(z[i]) : z[i][a] = R[i][k]
  <2> DEFINE S == ToSet(z[i])
             c == Cardinality(S)
  <2>1. z[i] \in Seq(1..n) /\ DOMAIN z[i] = 1..Len(z[i]) /\ Len(z[i]) \in Nat /\ Len(z[i]) > 0
    <3>1. z[i] \in Seq(1..n)
      BY <1>1, ElementOfSeq
    <3> QED BY <1>1, <3>1, LenProperties DEF NoneEmpty
  <2>2. S = {z[i][a] : a \in 1..Len(z[i])}
    BY <2>1 DEF ToSet
  <2>3. S \subseteq 1..n /\ S # {}
    <3>1. \A a \in 1..Len(z[i]) : z[i][a] \in 1..n
      BY <2>1, ElementOfSeq
    <3>2. 1 \in 1..Len(z[i])
      BY <2>1
    <3> QED BY <2>2, <3>1, <3>2
  <2>4. S \in SUBSET (1..MaxWaiting)
    BY <1>0, <2>3
  <2>5. c \in Nat /\ R[i] \in Tours(S, c) /\ ToSet(R[i]) = S
    BY <1>0, <1>3, <2>4, GreedyVisitsAll
  <2> HIDE DEF S, c
  <2>6. R[i] \in [1..c -> S] /\ DOMAIN R[i] = 1..c /\ \A k, l \in 1..c : R[i][k] = R[i][l] => k = l
    BY <2>5 DEF Tours
  <2>7. R[i] \in Seq(1..MaxWaiting)
    <3>1. \A k \in 1..c : R[i][k] \in 1..MaxWaiting
      BY <2>4, <2>6
    <3>2. R[i] = [k \in 1..c |-> R[i][k]]
      BY <2>6
    <3>3. R[i] \in [1..c -> 1..MaxWaiting]
      BY <3>1, <3>2
    <3>4. c \in Nat
      BY <2>5
    <3> QED BY <3>3, <3>4, SeqDef
  <2>8. \A k \in DOMAIN R[i] : \E a \in 1..Len(z[i]) : z[i][a] = R[i][k]
    BY <2>2, <2>6
  <2> QED BY <2>3, <2>5, <2>6, <2>7, <2>8 DEF S
<1>6. ASSUME NEW o \in 1..n PROVE \E i \in 1..m : o \in ToSet(R[i])
  <2>1. PICK i \in 1..m : \E k \in 1..Len(z[i]) : z[i][k] = o
    BY <1>1 DEF Deals, HasOrder
  <2>2. DOMAIN z[i] = 1..Len(z[i])
    <3>1. z[i] \in Seq(1..n)
      BY <1>1, ElementOfSeq
    <3> QED BY <3>1, LenProperties
  <2>3. o \in ToSet(z[i])
    BY <2>1, <2>2 DEF ToSet
  <2> QED BY <1>5, <2>3
<1>7. ASSUME NEW i \in 1..m PROVE R[i] # <<>> /\ ToSet(R[i]) \subseteq 1..n
  <2>1. ToSet(R[i]) # {}
    BY <1>5
  <2>2. ToSet(<<>>) = {}
    BY DEF ToSet
  <2> QED BY <1>5, <2>1, <2>2
<1>8. ASSUME NEW i \in 1..m, NEW j \in 1..m, NEW k \in DOMAIN R[i], NEW l \in DOMAIN R[j], R[i][k] = R[j][l]
      PROVE  i = j /\ k = l
  <2>1. PICK a \in 1..Len(z[i]) : z[i][a] = R[i][k]
    BY <1>5
  <2>2. PICK b \in 1..Len(z[j]) : z[j][b] = R[j][l]
    BY <1>5
  <2>3. i = j
    BY <1>1, <1>8, <2>1, <2>2 DEF Deals, OnceEach
  <2> QED BY <1>5, <1>8, <2>3
<1>9. m = Min({n, slots})
  <2>1. Min({n, slots}) = CHOOSE x \in {n, slots} : \A y \in {n, slots} : x <= y
    BY DEF Min
  <2>2. m \in {n, slots} /\ \A y \in {n, slots} : m <= y
    BY <1>0 DEF m
  <2>3. ASSUME NEW x \in {n, slots}, \A y \in {n, slots} : x <= y PROVE x = m
    <3>1. x <= m /\ m <= x
      BY <2>2, <2>3
    <3>2. x \in Int /\ m \in Int
      BY <1>0
    <3> QED BY <3>1, <3>2
  <2> HIDE DEF m, n
  <2> DEFINE c == Min({n, slots})
  <2>4. c \in {n, slots} /\ \A y \in {n, slots} : c <= y
    BY <2>1, <2>2
  <2> QED BY <2>3, <2>4
<1>10. PlanServesEveryRider'
  <2>1. \A o \in 1..plan'.orders : \E i \in DOMAIN plan'.routes : o \in ToSet(plan'.routes[i])
    BY <1>2, <1>6
  <2>2. \A i \in DOMAIN plan'.routes : plan'.routes[i] # <<>> /\ ToSet(plan'.routes[i]) \subseteq 1..plan'.orders
    BY <1>2, <1>7
  <2>3. \A i, j \in DOMAIN plan'.routes : \A k \in DOMAIN plan'.routes[i], l \in DOMAIN plan'.routes[j] :
          plan'.routes[i][k] = plan'.routes[j][l] => i = j /\ k = l
    BY <1>2, <1>8
  <2>4. Len(plan'.routes) = Min({plan'.orders, plan'.slots})
    BY <1>2, <1>4, <1>9
  <2> QED BY <2>1, <2>2, <2>3, <2>4 DEF PlanServesEveryRider
<1> QED BY <1>2, <1>5, <1>10

\* The planning screen starts without a plan.
LEMMA RoutesInvInit == RoutesInit => RoutesInv
<1> SUFFICES ASSUME RoutesInit PROVE RoutesInv
  OBVIOUS
<1>1. waiting = 0 /\ plan.orders = 0 /\ plan.slots = 0 /\ plan.routes = <<>>
  BY DEF RoutesInit
<1>2. DOMAIN plan.routes = {} /\ Len(plan.routes) = 0 /\ 1..plan.orders = {}
  BY <1>1
<1>3. Min({0, 0}) = 0
  <2>1. Min({0, 0}) = CHOOSE x \in {0, 0} : \A y \in {0, 0} : x <= y
    BY DEF Min
  <2> QED BY <2>1
<1>4. RoutesTypeOK
  BY <1>1, <1>2, RoutesAssumption DEF RoutesAssumption, RoutesTypeOK
<1>5. PlanServesEveryRider
  BY <1>1, <1>2, <1>3 DEF PlanServesEveryRider
<1> QED BY <1>4, <1>5 DEF RoutesInv

\* A new plan replaces the last one as a whole; an order that comes or goes
\* changes no plan.
LEMMA RoutesInvStep == RoutesInv /\ [RoutesNext]_routesVars => RoutesInv'
<1> SUFFICES ASSUME RoutesInv, [RoutesNext]_routesVars PROVE RoutesInv'
  OBVIOUS
<1>0. RoutesTypeOK /\ PlanServesEveryRider /\ waiting \in Nat /\ MaxWaiting \in Nat /\ MaxSlots \in Nat
  BY RoutesAssumption DEF RoutesInv, RoutesTypeOK, RoutesAssumption
<1>1. CASE plan' = plan /\ waiting' \in 0..MaxWaiting
  BY <1>0, <1>1 DEF RoutesInv, RoutesTypeOK, PlanServesEveryRider
<1>2. CASE OrderJoins
  <2>1. waiting' \in 0..MaxWaiting /\ plan' = plan
    BY <1>0, <1>2 DEF OrderJoins
  <2> QED BY <1>1, <2>1
<1>3. CASE OrderLeaves
  <2>1. waiting' \in 0..MaxWaiting /\ plan' = plan
    BY <1>0, <1>3 DEF OrderLeaves, RoutesTypeOK
  <2> QED BY <1>1, <2>1
<1>4. ASSUME NEW slots \in 1..MaxSlots, AssignRoutes(slots) PROVE RoutesInv'
  <2>1. CASE waiting = 0 /\ plan' = [orders |-> 0, slots |-> 0, routes |-> <<>>]
    <3>1. RoutesInit'
      BY <1>4, <2>1 DEF AssignRoutes, RoutesInit
    <3>2. RoutesInit' => RoutesInv'
      BY RoutesInvInit, PTL
    <3> QED BY <3>1, <3>2
  <2>2. CASE waiting > 0 /\ \E zones \in Zonings(waiting, slots) :
               plan' = [orders |-> waiting, slots |-> slots,
                        routes |-> [i \in DOMAIN zones |-> Greedy(Store, ToSet(zones[i]))]]
    <3>1. PICK zones \in Zonings(waiting, slots) :
               plan' = [orders |-> waiting, slots |-> slots,
                        routes |-> [i \in DOMAIN zones |-> Greedy(Store, ToSet(zones[i]))]]
      BY <2>2
    <3>2. PlanServesEveryRider' /\ \A i \in DOMAIN plan'.routes : plan'.routes[i] \in Seq(1..MaxWaiting)
      BY <1>0, <2>2, <3>1, PlanServes
    <3>3. waiting' = waiting /\ plan'.orders = waiting /\ plan'.slots = slots
      BY <1>4, <3>1 DEF AssignRoutes
    <3>4. RoutesTypeOK'
      BY <1>0, <3>2, <3>3 DEF RoutesTypeOK
    <3> QED BY <3>2, <3>4 DEF RoutesInv
  <2> QED BY <1>4, <2>1, <2>2 DEF AssignRoutes
<1>5. CASE UNCHANGED routesVars
  BY <1>0, <1>1, <1>5 DEF routesVars, RoutesTypeOK
<1> QED BY <1>2, <1>3, <1>4, <1>5 DEF RoutesNext

\* The planning screen's variables keep their types, and its plan serves every
\* order and every rider, however K-means clusters the town.
THEOREM PlansServe == FleetSpec => []RoutesInv
<1>1. FleetInit /\ RoutesInit => RoutesInv
  BY RoutesInvInit
<1>2. RoutesInv /\ [FleetNext]_<<roadVars, routesVars>> => RoutesInv'
  <2>1. [FleetNext]_<<roadVars, routesVars>> => [RoutesNext]_routesVars
    BY DEF FleetNext
  <2> QED BY <2>1, RoutesInvStep
<1> QED BY <1>1, <1>2, PTL DEF FleetSpec

\* The number of orders that wait and the plan on the screen keep their types.
THEOREM RoutesTypes == FleetSpec => []RoutesTypeOK
<1>1. RoutesInv => RoutesTypeOK
  BY DEF RoutesInv
<1> QED BY <1>1, PlansServe, PTL

\* A plan leaves out no order and no rider, and of two customers of a batch who
\* wait behind another the one the rider visits later is shown a later time.
THEOREM ToursServe == FleetSpec => []ToursServeAll
<1>1. RoutesInv => PlanServesEveryRider
  BY DEF RoutesInv
<1> QED BY <1>1, PlansServe, FleetTypes, LaterIsLater, PTL DEF ToursServeAll
=============================================================================
