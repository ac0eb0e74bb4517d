--------------------------- MODULE DispatchProofs ---------------------------
(***************************************************************************)
(* What Dispatch promises for any orders, riders, limits and number of     *)
(* procedures at once: its types, a rider for every order that has left,   *)
(* batches within the rider's room, accepted orders that stay accepted,    *)
(* and offers that are watched.                                            *)
(***************************************************************************)
EXTENDS Dispatch, FiniteSetTheorems, TLAPS

SomeOrder == Orders \cup {None}
SomeRider == Riders \cup {None}

\* A procedure that is at work knows its order.
Resting     == {"idle", "queueRead", "queue", "offline"}
OrdersKnown == \A w \in Jobs : job[w].pc \in Resting \/ job[w].order \in Orders

\* Whoever is about to get an order, or already did, is somebody.
RiderOfJob(w) ==
  /\ job[w].pc \in {"batch", "write", "arm", "manual", "manualArm", "autoTx"} => job[w].rider # None
  /\ \A o \in job[w].done : row[o].rider # None
  /\ At(w, "manualArm") => row[job[w].order].rider # None
RiderInv ==
  /\ OutOnlyWithRider
  /\ \A a \in Orders : Open(a) => window[a].rider # None
  /\ \A w \in Jobs : RiderOfJob(w)

\* Only a procedure that assigns a batch has orders to do or done.
RoomOfJob(w) ==
  /\ job[w].pc \notin {"write", "arm"} => job[w].todo = {} /\ job[w].done = {}
  /\ At(w, "batch") => job[w].cap > 0
RoomInv == BatchWithinRoom /\ \A w \in Jobs : RoomOfJob(w)

\* A procedure that came to an accepted order later finds it is not to be
\* assigned, and no window holds the order.
Harmless == {"begin", "check", "report", "insert", "accepted"}
Spares(w, o) == /\ o \notin job[w].todo \cup job[w].done
                /\ job[w].order = o => job[w].pc \in Harmless
KeptOf(o) == kept[o] # None =>
  /\ status[o] \in InFlight /\ row[o].rider = kept[o] /\ row[o].st \in {"ACCEPTED", "PICKED"}
  /\ \A w \in Jobs : Spares(w, o)
  /\ ~HeldByWindow(o)
KeptInv == \A o \in Orders : KeptOf(o)

\* The procedure that is alone with an order it offers, or whose timer has fired,
\* knows the rider; one that is about to clear a timer leaves no offer behind.
Offering(w, o) ==
  \/ o \in job[w].done
  \/ job[w].order = o /\ job[w].pc \in {"manualArm", "auto", "autoTx", "expire", "expireTx"}
Knows(w, o) ==
  /\ o \in job[w].done => row[o].rider = job[w].rider
  /\ job[w].order = o =>
       /\ At(w, "manualArm") => row[o].rider = job[w].rider
       /\ job[w].pc \in {"auto", "autoTx", "expire"} => row[o].rider = job[w].except
       /\ job[w].pc \notin {"accepted", "rejected", "clear"}
Watched(o) == row[o].st = "ASSIGNED" =>
  /\ timer[o] = row[o].rider \/ \E w \in Jobs : Offering(w, o)
  /\ \A w \in Jobs : Knows(w, o)
Lonely(o) == \A v, w \in Jobs : About(job[v], o) /\ About(job[w], o) => v = w
WatchInv  == \A o \in alone : Lonely(o) /\ Watched(o)

-----------------------------------------------------------------------------
\* Types.

\* The records a procedure moves to.
LEMMA JobForms ==
  /\ Idle \in JobRecords
  /\ \A j \in JobRecords, p \in Places : [j EXCEPT !.pc = p] \in JobRecords
  /\ \A p \in Places, o \in SomeOrder, r, e \in SomeRider, q \in SUBSET Orders :
       [Idle EXCEPT !.pc = p, !.order = o, !.rider = r, !.except = e, !.queue = q] \in JobRecords
<1>1. Idle \in JobRecords
  BY DispatchAssumption DEF DispatchAssumption, Idle, JobRecords, Places
<1>2. \A j \in JobRecords, p \in Places : [j EXCEPT !.pc = p] \in JobRecords
  BY DEF JobRecords
<1>3. \A p \in Places, o \in SomeOrder, r, e \in SomeRider, q \in SUBSET Orders :
       [Idle EXCEPT !.pc = p, !.order = o, !.rider = r, !.except = e, !.queue = q] \in JobRecords
  BY <1>1 DEF JobRecords, SomeOrder, SomeRider
<1> QED BY <1>1, <1>2, <1>3

\* A procedure that goes on keeps the type of the procedures.
LEMMA GotoTyped ==
  ASSUME TypeOK, NEW w \in Jobs, NEW j \in JobRecords, Goto(w, j)
  PROVE  job' \in [Jobs -> JobRecords]
  BY DEF TypeOK, Goto

LEMMA ToTyped ==
  ASSUME TypeOK, NEW w \in Jobs, NEW p \in Places, To(w, p)
  PROVE  job' \in [Jobs -> JobRecords]
<1>1. [job[w] EXCEPT !.pc = p] \in JobRecords
  BY JobForms DEF TypeOK
<1> QED BY <1>1, GotoTyped DEF To

\* The procedure that a move of the code leads to keeps its type.
LEMMA StopTyped ==
  ASSUME TypeOK, NEW w \in Jobs, Stop(w)
  PROVE  job' \in [Jobs -> JobRecords]
  BY JobForms, GotoTyped DEF Stop

LEMMA FinishTyped ==
  ASSUME TypeOK, NEW w \in Jobs, Finish(w)
  PROVE  job' \in [Jobs -> JobRecords]
<1>1. Idle \in JobRecords /\ job[w] \in JobRecords
  BY JobForms DEF TypeOK
<1>2. [Idle EXCEPT !.pc = "queue", !.queue = job[w].queue] \in JobRecords
  BY <1>1 DEF JobRecords, Places
<1> QED BY <1>1, <1>2, GotoTyped DEF Finish

LEMMA AssignTyped ==
  ASSUME NEW o \in SomeOrder, NEW e \in SomeRider
  PROVE  /\ Assign(o, e) \in JobRecords
         /\ \A q \in SUBSET Orders : [Assign(o, e) EXCEPT !.queue = q] \in JobRecords
<1>1. Idle \in JobRecords
  BY JobForms
<1> QED BY <1>1 DEF Assign, JobRecords, SomeOrder, SomeRider, Places

LEMMA ReportTyped ==
  ASSUME TypeOK, NEW w \in Jobs, NEW q \in SUBSET Orders, Report(w, q)
  PROVE  job' \in [Jobs -> JobRecords]
<1>1. Idle \in JobRecords /\ job[w] \in JobRecords
  BY JobForms DEF TypeOK
<1>2. [Idle EXCEPT !.pc = "report", !.order = job[w].order, !.queue = q] \in JobRecords
  BY <1>1 DEF JobRecords, Places
<1> QED BY <1>2, GotoTyped DEF Report

LEMMA ClearTyped ==
  ASSUME TypeOK, NEW w \in Jobs, NEW o \in SomeOrder, Clear(w, o)
  PROVE  job' \in [Jobs -> JobRecords]
<1>1. Idle \in JobRecords
  BY JobForms
<1>2. [Idle EXCEPT !.pc = "clear", !.order = o] \in JobRecords
  BY <1>1 DEF JobRecords, Places, SomeOrder
<1> QED BY <1>2, GotoTyped DEF Clear

\* The room of a rider, and of a batch.
LEMMA RoomTyped ==
  ASSUME NEW r \in Riders
  PROVE  /\ BatchRoom(r) \in 0..MaxBatchSize
         /\ ~AtLoadCap(r) => BatchRoom(r) > 0
<1>1. OrdersOf(r) \subseteq Orders
  BY DEF OrdersOf
<1>2. Cardinality(OrdersOf(r)) \in Nat
  BY <1>1, FS_Subset, FS_CardinalityType, DispatchAssumption DEF DispatchAssumption
<1> QED BY <1>2, DispatchAssumption DEF DispatchAssumption, BatchRoom, Remaining, AtLoadCap

LEMMA ChooseTyped ==
  ASSUME TypeOK, NEW w \in Jobs, NEW r \in Riders, NEW tier \in BOOLEAN, Choose(w, r, tier)
  PROVE  job' \in [Jobs -> JobRecords]
<1>1. job[w] \in JobRecords /\ BatchRoom(r) \in 0..MaxBatchSize
  BY RoomTyped DEF TypeOK
<1>2. [job[w] EXCEPT !.pc = "batch", !.rider = r, !.except = None,
                     !.cap = BatchRoom(r), !.tier = tier] \in JobRecords
  BY <1>1 DEF JobRecords, Places
<1> QED BY <1>2, GotoTyped DEF Choose

LEMMA TypeInit == Init => TypeOK
<1> SUFFICES ASSUME Init PROVE TypeOK
  OBVIOUS
<1>1. job \in [Jobs -> JobRecords]
  BY JobForms DEF Init
<1>2. /\ row \in [Orders -> [st: RowStates, rider: Riders \cup {None}]]
      /\ status \in [Orders -> Statuses]
  BY DEF Init, NoRow, RowStates, Statuses
<1>3. window \in [Orders -> [rider: Riders \cup {None}, orders: SUBSET Orders,
                             cap: 0..MaxBatchSize]]
  BY DispatchAssumption DEF DispatchAssumption, Init, NoWindow
<1>4. /\ attempts \in [Orders -> 0..(MaxAttempts + 1)]
      /\ restarts \in 0..MaxRestarts
  BY DispatchAssumption DEF DispatchAssumption, Init
<1> QED BY <1>1, <1>2, <1>3, <1>4 DEF Init, TypeOK

\* The variables other than job that a step may change, each in its own way.
RowStep ==
  \/ UNCHANGED row
  \/ \E o \in SomeOrder, r \in SomeRider, st \in RowStates : SetRow(o, st, r)
  \/ \E o \in SomeOrder, st \in RowStates : SetRowState(o, st)

LEMMA RowTyped == TypeOK /\ RowStep => row' \in [Orders -> [st: RowStates, rider: Riders \cup {None}]]
  BY SMTT(60) DEF TypeOK, RowStep, SetRow, SetRowState, SomeOrder, SomeRider

LEMMA StatusTyped ==
  ASSUME TypeOK, NEW o, NEW s \in Statuses, SetStatus(o, s)
  PROVE  status' \in [Orders -> Statuses]
  BY DEF TypeOK, SetStatus

\* Requests keep the types.
LEMMA TypeRequest ==
  ASSUME TypeOK, NEW w \in Jobs, Requests(w), alone' = StillAlone
  PROVE  TypeOK'
<1>0. alone' \subseteq Orders /\ job[w] \in JobRecords
  BY DEF StillAlone, TypeOK
<1>1. ASSUME NEW o \in Orders, MarkPacked(w, o) PROVE TypeOK'
  <2>1. job' \in [Jobs -> JobRecords]
    BY <1>1, AssignTyped, GotoTyped DEF MarkPacked, SomeOrder, SomeRider
  <2>2. status' \in [Orders -> Statuses]
    BY <1>1, StatusTyped DEF MarkPacked, Statuses
  <2> QED BY <1>0, <1>1, <2>1, <2>2 DEF MarkPacked, TypeOK, memory, cache
<1>2. ASSUME NEW o \in Orders, PollOrder(w, o) \/ AdminRetry(w, o) PROVE TypeOK'
  <2>1. job' \in [Jobs -> JobRecords]
    BY <1>2, AssignTyped, GotoTyped DEF PollOrder, AdminRetry, SomeOrder, SomeRider
  <2>3. \E n \in {0, attempts[o]} : attempts' = [attempts EXCEPT ![o] = n]
    BY <1>2 DEF TypeOK, PollOrder, AdminRetry
  <2>2. attempts' \in [Orders -> 0..(MaxAttempts + 1)]
    BY <2>3, DispatchAssumption DEF DispatchAssumption, TypeOK
  <2> QED BY <1>0, <1>2, <2>1, <2>2 DEF PollOrder, AdminRetry, TypeOK, memory, database
<1>3. ASSUME NEW o \in Orders, Redeliver(w, o) PROVE TypeOK'
  <2>1. job' \in [Jobs -> JobRecords]
    BY <1>3, AssignTyped, GotoTyped DEF Redeliver, SomeOrder, SomeRider
  <2>2. status' \in [Orders -> Statuses]
    BY <1>3, StatusTyped DEF Redeliver, Statuses
  <2>3. row' \in [Orders -> [st: RowStates, rider: Riders \cup {None}]]
    BY <1>3, RowTyped DEF Redeliver, RowStep, RowStates, SomeOrder
  <2> QED BY <1>0, <1>3, <2>1, <2>2, <2>3 DEF Redeliver, TypeOK, memory, cache
<1>4. ASSUME NEW o \in Orders, CancelRead(w, o) PROVE TypeOK'
  <2>1. job' \in [Jobs -> JobRecords]
    <3>1. Idle \in JobRecords
      BY JobForms
    <3>2. [Idle EXCEPT !.pc = "cancelOrder", !.order = o] \in JobRecords
      BY <3>1 DEF JobRecords, Places
    <3> QED BY <1>4, <3>2, GotoTyped DEF CancelRead
  <2> QED BY <1>0, <1>4, <2>1 DEF CancelRead, TypeOK, memory, cache, database
<1>5. ASSUME NEW o \in Orders, NEW r \in Riders, ManualCheck(w, o, r) PROVE TypeOK'
  <2>1. job' \in [Jobs -> JobRecords]
    <3>1. Idle \in JobRecords
      BY JobForms
    <3>2. [Idle EXCEPT !.pc = "manual", !.order = o, !.rider = r] \in JobRecords
      BY <3>1 DEF JobRecords, Places
    <3> QED BY <1>5, <3>2, GotoTyped DEF ManualCheck
  <2> QED BY <1>0, <1>5, <2>1 DEF ManualCheck, TypeOK, memory, cache, database
<1>6. ASSUME NEW o \in Orders, NEW r \in Riders, Accept(w, o, r) PROVE TypeOK'
  <2>1. job' \in [Jobs -> JobRecords]
    <3>1. Idle \in JobRecords
      BY JobForms
    <3>2. [Idle EXCEPT !.pc = "accepted", !.order = o] \in JobRecords
      BY <3>1 DEF JobRecords, Places
    <3> QED BY <1>6, <3>2, GotoTyped DEF Accept
  <2>2. status' \in [Orders -> Statuses]
    BY <1>6, StatusTyped DEF Accept, Statuses, InFlight
  <2>3. row' \in [Orders -> [st: RowStates, rider: Riders \cup {None}]]
    BY <1>6, RowTyped DEF Accept, RowStep, RowStates, Active, SomeOrder, SomeRider
  <2>4. claim' \in [Orders -> {"free", "pending"} \cup Riders] /\ kept' \in [Orders -> Riders \cup {None}]
    BY <1>6 DEF Accept, TypeOK
  <2> QED BY <1>0, <1>6, <2>1, <2>2, <2>3, <2>4 DEF Accept, TypeOK, memory
<1>7. ASSUME NEW o \in Orders, NEW r \in Riders, Reject(w, o, r) PROVE TypeOK'
  <2>1. job' \in [Jobs -> JobRecords]
    <3>1. Idle \in JobRecords
      BY JobForms
    <3>2. [Idle EXCEPT !.pc = "rejected", !.order = o, !.except = r] \in JobRecords
      BY <3>1 DEF JobRecords, Places
    <3> QED BY <1>7, <3>2, GotoTyped DEF Reject
  <2>2. status' \in [Orders -> Statuses]
    BY <1>7 DEF Reject, SetStatus, TypeOK, Statuses
  <2>3. row' \in [Orders -> [st: RowStates, rider: Riders \cup {None}]]
    BY <1>7, RowTyped DEF Reject, RowStep, RowStates, SomeOrder, SomeRider
  <2>4. kept' \in [Orders -> Riders \cup {None}]
    BY <1>7 DEF Reject, TypeOK
  <2> QED BY <1>0, <1>7, <2>1, <2>2, <2>3, <2>4 DEF Reject, TypeOK, memory, cache
<1>8. ASSUME NEW o \in Orders, NEW r \in Riders, Deliver(w, o, r) PROVE TypeOK'
  <2>1. job' \in [Jobs -> JobRecords]
    <3>1. Idle \in JobRecords
      BY JobForms
    <3>2. [Idle EXCEPT !.pc = "queueRead"] \in JobRecords
      BY <3>1 DEF JobRecords, Places
    <3> QED BY <1>8, <3>2, GotoTyped DEF Deliver
  <2>2. status' \in [Orders -> Statuses]
    BY <1>8, StatusTyped DEF Deliver, Statuses
  <2>3. row' \in [Orders -> [st: RowStates, rider: Riders \cup {None}]]
    BY <1>8, RowTyped DEF Deliver, RowStep, RowStates, SomeOrder
  <2>4. kept' \in [Orders -> Riders \cup {None}]
    BY <1>8 DEF Deliver, TypeOK
  <2> QED BY <1>0, <1>8, <2>1, <2>2, <2>3, <2>4 DEF Deliver, TypeOK, memory, cache
<1>9. ASSUME NEW o \in Orders, NEW r \in Riders, MarkFailed(w, o, r) PROVE TypeOK'
  <2>1. job' \in [Jobs -> JobRecords]
    BY <1>9, ClearTyped DEF MarkFailed, SomeOrder
  <2>2. status' \in [Orders -> Statuses]
    BY <1>9, StatusTyped DEF MarkFailed, Statuses
  <2>3. row' \in [Orders -> [st: RowStates, rider: Riders \cup {None}]]
    BY <1>9, RowTyped DEF MarkFailed, RowStep, RowStates, SomeOrder
  <2>4. kept' \in [Orders -> Riders \cup {None}]
    BY <1>9 DEF MarkFailed, TypeOK
  <2> QED BY <1>0, <1>9, <2>1, <2>2, <2>3, <2>4 DEF MarkFailed, TypeOK, memory, cache
<1>10. ASSUME NEW r \in Riders, GoOfflineCheck(w, r) PROVE TypeOK'
  <2>1. job' \in [Jobs -> JobRecords]
    <3>1. Idle \in JobRecords
      BY JobForms
    <3>2. [Idle EXCEPT !.pc = "offline", !.rider = r] \in JobRecords
      BY <3>1 DEF JobRecords, Places
    <3> QED BY <1>10, <3>2, GotoTyped DEF GoOfflineCheck
  <2> QED BY <1>0, <1>10, <2>1 DEF GoOfflineCheck, TypeOK, memory, cache, database
<1> QED BY <1>1, <1>2, <1>3, <1>4, <1>5, <1>6, <1>7, <1>8, <1>9, <1>10 DEF Requests

\* The steps of a procedure keep the types.
LEMMA TypeJobStep ==
  ASSUME TypeOK, OrdersKnown, NEW w \in Jobs, JobStep(w), alone' = StillAlone
  PROVE  TypeOK'
<1>0. alone' \subseteq Orders /\ job[w] \in JobRecords
  BY DEF StillAlone, TypeOK
<1>1. ASSUME QueueRead(w) PROVE TypeOK'
  <2>1. job' \in [Jobs -> JobRecords]
    <3>1. Idle \in JobRecords /\ [Idle EXCEPT !.pc = "queueRead"] \in JobRecords
      BY JobForms DEF Places
    <3>2. \A q \in SUBSET Orders : [Idle EXCEPT !.pc = "queue", !.queue = q] \in JobRecords
      BY <3>1 DEF JobRecords, Places
    <3>3. {o \in Orders : Assignable(o)} \in SUBSET Orders
      OBVIOUS
    <3> QED BY <1>1, <3>1, <3>2, <3>3, GotoTyped DEF QueueRead
  <2> QED BY <1>0, <1>1, <2>1 DEF QueueRead, TypeOK, database, memory, cache
<1>2. ASSUME QueueNext(w) PROVE TypeOK'
  <2>1. job' \in [Jobs -> JobRecords]
    <3>1. PICK o \in job[w].queue : Goto(w, [Assign(o, None) EXCEPT !.queue = job[w].queue \ {o}])
      BY <1>2 DEF QueueNext
    <3>2. job[w].queue \subseteq Orders
      BY <1>0 DEF JobRecords
    <3>3. [Assign(o, None) EXCEPT !.queue = job[w].queue \ {o}] \in JobRecords
      BY <3>2, AssignTyped DEF SomeOrder, SomeRider
    <3> QED BY <3>1, <3>3, GotoTyped
  <2> QED BY <1>0, <1>2, <2>1 DEF QueueNext, TypeOK, database, memory, cache
<1>3. ASSUME AssignBegin(w) PROVE TypeOK'
  <2>1. job' \in [Jobs -> JobRecords]
    <3>1. job[w].queue \in SUBSET Orders
      BY <1>0 DEF JobRecords
    <3> QED BY <1>3, <3>1, ReportTyped, ToTyped DEF AssignBegin, Places
  <2>2. attempts' \in [Orders -> 0..(MaxAttempts + 1)]
    <3>1. job[w].order \in Orders
      BY <1>3 DEF AssignBegin, OrdersKnown, Resting, At
    <3>2. attempts[job[w].order] \in 0..(MaxAttempts + 1) /\ MaxAttempts \in Nat
      BY <3>1, DispatchAssumption DEF DispatchAssumption, TypeOK
    <3>3. (IF attempts[job[w].order] > MaxAttempts THEN attempts[job[w].order]
                                                   ELSE attempts[job[w].order] + 1) \in 0..(MaxAttempts + 1)
      BY <3>2
    <3> QED BY <1>3, <3>1, <3>3 DEF AssignBegin, TypeOK
  <2> QED BY <1>0, <1>3, <2>1, <2>2 DEF AssignBegin, TypeOK, database, memory, cache
<1>4. ASSUME ReportFailure(w) PROVE TypeOK'
  <2>1. job' \in [Jobs -> JobRecords]
    BY <1>4, FinishTyped, ToTyped DEF ReportFailure, Places
  <2> QED BY <1>0, <1>4, <2>1 DEF ReportFailure, TypeOK, database, memory, cache
<1>5. ASSUME InsertTask(w) PROVE TypeOK'
  <2>1. job' \in [Jobs -> JobRecords]
    BY <1>5, FinishTyped DEF InsertTask
  <2>2. failed' \in [Orders -> Nat]
    <3>1. job[w].order \in Orders
      BY <1>5 DEF InsertTask, OrdersKnown, Resting, At
    <3> QED BY <1>5, <3>1 DEF InsertTask, TypeOK
  <2> QED BY <1>0, <1>5, <2>1, <2>2 DEF InsertTask, TypeOK, database, memory, cache
<1>6. ASSUME AssignRefused(w) PROVE TypeOK'
  <2>1. job' \in [Jobs -> JobRecords]
    BY <1>6, FinishTyped DEF AssignRefused
  <2> QED BY <1>0, <1>6, <2>1 DEF AssignRefused, TypeOK, database, memory, cache
<1>7. ASSUME AssignJoins(w) PROVE TypeOK'
  <2>1. job' \in [Jobs -> JobRecords]
    BY <1>7, FinishTyped DEF AssignJoins
  <2>2. window' \in [Orders -> [rider: Riders \cup {None}, orders: SUBSET Orders, cap: 0..MaxBatchSize]]
    <3>1. PICK a \in Orders : window' = [window EXCEPT ![a].orders = @ \cup {job[w].order}]
      BY <1>7 DEF AssignJoins
    <3>2. job[w].order \in Orders
      BY <1>7 DEF AssignJoins, OrdersKnown, Resting, At
    <3> QED BY ZenonT(60), <3>1, <3>2 DEF TypeOK
  <2> QED BY <1>0, <1>7, <2>1, <2>2 DEF AssignJoins, TypeOK, database, memory, cache
<1>8. ASSUME AssignInTier(w) PROVE TypeOK'
  <2>1. job' \in [Jobs -> JobRecords]
    BY <1>8, ChooseTyped DEF AssignInTier, TypeOK
  <2> QED BY <1>0, <1>8, <2>1 DEF AssignInTier, TypeOK, database, memory, cache
<1>9. ASSUME AssignSmallFleet(w) PROVE TypeOK'
  <2>1. job' \in [Jobs -> JobRecords]
    BY <1>9, ChooseTyped, StopTyped DEF AssignSmallFleet, TypeOK
  <2> QED BY <1>0, <1>9, <2>1 DEF AssignSmallFleet, TypeOK, database, memory, cache
<1>10. ASSUME Broadcast(w) PROVE TypeOK'
  <2>1. job' \in [Jobs -> JobRecords]
    BY <1>10, FinishTyped DEF Broadcast
  <2>2. claim' \in [Orders -> {"free", "pending"} \cup Riders]
    BY <1>10 DEF Broadcast, TypeOK
  <2> QED BY <1>0, <1>10, <2>1, <2>2 DEF Broadcast, TypeOK, database, memory, cache
<1>11. ASSUME AssignFallback(w) PROVE TypeOK'
  <2>1. job' \in [Jobs -> JobRecords]
    BY <1>11, ChooseTyped, StopTyped DEF AssignFallback
  <2> QED BY <1>0, <1>11, <2>1 DEF AssignFallback, TypeOK, database, memory, cache
<1>12. ASSUME AssignNobody(w) PROVE TypeOK'
  <2>1. job' \in [Jobs -> JobRecords]
    BY <1>12, ReportTyped, StopTyped DEF AssignNobody
  <2> QED BY <1>0, <1>12, <2>1 DEF AssignNobody, TypeOK, database, memory, cache
<1>13. ASSUME BatchNow(w) PROVE TypeOK'
  <2>1. job' \in [Jobs -> JobRecords]
    <3>1. PICK others \in SUBSET Nearby(job[w].order) : Goto(w, [job[w] EXCEPT !.pc = "write", !.todo = others \cup {job[w].order}])
      BY <1>13 DEF BatchNow
    <3>2. others \cup {job[w].order} \subseteq Orders
      BY <1>13, DispatchAssumption DEF BatchNow, TooFarToWait, Nearby, DispatchAssumption
    <3>3. [job[w] EXCEPT !.pc = "write", !.todo = others \cup {job[w].order}] \in JobRecords
      BY <1>0, <3>2 DEF JobRecords, Places
    <3> QED BY <3>1, <3>3, GotoTyped
  <2> QED BY <1>0, <1>13, <2>1 DEF BatchNow, TypeOK, database, memory, cache
<1>14. ASSUME OpenWindow(w) PROVE TypeOK'
  <2>1. job' \in [Jobs -> JobRecords]
    BY <1>14, FinishTyped DEF OpenWindow
  <2>2. failed' \in [Orders -> Nat]
    BY <1>14 DEF OpenWindow, JoinWindowOfRider, ArmTimers, ResolveFailed, TypeOK
  <2>3. window' \in [Orders -> [rider: Riders \cup {None}, orders: SUBSET Orders, cap: 0..MaxBatchSize]]
    <3>1. CASE job[w].order \in Orders
      BY <1>0, <1>14, <3>1 DEF OpenWindow, TypeOK, JobRecords
    <3>2. CASE job[w].order \notin Orders
      BY <1>14, <3>2 DEF OpenWindow, TypeOK
    <3> QED BY <3>1, <3>2
  <2> QED BY <1>0, <1>14, <2>1, <2>2, <2>3 DEF OpenWindow, TypeOK, database, memory, cache
<1>15. ASSUME JoinWindowOfRider(w) PROVE TypeOK'
  <2>1. job' \in [Jobs -> JobRecords]
    BY <1>15, FinishTyped DEF JoinWindowOfRider
  <2>2. failed' \in [Orders -> Nat]
    BY <1>15 DEF OpenWindow, JoinWindowOfRider, ArmTimers, ResolveFailed, TypeOK
  <2>3. window' \in [Orders -> [rider: Riders \cup {None}, orders: SUBSET Orders, cap: 0..MaxBatchSize]]
    <3>1. PICK a \in Orders : window' = [window EXCEPT ![a].orders = @ \cup {job[w].order}]
      BY <1>15 DEF JoinWindowOfRider
    <3>2. job[w].order \in Orders
      BY <1>15 DEF JoinWindowOfRider, OrdersKnown, Resting, At
    <3> QED BY ZenonT(60), <3>1, <3>2 DEF TypeOK
  <2> QED BY <1>0, <1>15, <2>1, <2>2, <2>3 DEF JoinWindowOfRider, TypeOK, database, memory, cache
<1>16. ASSUME WriteRow(w) PROVE TypeOK'
  <2>1. job' \in [Jobs -> JobRecords]
    <3>1. PICK o \in job[w].todo : Goto(w, [job[w] EXCEPT !.todo = @ \ {o}, !.done = @ \cup {o},
                                                      !.pc = IF job[w].todo = {o} THEN "arm" ELSE @])
      BY <1>16 DEF WriteRow
    <3>2. [job[w] EXCEPT !.todo = @ \ {o}, !.done = @ \cup {o},
                         !.pc = IF job[w].todo = {o} THEN "arm" ELSE @] \in JobRecords
      BY <1>0 DEF JobRecords, Places
    <3> QED BY <3>1, <3>2, GotoTyped
  <2>2. row' \in [Orders -> [st: RowStates, rider: Riders \cup {None}]]
    <3>1. PICK o \in job[w].todo : SetRow(o, "ASSIGNED", job[w].rider)
      BY <1>16 DEF WriteRow
    <3>2. job[w].rider \in SomeRider /\ o \in SomeOrder
      BY <1>0 DEF JobRecords, SomeRider, SomeOrder
    <3> QED BY <3>1, <3>2, RowTyped DEF RowStep, RowStates, Active
  <2> QED BY <1>0, <1>16, <2>1, <2>2 DEF WriteRow, TypeOK, database, memory, cache
<1>17. ASSUME ArmTimers(w) PROVE TypeOK'
  <2>1. job' \in [Jobs -> JobRecords]
    BY <1>17, FinishTyped DEF ArmTimers
  <2>2. failed' \in [Orders -> Nat]
    BY <1>17 DEF OpenWindow, JoinWindowOfRider, ArmTimers, ResolveFailed, TypeOK
  <2>3. timer' \in [Orders -> Riders \cup {None}]
    BY <1>0, <1>17 DEF ArmTimers, TypeOK, JobRecords
  <2> QED BY <1>0, <1>17, <2>1, <2>2, <2>3 DEF ArmTimers, TypeOK, database, memory, cache
<1>18. ASSUME AutoRead(w) PROVE TypeOK'
  <2>1. job' \in [Jobs -> JobRecords]
    <3>1. CASE To(w, "expire")
      BY <3>1, ToTyped DEF Places
    <3>2. ASSUME NEW r \in Riders, NEW p \in {"expire", "autoTx"}, Goto(w, [job[w] EXCEPT !.rider = r, !.pc = p])
          PROVE  job' \in [Jobs -> JobRecords]
      <4>1. [job[w] EXCEPT !.rider = r, !.pc = p] \in JobRecords
        BY <1>0, <3>2 DEF JobRecords, Places
      <4> QED BY <3>2, <4>1, GotoTyped
    <3> QED BY <1>18, <3>1, <3>2 DEF AutoRead, TypeOK
  <2> QED BY <1>0, <1>18, <2>1 DEF AutoRead, TypeOK, database, memory, cache
<1>19. ASSUME AutoAccept(w) PROVE TypeOK'
  <2>1. job' \in [Jobs -> JobRecords]
    <3>1. job[w].order \in SomeOrder
      BY <1>0 DEF JobRecords, SomeOrder
    <3> QED BY <1>19, <3>1, ClearTyped, StopTyped DEF AutoAccept
  <2>2. row' \in [Orders -> [st: RowStates, rider: Riders \cup {None}]]
    <3>1. job[w].order \in SomeOrder /\ job[w].rider \in SomeRider
      BY <1>0 DEF JobRecords, SomeOrder, SomeRider
    <3> QED BY <1>19, <3>1, RowTyped DEF AutoAccept, RowStep, RowStates, Active
  <2>3. status' \in [Orders -> Statuses]
    BY <1>19, StatusTyped DEF AutoAccept, Statuses, InFlight, TypeOK
  <2> QED BY <1>0, <1>19, <2>1, <2>2, <2>3 DEF AutoAccept, TypeOK, database, memory, cache
<1>20. ASSUME ExpireRead(w) PROVE TypeOK'
  <2>1. job' \in [Jobs -> JobRecords]
    BY <1>20, StopTyped, ToTyped DEF ExpireRead, Places
  <2> QED BY <1>0, <1>20, <2>1 DEF ExpireRead, TypeOK, database, memory, cache
<1>21. ASSUME ExpireWrite(w) PROVE TypeOK'
  <2>1. job' \in [Jobs -> JobRecords]
    <3>1. job[w].order \in SomeOrder /\ job[w].rider \in SomeRider /\ job[w].except \in SomeRider
      BY <1>0 DEF JobRecords, SomeOrder, SomeRider
    <3> QED BY <1>21, <3>1, AssignTyped, GotoTyped DEF ExpireWrite
  <2>2. row' \in [Orders -> [st: RowStates, rider: Riders \cup {None}]]
    <3>1. job[w].order \in SomeOrder /\ job[w].rider \in SomeRider /\ job[w].except \in SomeRider
      BY <1>0 DEF JobRecords, SomeOrder, SomeRider
    <3> QED BY <1>21, <3>1, RowTyped DEF ExpireWrite, RowStep, RowStates
  <2> QED BY <1>0, <1>21, <2>1, <2>2 DEF ExpireWrite, TypeOK, database, memory, cache
<1>22. ASSUME ManualWrite(w) PROVE TypeOK'
  <2>1. job' \in [Jobs -> JobRecords]
    BY <1>22, ToTyped DEF ManualWrite, Places
  <2>2. row' \in [Orders -> [st: RowStates, rider: Riders \cup {None}]]
    <3>1. job[w].order \in SomeOrder /\ job[w].rider \in SomeRider /\ job[w].except \in SomeRider
      BY <1>0 DEF JobRecords, SomeOrder, SomeRider
    <3> QED BY <1>22, <3>1, RowTyped DEF ManualWrite, RowStep, RowStates, Active
  <2> QED BY <1>0, <1>22, <2>1, <2>2 DEF ManualWrite, TypeOK, database, memory, cache
<1>23. ASSUME ManualArm(w) PROVE TypeOK'
  <2>1. job' \in [Jobs -> JobRecords]
    BY <1>23, StopTyped DEF ManualArm
  <2>2. failed' \in [Orders -> Nat]
    BY <1>23 DEF ManualArm, TypeOK
  <2>3. timer' \in [Orders -> Riders \cup {None}]
    BY <1>0, <1>23 DEF ManualArm, TypeOK, JobRecords
  <2>4. attempts' \in [Orders -> 0..(MaxAttempts + 1)]
    <3>1. 0 \in 0..(MaxAttempts + 1)
      BY DispatchAssumption DEF DispatchAssumption
    <3> QED BY <1>23, <3>1 DEF TypeOK, ManualArm
  <2> QED BY <1>0, <1>23, <2>1, <2>2, <2>3, <2>4 DEF ManualArm, TypeOK, database, memory, cache
<1>24. ASSUME AfterAccept(w) PROVE TypeOK'
  <2>1. job' \in [Jobs -> JobRecords]
    BY <1>24, StopTyped DEF AfterAccept
  <2>2. timer' \in [Orders -> Riders \cup {None}]
    BY <1>24 DEF AfterAccept, TypeOK
  <2>3. claim' \in [Orders -> {"free", "pending"} \cup Riders]
    BY <1>24 DEF AfterAccept, TypeOK
  <2> QED BY <1>0, <1>24, <2>1, <2>2, <2>3 DEF AfterAccept, TypeOK, database, memory, cache
<1>25. ASSUME AfterReject(w) PROVE TypeOK'
  <2>1. job' \in [Jobs -> JobRecords]
    <3>1. job[w].order \in SomeOrder /\ job[w].rider \in SomeRider /\ job[w].except \in SomeRider
      BY <1>0 DEF JobRecords, SomeOrder, SomeRider
    <3> QED BY <1>25, <3>1, AssignTyped, GotoTyped DEF AfterReject
  <2>2. timer' \in [Orders -> Riders \cup {None}]
    BY <1>25 DEF AfterReject, TypeOK
  <2> QED BY <1>0, <1>25, <2>1, <2>2 DEF AfterReject, TypeOK, database, memory, cache
<1>26. ASSUME CancelOrder(w) PROVE TypeOK'
  <2>1. job' \in [Jobs -> JobRecords]
    BY <1>26, ToTyped DEF CancelOrder, Places
  <2>2. status' \in [Orders -> Statuses]
    BY <1>26, StatusTyped DEF CancelOrder, Statuses
  <2> QED BY <1>0, <1>26, <2>1, <2>2 DEF CancelOrder, TypeOK, database, memory, cache
<1>27. ASSUME CancelRow(w) PROVE TypeOK'
  <2>1. job' \in [Jobs -> JobRecords]
    <3>1. job[w].order \in SomeOrder /\ job[w].rider \in SomeRider /\ job[w].except \in SomeRider
      BY <1>0 DEF JobRecords, SomeOrder, SomeRider
    <3> QED BY <1>27, <3>1, ClearTyped, StopTyped DEF CancelRow
  <2>2. row' \in [Orders -> [st: RowStates, rider: Riders \cup {None}]]
    <3>1. job[w].order \in SomeOrder /\ job[w].rider \in SomeRider /\ job[w].except \in SomeRider
      BY <1>0 DEF JobRecords, SomeOrder, SomeRider
    <3> QED BY <1>27, <3>1, RowTyped DEF CancelRow, RowStep, RowStates
  <2> QED BY <1>0, <1>27, <2>1, <2>2 DEF CancelRow, TypeOK, database, memory, cache
<1>28. ASSUME ClearTimer(w) PROVE TypeOK'
  <2>1. job' \in [Jobs -> JobRecords]
    BY <1>28, StopTyped DEF ClearTimer
  <2>2. timer' \in [Orders -> Riders \cup {None}]
    BY <1>28 DEF ClearTimer, TypeOK
  <2> QED BY <1>0, <1>28, <2>1, <2>2 DEF ClearTimer, TypeOK, database, memory, cache
<1>29. ASSUME GoOffline(w) PROVE TypeOK'
  <2>1. job' \in [Jobs -> JobRecords]
    BY <1>29, StopTyped DEF GoOffline
  <2>2. online' \subseteq Riders
    BY <1>29 DEF GoOffline, TypeOK
  <2> QED BY <1>0, <1>29, <2>1, <2>2 DEF GoOffline, TypeOK, database, memory, cache
<1> QED
  BY <1>1, <1>2, <1>3, <1>4, <1>5, <1>6, <1>7, <1>8, <1>9, <1>10, <1>11, <1>12, <1>13, <1>14, <1>15, <1>16, <1>17, <1>18, <1>19, <1>20, <1>21, <1>22, <1>23, <1>24, <1>25, <1>26, <1>27, <1>28, <1>29 DEF JobStep

\* So do the timers, a restart and what is done in one statement.
LEMMA TypeOtherStep ==
  ASSUME TypeOK, OrdersKnown,
         \/ \E w \in Jobs : Timers(w) /\ alone' = StillAlone
         \/ \E o \in Orders, r \in Riders, s \in InFlight : UpdateStatus(o, r, s) /\ alone' = StillAlone
         \/ \E r \in Riders : GoOnline(r) /\ alone' = StillAlone
         \/ Bulk \/ Crash \/ UNCHANGED vars
  PROVE  TypeOK'
<1>0. StillAlone \subseteq Orders /\ alone \subseteq Orders
  BY DEF StillAlone, TypeOK
<1>1. ASSUME NEW w \in Jobs, NEW o \in Orders, TimerFires(w, o), alone' = StillAlone PROVE TypeOK'
  <2>1. job' \in [Jobs -> JobRecords]
    <3>1. Idle \in JobRecords /\ timer[o] \in Riders \cup {None}
      BY JobForms DEF TypeOK
    <3>2. [Idle EXCEPT !.pc = "auto", !.order = o, !.except = timer[o]] \in JobRecords
      BY <3>1 DEF JobRecords, Places
    <3> QED BY <1>1, <3>2, GotoTyped DEF TimerFires, TypeOK
  <2>2. timer' \in [Orders -> Riders \cup {None}]
    BY <1>1 DEF TimerFires, TypeOK
  <2> QED BY <1>0, <1>1, <2>1, <2>2 DEF TimerFires, TypeOK, database, cache
<1>2. ASSUME NEW w \in Jobs, NEW a \in Orders, WindowFires(w, a), alone' = StillAlone PROVE TypeOK'
  <2>1. PICK b \in Batches(a, Nearby(a)) :
            Goto(w, [Idle EXCEPT !.pc = "write", !.order = a, !.rider = window[a].rider,
                                 !.cap = window[a].cap, !.todo = b])
    BY <1>2 DEF WindowFires
  <2>2. b \subseteq Orders
    BY <2>1 DEF Batches, Nearby, TypeOK
  <2>3. job' \in [Jobs -> JobRecords]
    <3>1. Idle \in JobRecords /\ window[a].rider \in Riders \cup {None} /\ window[a].cap \in 0..MaxBatchSize
      BY JobForms DEF TypeOK
    <3>2. [Idle EXCEPT !.pc = "write", !.order = a, !.rider = window[a].rider,
                       !.cap = window[a].cap, !.todo = b] \in JobRecords
      BY <2>2, <3>1 DEF JobRecords, Places
    <3> QED BY <2>1, <3>2, GotoTyped
  <2>4. NoWindow \in [rider: Riders \cup {None}, orders: SUBSET Orders, cap: 0..MaxBatchSize]
    BY DispatchAssumption DEF DispatchAssumption, NoWindow
  <2>5. window' \in [Orders -> [rider: Riders \cup {None}, orders: SUBSET Orders, cap: 0..MaxBatchSize]]
    BY <1>2, <2>4 DEF WindowFires, TypeOK
  <2> QED BY <1>0, <1>2, <2>3, <2>5 DEF WindowFires, TypeOK, database, cache
<1>3. ASSUME NEW o \in Orders, NEW r \in Riders, NEW s \in InFlight, UpdateStatus(o, r, s), alone' = StillAlone
      PROVE  TypeOK'
  <2>1. row' \in [Orders -> [st: RowStates, rider: Riders \cup {None}]]
    BY <1>3, RowTyped DEF UpdateStatus, RowStep, RowStates, Active, SomeOrder
  <2>2. status' \in [Orders -> Statuses]
    BY <1>3, StatusTyped DEF UpdateStatus, Statuses
  <2> QED BY <1>0, <1>3, <2>1, <2>2 DEF UpdateStatus, TypeOK, memory, cache
<1>4. ASSUME NEW r \in Riders, GoOnline(r), alone' = StillAlone PROVE TypeOK'
  BY <1>0, <1>4 DEF GoOnline, TypeOK, memory, cache
<1>5. CASE Bulk
  <2>1. PICK o \in Orders, r \in Riders : BulkAssign(o, r) /\ alone' = alone \ {o}
    BY <1>5 DEF Bulk
  <2>2. row' \in [Orders -> [st: RowStates, rider: Riders \cup {None}]]
    BY <2>1, RowTyped DEF BulkAssign, RowStep, RowStates, Active, SomeOrder, SomeRider
  <2> QED BY <1>0, <2>1, <2>2 DEF BulkAssign, TypeOK, memory, cache
<1>6. CASE Crash
  <2>1. /\ job' \in [Jobs -> JobRecords]
        /\ timer' \in [Orders -> Riders \cup {None}]
    BY <1>6, JobForms DEF Crash, Restart
  <2>2. NoWindow \in [rider: Riders \cup {None}, orders: SUBSET Orders, cap: 0..MaxBatchSize]
    BY DispatchAssumption DEF DispatchAssumption, NoWindow
  <2>3. window' \in [Orders -> [rider: Riders \cup {None}, orders: SUBSET Orders, cap: 0..MaxBatchSize]]
    BY <1>6, <2>2 DEF Crash, Restart
  <2>4. restarts' \in 0..MaxRestarts
    BY <1>6, DispatchAssumption DEF DispatchAssumption, Crash, Restart, TypeOK
  <2> QED BY <1>6, <2>1, <2>3, <2>4 DEF Crash, Restart, TypeOK, database, cache
<1>7. CASE UNCHANGED vars
  BY <1>7 DEF vars, TypeOK, database, memory, cache, history
<1> QED BY <1>1, <1>2, <1>3, <1>4, <1>5, <1>6, <1>7 DEF Timers

\* A procedure that starts or goes on knows its order.
LEMMA OrdersKnownStep == TypeOK /\ OrdersKnown /\ [Next]_vars => OrdersKnown'
<1> SUFFICES ASSUME TypeOK, OrdersKnown, [Next]_vars PROVE OrdersKnown'
  OBVIOUS
<1> DEFINE Known(j) == j.pc \in Resting \/ j.order \in Orders
<1>0. job \in [Jobs -> JobRecords] /\ \A w \in Jobs : Known(job[w])
  BY DEF TypeOK, OrdersKnown
<1>a. Known(Idle) /\ \A o \in Orders, r \in SomeRider : Known(Assign(o, r))
  BY DEF Idle, Assign, Resting
<1>1. ASSUME NEW w \in Jobs, NEW j, Goto(w, j), Known(j) PROVE OrdersKnown'
  BY <1>0, <1>1 DEF Goto, OrdersKnown
<1>2. ASSUME NEW w \in Jobs, NEW p, ~(job[w].pc \in Resting), Goto(w, [job[w] EXCEPT !.pc = p]) PROVE OrdersKnown'
  <2>1. Known([job[w] EXCEPT !.pc = p])
    BY <1>0, <1>2 DEF JobRecords
  <2> QED BY <1>1, <1>2, <2>1
<1>3. ASSUME NEW w \in Jobs, Finish(w) PROVE OrdersKnown'
  <2>1. Known([Idle EXCEPT !.pc = "queue", !.queue = job[w].queue])
    BY DEF Idle, Resting
  <2> QED BY <1>a, <1>1, <1>3, <2>1 DEF Finish
<1>4. ASSUME NEW w \in Jobs, Stop(w) PROVE OrdersKnown'
  BY <1>a, <1>1, <1>4 DEF Stop
<1>5. ASSUME UNCHANGED job PROVE OrdersKnown'
  BY <1>5 DEF OrdersKnown
<1>6. ASSUME NEW w \in Jobs, JobStep(w) PROVE OrdersKnown'
  <2>0. job[w] \in JobRecords /\ Known(job[w])
    BY <1>0
  <2>a. ASSUME NEW q, Report(w, q), ~(job[w].pc \in Resting) PROVE OrdersKnown'
    <3>1. Known([Idle EXCEPT !.pc = "report", !.order = job[w].order, !.queue = q])
      BY <2>0, <2>a DEF Idle
    <3> QED BY <1>1, <2>a, <3>1 DEF Report
  <2>b. ASSUME NEW r, NEW tier, Choose(w, r, tier), ~(job[w].pc \in Resting) PROVE OrdersKnown'
    <3>1. Known([job[w] EXCEPT !.pc = "batch", !.rider = r, !.except = None,
                               !.cap = BatchRoom(r), !.tier = tier])
      BY <2>0, <2>b DEF JobRecords
    <3> QED BY <1>1, <2>b, <3>1 DEF Choose
  <2>c. ASSUME NEW o \in Orders, Clear(w, o) PROVE OrdersKnown'
    <3>1. Known([Idle EXCEPT !.pc = "clear", !.order = o])
      BY DEF Idle
    <3> QED BY <1>1, <2>c, <3>1 DEF Clear
  <2>1. ASSUME QueueRead(w) PROVE OrdersKnown'
    <3>1. \A q : Known([Idle EXCEPT !.pc = "queue", !.queue = q])
      BY DEF Idle, Resting
    <3> QED BY <1>1, <1>a, <2>1, <3>1 DEF QueueRead
  <2>2. ASSUME QueueNext(w) PROVE OrdersKnown'
    <3>1. PICK o \in job[w].queue : Goto(w, [Assign(o, None) EXCEPT !.queue = job[w].queue \ {o}])
      BY <2>2 DEF QueueNext
    <3>2. o \in Orders
      BY <2>0 DEF JobRecords
    <3>3. Known([Assign(o, None) EXCEPT !.queue = job[w].queue \ {o}])
      BY <3>2 DEF Assign, Idle
    <3> QED BY <1>1, <3>1, <3>3
  <2>3. ASSUME AssignBegin(w) PROVE OrdersKnown'
    BY <1>2, <2>a, <2>3 DEF AssignBegin, To, At, Resting
  <2>4. ASSUME ReportFailure(w) \/ InsertTask(w) PROVE OrdersKnown'
    BY <1>2, <1>3, <2>4 DEF ReportFailure, InsertTask, To, At, Resting
  <2>5. ASSUME AssignRefused(w) \/ AssignJoins(w) \/ Broadcast(w) PROVE OrdersKnown'
    BY <1>3, <2>5 DEF AssignRefused, AssignJoins, Broadcast
  <2>6. ASSUME AssignInTier(w) \/ AssignSmallFleet(w) \/ AssignFallback(w) PROVE OrdersKnown'
    BY <1>4, <2>b, <2>6 DEF AssignInTier, AssignSmallFleet, AssignFallback, MayChoose, At, Resting
  <2>7. ASSUME AssignNobody(w) PROVE OrdersKnown'
    BY <1>4, <2>a, <2>7 DEF AssignNobody, MayChoose, At, Resting
  <2>8. ASSUME BatchNow(w) PROVE OrdersKnown'
    <3>1. PICK others : Goto(w, [job[w] EXCEPT !.pc = "write", !.todo = others \cup {job[w].order}])
      BY <2>8 DEF BatchNow
    <3>2. Known([job[w] EXCEPT !.pc = "write", !.todo = others \cup {job[w].order}])
      BY <2>0, <2>8 DEF BatchNow, At, Resting, JobRecords
    <3> QED BY <1>1, <3>1, <3>2
  <2>9. ASSUME OpenWindow(w) \/ JoinWindowOfRider(w) \/ ArmTimers(w) PROVE OrdersKnown'
    BY <1>3, <2>9 DEF OpenWindow, JoinWindowOfRider, ArmTimers
  <2>10. ASSUME WriteRow(w) PROVE OrdersKnown'
    <3>1. PICK o : Goto(w, [job[w] EXCEPT !.todo = @ \ {o}, !.done = @ \cup {o},
                                          !.pc = IF job[w].todo = {o} THEN "arm" ELSE @])
      BY <2>10 DEF WriteRow
    <3>2. Known([job[w] EXCEPT !.todo = @ \ {o}, !.done = @ \cup {o},
                               !.pc = IF job[w].todo = {o} THEN "arm" ELSE @])
      BY <2>0, <2>10 DEF WriteRow, At, Resting, JobRecords
    <3> QED BY <1>1, <3>1, <3>2
  <2>11. ASSUME AutoRead(w) PROVE OrdersKnown'
    <3>1. ASSUME NEW r, NEW p, Goto(w, [job[w] EXCEPT !.rider = r, !.pc = p]) PROVE OrdersKnown'
      <4>1. Known([job[w] EXCEPT !.rider = r, !.pc = p])
        BY <2>0, <2>11 DEF AutoRead, At, Resting, JobRecords
      <4> QED BY <1>1, <3>1, <4>1
    <3> QED BY <1>2, <2>11, <3>1 DEF AutoRead, To, At, Resting
  <2>12. ASSUME AutoAccept(w) \/ CancelRow(w) PROVE OrdersKnown'
    BY <1>4, <2>0, <2>c, <2>12 DEF AutoAccept, CancelRow, At, Resting
  <2>13. ASSUME ExpireRead(w) \/ ManualWrite(w) \/ CancelOrder(w) PROVE OrdersKnown'
    BY <1>2, <1>4, <2>13 DEF ExpireRead, ManualWrite, CancelOrder, To, At, Resting
  <2>14. ASSUME ExpireWrite(w) \/ AfterReject(w) PROVE OrdersKnown'
    <3>1. job[w].order \in Orders /\ job[w].except \in SomeRider
      BY <2>0, <2>14 DEF ExpireWrite, AfterReject, At, Resting, JobRecords, SomeRider
    <3> QED BY <1>1, <1>a, <2>14, <3>1 DEF ExpireWrite, AfterReject
  <2>15. ASSUME ManualArm(w) \/ AfterAccept(w) \/ ClearTimer(w) \/ GoOffline(w) PROVE OrdersKnown'
    BY <1>4, <2>15 DEF ManualArm, AfterAccept, ClearTimer, GoOffline
  <2> QED BY <1>6, <2>1, <2>2, <2>3, <2>4, <2>5, <2>6, <2>7, <2>8, <2>9, <2>10, <2>11, <2>12,
             <2>13, <2>14, <2>15 DEF JobStep
<1>7. ASSUME NEW w \in Jobs, Requests(w) \/ Timers(w) PROVE OrdersKnown'
  <2>1. ASSUME NEW o \in Orders, NEW p, NEW r, NEW e,
               \/ Goto(w, [Idle EXCEPT !.pc = p, !.order = o])
               \/ Goto(w, [Idle EXCEPT !.pc = p, !.order = o, !.rider = r])
               \/ Goto(w, [Idle EXCEPT !.pc = p, !.order = o, !.except = e])
        PROVE  OrdersKnown'
    <3>1. /\ Known([Idle EXCEPT !.pc = p, !.order = o])
          /\ Known([Idle EXCEPT !.pc = p, !.order = o, !.rider = r])
          /\ Known([Idle EXCEPT !.pc = p, !.order = o, !.except = e])
      BY DEF Idle
    <3> QED BY <1>1, <2>1, <3>1
  <2>2. ASSUME NEW o \in Orders, MarkPacked(w, o) \/ PollOrder(w, o) \/ AdminRetry(w, o) \/ Redeliver(w, o)
        PROVE  OrdersKnown'
    BY <1>1, <1>a, <2>2 DEF MarkPacked, PollOrder, AdminRetry, Redeliver, SomeRider
  <2>3. ASSUME NEW o \in Orders, CancelRead(w, o) PROVE OrdersKnown'
    BY <2>1, <2>3 DEF CancelRead
  <2>4. ASSUME NEW o \in Orders, NEW r \in Riders,
               ManualCheck(w, o, r) \/ Accept(w, o, r) \/ Reject(w, o, r) \/ MarkFailed(w, o, r)
        PROVE  OrdersKnown'
    BY <2>1, <2>4 DEF ManualCheck, Accept, Reject, MarkFailed, Clear
  <2>5. Known([Idle EXCEPT !.pc = "queueRead"]) /\ \A r : Known([Idle EXCEPT !.pc = "offline", !.rider = r])
    BY DEF Idle, Resting
  <2>6. ASSUME NEW o \in Orders, NEW r \in Riders, Deliver(w, o, r)
        PROVE  OrdersKnown'
    BY <1>1, <2>5, <2>6 DEF Deliver
  <2>9. ASSUME NEW r \in Riders, GoOfflineCheck(w, r) PROVE OrdersKnown'
    BY <1>1, <2>5, <2>9 DEF GoOfflineCheck
  <2>7. ASSUME NEW o \in Orders, TimerFires(w, o) PROVE OrdersKnown'
    BY <1>5, <2>1, <2>7 DEF TimerFires
  <2>8. ASSUME NEW a \in Orders, WindowFires(w, a) PROVE OrdersKnown'
    <3>1. \A r, c, b : Known([Idle EXCEPT !.pc = "write", !.order = a, !.rider = r, !.cap = c, !.todo = b])
      BY DEF Idle
    <3> QED BY <1>1, <2>8, <3>1 DEF WindowFires
  <2> QED BY <1>7, <2>2, <2>3, <2>4, <2>6, <2>7, <2>8, <2>9 DEF Requests, Timers
<1>8. ASSUME Bulk \/ Crash \/ UNCHANGED vars PROVE OrdersKnown'
  BY <1>0, <1>5, <1>8, <1>a DEF Bulk, BulkAssign, Crash, Restart, vars, OrdersKnown
<1>9. ASSUME NEW r, NEW o, NEW s, UpdateStatus(o, r, s) \/ GoOnline(r) PROVE OrdersKnown'
  BY <1>5, <1>9 DEF UpdateStatus, GoOnline
<1> QED BY <1>6, <1>7, <1>8, <1>9 DEF Next, OwnStep, Request

LEMMA TypeStep == TypeOK /\ OrdersKnown /\ [Next]_vars => TypeOK'
<1> SUFFICES ASSUME TypeOK, OrdersKnown, [Next]_vars PROVE TypeOK'
  OBVIOUS
<1> QED BY TypeJobStep, TypeRequest, TypeOtherStep DEF Next, OwnStep, Request

LEMMA OrdersKnownInit == Init => OrdersKnown
  BY DEF Init, OrdersKnown, Idle, Resting

\* Every variable keeps its type, and a procedure at work knows its order.
THEOREM TypeCorrect == Spec => []TypeOK
<1>1. Init => TypeOK /\ OrdersKnown
  BY TypeInit, OrdersKnownInit
<1>2. TypeOK /\ OrdersKnown /\ [Next]_vars => (TypeOK /\ OrdersKnown)'
  BY TypeStep, OrdersKnownStep
<1> QED BY <1>1, <1>2, PTL DEF Spec

-----------------------------------------------------------------------------
\* The rider of an order.

\* Rows do not lose their rider.
RidersStay == \A o \in Orders : row[o].rider # None => row'[o].rider # None

\* A procedure moves alone.
LEMMA GotoMoves ==
  ASSUME TypeOK, NEW w \in Jobs, NEW j, Goto(w, j)
  PROVE  job'[w] = j /\ \A v \in Jobs \ {w} : job'[v] = job[v]
  BY DEF TypeOK, Goto

\* What SetRow and SetRowState leave in the rows.
LEMMA SetRowEffect ==
  ASSUME TypeOK, NEW o \in Orders, NEW st, NEW r, r # None, SetRow(o, st, r)
  PROVE  /\ RidersStay
         /\ row'[o].rider = r /\ row'[o].st = st
         /\ \A p \in Orders \ {o} : row'[p] = row[p]
<1>1. /\ row'[o] = [st |-> st, rider |-> r]
      /\ \A p \in Orders \ {o} : row'[p] = row[p]
  BY DEF TypeOK, SetRow
<1> QED BY <1>1 DEF RidersStay

LEMMA SetRowStateEffect ==
  ASSUME TypeOK, NEW o, NEW st, SetRowState(o, st)
  PROVE  /\ RidersStay
         /\ \A p \in Orders : row'[p].rider = row[p].rider
         /\ \A p \in Orders \ {o} : row'[p] = row[p]
         /\ o \in Orders => row'[o].st = st
  BY DEF TypeOK, SetRowState, RidersStay

\* A step in which riders stay, and every procedure that moves has one if it needs one.
LEMMA RiderKeeps ==
  ASSUME TypeOK, OrdersKnown, RiderInv, RidersStay,
         \A v \in Jobs : job'[v] = job[v] \/ RiderOfJob(v)',
         \A o \in Orders : status'[o] = status[o] \/ row'[o].rider # None
                           \/ status'[o] \in {"PACKED", "CANCELLED"},
         \A o \in Orders : timer'[o] \in {None, timer[o]} \/ row'[o].rider # None,
         \A a \in Orders : Open(a)' => window'[a].rider # None
  PROVE  RiderInv'
<1>1. OutOnlyWithRider'
  BY DEF RiderInv, OutOnlyWithRider, RidersStay, InFlight
<1>2. ASSUME NEW v \in Jobs, job'[v] = job[v] PROVE RiderOfJob(v)'
  <2>1. job'[v] = job[v] /\ job[v] \in JobRecords /\ RiderOfJob(v)
    BY <1>2 DEF TypeOK, RiderInv
  <2>2. At(v, "manualArm") => job[v].order \in Orders
    BY DEF OrdersKnown, At, Resting
  <2>3. job[v].done \subseteq Orders
    BY <2>1 DEF JobRecords
  <2> QED BY <2>1, <2>2, <2>3 DEF RiderOfJob, RidersStay, At
<1> QED BY <1>1, <1>2 DEF RiderInv

\* The procedure moves on, with what it has done; or it ends, and another begins.
LEMMA RiderToStays ==
  ASSUME TypeOK, RiderInv, RidersStay, NEW w \in Jobs, NEW p, To(w, p),
         p \notin {"batch", "write", "arm", "manual", "manualArm", "autoTx"}
  PROVE  RiderOfJob(w)' /\ \A v \in Jobs \ {w} : job'[v] = job[v]
<1>1. job[w] \in JobRecords /\ RiderOfJob(w)
  BY DEF TypeOK, RiderInv
<1>2. job'[w] = [job[w] EXCEPT !.pc = p] /\ \A v \in Jobs \ {w} : job'[v] = job[v]
  BY GotoMoves DEF To
<1>3. job'[w].pc = p /\ job'[w].done = job[w].done /\ job[w].done \subseteq Orders
  BY <1>1, <1>2 DEF JobRecords
<1> QED BY <1>1, <1>2, <1>3 DEF RiderOfJob, RidersStay, At

LEMMA RiderEnds ==
  ASSUME TypeOK, NEW w \in Jobs, NEW j, Goto(w, j), j.done = {},
         j.pc \notin {"batch", "write", "arm", "manual", "manualArm", "autoTx"}
  PROVE  RiderOfJob(w)' /\ \A v \in Jobs \ {w} : job'[v] = job[v]
<1>1. job'[w] = j /\ \A v \in Jobs \ {w} : job'[v] = job[v]
  BY GotoMoves
<1> QED BY <1>1 DEF RiderOfJob, At

\* Stopping, finishing, reporting, clearing and starting all end what was done.
LEMMA RiderStops ==
  ASSUME TypeOK, NEW w \in Jobs, NEW q, NEW o, NEW e,
         \/ Stop(w) \/ Finish(w) \/ Report(w, q) \/ Clear(w, o) \/ Goto(w, Assign(o, e))
         \/ Goto(w, [Assign(o, e) EXCEPT !.queue = q])
  PROVE  RiderOfJob(w)' /\ \A v \in Jobs \ {w} : job'[v] = job[v]
<1>1. CASE Stop(w)
  BY <1>1, RiderEnds DEF Stop, Idle
<1>2. CASE Finish(w)
  <2>1. LET j == IF job[w].queue = {} THEN Idle ELSE [Idle EXCEPT !.pc = "queue", !.queue = job[w].queue]
        IN  j.done = {} /\ j.pc \in {"idle", "queue"}
    BY DEF Idle
  <2> QED BY <1>2, <2>1, RiderEnds DEF Finish
<1>3. CASE Report(w, q)
  BY <1>3, RiderEnds DEF Report, Idle
<1>4. CASE Clear(w, o)
  BY <1>4, RiderEnds DEF Clear, Idle
<1>5. CASE Goto(w, Assign(o, e))
  BY <1>5, RiderEnds DEF Assign, Idle
<1>6. CASE Goto(w, [Assign(o, e) EXCEPT !.queue = q])
  BY <1>6, RiderEnds DEF Assign, Idle
<1> QED BY <1>1, <1>2, <1>3, <1>4, <1>5, <1>6

\* What a procedure does by itself keeps the riders.
LEMMA RiderJobStep ==
  ASSUME TypeOK, OrdersKnown, RiderInv, NEW w \in Jobs, JobStep(w)
  PROVE  RiderInv'
<1>0. /\ job[w] \in JobRecords /\ RiderOfJob(w) /\ OutOnlyWithRider
      /\ \A a \in Orders : Open(a) => window[a].rider # None
      /\ status \in [Orders -> Statuses] /\ timer \in [Orders -> Riders \cup {None}]
      /\ None \notin Riders
  BY DispatchAssumption DEF TypeOK, RiderInv, DispatchAssumption
<1> DEFINE Others == \A v \in Jobs \ {w} : job'[v] = job[v]
<1>a. ASSUME UNCHANGED <<status, row, timer, window>>, RiderOfJob(w)', Others PROVE RiderInv'
  BY <1>0, <1>a, RiderKeeps DEF RidersStay, Open
<1>b. ASSUME UNCHANGED <<status, row, timer>>, RiderOfJob(w)', Others,
             \A a \in Orders : Open(a)' => window'[a].rider # None
      PROVE  RiderInv'
  BY <1>0, <1>b, RiderKeeps DEF RidersStay
<1>1. ASSUME QueueRead(w) PROVE RiderInv'
  <2>1. \A q : [Idle EXCEPT !.pc = "queue", !.queue = q].done = {}
              /\ [Idle EXCEPT !.pc = "queue", !.queue = q].pc = "queue"
    BY DEF Idle
  <2>2. RiderOfJob(w)' /\ Others
    BY <1>1, <2>1, RiderEnds, RiderStops DEF QueueRead, Stop
  <2>3. UNCHANGED <<status, row, timer, window>>
    BY <1>1 DEF QueueRead, database, memory
  <2> QED BY <1>a, <2>2, <2>3
<1>2. ASSUME QueueNext(w) PROVE RiderInv'
  <2>1. RiderOfJob(w)' /\ Others
    BY <1>2, RiderStops DEF QueueNext, RidersStay, database, memory, cache
  <2>2. UNCHANGED <<status, row, timer, window>>
    BY <1>2 DEF QueueNext, database, memory, cache
  <2> QED BY <1>a, <2>1, <2>2
<1>3. ASSUME AssignBegin(w) \/ ReportFailure(w) \/ InsertTask(w) \/ AssignRefused(w) \/ Broadcast(w) \/ AssignNobody(w) \/ ExpireRead(w) \/ GoOffline(w) PROVE RiderInv'
  <2>1. UNCHANGED <<status, row, timer, window>>
    BY <1>3 DEF AssignBegin, ReportFailure, InsertTask, AssignRefused, Broadcast, AssignNobody,
              ExpireRead, GoOffline, database, memory
  <2>2. RidersStay
    BY <2>1 DEF RidersStay
  <2>3. RiderOfJob(w)' /\ Others
    BY <1>3, <2>2, RiderStops, RiderToStays DEF AssignBegin, ReportFailure, InsertTask, AssignRefused,
       Broadcast, AssignNobody, ExpireRead, GoOffline
  <2> QED BY <1>a, <2>1, <2>3
<1>4. ASSUME AssignJoins(w) PROVE RiderInv'
  <2>1. PICK a \in Orders : /\ Joinable(a, job[w].order)
                           /\ window' = [window EXCEPT ![a].orders = @ \cup {job[w].order}]
    BY <1>4 DEF AssignJoins
  <2>2. \A b \in Orders : window'[b].rider = window[b].rider /\ (b # a => window'[b] = window[b])
    BY <2>1 DEF TypeOK
  <2>3. RiderOfJob(w)' /\ Others
    BY <1>4, RiderStops DEF AssignJoins
  <2>4. UNCHANGED <<status, row, timer>>
    BY <1>4 DEF AssignJoins, database
  <2> QED BY <1>0, <1>b, <2>1, <2>2, <2>3, <2>4 DEF Joinable, Open
<1>5. ASSUME AssignInTier(w) \/ AssignSmallFleet(w) \/ AssignFallback(w) PROVE RiderInv'
  <2>1. UNCHANGED <<status, row, timer, window>>
    BY <1>5 DEF AssignInTier, AssignSmallFleet, AssignFallback, database, memory
  <2>2. ASSUME NEW r \in Riders, NEW tier, Choose(w, r, tier) PROVE RiderOfJob(w)' /\ Others
    <3>1. job'[w] = [job[w] EXCEPT !.pc = "batch", !.rider = r, !.except = None,
                                   !.cap = BatchRoom(r), !.tier = tier] /\ Others
      BY <2>2, GotoMoves DEF Choose
    <3>2. job'[w].pc = "batch" /\ job'[w].rider = r /\ job'[w].done = job[w].done /\ job[w].done \subseteq Orders
      BY <1>0, <3>1 DEF JobRecords
    <3> QED BY <1>0, <2>1, <3>1, <3>2 DEF RiderOfJob, At
  <2>3. online \subseteq Riders
    BY DEF TypeOK
  <2>4. RiderOfJob(w)' /\ Others
    BY <1>5, <2>2, <2>3, RiderStops DEF AssignInTier, AssignSmallFleet, AssignFallback
  <2> QED BY <1>a, <2>1, <2>4
<1>6. ASSUME BatchNow(w) PROVE RiderInv'
  <2>1. PICK others : Goto(w, [job[w] EXCEPT !.pc = "write", !.todo = others \cup {job[w].order}])
    BY <1>6 DEF BatchNow
  <2>2. job'[w] = [job[w] EXCEPT !.pc = "write", !.todo = others \cup {job[w].order}] /\ Others
    BY <2>1, GotoMoves
  <2>3. /\ job'[w].pc = "write" /\ job'[w].rider = job[w].rider /\ job'[w].done = job[w].done
        /\ job[w].rider # None /\ job[w].done \subseteq Orders
    BY <1>0, <2>2, <1>6 DEF JobRecords, BatchNow, At, RiderOfJob
  <2>4. UNCHANGED <<status, row, timer, window>>
    BY <1>6 DEF BatchNow, database, memory
  <2>5. RiderOfJob(w)'
    BY <1>0, <2>3, <2>4 DEF RiderOfJob, At
  <2> QED BY <1>a, <2>2, <2>4, <2>5
<1>7. ASSUME OpenWindow(w) PROVE RiderInv'
  <2>1. RiderOfJob(w)' /\ Others
    BY <1>7, RiderStops DEF OpenWindow
  <2>2. UNCHANGED <<status, row, timer>> /\ job[w].rider # None
    BY <1>0, <1>7 DEF OpenWindow, RiderOfJob, At
  <2>3. \A a \in Orders : window'[a] = window[a] \/ window'[a].rider = job[w].rider
    BY <1>7 DEF OpenWindow, TypeOK
  <2> QED BY <1>0, <1>b, <2>1, <2>2, <2>3 DEF Open
<1>8. ASSUME JoinWindowOfRider(w) PROVE RiderInv'
  <2>1. RiderOfJob(w)' /\ Others
    BY <1>8, RiderStops DEF JoinWindowOfRider
  <2>2. UNCHANGED <<status, row, timer>> /\ job[w].rider # None
    BY <1>0, <1>8 DEF JoinWindowOfRider, RiderOfJob, At
  <2>3. \A a \in Orders : window'[a] = window[a] \/ window'[a].rider = job[w].rider
    BY <1>8 DEF JoinWindowOfRider, TypeOK
  <2> QED BY <1>0, <1>b, <2>1, <2>2, <2>3 DEF Open
<1>9. ASSUME WriteRow(w) PROVE RiderInv'
  <2>1. PICK o \in job[w].todo :
          /\ SetRow(o, "ASSIGNED", job[w].rider)
          /\ Goto(w, [job[w] EXCEPT !.todo = @ \ {o}, !.done = @ \cup {o},
                                    !.pc = IF job[w].todo = {o} THEN "arm" ELSE @])
    BY <1>9 DEF WriteRow
  <2>2. o \in Orders /\ job[w].rider # None /\ UNCHANGED <<status, timer, window>>
    BY <1>0, <1>9 DEF WriteRow, JobRecords, RiderOfJob, At, memory
  <2>3. RidersStay /\ row'[o].rider = job[w].rider
    BY <2>1, <2>2, SetRowEffect
  <2>4. job'[w] = [job[w] EXCEPT !.todo = @ \ {o}, !.done = @ \cup {o},
                                 !.pc = IF job[w].todo = {o} THEN "arm" ELSE @] /\ Others
    BY <2>1, GotoMoves
  <2>5. /\ job'[w].rider = job[w].rider /\ job'[w].done = job[w].done \cup {o}
        /\ job'[w].pc \in {"write", "arm"} /\ job[w].done \subseteq Orders
    BY <1>0, <2>4, <1>9 DEF JobRecords, WriteRow, At
  <2>6. RiderOfJob(w)'
    BY <1>0, <2>2, <2>3, <2>5 DEF RiderOfJob, RidersStay, At
  <2> QED BY <1>0, <2>2, <2>3, <2>4, <2>6, RiderKeeps DEF Open
<1>10. ASSUME ArmTimers(w) PROVE RiderInv'
  <2>1. RiderOfJob(w)' /\ Others
    BY <1>10, RiderStops DEF ArmTimers
  <2>2. UNCHANGED <<status, row, window>> /\ \A o \in job[w].done : row[o].rider # None
    BY <1>0, <1>10 DEF ArmTimers, RiderOfJob
  <2>3. \A o \in Orders : timer'[o] = timer[o] \/ row[o].rider # None
    BY <2>2, <1>10 DEF ArmTimers
  <2> QED BY <1>0, <2>1, <2>2, <2>3, RiderKeeps DEF Open, RidersStay
<1>11. ASSUME AutoRead(w) PROVE RiderInv'
  <2>1. UNCHANGED <<status, row, timer, window>>
    BY <1>11 DEF AutoRead, database, memory
  <2>2. RidersStay
    BY <2>1 DEF RidersStay
  <2>3. ASSUME NEW r \in Riders, NEW p \in {"expire", "autoTx"},
               Goto(w, [job[w] EXCEPT !.rider = r, !.pc = p])
        PROVE  RiderOfJob(w)' /\ Others
    <3>1. job'[w] = [job[w] EXCEPT !.rider = r, !.pc = p] /\ Others
      BY <2>3, GotoMoves
    <3>2. job'[w].pc = p /\ job'[w].rider = r /\ job'[w].done = job[w].done
      BY <1>0, <3>1 DEF JobRecords
    <3> QED BY <1>0, <2>1, <2>3, <3>1, <3>2 DEF RiderOfJob, At
  <2>4. RiderOfJob(w)' /\ Others
    BY <1>11, <2>2, <2>3, RiderToStays DEF AutoRead, TypeOK
  <2> QED BY <1>a, <2>1, <2>4
<1>12. ASSUME AutoAccept(w) PROVE RiderInv'
  <2>1. job[w].rider # None /\ job[w].order \in Orders /\ UNCHANGED <<timer, window>>
    BY <1>0, <1>12 DEF AutoAccept, At, RiderOfJob, OrdersKnown, Resting, memory
  <2>2. RiderOfJob(w)' /\ Others
    BY <1>12, RiderStops DEF AutoAccept
  <2>3. CASE row[job[w].order].st = "ASSIGNED"
    <3>1. SetRow(job[w].order, "ACCEPTED", job[w].rider) /\ SetStatus(job[w].order, "OUT_FOR_DELIVERY")
      BY <1>12, <2>3 DEF AutoAccept
    <3>2. RidersStay /\ row'[job[w].order].rider = job[w].rider
      BY <2>1, <3>1, SetRowEffect
    <3>3. \A o \in Orders : status'[o] = status[o] \/ o = job[w].order
      BY <3>1 DEF SetStatus
    <3> QED BY <1>0, <2>1, <2>2, <3>2, <3>3, RiderKeeps DEF Open
  <2>4. CASE row[job[w].order].st # "ASSIGNED"
    BY <1>12, <1>a, <2>1, <2>2, <2>4 DEF AutoAccept
  <2> QED BY <2>3, <2>4
<1>13. ASSUME ExpireWrite(w) PROVE RiderInv'
  <2>1. RiderOfJob(w)' /\ Others
    BY <1>13, RiderStops DEF ExpireWrite
  <2>2. RidersStay /\ UNCHANGED <<status, timer, window>>
    BY <1>13, SetRowStateEffect DEF ExpireWrite, memory
  <2> QED BY <1>0, <2>1, <2>2, RiderKeeps DEF Open
<1>14. ASSUME ManualWrite(w) PROVE RiderInv'
  <2>1. job[w].rider # None /\ job[w].order \in Orders /\ UNCHANGED <<status, timer, window>>
    BY <1>0, <1>14 DEF ManualWrite, At, RiderOfJob, OrdersKnown, Resting, memory
  <2>2. RidersStay /\ row'[job[w].order].rider = job[w].rider
    BY <2>1, <1>14, SetRowEffect DEF ManualWrite
  <2>3. job'[w] = [job[w] EXCEPT !.pc = "manualArm"] /\ Others
    BY <1>14, GotoMoves DEF ManualWrite, To
  <2>4. /\ job'[w].pc = "manualArm" /\ job'[w].rider = job[w].rider /\ job'[w].order = job[w].order
        /\ job'[w].done = job[w].done /\ job[w].done \subseteq Orders
    BY <1>0, <2>3 DEF JobRecords
  <2>5. RiderOfJob(w)'
    BY <1>0, <2>1, <2>2, <2>4 DEF RiderOfJob, RidersStay, At
  <2> QED BY <1>0, <2>1, <2>2, <2>3, <2>5, RiderKeeps DEF Open
<1>15. ASSUME ManualArm(w) PROVE RiderInv'
  <2>1. RiderOfJob(w)' /\ Others
    BY <1>15, RiderStops DEF ManualArm
  <2>2. UNCHANGED <<status, row, window>> /\ row[job[w].order].rider # None
    BY <1>0, <1>15 DEF ManualArm, RiderOfJob
  <2>3. \A o \in Orders : timer'[o] = timer[o] \/ o = job[w].order
    BY <1>15 DEF ManualArm, TypeOK
  <2> QED BY <1>0, <2>1, <2>2, <2>3, RiderKeeps DEF Open, RidersStay
<1>16. ASSUME AfterAccept(w) \/ AfterReject(w) \/ ClearTimer(w) PROVE RiderInv'
  <2>1. RiderOfJob(w)' /\ Others
    BY <1>16, RiderStops DEF AfterAccept, AfterReject, ClearTimer
  <2>2. UNCHANGED <<status, row, window>> /\ \A o \in Orders : timer'[o] \in {None, timer[o]}
    BY <1>16 DEF AfterAccept, AfterReject, ClearTimer, database, TypeOK
  <2> QED BY <1>0, <2>1, <2>2, RiderKeeps DEF Open, RidersStay
<1>17. ASSUME CancelOrder(w) PROVE RiderInv'
  <2>1. UNCHANGED <<row, timer, window>> /\ \A o \in Orders : status'[o] \in {status[o], "CANCELLED"}
    BY <1>0, <1>17 DEF CancelOrder, SetStatus, memory
  <2>2. RidersStay
    BY <2>1 DEF RidersStay
  <2>3. RiderOfJob(w)' /\ Others
    BY <1>17, <2>2, RiderToStays DEF CancelOrder
  <2> QED BY <1>0, <2>1, <2>2, <2>3, RiderKeeps DEF Open
<1>18. ASSUME CancelRow(w) PROVE RiderInv'
  <2>1. RiderOfJob(w)' /\ Others
    BY <1>18, RiderStops DEF CancelRow
  <2>2. RidersStay /\ UNCHANGED <<status, timer, window>>
    BY <1>18, SetRowStateEffect DEF CancelRow, memory, RidersStay
  <2> QED BY <1>0, <2>1, <2>2, RiderKeeps DEF Open
<1> QED
  BY <1>1, <1>2, <1>3, <1>4, <1>5, <1>6, <1>7, <1>8, <1>9, <1>10, <1>11, <1>12, <1>13, <1>14, <1>15, <1>16, <1>17, <1>18 DEF JobStep

\* So do requests, timers and what is done in one statement.
LEMMA RiderOtherStep ==
  ASSUME TypeOK, OrdersKnown, RiderInv,
         \/ \E w \in Jobs : Requests(w) \/ Timers(w)
         \/ \E o \in Orders, r \in Riders, s \in InFlight : UpdateStatus(o, r, s)
         \/ \E r \in Riders : GoOnline(r)
         \/ Bulk \/ Crash \/ UNCHANGED vars
  PROVE  RiderInv'
<1>0. /\ OutOnlyWithRider /\ \A a \in Orders : Open(a) => window[a].rider # None
      /\ row \in [Orders -> [st: RowStates, rider: Riders \cup {None}]]
      /\ status \in [Orders -> Statuses] /\ None \notin Riders
  BY DispatchAssumption DEF TypeOK, RiderInv, DispatchAssumption
<1> DEFINE Ready == \A v \in Jobs : job'[v] = job[v] \/ RiderOfJob(v)'
<1>a. ASSUME Ready, RidersStay, UNCHANGED <<timer, window>>,
             \A o \in Orders : status'[o] = status[o] \/ row'[o].rider # None
                               \/ status'[o] \in {"PACKED", "CANCELLED"}
      PROVE  RiderInv'
  BY <1>0, <1>a, RiderKeeps DEF Open
<1>b. ASSUME NEW w \in Jobs, NEW o, NEW e, Goto(w, Assign(o, e)) PROVE Ready
  BY <1>b, RiderStops
<1>c. ASSUME NEW w \in Jobs, NEW p, Goto(w, [Idle EXCEPT !.pc = p]), p \notin {"batch", "write", "arm", "manual", "manualArm", "autoTx"}
      PROVE  Ready
  BY <1>c, RiderEnds DEF Idle
<1>d. ASSUME NEW w \in Jobs, NEW p, NEW o, Goto(w, [Idle EXCEPT !.pc = p, !.order = o]),
             p \notin {"batch", "write", "arm", "manual", "manualArm", "autoTx"}
      PROVE  Ready
  BY <1>d, RiderEnds DEF Idle
<1>e. ASSUME NEW w \in Jobs, NEW p, NEW r, Goto(w, [Idle EXCEPT !.pc = p, !.rider = r]),
             p \notin {"batch", "write", "arm", "manual", "manualArm", "autoTx"}
      PROVE  Ready
  BY <1>e, RiderEnds DEF Idle
<1>1. ASSUME NEW w \in Jobs, NEW o \in Orders, MarkPacked(w, o) \/ Redeliver(w, o) PROVE RiderInv'
  <2>1. Ready /\ UNCHANGED <<timer, window>>
    BY <1>1, <1>b DEF MarkPacked, Redeliver, memory
  <2>2. RidersStay
    BY <1>1, SetRowStateEffect DEF MarkPacked, Redeliver, RidersStay
  <2>3. \A p \in Orders : status'[p] \in {status[p], "PACKED"}
    BY <1>0, <1>1 DEF MarkPacked, Redeliver, SetStatus
  <2> QED BY <1>a, <2>1, <2>2, <2>3
<1>2. ASSUME NEW w \in Jobs, NEW o \in Orders, PollOrder(w, o) \/ AdminRetry(w, o) \/ CancelRead(w, o)
      PROVE  RiderInv'
  <2>1. Ready /\ UNCHANGED <<status, row, timer, window>>
    BY <1>2, <1>b, <1>d DEF PollOrder, AdminRetry, CancelRead, database, memory
  <2> QED BY <1>a, <2>1 DEF RidersStay
<1>3. ASSUME NEW w \in Jobs, NEW r \in Riders, GoOfflineCheck(w, r) PROVE RiderInv'
  <2>1. Ready /\ UNCHANGED <<status, row, timer, window>>
    BY <1>3, <1>e DEF GoOfflineCheck, database, memory
  <2> QED BY <1>a, <2>1 DEF RidersStay
<1>4. ASSUME NEW w \in Jobs, NEW o \in Orders, NEW r \in Riders, ManualCheck(w, o, r) PROVE RiderInv'
  <2>1. /\ job'[w] = [Idle EXCEPT !.pc = "manual", !.order = o, !.rider = r]
        /\ \A v \in Jobs \ {w} : job'[v] = job[v]
    BY <1>4, GotoMoves DEF ManualCheck
  <2>2. job'[w].pc = "manual" /\ job'[w].rider = r /\ job'[w].done = {} /\ r # None
    BY <1>0, <2>1 DEF Idle
  <2>3. Ready
    BY <2>1, <2>2 DEF RiderOfJob, At
  <2>4. UNCHANGED <<status, row, timer, window>>
    BY <1>4 DEF ManualCheck, database, memory
  <2> QED BY <1>a, <2>3, <2>4 DEF RidersStay
<1>5. ASSUME NEW w \in Jobs, NEW o \in Orders, NEW r \in Riders, Accept(w, o, r) \/ Reject(w, o, r)
      PROVE  RiderInv'
  <2>a. ASSUME Accept(w, o, r) PROVE Ready
    <3>1. Goto(w, [Idle EXCEPT !.pc = "accepted", !.order = o])
      BY <2>a DEF Accept
    <3> QED BY <1>d, <3>1
  <2>b. ASSUME Reject(w, o, r) PROVE Ready
    <3>1. Goto(w, [Idle EXCEPT !.pc = "rejected", !.order = o, !.except = r])
      BY <2>b DEF Reject
    <3> QED BY <3>1, RiderEnds DEF Idle
  <2>1. Ready /\ UNCHANGED <<timer, window>>
    BY <1>5, <2>a, <2>b DEF Accept, Reject, memory
  <2>2. RidersStay /\ row'[o].rider = r /\ r # None
    BY <1>0, <1>5, SetRowEffect DEF Accept, Reject
  <2>3. \A p \in Orders \ {o} : status'[p] = status[p]
    BY <1>0, <1>5 DEF Accept, Reject, SetStatus
  <2> QED BY <1>a, <2>1, <2>2, <2>3
<1>6. ASSUME NEW w \in Jobs, NEW o \in Orders, NEW r \in Riders, Deliver(w, o, r) \/ MarkFailed(w, o, r)
      PROVE  RiderInv'
  <2>1. Ready /\ UNCHANGED <<timer, window>>
    BY <1>6, <1>c, <1>d DEF Deliver, MarkFailed, Clear, memory
  <2>2. RidersStay /\ row'[o].rider = r /\ r # None
    BY <1>0, <1>6, SetRowStateEffect DEF Deliver, MarkFailed
  <2>3. \A p \in Orders \ {o} : status'[p] = status[p]
    BY <1>0, <1>6 DEF Deliver, MarkFailed, SetStatus
  <2> QED BY <1>a, <2>1, <2>2, <2>3
<1>7. ASSUME NEW w \in Jobs, NEW o \in Orders, TimerFires(w, o) PROVE RiderInv'
  <2>1. Ready /\ UNCHANGED <<status, row, window>>
    <3>1. CASE Goto(w, [Idle EXCEPT !.pc = "auto", !.order = o, !.except = timer[o]])
      <4>1. Ready
        BY <3>1, RiderEnds DEF Idle
      <4> QED BY <1>7, <4>1 DEF TimerFires, database
    <3> QED BY <1>7, <3>1 DEF TimerFires, database
  <2>2. \A p \in Orders : timer'[p] \in {None, timer[p]}
    BY <1>7 DEF TimerFires, TypeOK
  <2> QED BY <1>0, <2>1, <2>2, RiderKeeps DEF Open, RidersStay
<1>8. ASSUME NEW w \in Jobs, NEW a \in Orders, WindowFires(w, a) PROVE RiderInv'
  <2>1. PICK b : Goto(w, [Idle EXCEPT !.pc = "write", !.order = a, !.rider = window[a].rider,
                                      !.cap = window[a].cap, !.todo = b])
    BY <1>8 DEF WindowFires
  <2>2. /\ job'[w] = [Idle EXCEPT !.pc = "write", !.order = a, !.rider = window[a].rider,
                                   !.cap = window[a].cap, !.todo = b]
        /\ \A v \in Jobs \ {w} : job'[v] = job[v]
    BY <2>1, GotoMoves
  <2>3. job'[w].pc = "write" /\ job'[w].rider = window[a].rider /\ job'[w].done = {}
    BY <2>2 DEF Idle
  <2>4. window[a].rider # None
    BY <1>0, <1>8 DEF WindowFires
  <2>5. Ready
    BY <2>2, <2>3, <2>4 DEF RiderOfJob, At
  <2>6. UNCHANGED <<status, row, timer>> /\ \A c \in Orders : window'[c] \in {NoWindow, window[c]}
    BY <1>8 DEF WindowFires, database, TypeOK
  <2> QED BY <1>0, <2>5, <2>6, RiderKeeps DEF Open, RidersStay
<1>9. ASSUME NEW o \in Orders, NEW r \in Riders, NEW s \in InFlight, UpdateStatus(o, r, s) PROVE RiderInv'
  <2>1. Ready /\ UNCHANGED <<timer, window>>
    BY <1>9 DEF UpdateStatus, memory
  <2>2. RidersStay /\ row'[o].rider = r /\ r # None
    BY <1>0, <1>9, SetRowStateEffect DEF UpdateStatus
  <2>3. \A p \in Orders \ {o} : status'[p] = status[p]
    BY <1>0, <1>9 DEF UpdateStatus, SetStatus
  <2> QED BY <1>a, <2>1, <2>2, <2>3
<1>10. ASSUME NEW r \in Riders, GoOnline(r) PROVE RiderInv'
  BY <1>10, <1>a DEF GoOnline, memory, RidersStay
<1>11. CASE Bulk
  <2>1. PICK o \in Orders, r \in Riders : BulkAssign(o, r)
    BY <1>11 DEF Bulk
  <2>2. RidersStay
    BY <1>0, <2>1, SetRowEffect DEF BulkAssign
  <2> QED BY <1>a, <2>1, <2>2 DEF BulkAssign, memory
<1>12. CASE Crash
  <2>1. Ready
    BY <1>12 DEF Crash, Restart, Idle, RiderOfJob, At
  <2>2. UNCHANGED <<status, row>> /\ \A c \in Orders : window'[c] = NoWindow /\ timer'[c] = None
    BY <1>12 DEF Crash, Restart, database
  <2> QED BY <2>1, <2>2, RiderKeeps DEF Open, RidersStay
<1>13. CASE UNCHANGED vars
  BY <1>13, <1>a DEF vars, database, memory, RidersStay
<1> QED BY <1>1, <1>2, <1>3, <1>4, <1>5, <1>6, <1>7, <1>8, <1>9, <1>10, <1>11, <1>12, <1>13 DEF Requests, Timers

LEMMA RiderInit == Init => RiderInv
<1> SUFFICES ASSUME Init PROVE RiderInv
  OBVIOUS
<1>1. OutOnlyWithRider
  BY DEF Init, OutOnlyWithRider, InFlight
<1>2. \A a \in Orders : ~Open(a)
  BY DEF Init, Open
<1>3. \A w \in Jobs : RiderOfJob(w)
  BY DEF Init, Idle, RiderOfJob, At
<1> QED BY <1>1, <1>2, <1>3 DEF RiderInv

\* Whatever timers, riders, admins and customers do at once: an order that has left
\* the store has a rider, and no timer runs for nobody.
THEOREM OutWithRider == Spec => []OutOnlyWithRider
<1>1. Init => TypeOK /\ OrdersKnown /\ RiderInv
  BY TypeInit, OrdersKnownInit, RiderInit
<1>2. TypeOK /\ OrdersKnown /\ RiderInv /\ [Next]_vars => (TypeOK /\ OrdersKnown /\ RiderInv)'
  BY TypeStep, OrdersKnownStep, RiderJobStep, RiderOtherStep DEF Next, OwnStep, Request
<1>3. RiderInv => OutOnlyWithRider
  BY DEF RiderInv
<1> QED BY <1>1, <1>2, <1>3, PTL DEF Spec

-----------------------------------------------------------------------------
\* The room for a batch.

RoomOfWindow(a) == /\ window[a].orders # {}
                   /\ Cardinality(window[a].orders) <= MaxBatchSize
                   /\ window[a].cap > 0
FitsJob(w) == RoomOfJob(w) /\ Cardinality(job[w].todo \cup job[w].done) <= job[w].cap

\* A step in which every procedure and every window that changes has room.
LEMMA RoomKeeps ==
  ASSUME RoomInv,
         \A v \in Jobs : job'[v] = job[v] \/ FitsJob(v)',
         \A a \in Orders : Open(a)' => window'[a] = window[a] \/ RoomOfWindow(a)'
  PROVE  RoomInv'
<1>1. ASSUME NEW v \in Jobs PROVE FitsJob(v)'
  <2>1. FitsJob(v)
    BY DEF RoomInv, FitsJob, BatchWithinRoom
  <2> QED BY <2>1 DEF FitsJob, RoomOfJob, At
<1>2. ASSUME NEW a \in Orders, Open(a)' PROVE RoomOfWindow(a)'
  <2>1. Open(a) => RoomOfWindow(a)
    BY DEF RoomInv, BatchWithinRoom, RoomOfWindow
  <2> QED BY <1>2, <2>1 DEF RoomOfWindow, Open
<1> QED BY <1>1, <1>2 DEF RoomInv, BatchWithinRoom, FitsJob, RoomOfWindow

\* A procedure that has nothing to do fits, unless it is about to make a batch.
LEMMA FitsEmpty ==
  ASSUME TypeOK, NEW w \in Jobs, NEW j \in JobRecords, Goto(w, j), j.todo = {}, j.done = {},
         j.pc = "batch" => j.cap > 0
  PROVE  \A v \in Jobs : job'[v] = job[v] \/ FitsJob(v)'
<1>1. job'[w] = j /\ \A v \in Jobs \ {w} : job'[v] = job[v]
  BY GotoMoves
<1>2. Cardinality({} \cup {}) = 0 /\ j.cap >= 0
  BY FS_EmptySet, DispatchAssumption DEF JobRecords, DispatchAssumption
<1>3. RoomOfJob(w)'
  BY <1>1 DEF RoomOfJob, At
<1>4. Cardinality(job'[w].todo \cup job'[w].done) <= job'[w].cap
  BY <1>1, <1>2
<1> QED BY <1>1, <1>3, <1>4 DEF FitsJob

LEMMA FitsTo ==
  ASSUME TypeOK, RoomInv, NEW w \in Jobs, NEW p \in Places, To(w, p), p # "batch",
         job[w].pc \notin {"write", "arm"}
  PROVE  \A v \in Jobs : job'[v] = job[v] \/ FitsJob(v)'
<1>1. job[w] \in JobRecords /\ RoomOfJob(w)
  BY DEF TypeOK, RoomInv
<1>2. /\ [job[w] EXCEPT !.pc = p] \in JobRecords /\ [job[w] EXCEPT !.pc = p].pc = p
      /\ [job[w] EXCEPT !.pc = p].todo = {} /\ [job[w] EXCEPT !.pc = p].done = {}
  BY <1>1 DEF RoomOfJob, JobRecords
<1> QED BY <1>2, FitsEmpty DEF To

LEMMA FitsStops ==
  ASSUME TypeOK, NEW w \in Jobs, NEW q \in SUBSET Orders, NEW o \in SomeOrder, NEW e \in SomeRider,
         \/ Stop(w) \/ Finish(w) \/ Report(w, q) \/ Clear(w, o) \/ Goto(w, Assign(o, e))
         \/ Goto(w, [Assign(o, e) EXCEPT !.queue = q])
  PROVE  \A v \in Jobs : job'[v] = job[v] \/ FitsJob(v)'
<1>0. Idle \in JobRecords /\ job[w] \in JobRecords
  BY JobForms DEF TypeOK
<1>1. CASE Stop(w)
  BY <1>0, <1>1, FitsEmpty DEF Stop, Idle
<1>2. CASE Finish(w)
  <2>1. /\ [Idle EXCEPT !.pc = "queue", !.queue = job[w].queue] \in JobRecords
        /\ LET j == [Idle EXCEPT !.pc = "queue", !.queue = job[w].queue]
           IN  j.done = {} /\ j.todo = {} /\ j.pc = "queue"
    BY <1>0 DEF JobRecords, Places, Idle
  <2> QED BY <1>0, <1>1, <1>2, <2>1, FitsEmpty DEF Finish, Stop
<1>3. CASE Report(w, q)
  <2>1. /\ [Idle EXCEPT !.pc = "report", !.order = job[w].order, !.queue = q] \in JobRecords
        /\ LET j == [Idle EXCEPT !.pc = "report", !.order = job[w].order, !.queue = q]
           IN  j.done = {} /\ j.todo = {} /\ j.pc = "report"
    BY <1>0 DEF JobRecords, Places, Idle
  <2> QED BY <1>3, <2>1, FitsEmpty DEF Report
<1>4. CASE Clear(w, o)
  <2>1. /\ [Idle EXCEPT !.pc = "clear", !.order = o] \in JobRecords
        /\ LET j == [Idle EXCEPT !.pc = "clear", !.order = o]
           IN  j.done = {} /\ j.todo = {} /\ j.pc = "clear"
    BY <1>0 DEF JobRecords, Places, Idle, SomeOrder
  <2> QED BY <1>4, <2>1, FitsEmpty DEF Clear
<1>5. Assign(o, e).done = {} /\ Assign(o, e).todo = {} /\ Assign(o, e).pc = "begin"
  BY DEF Assign, Idle
<1>6. CASE Goto(w, Assign(o, e))
  BY <1>5, <1>6, AssignTyped, FitsEmpty
<1>7. CASE Goto(w, [Assign(o, e) EXCEPT !.queue = q])
  <2>1. LET j == [Assign(o, e) EXCEPT !.queue = q] IN j.done = {} /\ j.todo = {} /\ j.pc = "begin"
    BY DEF Assign, Idle
  <2> QED BY <1>7, <2>1, AssignTyped, FitsEmpty
<1> QED BY <1>1, <1>2, <1>3, <1>4, <1>6, <1>7

\* One order more.
LEMMA OneMore ==
  ASSUME NEW S \in SUBSET Orders, NEW o
  PROVE  /\ Cardinality(S) \in Nat /\ Cardinality(S \cup {o}) \in Nat
         /\ Cardinality(S \cup {o}) <= Cardinality(S) + 1
<1>1. IsFiniteSet(S)
  BY FS_Subset, DispatchAssumption DEF DispatchAssumption
<1>2. Cardinality(S) \in Nat
  BY <1>1, FS_CardinalityType
<1>3. Cardinality(S \cup {o}) = IF o \in S THEN Cardinality(S) ELSE Cardinality(S) + 1
  BY <1>1, FS_AddElement
<1> QED BY <1>2, <1>3

\* What a procedure does by itself stays within the rider's room.
LEMMA RoomJobStep ==
  ASSUME TypeOK, OrdersKnown, RoomInv, NEW w \in Jobs, JobStep(w)
  PROVE  RoomInv'
<1>0. /\ job[w] \in JobRecords /\ RoomOfJob(w) /\ Cardinality(job[w].todo \cup job[w].done) <= job[w].cap
      /\ \A a \in Orders : Open(a) => RoomOfWindow(a)
      /\ \A a \in Orders : window[a].orders \subseteq Orders
  BY DEF TypeOK, RoomInv, RoomOfWindow, BatchWithinRoom
<1>z. MaxBatchSize \in Nat /\ MaxBatchSize >= 1
  BY DispatchAssumption DEF DispatchAssumption
<1> DEFINE Fit == \A v \in Jobs : job'[v] = job[v] \/ FitsJob(v)'
<1>a. ASSUME UNCHANGED window, Fit PROVE RoomInv'
  BY <1>a, RoomKeeps
<1>1. ASSUME QueueRead(w) PROVE RoomInv'
  <2>1. Idle \in JobRecords /\ {o \in Orders : Assignable(o)} \subseteq Orders
    BY JobForms
  <2>2. \A q \in SUBSET Orders : LET j == [Idle EXCEPT !.pc = "queue", !.queue = q]
                               IN  j \in JobRecords /\ j.done = {} /\ j.todo = {} /\ j.pc = "queue"
    BY <2>1 DEF JobRecords, Places, Idle
  <2>3. Idle.done = {} /\ Idle.todo = {} /\ Idle.pc = "idle"
    BY DEF Idle
  <2>4. Fit
    BY <1>1, <2>1, <2>2, <2>3, FitsEmpty DEF QueueRead
  <2> QED BY <1>1, <1>a, <2>4 DEF QueueRead, memory
<1>2. ASSUME QueueNext(w) PROVE RoomInv'
  <2>1. PICK o \in job[w].queue : Goto(w, [Assign(o, None) EXCEPT !.queue = job[w].queue \ {o}])
    BY <1>2 DEF QueueNext
  <2>2. o \in SomeOrder /\ job[w].queue \ {o} \in SUBSET Orders /\ None \in SomeRider
    BY <1>0 DEF JobRecords, SomeOrder, SomeRider
  <2>3. Fit
    BY <2>1, <2>2, FitsStops
  <2> QED BY <1>2, <1>a, <2>3 DEF QueueNext, memory
<1>3. ASSUME AssignBegin(w) \/ ReportFailure(w) \/ InsertTask(w) \/ AssignRefused(w) \/ Broadcast(w) \/ AssignNobody(w) PROVE RoomInv'
  <2>1. /\ job[w].queue \in SUBSET Orders /\ {} \in SUBSET Orders
        /\ job[w].order \in SomeOrder /\ job[w].except \in SomeRider
    BY <1>0 DEF JobRecords, SomeOrder, SomeRider
  <2>2. Fit
    BY <1>3, <2>1, FitsStops, FitsTo DEF AssignBegin, ReportFailure, InsertTask, AssignRefused, Broadcast, AssignNobody, At, Places
  <2>3. UNCHANGED window
    BY <1>3 DEF AssignBegin, ReportFailure, InsertTask, AssignRefused, Broadcast, AssignNobody, memory
  <2> QED BY <1>a, <2>2, <2>3
<1>4. ASSUME ArmTimers(w) \/ ExpireRead(w) \/ ExpireWrite(w) \/ ManualWrite(w) \/ ManualArm(w) \/ AfterAccept(w) PROVE RoomInv'
  <2>1. /\ job[w].queue \in SUBSET Orders /\ {} \in SUBSET Orders
        /\ job[w].order \in SomeOrder /\ job[w].except \in SomeRider
    BY <1>0 DEF JobRecords, SomeOrder, SomeRider
  <2>2. Fit
    BY <1>4, <2>1, FitsStops, FitsTo DEF ArmTimers, ExpireRead, ExpireWrite, ManualWrite, ManualArm, AfterAccept, At, Places
  <2>3. UNCHANGED window
    BY <1>4 DEF ArmTimers, ExpireRead, ExpireWrite, ManualWrite, ManualArm, AfterAccept, memory
  <2> QED BY <1>a, <2>2, <2>3
<1>5. ASSUME AutoAccept(w) \/ AfterReject(w) \/ CancelOrder(w) \/ CancelRow(w) \/ ClearTimer(w) \/ GoOffline(w) PROVE RoomInv'
  <2>1. /\ job[w].queue \in SUBSET Orders /\ {} \in SUBSET Orders
        /\ job[w].order \in SomeOrder /\ job[w].except \in SomeRider
    BY <1>0 DEF JobRecords, SomeOrder, SomeRider
  <2>2. Fit
    BY <1>5, <2>1, FitsStops, FitsTo DEF AutoAccept, AfterReject, CancelOrder, CancelRow, ClearTimer, GoOffline, At, Places
  <2>3. UNCHANGED window
    BY <1>5 DEF AutoAccept, AfterReject, CancelOrder, CancelRow, ClearTimer, GoOffline, memory
  <2> QED BY <1>a, <2>2, <2>3
<1>6. ASSUME AssignJoins(w) PROVE RoomInv'
  <2>1. PICK a \in Orders : /\ Joinable(a, job[w].order)
                           /\ window' = [window EXCEPT ![a].orders = @ \cup {job[w].order}]
    BY <1>6 DEF AssignJoins
  <2>2. /\ window'[a].orders = window[a].orders \cup {job[w].order} /\ window'[a].cap = window[a].cap
        /\ \A b \in Orders \ {a} : window'[b] = window[b]
    BY <2>1 DEF TypeOK
  <2>3. RoomOfWindow(a) /\ (job[w].order \in window[a].orders \/ Cardinality(window[a].orders) < MaxBatchSize)
    BY <1>0, <2>1 DEF Joinable
  <2>4. Cardinality(window[a].orders \cup {job[w].order}) <= MaxBatchSize
    <3>1. CASE job[w].order \in window[a].orders
      <4>1. window[a].orders \cup {job[w].order} = window[a].orders
        BY <3>1
      <4> QED BY <2>3, <4>1 DEF RoomOfWindow
    <3>2. CASE Cardinality(window[a].orders) < MaxBatchSize
      <4>1. window[a].orders \in SUBSET Orders
        BY <1>0
      <4>2. /\ Cardinality(window[a].orders) \in Nat /\ Cardinality(window[a].orders \cup {job[w].order}) \in Nat
            /\ Cardinality(window[a].orders \cup {job[w].order}) <= Cardinality(window[a].orders) + 1
        BY <4>1, OneMore
      <4> QED BY <1>z, <3>2, <4>2
    <3> QED BY <2>3, <3>1, <3>2
  <2>5. RoomOfWindow(a)'
    BY <2>2, <2>3, <2>4 DEF RoomOfWindow
  <2>6. Fit
    BY <1>6, FitsStops DEF AssignJoins, SomeOrder, SomeRider
  <2> QED BY <2>2, <2>5, <2>6, RoomKeeps
<1>7. ASSUME AssignInTier(w) \/ AssignSmallFleet(w) \/ AssignFallback(w) PROVE RoomInv'
  <2>1. ASSUME NEW r \in Riders, NEW tier \in BOOLEAN, ~AtLoadCap(r), Choose(w, r, tier), At(w, "check") PROVE Fit
    <3>1. job[w].todo = {} /\ job[w].done = {}
      BY <1>0, <2>1 DEF RoomOfJob, At
    <3>2. BatchRoom(r) \in 0..MaxBatchSize /\ BatchRoom(r) > 0
      BY <2>1, RoomTyped
    <3> DEFINE j == [job[w] EXCEPT !.pc = "batch", !.rider = r, !.except = None,
                                   !.cap = BatchRoom(r), !.tier = tier]
    <3>3. j \in JobRecords /\ j.todo = {} /\ j.done = {} /\ j.cap = BatchRoom(r)
      BY <1>0, <3>1, <3>2 DEF JobRecords, Places
    <3>4. Goto(w, j)
      BY <2>1 DEF Choose
    <3> HIDE DEF j
    <3> QED BY <3>2, <3>3, <3>4, FitsEmpty
  <2>2. Stop(w) => Fit
    BY FitsStops DEF SomeOrder, SomeRider
  <2>3. Fit
    BY <1>7, <2>1, <2>2 DEF AssignInTier, AssignSmallFleet, AssignFallback, MayChoose, TypeOK
  <2> QED BY <1>7, <1>a, <2>3 DEF AssignInTier, AssignSmallFleet, AssignFallback, memory
<1>8. ASSUME BatchNow(w) PROVE RoomInv'
  <2>1. PICK others \in SUBSET Nearby(job[w].order) :
          /\ Cardinality(others) < job[w].cap
          /\ Goto(w, [job[w] EXCEPT !.pc = "write", !.todo = others \cup {job[w].order}])
    BY <1>8 DEF BatchNow
  <2>2. /\ job'[w] = [job[w] EXCEPT !.pc = "write", !.todo = others \cup {job[w].order}]
        /\ \A v \in Jobs \ {w} : job'[v] = job[v]
    BY <2>1, GotoMoves
  <2>3. job[w].done = {}
    BY <1>0, <1>8 DEF BatchNow, At, RoomOfJob
  <2>4. /\ job'[w].pc = "write" /\ job'[w].cap = job[w].cap
        /\ job'[w].todo \cup job'[w].done = others \cup {job[w].order}
    BY <1>0, <2>2, <2>3 DEF JobRecords
  <2>5. others \in SUBSET Orders /\ job[w].order \in Orders /\ job[w].cap \in Nat
    BY <1>0, <1>8 DEF Nearby, BatchNow, OrdersKnown, At, Resting, JobRecords
  <2>6. /\ Cardinality(others) \in Nat /\ Cardinality(others \cup {job[w].order}) \in Nat
        /\ Cardinality(others \cup {job[w].order}) <= Cardinality(others) + 1
    BY <2>5, OneMore
  <2>7. Cardinality(others \cup {job[w].order}) <= job[w].cap
    BY <2>1, <2>5, <2>6
  <2>8. FitsJob(w)'
    BY <2>4, <2>7 DEF FitsJob, RoomOfJob, At
  <2> QED BY <1>8, <1>a, <2>2, <2>8 DEF BatchNow, memory
<1>9. ASSUME OpenWindow(w) PROVE RoomInv'
  <2>1. Fit
    BY <1>9, FitsStops DEF OpenWindow, SomeOrder, SomeRider
  <2>2. job[w].cap > 0 /\ job[w].order \in Orders
    BY <1>0, <1>9 DEF OpenWindow, RoomOfJob, OrdersKnown, At, Resting
  <2>3. \A a \in Orders : window'[a] = window[a]
          \/ (window'[a].orders = {job[w].order} /\ window'[a].cap = job[w].cap)
    BY <1>9, <2>2 DEF OpenWindow, TypeOK
  <2>4. Cardinality({job[w].order}) = 1
    BY FS_Singleton
  <2>5. \A a \in Orders : window'[a] = window[a] \/ RoomOfWindow(a)'
    BY <1>z, <2>2, <2>3, <2>4 DEF RoomOfWindow
  <2> QED BY <2>1, <2>5, RoomKeeps
<1>10. ASSUME JoinWindowOfRider(w) PROVE RoomInv'
  <2>1. Fit
    BY <1>10, FitsStops DEF JoinWindowOfRider, SomeOrder, SomeRider
  <2>2. PICK a \in Orders : /\ Open(a) /\ Cardinality(window[a].orders) < MaxBatchSize
                           /\ window' = [window EXCEPT ![a].orders = @ \cup {job[w].order}]
    BY <1>10 DEF JoinWindowOfRider
  <2>3. /\ window'[a].orders = window[a].orders \cup {job[w].order} /\ window'[a].cap = window[a].cap
        /\ \A b \in Orders \ {a} : window'[b] = window[b]
    BY <2>2 DEF TypeOK
  <2>4. job[w].order \in Orders
    BY <1>10 DEF JoinWindowOfRider, OrdersKnown, At, Resting
  <2>5. Cardinality(window[a].orders \cup {job[w].order}) <= MaxBatchSize
    <3>1. window[a].orders \in SUBSET Orders
      BY <1>0
    <3>2. /\ Cardinality(window[a].orders) \in Nat /\ Cardinality(window[a].orders \cup {job[w].order}) \in Nat
          /\ Cardinality(window[a].orders \cup {job[w].order}) <= Cardinality(window[a].orders) + 1
      BY <3>1, OneMore
    <3> QED BY <1>z, <2>2, <3>2
  <2>6. RoomOfWindow(a)'
    BY <1>0, <2>2, <2>3, <2>5 DEF RoomOfWindow
  <2> QED BY <2>1, <2>3, <2>6, RoomKeeps
<1>11. ASSUME WriteRow(w) PROVE RoomInv'
  <2>1. PICK o \in job[w].todo : Goto(w, [job[w] EXCEPT !.todo = @ \ {o}, !.done = @ \cup {o},
                                                      !.pc = IF job[w].todo = {o} THEN "arm" ELSE @])
    BY <1>11 DEF WriteRow
  <2>2. /\ job'[w] = [job[w] EXCEPT !.todo = @ \ {o}, !.done = @ \cup {o},
                                   !.pc = IF job[w].todo = {o} THEN "arm" ELSE @]
        /\ \A v \in Jobs \ {w} : job'[v] = job[v]
    BY <2>1, GotoMoves
  <2>3. /\ job'[w].pc \in {"write", "arm"} /\ job'[w].cap = job[w].cap
        /\ job'[w].todo \cup job'[w].done = job[w].todo \cup job[w].done
    BY <1>0, <1>11, <2>2 DEF JobRecords, WriteRow, At
  <2>4. FitsJob(w)'
    BY <1>0, <2>3 DEF FitsJob, RoomOfJob, At
  <2> QED BY <1>11, <1>a, <2>2, <2>4 DEF WriteRow, memory
<1>12. ASSUME AutoRead(w) PROVE RoomInv'
  <2>1. ASSUME NEW r \in Riders, NEW p \in {"expire", "autoTx"},
               Goto(w, [job[w] EXCEPT !.rider = r, !.pc = p])
        PROVE  Fit
    <3>1. LET j == [job[w] EXCEPT !.rider = r, !.pc = p]
          IN  j \in JobRecords /\ j.todo = {} /\ j.done = {} /\ j.pc = p
      BY <1>0, <1>12 DEF JobRecords, Places, RoomOfJob, AutoRead, At
    <3> QED BY <2>1, <3>1, FitsEmpty
  <2>2. To(w, "expire") => Fit
    BY <1>12, FitsTo DEF AutoRead, At, Places
  <2>3. Fit
    BY <1>12, <2>1, <2>2 DEF AutoRead, TypeOK
  <2> QED BY <1>12, <1>a, <2>3 DEF AutoRead, memory
<1> QED
  BY <1>1, <1>2, <1>3, <1>4, <1>5, <1>6, <1>7, <1>8, <1>9, <1>10, <1>11, <1>12 DEF JobStep

\* So do requests, timers and what is done in one statement.
LEMMA RoomOtherStep ==
  ASSUME TypeOK, OrdersKnown, RoomInv,
         \/ \E w \in Jobs : Requests(w) \/ Timers(w)
         \/ \E o \in Orders, r \in Riders, s \in InFlight : UpdateStatus(o, r, s)
         \/ \E r \in Riders : GoOnline(r)
         \/ Bulk \/ Crash \/ UNCHANGED vars
  PROVE  RoomInv'
<1>0. Idle \in JobRecords /\ Idle.todo = {} /\ Idle.done = {} /\ timer \in [Orders -> Riders \cup {None}]
  BY JobForms DEF Idle, TypeOK
<1> DEFINE Fit == \A v \in Jobs : job'[v] = job[v] \/ FitsJob(v)'
<1>a. ASSUME UNCHANGED window, Fit PROVE RoomInv'
  BY <1>a, RoomKeeps
<1>b. ASSUME NEW w \in Jobs, NEW p \in Places \ {"batch"}, NEW o \in SomeOrder, NEW r \in SomeRider,
             Goto(w, [Idle EXCEPT !.pc = p, !.order = o, !.rider = r])
      PROVE  Fit
  <2>1. LET j == [Idle EXCEPT !.pc = p, !.order = o, !.rider = r]
        IN  j \in JobRecords /\ j.todo = {} /\ j.done = {} /\ j.pc = p
    BY <1>0 DEF JobRecords, SomeOrder, SomeRider, Idle
  <2> QED BY <1>b, <2>1, FitsEmpty
<1>c. ASSUME NEW w \in Jobs, NEW p \in Places \ {"batch"}, NEW o \in SomeOrder, NEW e \in SomeRider,
             Goto(w, [Idle EXCEPT !.pc = p, !.order = o, !.except = e])
      PROVE  Fit
  <2>1. LET j == [Idle EXCEPT !.pc = p, !.order = o, !.except = e]
        IN  j \in JobRecords /\ j.todo = {} /\ j.done = {} /\ j.pc = p
    BY <1>0 DEF JobRecords, SomeOrder, SomeRider, Idle
  <2> QED BY <1>c, <2>1, FitsEmpty
<1>d. ASSUME NEW w \in Jobs, NEW p \in Places \ {"batch"}, NEW o \in SomeOrder,
             Goto(w, [Idle EXCEPT !.pc = p, !.order = o])
      PROVE  Fit
  <2>1. LET j == [Idle EXCEPT !.pc = p, !.order = o]
        IN  j \in JobRecords /\ j.todo = {} /\ j.done = {} /\ j.pc = p
    BY <1>0 DEF JobRecords, SomeOrder, SomeRider, Idle
  <2> QED BY <1>d, <2>1, FitsEmpty
<1>e. ASSUME NEW w \in Jobs, NEW p \in Places \ {"batch"}, NEW r \in SomeRider,
             Goto(w, [Idle EXCEPT !.pc = p, !.rider = r])
      PROVE  Fit
  <2>1. LET j == [Idle EXCEPT !.pc = p, !.rider = r]
        IN  j \in JobRecords /\ j.todo = {} /\ j.done = {} /\ j.pc = p
    BY <1>0 DEF JobRecords, SomeOrder, SomeRider, Idle
  <2> QED BY <1>e, <2>1, FitsEmpty
<1>f. ASSUME NEW w \in Jobs, NEW p \in Places \ {"batch"},
             Goto(w, [Idle EXCEPT !.pc = p])
      PROVE  Fit
  <2>1. LET j == [Idle EXCEPT !.pc = p]
        IN  j \in JobRecords /\ j.todo = {} /\ j.done = {} /\ j.pc = p
    BY <1>0 DEF JobRecords, SomeOrder, SomeRider, Idle
  <2> QED BY <1>f, <2>1, FitsEmpty
<1>1. ASSUME NEW w \in Jobs, NEW o \in Orders,
             MarkPacked(w, o) \/ Redeliver(w, o) \/ PollOrder(w, o) \/ AdminRetry(w, o)
      PROVE  RoomInv'
  <2>1. Fit
    BY <1>1, FitsStops DEF MarkPacked, Redeliver, PollOrder, AdminRetry, SomeOrder, SomeRider
  <2> QED BY <1>1, <1>a, <2>1 DEF MarkPacked, Redeliver, PollOrder, AdminRetry, memory
<1>2. ASSUME NEW w \in Jobs, NEW o \in Orders, CancelRead(w, o) PROVE RoomInv'
  BY <1>2, <1>a, <1>d DEF CancelRead, memory, Places, SomeOrder, SomeRider
<1>3. ASSUME NEW w \in Jobs, NEW r \in Riders, GoOfflineCheck(w, r) PROVE RoomInv'
  BY <1>3, <1>a, <1>e DEF GoOfflineCheck, memory, Places, SomeOrder, SomeRider
<1>4. ASSUME NEW w \in Jobs, NEW o \in Orders, NEW r \in Riders, ManualCheck(w, o, r) PROVE RoomInv'
  BY <1>4, <1>a, <1>b DEF ManualCheck, memory, Places, SomeOrder, SomeRider
<1>5. ASSUME NEW w \in Jobs, NEW o \in Orders, NEW r \in Riders, Accept(w, o, r) PROVE RoomInv'
  BY <1>5, <1>a, <1>d DEF Accept, memory, Places, SomeOrder, SomeRider
<1>6. ASSUME NEW w \in Jobs, NEW o \in Orders, NEW r \in Riders, Reject(w, o, r) PROVE RoomInv'
  <2>1. Goto(w, [Idle EXCEPT !.pc = "rejected", !.order = o, !.except = r]) /\ UNCHANGED window
    BY <1>6 DEF Reject, memory
  <2>2. "rejected" \in Places \ {"batch"} /\ o \in SomeOrder /\ r \in SomeRider
    BY DEF Places, SomeOrder, SomeRider
  <2>3. Fit
    BY <1>c, <2>1, <2>2
  <2> QED BY <1>a, <2>1, <2>3
<1>7. ASSUME NEW w \in Jobs, NEW o \in Orders, NEW r \in Riders, Deliver(w, o, r) PROVE RoomInv'
  BY <1>7, <1>a, <1>f DEF Deliver, memory, Places, SomeOrder, SomeRider
<1>8. ASSUME NEW w \in Jobs, NEW o \in Orders, NEW r \in Riders, MarkFailed(w, o, r) PROVE RoomInv'
  <2>1. Fit
    BY <1>8, FitsStops DEF MarkFailed, SomeOrder, SomeRider
  <2> QED BY <1>8, <1>a, <2>1 DEF MarkFailed, memory
<1>9. ASSUME NEW w \in Jobs, NEW o \in Orders, TimerFires(w, o) PROVE RoomInv'
  <2>1. "auto" \in Places \ {"batch"} /\ o \in SomeOrder /\ timer[o] \in SomeRider
    BY <1>0 DEF Places, SomeOrder, SomeRider
  <2>2. Goto(w, [Idle EXCEPT !.pc = "auto", !.order = o, !.except = timer[o]]) => Fit
    BY <1>c, <2>1
  <2>3. UNCHANGED job => Fit
    OBVIOUS
  <2> QED BY <1>9, <1>a, <2>2, <2>3 DEF TimerFires
<1>10. ASSUME NEW w \in Jobs, NEW a \in Orders, WindowFires(w, a) PROVE RoomInv'
  <2>1. PICK b \in Batches(a, Nearby(a)) :
            Goto(w, [Idle EXCEPT !.pc = "write", !.order = a, !.rider = window[a].rider,
                                 !.cap = window[a].cap, !.todo = b])
    BY <1>10 DEF WindowFires
  <2>2. /\ job'[w] = [Idle EXCEPT !.pc = "write", !.order = a, !.rider = window[a].rider,
                                   !.cap = window[a].cap, !.todo = b]
        /\ \A v \in Jobs \ {w} : job'[v] = job[v]
    BY <2>1, GotoMoves
  <2>3. job'[w].pc = "write" /\ job'[w].cap = window[a].cap /\ job'[w].todo \cup job'[w].done = b
    BY <2>2 DEF Idle
  <2>4. Cardinality(b) <= window[a].cap
    BY <2>1 DEF Batches
  <2>5. FitsJob(w)'
    BY <2>3, <2>4 DEF FitsJob, RoomOfJob, At
  <2>6. \A c \in Orders : window'[c] \in {NoWindow, window[c]}
    BY <1>10 DEF WindowFires, TypeOK
  <2> QED BY <2>2, <2>5, <2>6, RoomKeeps DEF Open
<1>11. ASSUME NEW o \in Orders, NEW r \in Riders, NEW s \in InFlight, UpdateStatus(o, r, s) PROVE RoomInv'
  BY <1>11, <1>a DEF UpdateStatus, memory
<1>12. ASSUME NEW r \in Riders, GoOnline(r) PROVE RoomInv'
  BY <1>12, <1>a DEF GoOnline, memory
<1>13. CASE Bulk
  BY <1>13, <1>a DEF Bulk, BulkAssign, memory
<1>14. CASE Crash
  <2>1. Cardinality({} \cup {}) = 0 /\ Idle.cap >= 0
    BY FS_EmptySet DEF Idle
  <2>2. Idle.pc = "idle"
    BY DEF Idle
  <2>3. Fit
    BY <1>0, <1>14, <2>1, <2>2 DEF Crash, Restart, FitsJob, RoomOfJob, At
  <2> QED BY <1>14, <2>3, RoomKeeps DEF Crash, Restart, Open
<1>15. CASE UNCHANGED vars
  BY <1>15, <1>a DEF vars, memory
<1> QED BY <1>1, <1>2, <1>3, <1>4, <1>5, <1>6, <1>7, <1>8, <1>9, <1>10, <1>11, <1>12, <1>13, <1>14, <1>15
        DEF Requests, Timers

LEMMA RoomInit == Init => RoomInv
<1> SUFFICES ASSUME Init PROVE RoomInv
  OBVIOUS
<1>1. \A a \in Orders : ~Open(a)
  BY DEF Init, Open
<1>2. \A w \in Jobs : job[w].todo \cup job[w].done = {} /\ job[w].cap = 0 /\ RoomOfJob(w)
  BY DEF Init, Idle, RoomOfJob, At
<1>3. \A w \in Jobs : /\ Cardinality(job[w].todo \cup job[w].done) <= job[w].cap
                     /\ RoomOfJob(w)
  BY <1>2, FS_EmptySet
<1> QED BY <1>1, <1>3 DEF RoomInv, BatchWithinRoom

LEMMA RoomStep == TypeOK /\ OrdersKnown /\ RoomInv /\ [Next]_vars => RoomInv'
  BY RoomJobStep, RoomOtherStep DEF Next, OwnStep, Request

\* However orders join windows, and whatever other procedures do meanwhile, a batch is
\* no larger than the room its rider had, and a window no larger than a batch may be.
THEOREM BatchesFit == Spec => []BatchWithinRoom
<1>1. Init => TypeOK /\ OrdersKnown /\ RoomInv
  BY TypeInit, OrdersKnownInit, RoomInit
<1>2. TypeOK /\ OrdersKnown /\ RoomInv /\ [Next]_vars => (TypeOK /\ OrdersKnown /\ RoomInv)'
  BY TypeStep, OrdersKnownStep, RoomStep
<1>3. RoomInv => BatchWithinRoom
  BY DEF RoomInv
<1> QED BY <1>1, <1>2, <1>3, PTL DEF Spec

-----------------------------------------------------------------------------
\* Accepted orders.

\* A step that leaves the order, its row and the windows alone, and in which every
\* procedure that moves spares the order.
LEMMA KeptKeeps ==
  ASSUME NEW o \in Orders, KeptOf(o), kept'[o] \in {kept[o], None},
         kept[o] # None =>
           /\ status'[o] = status[o] /\ row'[o] = row[o]
           /\ \A w \in Jobs : job'[w] = job[w] \/ Spares(w, o)'
           /\ \A a \in Orders : o \in window'[a].orders => o \in window[a].orders
  PROVE  KeptOf(o)'
  BY DEF KeptOf, Spares, HeldByWindow

\* What a procedure may move to without coming near the order o.
LEMMA SparesMoved ==
  ASSUME TypeOK, NEW w \in Jobs, NEW o \in Orders, NEW j, Goto(w, j),
         o \notin j.todo \cup j.done, j.order = o => j.pc \in Harmless
  PROVE  \A v \in Jobs : job'[v] = job[v] \/ Spares(v, o)'
  BY GotoMoves DEF Spares

LEMMA SparesStops ==
  ASSUME TypeOK, NEW w \in Jobs, NEW o \in Orders, NEW q, NEW p, NEW e,
         \/ Stop(w) \/ Finish(w) \/ Report(w, q) \/ Goto(w, Assign(p, e))
         \/ Goto(w, [Assign(p, e) EXCEPT !.queue = q]) \/ (Clear(w, p) /\ p # o)
  PROVE  \A v \in Jobs : job'[v] = job[v] \/ Spares(v, o)'
<1>0. o # None
  BY DispatchAssumption DEF DispatchAssumption
<1>a. Idle.order = None /\ Idle.todo = {} /\ Idle.done = {}
  BY DEF Idle
<1>1. CASE Stop(w)
  BY <1>0, <1>1, <1>a, SparesMoved DEF Stop
<1>2. CASE Finish(w)
  <2>1. LET j == [Idle EXCEPT !.pc = "queue", !.queue = job[w].queue]
        IN  j.done = {} /\ j.todo = {} /\ j.order = None
    BY DEF Idle
  <2> QED BY <1>0, <1>1, <1>2, <2>1, SparesMoved DEF Finish, Stop
<1>3. CASE Report(w, q)
  <2>1. LET j == [Idle EXCEPT !.pc = "report", !.order = job[w].order, !.queue = q]
        IN  j.done = {} /\ j.todo = {} /\ j.pc = "report"
    BY DEF Idle
  <2> QED BY <1>3, <2>1, SparesMoved DEF Report, Harmless
<1>4. CASE Goto(w, Assign(p, e))
  <2>1. LET j == Assign(p, e) IN j.done = {} /\ j.todo = {} /\ j.pc = "begin"
    BY DEF Assign, Idle
  <2> QED BY <1>4, <2>1, SparesMoved DEF Harmless
<1>5. CASE Goto(w, [Assign(p, e) EXCEPT !.queue = q])
  <2>1. LET j == [Assign(p, e) EXCEPT !.queue = q] IN j.done = {} /\ j.todo = {} /\ j.pc = "begin"
    BY DEF Assign, Idle
  <2> QED BY <1>5, <2>1, SparesMoved DEF Harmless
<1>6. CASE Clear(w, p) /\ p # o
  <2>1. LET j == [Idle EXCEPT !.pc = "clear", !.order = p] IN j.done = {} /\ j.todo = {} /\ j.order = p
    BY DEF Idle
  <2> QED BY <1>6, <2>1, SparesMoved DEF Clear
<1> QED BY <1>1, <1>2, <1>3, <1>4, <1>5, <1>6

\* A procedure that goes on with an order that is not o, or on a harmless way.
LEMMA SparesTo ==
  ASSUME TypeOK, NEW w \in Jobs, NEW o \in Orders, NEW p, To(w, p), Spares(w, o),
         p \in Harmless \/ job[w].order # o
  PROVE  \A v \in Jobs : job'[v] = job[v] \/ Spares(v, o)'
<1>1. job[w] \in JobRecords
  BY DEF TypeOK
<1>2. LET j == [job[w] EXCEPT !.pc = p]
      IN  j.todo = job[w].todo /\ j.done = job[w].done /\ j.order = job[w].order /\ j.pc = p
  BY <1>1 DEF JobRecords
<1> QED BY <1>2, SparesMoved DEF To, Spares

\* What a procedure does by itself leaves an accepted order alone.
LEMMA KeptJobStep ==
  ASSUME TypeOK, OrdersKnown, KeptInv, NEW w \in Jobs, JobStep(w)
  PROVE  KeptInv'
<1> SUFFICES ASSUME NEW o \in Orders PROVE KeptOf(o)'
  BY DEF KeptInv
<1>u. kept' = kept
  BY DEF JobStep, QueueRead, QueueNext, AssignBegin, ReportFailure, InsertTask, AssignRefused, AssignJoins,
     AssignInTier, AssignSmallFleet, Broadcast, AssignFallback, AssignNobody, BatchNow, OpenWindow,
     JoinWindowOfRider, WriteRow, ArmTimers, AutoRead, AutoAccept, ExpireRead, ExpireWrite, ManualWrite,
     ManualArm, AfterAccept, AfterReject, CancelOrder, CancelRow, ClearTimer, GoOffline
<1> SUFFICES ASSUME kept[o] # None PROVE KeptOf(o)'
  BY <1>u DEF KeptOf
<1>0. /\ KeptOf(o) /\ Spares(w, o) /\ job[w] \in JobRecords /\ o # None
      /\ status[o] \in InFlight /\ row[o].st \in {"ACCEPTED", "PICKED"}
      /\ ~Assignable(o)
  BY DispatchAssumption DEF KeptInv, KeptOf, TypeOK, DispatchAssumption, Assignable, InFlight
<1> DEFINE Spared == \A v \in Jobs : job'[v] = job[v] \/ Spares(v, o)'
<1>a. ASSUME Spared, status'[o] = status[o], row'[o] = row[o],
             \A a \in Orders : o \in window'[a].orders => o \in window[a].orders
      PROVE  KeptOf(o)'
  BY <1>0, <1>u, <1>a, KeptKeeps
<1>b. ASSUME Spared, UNCHANGED <<status, row, window>> PROVE KeptOf(o)'
  BY <1>a, <1>b
<1>1. ASSUME QueueRead(w) PROVE KeptOf(o)'
  <2>1. \A q : LET j == [Idle EXCEPT !.pc = "queue", !.queue = q]
              IN  j.done = {} /\ j.todo = {} /\ j.order = None
    BY DEF Idle
  <2>2. Spared
    BY <1>1, <1>0, <2>1, SparesMoved, SparesStops DEF QueueRead, Stop
  <2> QED BY <1>1, <1>b, <2>2 DEF QueueRead, database, memory
<1>2. ASSUME QueueNext(w) PROVE KeptOf(o)'
  <2>1. PICK p \in job[w].queue : Goto(w, [Assign(p, None) EXCEPT !.queue = job[w].queue \ {p}])
    BY <1>2 DEF QueueNext
  <2>2. LET j == [Assign(p, None) EXCEPT !.queue = job[w].queue \ {p}]
        IN  j.done = {} /\ j.todo = {} /\ j.pc = "begin"
    BY DEF Assign, Idle
  <2>3. Spared
    BY <2>1, <2>2, SparesMoved DEF Harmless
  <2> QED BY <1>2, <1>b, <2>3 DEF QueueNext, database, memory
<1>3. ASSUME AssignBegin(w) \/ ReportFailure(w) \/ InsertTask(w) \/ AssignRefused(w) \/ Broadcast(w) \/ AssignNobody(w) PROVE KeptOf(o)'
  <2>1. Spared
    BY <1>3, <1>0, SparesStops, SparesTo DEF AssignBegin, ReportFailure, InsertTask, AssignRefused, Broadcast, AssignNobody, Harmless
  <2>2. UNCHANGED <<status, row, window>>
    BY <1>3 DEF AssignBegin, ReportFailure, InsertTask, AssignRefused, Broadcast, AssignNobody, database, memory
  <2> QED BY <1>b, <2>1, <2>2
<1>4. ASSUME AfterAccept(w) \/ AfterReject(w) \/ ManualArm(w) \/ ClearTimer(w) \/ GoOffline(w) \/ ArmTimers(w) PROVE KeptOf(o)'
  <2>1. Spared
    BY <1>4, SparesStops DEF AfterAccept, AfterReject, ManualArm, ClearTimer, GoOffline, ArmTimers
  <2>2. UNCHANGED <<status, row, window>>
    BY <1>4 DEF AfterAccept, AfterReject, ManualArm, ClearTimer, GoOffline, ArmTimers, database, memory
  <2> QED BY <1>b, <2>1, <2>2
<1>5. ASSUME AssignJoins(w) \/ OpenWindow(w) \/ JoinWindowOfRider(w) PROVE KeptOf(o)'
  <2>1. Spared
    BY <1>5, SparesStops DEF AssignJoins, OpenWindow, JoinWindowOfRider
  <2>2. job[w].order # o
    <3>1. CASE AssignJoins(w)
      BY <1>0, <3>1 DEF AssignJoins
    <3>2. CASE OpenWindow(w) \/ JoinWindowOfRider(w)
      BY <1>0, <3>2 DEF OpenWindow, JoinWindowOfRider, Spares, At, Harmless
    <3> QED BY <1>5, <3>1, <3>2
  <2>3. \A a \in Orders : window'[a].orders \subseteq window[a].orders \cup {job[w].order}
    <3>1. CASE AssignJoins(w)
      BY <3>1 DEF AssignJoins, TypeOK
    <3>2. CASE OpenWindow(w)
      BY <3>2 DEF OpenWindow, TypeOK
    <3>3. CASE JoinWindowOfRider(w)
      BY <3>3 DEF JoinWindowOfRider, TypeOK
    <3> QED BY <1>5, <3>1, <3>2, <3>3
  <2> QED BY <1>5, <1>a, <2>1, <2>2, <2>3 DEF AssignJoins, OpenWindow, JoinWindowOfRider, database
<1>6. ASSUME AssignInTier(w) \/ AssignSmallFleet(w) \/ AssignFallback(w) PROVE KeptOf(o)'
  <2>1. job[w].order # o
    BY <1>6, <1>0 DEF AssignInTier, AssignSmallFleet, AssignFallback, MayChoose
  <2>2. ASSUME NEW r, NEW tier, Choose(w, r, tier) PROVE Spared
    <3>1. LET j == [job[w] EXCEPT !.pc = "batch", !.rider = r, !.except = None,
                                  !.cap = BatchRoom(r), !.tier = tier]
          IN  j.todo = job[w].todo /\ j.done = job[w].done /\ j.order = job[w].order
      BY <1>0 DEF JobRecords
    <3> QED BY <1>0, <2>1, <2>2, <3>1, SparesMoved DEF Choose, Spares
  <2>3. Spared
    BY <1>6, <2>2, SparesStops DEF AssignInTier, AssignSmallFleet, AssignFallback
  <2> QED BY <1>6, <1>b, <2>3 DEF AssignInTier, AssignSmallFleet, AssignFallback, database, memory
<1>7. ASSUME BatchNow(w) PROVE KeptOf(o)'
  <2>1. PICK others \in SUBSET Nearby(job[w].order) :
          Goto(w, [job[w] EXCEPT !.pc = "write", !.todo = others \cup {job[w].order}])
    BY <1>7 DEF BatchNow
  <2>2. job[w].order # o /\ o \notin others
    BY <1>7, <1>0, <2>1 DEF BatchNow, Spares, At, Harmless, Nearby
  <2>3. LET j == [job[w] EXCEPT !.pc = "write", !.todo = others \cup {job[w].order}]
        IN  j.todo = others \cup {job[w].order} /\ j.done = job[w].done /\ j.order = job[w].order
    BY <1>0 DEF JobRecords
  <2>4. Spared
    BY <1>0, <2>1, <2>2, <2>3, SparesMoved DEF Spares
  <2> QED BY <1>7, <1>b, <2>4 DEF BatchNow, database, memory
<1>8. ASSUME WriteRow(w) PROVE KeptOf(o)'
  <2>1. PICK p \in job[w].todo :
          /\ SetRow(p, "ASSIGNED", job[w].rider)
          /\ Goto(w, [job[w] EXCEPT !.todo = @ \ {p}, !.done = @ \cup {p},
                                    !.pc = IF job[w].todo = {p} THEN "arm" ELSE @])
    BY <1>8 DEF WriteRow
  <2>2. p # o /\ job[w].order # o
    BY <1>8, <1>0, <2>1 DEF WriteRow, Spares, At, Harmless
  <2>3. row'[o] = row[o]
    BY <2>1, <2>2 DEF SetRow, TypeOK
  <2>4. LET j == [job[w] EXCEPT !.todo = @ \ {p}, !.done = @ \cup {p},
                                !.pc = IF job[w].todo = {p} THEN "arm" ELSE @]
        IN  j.todo = job[w].todo \ {p} /\ j.done = job[w].done \cup {p} /\ j.order = job[w].order
    BY <1>0 DEF JobRecords
  <2>5. Spared
    BY <1>0, <2>1, <2>2, <2>4, SparesMoved DEF Spares
  <2> QED BY <1>8, <1>a, <2>3, <2>5 DEF WriteRow, memory
<1>9. ASSUME AutoRead(w) PROVE KeptOf(o)'
  <2>1. job[w].order # o
    BY <1>9, <1>0 DEF AutoRead, Spares, At, Harmless
  <2>2. ASSUME NEW r, NEW p, Goto(w, [job[w] EXCEPT !.rider = r, !.pc = p]) PROVE Spared
    <3>1. LET j == [job[w] EXCEPT !.rider = r, !.pc = p]
          IN  j.todo = job[w].todo /\ j.done = job[w].done /\ j.order = job[w].order
      BY <1>0 DEF JobRecords
    <3> QED BY <1>0, <2>1, <2>2, <3>1, SparesMoved DEF Spares
  <2>3. Spared
    BY <1>9, <1>0, <2>1, <2>2, SparesTo DEF AutoRead
  <2> QED BY <1>9, <1>b, <2>3 DEF AutoRead, database, memory
<1>10. ASSUME AutoAccept(w) \/ ExpireRead(w) \/ ExpireWrite(w) \/ ManualWrite(w) \/ CancelOrder(w) \/ CancelRow(w) PROVE KeptOf(o)'
  <2>1. job[w].order # o
    BY <1>10, <1>0 DEF AutoAccept, ExpireRead, ExpireWrite, ManualWrite, CancelOrder, CancelRow, Spares, At, Harmless
  <2>2. Spared
    BY ZenonT(60), <1>10, <1>0, <2>1, SparesStops, SparesTo DEF AutoAccept, ExpireRead, ExpireWrite, ManualWrite, CancelOrder, CancelRow
  <2>3. status'[o] = status[o] /\ row'[o] = row[o]
    BY <1>10, <2>1 DEF AutoAccept, ExpireRead, ExpireWrite, ManualWrite, CancelOrder, CancelRow, SetRow, SetRowState, SetStatus, TypeOK, database
  <2>4. UNCHANGED window
    BY <1>10 DEF AutoAccept, ExpireRead, ExpireWrite, ManualWrite, CancelOrder, CancelRow, memory
  <2> QED BY <1>a, <2>2, <2>3, <2>4
<1> QED
  BY <1>1, <1>2, <1>3, <1>4, <1>5, <1>6, <1>7, <1>8, <1>9, <1>10 DEF JobStep

\* Nor does what is asked of others, a timer, a window or a restart.
LEMMA KeptOtherStep ==
  ASSUME TypeOK, KeptInv,
         \/ \E w \in Jobs : Requests(w) \/ Timers(w)
         \/ \E o \in Orders, r \in Riders, s \in InFlight : UpdateStatus(o, r, s)
         \/ \E r \in Riders : GoOnline(r)
         \/ Bulk \/ Crash \/ UNCHANGED vars
  PROVE  KeptInv'
<1> SUFFICES ASSUME NEW o \in Orders PROVE KeptOf(o)'
  BY DEF KeptInv
<1>0. /\ KeptOf(o) /\ o # None
      /\ kept[o] # None => /\ status[o] \in InFlight /\ row[o].st \in {"ACCEPTED", "PICKED"}
                           /\ ~Assignable(o) /\ ~HeldByWindow(o)
  BY DispatchAssumption DEF KeptInv, KeptOf, DispatchAssumption, Assignable, InFlight
<1> DEFINE Spared == \A v \in Jobs : job'[v] = job[v] \/ Spares(v, o)'
<1>a. ASSUME NEW w \in Jobs, NEW p, NEW x, p # o,
             \/ Goto(w, [Idle EXCEPT !.pc = x, !.order = p])
             \/ Clear(w, p)
      PROVE  Spared
  <2>1. LET j == [Idle EXCEPT !.pc = x, !.order = p] IN j.done = {} /\ j.todo = {} /\ j.order = p
    BY DEF Idle
  <2>2. CASE Goto(w, [Idle EXCEPT !.pc = x, !.order = p])
    BY <1>a, <2>1, <2>2, SparesMoved
  <2>3. CASE Clear(w, p)
    BY <1>a, <2>3, SparesStops
  <2> QED BY <1>a, <2>2, <2>3
<1>b. ASSUME UNCHANGED window, Spared, kept'[o] \in {kept[o], None},
             kept[o] # None => status'[o] = status[o] /\ row'[o] = row[o]
      PROVE  KeptOf(o)'
  BY <1>0, <1>b, KeptKeeps
<1>1. ASSUME NEW w \in Jobs, NEW p \in Orders, MarkPacked(w, p) \/ Redeliver(w, p) PROVE KeptOf(o)'
  <2>1. Spared
    BY <1>1, SparesStops DEF MarkPacked, Redeliver
  <2>2. kept[o] # None => p # o
    BY <1>0, <1>1 DEF MarkPacked, Redeliver, InFlight
  <2>3. kept[o] # None => status'[o] = status[o] /\ row'[o] = row[o]
    BY <1>1, <2>2 DEF MarkPacked, Redeliver, SetStatus, SetRowState, TypeOK
  <2> QED BY <1>1, <1>b, <2>1, <2>3 DEF MarkPacked, Redeliver, memory
<1>2. ASSUME NEW w \in Jobs, NEW p \in Orders, PollOrder(w, p) \/ AdminRetry(w, p) PROVE KeptOf(o)'
  <2>1. Spared
    BY <1>2, SparesStops DEF PollOrder, AdminRetry
  <2> QED BY <1>2, <1>b, <2>1 DEF PollOrder, AdminRetry, database, memory
<1>3. ASSUME NEW w \in Jobs, NEW p \in Orders, CancelRead(w, p) PROVE KeptOf(o)'
  <2>1. UNCHANGED <<status, row, window, kept>>
    BY <1>3 DEF CancelRead, database, memory
  <2>2. CASE kept[o] # None
    <3>1. p # o
      BY <1>0, <1>3, <2>2 DEF CancelRead, InFlight
    <3>2. Spared
      BY <1>3, <1>a, <3>1 DEF CancelRead
    <3> QED BY <1>b, <2>1, <3>2
  <2> QED BY <2>1, <2>2 DEF KeptOf
<1>4. ASSUME NEW w \in Jobs, NEW r \in Riders, GoOfflineCheck(w, r) PROVE KeptOf(o)'
  <2>1. LET j == [Idle EXCEPT !.pc = "offline", !.rider = r] IN j.done = {} /\ j.todo = {} /\ j.order = None
    BY DEF Idle
  <2>2. Spared
    BY <1>0, <1>4, <2>1, SparesMoved DEF GoOfflineCheck
  <2> QED BY <1>4, <1>b, <2>2 DEF GoOfflineCheck, database, memory
<1>5. ASSUME NEW w \in Jobs, NEW p \in Orders, NEW r \in Riders, ManualCheck(w, p, r) PROVE KeptOf(o)'
  <2>1. UNCHANGED <<status, row, window, kept>>
    BY <1>5 DEF ManualCheck, database, memory
  <2>2. LET j == [Idle EXCEPT !.pc = "manual", !.order = p, !.rider = r] IN j.done = {} /\ j.todo = {} /\ j.order = p
    BY DEF Idle
  <2>3. kept[o] # None => p # o
    BY <1>0, <1>5 DEF ManualCheck, InFlight
  <2>4. kept[o] # None => Spared
    BY <1>5, <2>2, <2>3, SparesMoved DEF ManualCheck
  <2> QED BY <1>b, <2>1, <2>4 DEF KeptOf
<1>6. ASSUME NEW w \in Jobs, NEW p \in Orders, NEW r \in Riders, Accept(w, p, r) PROVE KeptOf(o)'
  <2>1. /\ UNCHANGED window /\ Goto(w, [Idle EXCEPT !.pc = "accepted", !.order = p])
        /\ kept' = [kept EXCEPT ![p] = IF HeldByJob(p) \/ HeldByWindow(p) THEN None ELSE r]
    BY <1>6 DEF Accept, memory
  <2>2. CASE p # o
    <3>1. Spared
      BY <1>a, <2>1, <2>2
    <3>2. status'[o] = status[o] /\ row'[o] = row[o] /\ kept'[o] = kept[o]
      BY <1>6, <2>1, <2>2 DEF Accept, SetStatus, SetRow, TypeOK
    <3> QED BY <1>b, <2>1, <3>1, <3>2
  <2>3. CASE p = o /\ ~HeldByJob(o) /\ ~HeldByWindow(o)
    <3>1. /\ status'[o] = "OUT_FOR_DELIVERY" /\ row'[o] = [st |-> "ACCEPTED", rider |-> r]
          /\ kept'[o] = r
      BY <1>6, <2>1, <2>3 DEF Accept, SetStatus, SetRow, TypeOK
    <3>2. \A v \in Jobs : Spares(v, o)
      BY <2>3 DEF HeldByJob, About, Spares
    <3>3. LET j == [Idle EXCEPT !.pc = "accepted", !.order = p] IN j.done = {} /\ j.todo = {} /\ j.pc = "accepted"
      BY DEF Idle
    <3>4. Spared
      BY <2>1, <3>3, SparesMoved DEF Harmless
    <3>5. ~HeldByWindow(o)'
      BY <2>1, <2>3 DEF HeldByWindow
    <3>6. \A v \in Jobs : Spares(v, o)'
      BY <3>2, <3>4 DEF Spares
    <3> QED BY <3>1, <3>5, <3>6 DEF KeptOf, InFlight
  <2>4. CASE p = o /\ (HeldByJob(o) \/ HeldByWindow(o))
    BY <2>1, <2>4 DEF KeptOf, TypeOK
  <2> QED BY <2>2, <2>3, <2>4
<1>7. ASSUME NEW w \in Jobs, NEW p \in Orders, NEW r \in Riders,
             Reject(w, p, r) \/ Deliver(w, p, r) \/ MarkFailed(w, p, r)
      PROVE  KeptOf(o)'
  <2>1. UNCHANGED window /\ kept' = [kept EXCEPT ![p] = None]
    BY <1>7 DEF Reject, Deliver, MarkFailed, memory
  <2>2. CASE p # o
    <3>1. status'[o] = status[o] /\ row'[o] = row[o] /\ kept'[o] = kept[o]
      BY <1>7, <2>1, <2>2 DEF Reject, Deliver, MarkFailed, SetStatus, SetRow, SetRowState, TypeOK
    <3>2. LET j == [Idle EXCEPT !.pc = "rejected", !.order = p, !.except = r]
          IN  j.done = {} /\ j.todo = {} /\ j.order = p
      BY DEF Idle
    <3>3. LET j == [Idle EXCEPT !.pc = "queueRead"] IN j.done = {} /\ j.todo = {} /\ j.order = None
      BY DEF Idle
    <3>4. ASSUME Reject(w, p, r) PROVE Spared
      BY <2>2, <3>2, <3>4, SparesMoved DEF Reject
    <3>5. ASSUME Deliver(w, p, r) PROVE Spared
      BY <1>0, <3>3, <3>5, SparesMoved DEF Deliver
    <3>6. ASSUME MarkFailed(w, p, r) PROVE Spared
      BY <1>a, <2>2, <3>6 DEF MarkFailed
    <3> QED BY <1>7, <1>b, <2>1, <3>1, <3>4, <3>5, <3>6
  <2>3. CASE p = o
    BY <2>1, <2>3 DEF KeptOf, TypeOK
  <2> QED BY <2>2, <2>3
<1>8. ASSUME NEW w \in Jobs, NEW p \in Orders, TimerFires(w, p) PROVE KeptOf(o)'
  <2>1. UNCHANGED <<status, row, window, kept>>
    BY <1>8 DEF TimerFires, database
  <2>2. LET j == [Idle EXCEPT !.pc = "auto", !.order = p, !.except = timer[p]]
        IN  j.done = {} /\ j.todo = {} /\ j.order = p
    BY DEF Idle
  <2>3. kept[o] # None /\ OfferedTo(p, timer[p]) => p # o
    BY <1>0 DEF OfferedTo
  <2>4. kept[o] # None => Spared
    BY <1>8, <2>2, <2>3, SparesMoved DEF TimerFires
  <2> QED BY <1>b, <2>1, <2>4 DEF KeptOf
<1>9. ASSUME NEW w \in Jobs, NEW a \in Orders, WindowFires(w, a) PROVE KeptOf(o)'
  <2>1. PICK b \in Batches(a, Nearby(a)) :
            Goto(w, [Idle EXCEPT !.pc = "write", !.order = a, !.rider = window[a].rider,
                                 !.cap = window[a].cap, !.todo = b])
    BY <1>9 DEF WindowFires
  <2>2. b \subseteq window[a].orders \cup Nearby(a) /\ a \in b
    BY <2>1 DEF Batches
  <2>3. kept[o] # None => o \notin b
    BY <1>0, <2>2 DEF Nearby, HeldByWindow
  <2>4. LET j == [Idle EXCEPT !.pc = "write", !.order = a, !.rider = window[a].rider,
                              !.cap = window[a].cap, !.todo = b]
        IN  j.done = {} /\ j.todo = b /\ j.order = a
    BY DEF Idle
  <2>5. kept[o] # None => Spared
    BY <2>1, <2>2, <2>3, <2>4, SparesMoved
  <2>6. UNCHANGED <<status, row, kept>> /\ \A c \in Orders : window'[c] \in {NoWindow, window[c]}
    BY <1>9 DEF WindowFires, database, TypeOK
  <2>7. NoWindow.orders = {}
    BY DEF NoWindow
  <2> QED BY <1>0, <2>5, <2>6, <2>7, KeptKeeps
<1>10. ASSUME NEW p \in Orders, NEW r \in Riders, NEW s \in InFlight, UpdateStatus(p, r, s) PROVE KeptOf(o)'
  <2>1. UNCHANGED <<job, window, kept>>
    BY <1>10 DEF UpdateStatus, memory
  <2>2. CASE p # o
    <3>1. status'[o] = status[o] /\ row'[o] = row[o]
      BY <1>10, <2>2 DEF UpdateStatus, SetStatus, SetRowState, TypeOK
    <3> QED BY <1>b, <2>1, <3>1
  <2>3. CASE p = o
    <3>1. status'[o] = s /\ row'[o].rider = row[o].rider /\ row'[o].st \in {"ACCEPTED", "PICKED"}
      BY <1>10, <2>3 DEF UpdateStatus, SetStatus, SetRowState, TypeOK
    <3> QED BY <1>0, <2>1, <3>1 DEF KeptOf, Spares, HeldByWindow
  <2> QED BY <2>2, <2>3
<1>11. ASSUME NEW r \in Riders, GoOnline(r) PROVE KeptOf(o)'
  BY <1>11, <1>b DEF GoOnline, memory
<1>12. CASE Bulk
  <2>1. PICK p \in Orders, r \in Riders : BulkAssign(p, r)
    BY <1>12 DEF Bulk
  <2>2. kept[o] # None => p # o
    BY <1>0, <2>1 DEF BulkAssign, InFlight
  <2>3. kept[o] # None => row'[o] = row[o]
    BY <2>1, <2>2 DEF BulkAssign, SetRow, TypeOK
  <2> QED BY <1>b, <2>1, <2>3 DEF BulkAssign, memory
<1>13. CASE Crash
  <2>1. Spared
    BY <1>0, <1>13 DEF Crash, Restart, Spares, Idle
  <2>2. UNCHANGED <<status, row, kept>> /\ \A a \in Orders : window'[a].orders = {}
    BY <1>13 DEF Crash, Restart, database, NoWindow
  <2> QED BY <1>0, <2>1, <2>2, KeptKeeps
<1>14. CASE UNCHANGED vars
  BY <1>14, <1>b DEF vars, database, memory, history
<1> QED BY <1>1, <1>2, <1>3, <1>4, <1>5, <1>6, <1>7, <1>8, <1>9, <1>10, <1>11, <1>12, <1>13, <1>14
        DEF Requests, Timers

LEMMA KeptInit == Init => KeptInv
  BY DEF Init, KeptInv, KeptOf

\* A rider who accepted an order that nothing else was about keeps it, whatever
\* timers, windows, polls, retries and assignments come afterwards.
THEOREM AcceptedOrdersAreKept == Spec => []AcceptedOrderIsKept
<1>1. Init => TypeOK /\ OrdersKnown /\ KeptInv
  BY TypeInit, OrdersKnownInit, KeptInit
<1>2. TypeOK /\ OrdersKnown /\ KeptInv /\ [Next]_vars => (TypeOK /\ OrdersKnown /\ KeptInv)'
  BY TypeStep, OrdersKnownStep, KeptJobStep, KeptOtherStep DEF Next, OwnStep, Request
<1>3. KeptInv => AcceptedOrderIsKept
  BY DEF KeptInv, KeptOf, AcceptedOrderIsKept
<1> QED BY <1>1, <1>2, <1>3, PTL DEF Spec

-----------------------------------------------------------------------------
\* Offers that are watched.

\* A procedure that neither offers the order o nor has to know its rider.
Telling == {"manualArm", "auto", "autoTx", "expire", "accepted", "rejected", "clear"}
Quiet(w, o) == job[w].done = {} /\ (job[w].order # o \/ job[w].pc \notin Telling)

\* Where a step is not about the order, the offer stays watched.
LEMMA WatchedStays ==
  ASSUME NEW o \in Orders, Watched(o), row'[o] = row[o], timer'[o] = timer[o],
         \A v \in Jobs : job'[v] = job[v] \/ (~Offering(v, o) /\ Quiet(v, o)')
  PROVE  Watched(o)'
<1> SUFFICES ASSUME row[o].st = "ASSIGNED" PROVE Watched(o)'
  BY DEF Watched
<1>1. timer'[o] = row'[o].rider \/ \E v \in Jobs : Offering(v, o)'
  BY DEF Watched, Offering
<1>2. ASSUME NEW v \in Jobs PROVE Knows(v, o)'
  <2>1. CASE job'[v] = job[v]
    BY <2>1 DEF Watched, Knows, At
  <2>2. CASE Quiet(v, o)'
    BY <2>2 DEF Quiet, Knows, At, Telling
  <2> QED BY <2>1, <2>2
<1> QED BY <1>1, <1>2 DEF Watched

\* Nor is it disturbed by a procedure that moves to j, or that stops.
LEMMA QuietMoved ==
  ASSUME TypeOK, NEW w \in Jobs, NEW o \in Orders, NEW j, Goto(w, j),
         ~Offering(w, o), j.done = {}, j.order # o \/ j.pc \notin Telling
  PROVE  \A v \in Jobs : job'[v] = job[v] \/ (~Offering(v, o) /\ Quiet(v, o)')
  BY GotoMoves DEF Quiet

LEMMA QuietStops ==
  ASSUME TypeOK, NEW w \in Jobs, NEW o \in Orders, NEW q, NEW p, NEW e, ~Offering(w, o),
         \/ Stop(w) \/ Finish(w) \/ Report(w, q) \/ Goto(w, Assign(p, e))
         \/ (Clear(w, p) /\ p # o)
  PROVE  \A v \in Jobs : job'[v] = job[v] \/ (~Offering(v, o) /\ Quiet(v, o)')
<1>1. CASE Stop(w)
  BY <1>1, QuietMoved DEF Stop, Idle, Telling
<1>2. CASE Finish(w)
  <2>1. LET j == [Idle EXCEPT !.pc = "queue", !.queue = job[w].queue]
        IN  j.done = {} /\ j.pc = "queue"
    BY DEF Idle
  <2> QED BY <1>1, <1>2, <2>1, QuietMoved DEF Finish, Stop, Telling
<1>3. CASE Report(w, q)
  <2>1. LET j == [Idle EXCEPT !.pc = "report", !.order = job[w].order, !.queue = q]
        IN  j.done = {} /\ j.pc = "report"
    BY DEF Idle
  <2> QED BY <1>3, <2>1, QuietMoved DEF Report, Telling
<1>4. CASE Goto(w, Assign(p, e))
  <2>1. Assign(p, e).done = {} /\ Assign(p, e).pc = "begin"
    BY DEF Assign, Idle
  <2> QED BY <1>4, <2>1, QuietMoved DEF Telling
<1>5. CASE Clear(w, p) /\ p # o
  <2>1. LET j == [Idle EXCEPT !.pc = "clear", !.order = p] IN j.done = {} /\ j.order = p
    BY DEF Idle
  <2> QED BY <1>5, <2>1, QuietMoved DEF Clear
<1> QED BY <1>1, <1>2, <1>3, <1>4, <1>5

\* A procedure that goes on to p without orders done.
LEMMA QuietTo ==
  ASSUME TypeOK, NEW w \in Jobs, NEW o \in Orders, NEW p, To(w, p), ~Offering(w, o),
         job[w].done = {}, job[w].order # o \/ p \notin Telling
  PROVE  \A v \in Jobs : job'[v] = job[v] \/ (~Offering(v, o) /\ Quiet(v, o)')
<1>1. job[w] \in JobRecords
  BY DEF TypeOK
<1>2. LET j == [job[w] EXCEPT !.pc = p]
      IN  j.done = job[w].done /\ j.order = job[w].order /\ j.pc = p
  BY <1>1 DEF JobRecords
<1> QED BY <1>1, <1>2, QuietMoved DEF To

\* What a procedure does by itself.
LEMMA WatchJobStep ==
  ASSUME TypeOK, OrdersKnown, RoomInv, NEW w \in Jobs, JobStep(w),
         NEW o \in Orders, Lonely(o), Watched(o)
  PROVE  Watched(o)'
<1>0. /\ job[w] \in JobRecords /\ RoomOfJob(w) /\ o # None
      /\ row[o] \in [st: RowStates, rider: Riders \cup {None}]
  BY DispatchAssumption DEF TypeOK, RoomInv, DispatchAssumption
<1>n. job[w].pc \notin {"write", "arm"} => job[w].done = {} /\ job[w].todo = {}
  BY <1>0 DEF RoomOfJob
<1> DEFINE Calm == \A v \in Jobs : job'[v] = job[v] \/ (~Offering(v, o) /\ Quiet(v, o)')
<1>a. ASSUME Calm, row'[o] = row[o], timer'[o] = timer[o] PROVE Watched(o)'
  BY <1>a, WatchedStays
<1>b. ASSUME Calm, UNCHANGED <<row, timer>> PROVE Watched(o)'
  BY <1>a, <1>b
<1>c. ASSUME row'[o].st # "ASSIGNED" PROVE Watched(o)'
  BY <1>c DEF Watched
<1>1. ASSUME QueueRead(w) PROVE Watched(o)'
  <2>0. ~Offering(w, o)
    BY <1>1, <1>n DEF QueueRead, Offering, At
  <2>1. \A q : LET j == [Idle EXCEPT !.pc = "queue", !.queue = q]
              IN  j.done = {} /\ j.pc = "queue"
    BY DEF Idle
  <2>2. Calm
    BY <1>1, <2>0, <2>1, QuietMoved, QuietStops DEF QueueRead, Stop, Telling
  <2> QED BY <1>1, <1>b, <2>2 DEF QueueRead, database, memory
<1>2. ASSUME QueueNext(w) PROVE Watched(o)'
  <2>0. ~Offering(w, o)
    BY <1>2, <1>n DEF QueueNext, Offering, At
  <2>1. PICK p \in job[w].queue : Goto(w, [Assign(p, None) EXCEPT !.queue = job[w].queue \ {p}])
    BY <1>2 DEF QueueNext
  <2>2. LET j == [Assign(p, None) EXCEPT !.queue = job[w].queue \ {p}]
        IN  j.done = {} /\ j.pc = "begin"
    BY DEF Assign, Idle
  <2>3. Calm
    BY <2>0, <2>1, <2>2, QuietMoved DEF Telling
  <2> QED BY <1>2, <1>b, <2>3 DEF QueueNext, database, memory
<1>3. ASSUME AssignBegin(w) \/ ReportFailure(w) \/ InsertTask(w) \/ AssignRefused(w) \/ AssignJoins(w) \/ Broadcast(w)
             \/ AssignNobody(w) \/ OpenWindow(w) \/ JoinWindowOfRider(w) \/ GoOffline(w) \/ CancelOrder(w)
      PROVE  Watched(o)'
  <2>0. ~Offering(w, o) /\ job[w].done = {}
    BY <1>3, <1>n DEF AssignBegin, ReportFailure, InsertTask, AssignRefused, AssignJoins, Broadcast, AssignNobody,
       MayChoose, OpenWindow, JoinWindowOfRider, GoOffline, CancelOrder, Offering, At
  <2>1. CASE AssignBegin(w) \/ ReportFailure(w) \/ CancelOrder(w)
    BY <2>1, <2>0, <1>b, QuietStops, QuietTo DEF AssignBegin, ReportFailure, CancelOrder, Telling, database, memory
  <2>2. CASE InsertTask(w) \/ AssignRefused(w) \/ AssignJoins(w) \/ Broadcast(w)
    BY <2>2, <2>0, <1>b, QuietStops DEF InsertTask, AssignRefused, AssignJoins, Broadcast, database, memory
  <2>3. CASE AssignNobody(w) \/ OpenWindow(w) \/ JoinWindowOfRider(w) \/ GoOffline(w)
    BY <2>3, <2>0, <1>b, QuietStops DEF AssignNobody, OpenWindow, JoinWindowOfRider, GoOffline, database, memory
  <2> QED BY <1>3, <2>1, <2>2, <2>3
<1>4. ASSUME AssignInTier(w) \/ AssignSmallFleet(w) \/ AssignFallback(w) PROVE Watched(o)'
  <2>0. ~Offering(w, o) /\ job[w].done = {}
    BY <1>4, <1>n DEF AssignInTier, AssignSmallFleet, AssignFallback, MayChoose, Offering, At
  <2>1. ASSUME NEW r, NEW tier, Choose(w, r, tier) PROVE Calm
    <3>1. LET j == [job[w] EXCEPT !.pc = "batch", !.rider = r, !.except = None,
                                  !.cap = BatchRoom(r), !.tier = tier]
          IN  j.done = job[w].done /\ j.pc = "batch"
      BY <1>0 DEF JobRecords
    <3> QED BY <2>0, <2>1, <3>1, QuietMoved DEF Choose, Telling
  <2>2. Calm
    BY <1>4, <2>0, <2>1, QuietStops DEF AssignInTier, AssignSmallFleet, AssignFallback
  <2> QED BY <1>4, <1>b, <2>2 DEF AssignInTier, AssignSmallFleet, AssignFallback, database, memory
<1>5. ASSUME BatchNow(w) PROVE Watched(o)'
  <2>0. ~Offering(w, o) /\ job[w].done = {}
    BY <1>5, <1>n DEF BatchNow, Offering, At
  <2>1. PICK others \in SUBSET Nearby(job[w].order) :
          Goto(w, [job[w] EXCEPT !.pc = "write", !.todo = others \cup {job[w].order}])
    BY <1>5 DEF BatchNow
  <2>2. LET j == [job[w] EXCEPT !.pc = "write", !.todo = others \cup {job[w].order}]
        IN  j.done = job[w].done /\ j.pc = "write"
    BY <1>0 DEF JobRecords
  <2>3. Calm
    BY <2>0, <2>1, <2>2, QuietMoved DEF Telling
  <2> QED BY <1>5, <1>b, <2>3 DEF BatchNow, database, memory
<1>6. ASSUME WriteRow(w) PROVE Watched(o)'
  <2>1. PICK p \in job[w].todo :
          /\ SetRow(p, "ASSIGNED", job[w].rider)
          /\ Goto(w, [job[w] EXCEPT !.todo = @ \ {p}, !.done = @ \cup {p},
                                    !.pc = IF job[w].todo = {p} THEN "arm" ELSE @])
    BY <1>6 DEF WriteRow
  <2>2. LET j == [job[w] EXCEPT !.todo = @ \ {p}, !.done = @ \cup {p},
                                !.pc = IF job[w].todo = {p} THEN "arm" ELSE @]
        IN  /\ j.done = job[w].done \cup {p} /\ j.order = job[w].order
            /\ j.rider = job[w].rider /\ j.pc \in {"arm", job[w].pc}
    BY <1>0 DEF JobRecords
  <2>3. /\ \A v \in Jobs \ {w} : job'[v] = job[v]
        /\ job'[w].done = job[w].done \cup {p} /\ job'[w].order = job[w].order
        /\ job'[w].rider = job[w].rider /\ job'[w].pc \in {"arm", "write"}
    BY <1>6, <2>1, <2>2, GotoMoves DEF WriteRow, At
  <2>4. timer' = timer /\ At(w, "write")
    BY <1>6 DEF WriteRow, memory
  <2>5. CASE p = o
    <3>1. row'[o] = [st |-> "ASSIGNED", rider |-> job[w].rider]
      BY <2>1, <2>5 DEF SetRow, TypeOK
    <3>2. \A v \in Jobs \ {w} : job[v].order # o /\ o \notin job[v].done
      BY <2>1, <2>5 DEF Lonely, About
    <3>3. \A v \in Jobs : Knows(v, o)'
      BY <2>3, <3>1, <3>2 DEF Knows, At
    <3>4. Offering(w, o)'
      BY <2>3, <2>5 DEF Offering
    <3> QED BY <3>3, <3>4 DEF Watched
  <2>6. CASE p # o
    <3>1. row'[o] = row[o]
      BY <2>1, <2>6 DEF SetRow, TypeOK
    <3>2. \A v \in Jobs : (Knows(v, o) => Knows(v, o)') /\ (Offering(v, o) => Offering(v, o)')
      BY <2>3, <2>4, <2>6, <3>1 DEF Knows, Offering, At
    <3> QED BY <2>4, <3>1, <3>2 DEF Watched
  <2> QED BY <2>5, <2>6
<1>7. ASSUME ArmTimers(w) PROVE Watched(o)'
  <2>1. timer'[o] = (IF o \in job[w].done THEN job[w].rider ELSE timer[o]) /\ row' = row
    BY <1>7 DEF ArmTimers
  <2>2. \A v \in Jobs : job'[v] = job[v] \/ (v = w /\ Quiet(v, o)')
    <3>1. CASE job[w].queue = {}
      BY <1>7, <3>1, GotoMoves DEF ArmTimers, Finish, Idle, Quiet, Telling
    <3>2. CASE job[w].queue # {}
      <4>1. LET j == [Idle EXCEPT !.pc = "queue", !.queue = job[w].queue]
            IN  j.done = {} /\ j.pc = "queue"
        BY DEF Idle
      <4> QED BY <1>7, <3>2, <4>1, GotoMoves DEF ArmTimers, Finish, Quiet, Telling
    <3> QED BY <3>1, <3>2
  <2>3. CASE o \in job[w].done
    <3>1. row[o].st = "ASSIGNED" => timer'[o] = row'[o].rider
      BY <2>1, <2>3 DEF Watched, Knows
    <3>2. row[o].st = "ASSIGNED" => \A v \in Jobs : Knows(v, o)'
      BY <2>1, <2>2 DEF Watched, Knows, At, Quiet, Telling
    <3> QED BY <2>1, <3>1, <3>2 DEF Watched
  <2>4. CASE o \notin job[w].done
    <3>1. ~Offering(w, o)
      BY <1>7, <2>4 DEF ArmTimers, At, Offering
    <3> QED BY <1>a, <2>1, <2>2, <2>4, <3>1
  <2> QED BY <2>3, <2>4
<1>8. ASSUME AutoRead(w) PROVE Watched(o)'
  <2>0. At(w, "auto") /\ job[w].done = {} /\ UNCHANGED <<row, timer>>
    BY <1>8, <1>n DEF AutoRead, At, database, memory
  <2>1. ASSUME NEW r, NEW p \in {"expire", "autoTx"}, Goto(w, [job[w] EXCEPT !.rider = r, !.pc = p])
        PROVE  job'[w].order = job[w].order /\ job'[w].except = job[w].except /\ job'[w].done = {} /\ job'[w].pc \in {"expire", "autoTx"}
    <3>1. LET j == [job[w] EXCEPT !.rider = r, !.pc = p]
          IN  j.order = job[w].order /\ j.except = job[w].except /\ j.done = job[w].done /\ j.pc = p
      BY <1>0 DEF JobRecords
    <3> QED BY <2>0, <2>1, <3>1, GotoMoves
  <2>2. ASSUME To(w, "expire")
        PROVE  job'[w].order = job[w].order /\ job'[w].except = job[w].except /\ job'[w].done = {} /\ job'[w].pc \in {"expire", "autoTx"}
    <3>1. LET j == [job[w] EXCEPT !.pc = "expire"]
          IN  j.order = job[w].order /\ j.except = job[w].except /\ j.done = job[w].done /\ j.pc = "expire"
      BY <1>0 DEF JobRecords
    <3> QED BY <2>0, <2>2, <3>1, GotoMoves DEF To
  <2>3. job'[w].order = job[w].order /\ job'[w].except = job[w].except /\ job'[w].done = {} /\ job'[w].pc \in {"expire", "autoTx"}
    BY <1>8, <2>1, <2>2 DEF AutoRead
  <2>4. \A v \in Jobs \ {w} : job'[v] = job[v]
    BY <1>8, GotoMoves DEF AutoRead, To
  <2>5. \A v \in Jobs : (Knows(v, o) => Knows(v, o)') /\ (Offering(v, o) => Offering(v, o)')
    BY <2>0, <2>3, <2>4 DEF Knows, Offering, At
  <2> QED BY <2>0, <2>5 DEF Watched
<1>9. ASSUME AutoAccept(w) \/ ExpireWrite(w) \/ CancelRow(w) PROVE Watched(o)'
  <2>0. /\ At(w, "autoTx") \/ At(w, "expireTx") \/ At(w, "cancelRow")
        /\ job[w].done = {} /\ UNCHANGED timer
        /\ row' = row \/ SetRow(job[w].order, "ACCEPTED", job[w].rider) \/ SetRowState(job[w].order, "CANCELLED")
    BY <1>9, <1>n DEF AutoAccept, ExpireWrite, CancelRow, At, memory
  <2>1. CASE job[w].order = o
    <3>1. row'[o].st # "ASSIGNED"
      BY <1>9, <2>0, <2>1 DEF AutoAccept, ExpireWrite, CancelRow, SetRow, SetRowState, TypeOK, IsActive, Active
    <3> QED BY <1>c, <3>1
  <2>2. CASE job[w].order # o
    <3>1. row'[o] = row[o]
      BY <2>0, <2>2 DEF SetRow, SetRowState, TypeOK
    <3>2. ~Offering(w, o)
      BY <2>0, <2>2 DEF Offering
    <3>3. Calm
      BY <1>9, <2>2, <3>2, QuietStops DEF AutoAccept, ExpireWrite, CancelRow
    <3> QED BY <2>0, <3>1, <3>3, <1>a
  <2> QED BY <2>1, <2>2
<1>10. ASSUME ExpireRead(w) PROVE Watched(o)'
  <2>0. At(w, "expire") /\ job[w].done = {} /\ UNCHANGED <<row, timer>>
    BY <1>10, <1>n DEF ExpireRead, At, database, memory
  <2>1. CASE job[w].order # o
    <3>1. ~Offering(w, o)
      BY <2>0, <2>1 DEF Offering
    <3> QED BY <1>10, <1>b, <2>0, <2>1, <3>1, QuietTo, QuietStops DEF ExpireRead
  <2>2. CASE job[w].order = o /\ row[o].st = "ASSIGNED"
    <3>1. row[o] = [st |-> "ASSIGNED", rider |-> job[w].except]
      BY <1>0, <2>0, <2>2 DEF Watched, Knows, At
    <3>2. To(w, "expireTx")
      BY <1>10, <2>2, <3>1 DEF ExpireRead, OfferedTo
    <3>3. LET j == [job[w] EXCEPT !.pc = "expireTx"]
          IN  j.order = job[w].order /\ j.done = job[w].done /\ j.pc = "expireTx"
      BY <1>0 DEF JobRecords
    <3>4. /\ job'[w].order = o /\ job'[w].done = {} /\ job'[w].pc = "expireTx"
          /\ \A v \in Jobs \ {w} : job'[v] = job[v]
      BY <2>0, <2>2, <3>2, <3>3, GotoMoves DEF To
    <3>5. Offering(w, o)' /\ \A v \in Jobs : Knows(v, o) => Knows(v, o)'
      BY <2>0, <3>4 DEF Offering, Knows, At
    <3> QED BY <2>0, <3>5 DEF Watched
  <2>3. CASE row[o].st # "ASSIGNED"
    BY <1>c, <2>0, <2>3
  <2> QED BY <2>1, <2>2, <2>3
<1>11. ASSUME ManualWrite(w) PROVE Watched(o)'
  <2>0. At(w, "manual") /\ job[w].done = {} /\ UNCHANGED timer /\ job[w].order \in Orders
    BY <1>11, <1>n DEF ManualWrite, At, memory, OrdersKnown, Resting
  <2>1. LET j == [job[w] EXCEPT !.pc = "manualArm"]
        IN  j.order = job[w].order /\ j.done = job[w].done /\ j.pc = "manualArm" /\ j.rider = job[w].rider
    BY <1>0 DEF JobRecords
  <2>2. /\ job'[w].order = job[w].order /\ job'[w].done = {} /\ job'[w].pc = "manualArm" /\ job'[w].rider = job[w].rider
        /\ \A v \in Jobs \ {w} : job'[v] = job[v]
    BY <1>11, <2>0, <2>1, GotoMoves DEF ManualWrite, To
  <2>3. CASE job[w].order = o
    <3>1. row'[o] = [st |-> "ASSIGNED", rider |-> job[w].rider]
      BY <1>11, <2>3 DEF ManualWrite, SetRow, TypeOK
    <3>2. \A v \in Jobs \ {w} : job[v].order # o /\ o \notin job[v].done
      BY <2>3 DEF Lonely, About
    <3>3. Offering(w, o)' /\ \A v \in Jobs : Knows(v, o)'
      BY <2>2, <2>3, <3>1, <3>2 DEF Offering, Knows, At
    <3> QED BY <3>3 DEF Watched
  <2>4. CASE job[w].order # o
    <3>1. row'[o] = row[o]
      BY <1>11, <2>4 DEF ManualWrite, SetRow, TypeOK
    <3>2. ~Offering(w, o)
      BY <2>0, <2>4 DEF Offering
    <3>3. Calm
      BY <2>2, <2>4, <3>2 DEF Quiet
    <3> QED BY <1>a, <2>0, <3>1, <3>3
  <2> QED BY <2>3, <2>4
<1>12. ASSUME ManualArm(w) PROVE Watched(o)'
  <2>0. At(w, "manualArm") /\ job[w].done = {} /\ UNCHANGED row /\ Stop(w)
        /\ timer'[o] = IF job[w].order = o THEN job[w].rider ELSE timer[o]
    BY <1>12, <1>n DEF ManualArm, At, TypeOK
  <2>1. \A v \in Jobs : job'[v] = job[v] \/ (v = w /\ Quiet(v, o)')
    BY <2>0, GotoMoves DEF Stop, Idle, Quiet, Telling
  <2>2. CASE job[w].order = o
    <3>1. row[o].st = "ASSIGNED" => timer'[o] = row'[o].rider
      BY <2>0, <2>2 DEF Watched, Knows, At
    <3>2. row[o].st = "ASSIGNED" => \A v \in Jobs : Knows(v, o)'
      BY <2>0, <2>1 DEF Watched, Knows, At, Quiet, Telling
    <3> QED BY <2>0, <3>1, <3>2 DEF Watched
  <2>3. CASE job[w].order # o
    <3>1. ~Offering(w, o)
      BY <2>0, <2>3 DEF Offering
    <3> QED BY <1>a, <2>0, <2>1, <2>3, <3>1
  <2> QED BY <2>2, <2>3
<1>13. ASSUME AfterAccept(w) \/ AfterReject(w) \/ ClearTimer(w) PROVE Watched(o)'
  <2>0. /\ job[w].pc \in {"accepted", "rejected", "clear"} /\ job[w].done = {} /\ UNCHANGED row
        /\ timer' = [timer EXCEPT ![job[w].order] = None]
    BY <1>13, <1>n DEF AfterAccept, AfterReject, ClearTimer, At, database
  <2>1. CASE job[w].order = o
    <3>1. row[o].st # "ASSIGNED"
      BY <2>0, <2>1 DEF Watched, Knows
    <3> QED BY <1>c, <2>0, <3>1
  <2>2. CASE job[w].order # o
    <3>1. ~Offering(w, o)
      BY <2>0, <2>2 DEF Offering
    <3>2. Calm
      BY <1>13, <3>1, QuietStops DEF AfterAccept, AfterReject, ClearTimer
    <3>3. timer'[o] = timer[o]
      BY <2>0, <2>2 DEF TypeOK
    <3> QED BY <1>a, <2>0, <3>2, <3>3
  <2> QED BY <2>1, <2>2
<1> QED
  BY <1>1, <1>2, <1>3, <1>4, <1>5, <1>6, <1>7, <1>8, <1>9, <1>10, <1>11, <1>12, <1>13 DEF JobStep

\* What is asked of the process, and its timers and windows.
LEMMA WatchOtherStep ==
  ASSUME TypeOK, RoomInv,
         \/ \E w \in Jobs : Requests(w) \/ Timers(w)
         \/ \E o \in Orders, r \in Riders, s \in InFlight : UpdateStatus(o, r, s)
         \/ \E r \in Riders : GoOnline(r)
         \/ Bulk,
         NEW o \in alone', o \in Orders, Watched(o)
  PROVE  Watched(o)'
<1> DEFINE Calm == \A v \in Jobs : job'[v] = job[v] \/ (~Offering(v, o) /\ Quiet(v, o)')
<1>a. ASSUME Calm, row'[o] = row[o], timer'[o] = timer[o] PROVE Watched(o)'
  BY <1>a, WatchedStays
<1>c. ASSUME row'[o].st # "ASSIGNED" PROVE Watched(o)'
  BY <1>c DEF Watched
<1>d. ASSUME NEW w \in Jobs, At(w, "idle") PROVE ~Offering(w, o)
  BY <1>d DEF RoomInv, RoomOfJob, Offering, At
<1>1. ASSUME NEW w \in Jobs, NEW p \in Orders, MarkPacked(w, p) \/ PollOrder(w, p) \/ AdminRetry(w, p) PROVE Watched(o)'
  BY <1>1, <1>a, <1>d, QuietStops DEF MarkPacked, PollOrder, AdminRetry, memory, database
<1>2. ASSUME NEW w \in Jobs, NEW p \in Orders, Redeliver(w, p) PROVE Watched(o)'
  <2>1. Calm /\ timer' = timer
    BY <1>2, <1>d, QuietStops DEF Redeliver, memory
  <2>2. row'[o] = row[o] \/ row'[o].st # "ASSIGNED"
    BY <1>2 DEF Redeliver, SetRowState, TypeOK
  <2> QED BY <1>a, <1>c, <2>1, <2>2
<1>3. ASSUME NEW w \in Jobs, NEW p \in Orders, CancelRead(w, p) PROVE Watched(o)'
  <2>1. LET j == [Idle EXCEPT !.pc = "cancelOrder", !.order = p] IN j.done = {} /\ j.pc = "cancelOrder"
    BY DEF Idle
  <2>2. Calm
    BY <1>3, <1>d, <2>1, QuietMoved DEF CancelRead, Telling
  <2> QED BY <1>3, <1>a, <2>2 DEF CancelRead, memory, database
<1>4. ASSUME NEW w \in Jobs, NEW p \in Orders, NEW r \in Riders, ManualCheck(w, p, r) PROVE Watched(o)'
  <2>1. LET j == [Idle EXCEPT !.pc = "manual", !.order = p, !.rider = r] IN j.done = {} /\ j.pc = "manual"
    BY DEF Idle
  <2>2. Calm
    BY <1>4, <1>d, <2>1, QuietMoved DEF ManualCheck, Telling
  <2> QED BY <1>4, <1>a, <2>2 DEF ManualCheck, memory, database
<1>5. ASSUME NEW w \in Jobs, NEW r \in Riders, GoOfflineCheck(w, r) PROVE Watched(o)'
  <2>1. LET j == [Idle EXCEPT !.pc = "offline", !.rider = r] IN j.done = {} /\ j.pc = "offline"
    BY DEF Idle
  <2>2. Calm
    BY <1>5, <1>d, <2>1, QuietMoved DEF GoOfflineCheck, Telling
  <2> QED BY <1>5, <1>a, <2>2 DEF GoOfflineCheck, memory, database
<1>6. ASSUME NEW w \in Jobs, NEW p \in Orders, NEW r \in Riders,
             Accept(w, p, r) \/ Reject(w, p, r) \/ Deliver(w, p, r) \/ MarkFailed(w, p, r)
      PROVE  Watched(o)'
  <2>1. /\ row'[p].st # "ASSIGNED" /\ (p # o => row'[o] = row[o]) /\ timer' = timer
        /\ At(w, "idle")
    BY <1>6 DEF Accept, Reject, Deliver, MarkFailed, SetRow, SetRowState, TypeOK, memory
  <2>2. ASSUME NEW j, Goto(w, j), j.done = {}, j.order # o \/ j.pc = "queueRead" PROVE Calm
    BY <1>d, <2>1, <2>2, QuietMoved DEF Telling
  <2>3. /\ LET j == [Idle EXCEPT !.pc = "accepted", !.order = p] IN j.done = {} /\ j.order = p
        /\ LET j == [Idle EXCEPT !.pc = "rejected", !.order = p, !.except = r] IN j.done = {} /\ j.order = p
        /\ LET j == [Idle EXCEPT !.pc = "queueRead"] IN j.done = {} /\ j.pc = "queueRead"
        /\ LET j == [Idle EXCEPT !.pc = "clear", !.order = p] IN j.done = {} /\ j.order = p
    BY DEF Idle
  <2>4. p # o => Calm
    BY <1>6, <2>2, <2>3 DEF Accept, Reject, Deliver, MarkFailed, Clear
  <2> QED BY <1>a, <1>c, <2>1, <2>4
<1>7. ASSUME NEW w \in Jobs, NEW p \in Orders, TimerFires(w, p) PROVE Watched(o)'
  <2>0. /\ At(w, "idle") /\ UNCHANGED row /\ timer' = [timer EXCEPT ![p] = None]
        /\ IF OfferedTo(p, timer[p])
             THEN Goto(w, [Idle EXCEPT !.pc = "auto", !.order = p, !.except = timer[p]])
             ELSE UNCHANGED job
    BY <1>7 DEF TimerFires, database
  <2>1. LET j == [Idle EXCEPT !.pc = "auto", !.order = p, !.except = timer[p]]
        IN  j.done = {} /\ j.order = p /\ j.pc = "auto" /\ j.except = timer[p]
    BY DEF Idle
  <2>2. CASE p # o
    <3>1. timer'[o] = timer[o]
      BY <2>0, <2>2 DEF TypeOK
    <3>2. Calm
      BY <1>d, <2>0, <2>1, <2>2, QuietMoved
    <3> QED BY <1>a, <2>0, <3>1, <3>2
  <2>3. CASE p = o /\ OfferedTo(o, timer[o])
    <3>1. /\ job'[w].done = {} /\ job'[w].order = o /\ job'[w].pc = "auto" /\ job'[w].except = timer[o]
          /\ \A v \in Jobs \ {w} : job'[v] = job[v]
      BY <2>0, <2>1, <2>3, GotoMoves
    <3>2. row[o].st = "ASSIGNED" /\ row[o].rider = timer[o]
      BY <2>3 DEF OfferedTo
    <3>3. Offering(w, o)' /\ \A v \in Jobs : Knows(v, o)'
      BY <2>0, <3>1, <3>2 DEF Watched, Offering, Knows, At
    <3> QED BY <3>3 DEF Watched
  <2>4. CASE p = o /\ ~OfferedTo(o, timer[o])
    <3>1. row[o].st = "ASSIGNED" => timer[o] # row[o].rider
      BY <2>4 DEF OfferedTo, TypeOK
    <3> QED BY <2>0, <2>4, <3>1 DEF Watched, Offering, Knows, At
  <2> QED BY <2>2, <2>3, <2>4
<1>8. ASSUME NEW w \in Jobs, NEW a \in Orders, WindowFires(w, a) PROVE Watched(o)'
  <2>1. PICK b \in Batches(a, Nearby(a)) :
          Goto(w, [Idle EXCEPT !.pc = "write", !.order = a, !.rider = window[a].rider,
                               !.cap = window[a].cap, !.todo = b])
    BY <1>8 DEF WindowFires
  <2>2. LET j == [Idle EXCEPT !.pc = "write", !.order = a, !.rider = window[a].rider,
                              !.cap = window[a].cap, !.todo = b]
        IN  j.done = {} /\ j.pc = "write"
    BY DEF Idle
  <2>3. Calm
    BY <1>8, <1>d, <2>1, <2>2, QuietMoved DEF WindowFires, Telling
  <2> QED BY <1>8, <1>a, <2>3 DEF WindowFires, database
<1>9. ASSUME NEW p \in Orders, NEW r \in Riders, NEW s \in InFlight, UpdateStatus(p, r, s) PROVE Watched(o)'
  <2>1. /\ timer' = timer /\ job' = job
        /\ row'[o] = row[o] \/ row'[o].st # "ASSIGNED"
    BY <1>9 DEF UpdateStatus, SetRowState, TypeOK, memory
  <2> QED BY <1>a, <1>c, <2>1
<1>10. ASSUME NEW r \in Riders, GoOnline(r) PROVE Watched(o)'
  BY <1>10, <1>a DEF GoOnline, memory
<1>11. ASSUME Bulk PROVE Watched(o)'
  <2>1. PICK p \in Orders, r \in Riders : BulkAssign(p, r) /\ alone' = alone \ {p}
    BY <1>11 DEF Bulk
  <2>2. p # o /\ row'[o] = row[o] /\ timer' = timer /\ job' = job
    BY <2>1 DEF BulkAssign, SetRow, TypeOK, memory
  <2> QED BY <1>a, <2>2
<1> QED BY <1>1, <1>2, <1>3, <1>4, <1>5, <1>6, <1>7, <1>8, <1>9, <1>10, <1>11 DEF Requests, Timers

\* An order that is still alone after a step was alone before it, and is so now.
LEMMA WatchStep ==
  TypeOK /\ OrdersKnown /\ RoomInv /\ WatchInv /\ [Next]_vars => WatchInv'
<1> SUFFICES ASSUME TypeOK, OrdersKnown, RoomInv, WatchInv, [Next]_vars, NEW o \in alone'
             PROVE  Lonely(o)' /\ Watched(o)'
  BY DEF WatchInv
<1>1. CASE UNCHANGED vars
  BY <1>1 DEF vars, database, memory, cache, history, WatchInv, Lonely, Watched, Offering, Knows, At
<1>2. CASE (OwnStep \/ Request) /\ alone' = StillAlone
  <2>1. o \in alone /\ o \in Orders /\ Lonely(o) /\ Watched(o) /\ Lonely(o)'
    BY <1>2 DEF StillAlone, WatchInv, Lonely, TypeOK
  <2> QED BY <1>2, <2>1, WatchJobStep, WatchOtherStep DEF OwnStep, Request
<1>3. CASE Bulk
  <2>1. o \in alone /\ o \in Orders /\ Lonely(o) /\ Watched(o) /\ job' = job
    BY <1>3 DEF Bulk, BulkAssign, WatchInv, TypeOK
  <2> QED BY <1>3, <2>1, WatchOtherStep DEF Lonely
<1>4. CASE Crash
  BY <1>4 DEF Crash
<1> QED BY <1>1, <1>2, <1>3, <1>4 DEF Next

LEMMA WatchInit == Init => WatchInv
<1> SUFFICES ASSUME Init, NEW o \in Orders PROVE Lonely(o) /\ Watched(o)
  BY DEF Init, WatchInv
<1>1. \A w \in Jobs : ~About(job[w], o)
  BY DispatchAssumption DEF Init, About, Idle, DispatchAssumption
<1>2. row[o].st = "none"
  BY DEF Init, NoRow
<1> QED BY <1>1, <1>2 DEF Lonely, Watched

\* An offer made to a rider by one procedure at a time has a timer that runs for
\* that rider, or a procedure that sees to it, for any number of procedures.
THEOREM OffersAreWatched == Spec => []OfferIsWatched
<1>1. Init => TypeOK /\ OrdersKnown /\ RoomInv /\ WatchInv
  BY TypeInit, OrdersKnownInit, RoomInit, WatchInit
<1>2. TypeOK /\ OrdersKnown /\ RoomInv /\ WatchInv /\ [Next]_vars
        => (TypeOK /\ OrdersKnown /\ RoomInv /\ WatchInv)'
  BY TypeStep, OrdersKnownStep, RoomStep, WatchStep
<1>3. WatchInv => OfferIsWatched
  BY DEF WatchInv, Watched, Offering, OfferIsWatched, HeldByJob, About
<1> QED BY <1>1, <1>2, <1>3, PTL DEF Spec

=============================================================================
