---------------------------- MODULE RefundsProofs ----------------------------
(***************************************************************************)
(* Proofs about Refunds, for any orders, lines, prices, shortfalls, number *)
(* of workers and of restarts.                                             *)
(***************************************************************************)
EXTENDS Refunds, TLAPS

------------------------------------------------------------------------------
\* Types.

\* A job that stands at a step is a record of the kind that step belongs to.
LEMMA JobAtStep ==
    ASSUME TypeOK, NEW w \in Workers
    PROVE  /\ job[w].pc \in {"cancel", "write", "full", "insert"} => job[w] \in AmountJobs
           /\ At(w, "lines") => job[w] \in LinesJobs
           /\ At(w, "send") => job[w] \in SendJobs
           /\ job[w].pc \in {"check", "wait", "book", "fail", "close"} =>
                job[w] \in CallJobs
<1>1. job[w] \in Jobs
  BY DEF TypeOK
<1>2. CASE job[w] = Idle
  BY <1>2 DEF Idle, At
<1>3. CASE job[w] \in AmountJobs
  BY <1>3 DEF AmountJobs, At
<1>4. CASE job[w] \in LinesJobs
  BY <1>4 DEF LinesJobs, At
<1>5. CASE job[w] \in SendJobs
  BY <1>5 DEF SendJobs, At
<1>6. CASE job[w] \in CallJobs
  BY <1>6 DEF CallJobs, At
<1>q. QED
  BY <1>1, <1>2, <1>3, <1>4, <1>5, <1>6 DEF Jobs

\* The jobs that steps move to.
LEMMA JobForms ==
    /\ Idle \in Jobs
    /\ \A o \in Orders : LinesJob(o) \in Jobs
    /\ \A o \in Orders, a \in Nat : /\ CancelJob(o, a) \in Jobs
                                    /\ FullJob(o, a) \in Jobs
                                    /\ InsertJob(o, a) \in Jobs
    /\ \A ks \in SUBSET Keys : SendJob(ks) \in Jobs
    /\ \A ks \in SUBSET Keys, k \in Keys, pc \in {"check", "wait", "book", "fail", "close"} :
            CallJob(pc, ks, k) \in Jobs
<1>1. \A o \in Orders : LinesJob(o) \in LinesJobs
  BY DEF LinesJob, LinesJobs
<1>2. \A o \in Orders, a \in Nat : /\ CancelJob(o, a) \in AmountJobs
                                   /\ FullJob(o, a) \in AmountJobs
                                   /\ InsertJob(o, a) \in AmountJobs
  BY DEF CancelJob, FullJob, InsertJob, AmountJobs
<1>3. \A ks \in SUBSET Keys : SendJob(ks) \in SendJobs
  BY DEF SendJob, SendJobs
<1>4. \A ks \in SUBSET Keys, k \in Keys, pc \in {"check", "wait", "book", "fail", "close"} :
            CallJob(pc, ks, k) \in CallJobs
  BY DEF CallJob, CallJobs
<1>q. QED
  BY <1>1, <1>2, <1>3, <1>4 DEF Jobs

\* A job moves on within a submission.
LEMMA CallMoves ==
    ASSUME NEW j \in CallJobs, NEW pc \in {"check", "wait", "book", "fail", "close"}
    PROVE  /\ [j EXCEPT !.pc = pc] \in CallJobs
           /\ [j EXCEPT !.pc = pc].pc = pc
           /\ [j EXCEPT !.pc = pc].key = j.key
           /\ [j EXCEPT !.pc = pc].keys = j.keys
  BY DEF CallJobs

LEMMA GotoTyped ==
    ASSUME TypeOK, NEW w \in Workers, NEW j \in Jobs, Goto(w, j)
    PROVE  job' \in [Workers -> Jobs]
  BY DEF Goto, TypeOK

LEMMA ContinueTyped ==
    ASSUME TypeOK, NEW w \in Workers, NEW ks \in SUBSET Keys, Continue(w, ks)
    PROVE  job' \in [Workers -> Jobs]
<1>1. CASE ks = {}
  BY <1>1, JobForms, GotoTyped DEF Continue, Done
<1>2. CASE ks # {}
  BY <1>2, JobForms, GotoTyped DEF Continue
<1>q. QED
  BY <1>1, <1>2

\* Whatever the refunds come to, what remains to be paid is a natural number.
LEMMA RemainingIsNatural ==
    ASSUME NEW t \in Nat, NEW refunds
    PROVE  Remaining(t, refunds) \in Nat
<1>1. CASE \E r \in 0..t : r + refunds = t
  <2>1. Remaining(t, refunds) = CHOOSE r \in 0..t : r + refunds = t
    BY <1>1 DEF Remaining
  <2>q. QED
    BY <1>1, <2>1
<1>2. CASE ~\E r \in 0..t : r + refunds = t
  BY <1>2 DEF Remaining
<1>q. QED
  BY <1>1, <1>2

LEMMA FullKeyIsKey == \A o \in Orders : <<o, Full>> \in Keys
  BY DEF Keys, Lines

LEMMA KeysOfAreKeys == \A o \in Orders : KeysOf(o) \subseteq Keys
  BY DEF Keys, KeysOf

LEMMA TypeInit == Init => TypeOK
<1> SUFFICES ASSUME Init
             PROVE  TypeOK
  OBVIOUS
<1>1. /\ status \in [Orders -> Stages]
      /\ ptx \in [Orders -> {"none", "SUCCESS", "REFUNDED"}]
      /\ pay \in [Orders -> {"PENDING", "PAID", "REFUNDED"}]
      /\ total \in [Orders -> Nat]
  BY RefundsAssumption DEF RefundsAssumption, Init, Stages
<1>2. /\ row \in [Keys -> [st : RowStates, amount : Nat]]
      /\ gw \in [Keys -> Nat]
      /\ job \in [Workers -> Jobs]
  BY JobForms DEF Init, NoRow, RowStates
<1>q. QED
  BY <1>1, <1>2 DEF Init, TypeOK

\* What starts a job: packing, resolving, cancelling, retrying.
LEMMA TypeRequestStep ==
    ASSUME TypeOK, NEW w \in Workers, NEW o \in Orders,
           \/ \E short \in Shortfalls : Pack(w, o, short)
           \/ \E res \in {"REDELIVER", "REFUND", "DISCARD"} : Resolve(w, o, res)
           \/ CancelRead(w, o)
           \/ RetryPick(w, o)
    PROVE  TypeOK'
<1>1. ASSUME NEW short \in Shortfalls, Pack(w, o, short)
      PROVE  TypeOK'
  <2>1. short \in [Items -> Nat]
    BY RefundsAssumption DEF RefundsAssumption
  <2>2. job' \in [Workers -> Jobs]
    BY <1>1, JobForms, GotoTyped DEF Pack
  <2>3. row' \in [Keys -> [st : RowStates, amount : Nat]]
    <3>1. row' = [k \in Keys |->
                    IF k[1] = o /\ k[2] \in Items /\ short[k[2]] > 0
                    THEN [st |-> IF Online(o) THEN "PENDING" ELSE "RECORDED",
                          amount |-> short[k[2]]]
                    ELSE row[k]]
      BY <1>1 DEF Pack
    <3>2. ASSUME NEW k \in Keys
          PROVE  row'[k] \in [st : RowStates, amount : Nat]
      <4>1. row[k] \in [st : RowStates, amount : Nat]
        BY DEF TypeOK
      <4>2. ASSUME k[2] \in Items
            PROVE  [st |-> IF Online(o) THEN "PENDING" ELSE "RECORDED",
                    amount |-> short[k[2]]] \in [st : RowStates, amount : Nat]
        BY <2>1, <4>2 DEF RowStates
      <4>q. QED
        BY <3>1, <4>1, <4>2
    <3>q. QED
      BY <3>1, <3>2
  <2>4. total' \in [Orders -> Nat]
    <3>1. total[o] \in Nat
      BY DEF TypeOK
    <3>2. Remaining(total[o], RefundTotal(short)) \in Nat
      BY <3>1, RemainingIsNatural
    <3>3. total' = [total EXCEPT ![o] = Remaining(total[o], RefundTotal(short))]
      BY <1>1 DEF Pack
    <3>q. QED
      BY <3>2, <3>3 DEF TypeOK
  <2>q. QED
    BY <1>1, <2>2, <2>3, <2>4 DEF Pack, TypeOK, gatewayVars
<1>2. ASSUME NEW res \in {"REDELIVER", "REFUND", "DISCARD"}, Resolve(w, o, res)
      PROVE  TypeOK'
  <2>1. total[o] \in Nat
    BY DEF TypeOK
  <2>2. job' \in [Workers -> Jobs]
    BY <1>2, <2>1, JobForms, GotoTyped DEF Resolve
  <2>3. Outcome(res) \in Stages
    BY DEF Outcome, Stages
  <2>4. /\ status' \in [Orders -> Stages]
        /\ pay' \in [Orders -> {"PENDING", "PAID", "REFUNDED"}]
    BY <1>2, <2>3 DEF Resolve, TypeOK
  <2>q. QED
    BY <1>2, <2>2, <2>4 DEF Resolve, TypeOK, gatewayVars, refundVars
<1>3. CASE CancelRead(w, o)
  <2>1. RefundDue(o) \in Nat
    BY DEF RefundDue, TypeOK
  <2>2. job' \in [Workers -> Jobs]
    BY <1>3, <2>1, JobForms, GotoTyped DEF CancelRead
  <2>q. QED
    BY <1>3, <2>2 DEF CancelRead, TypeOK, orderVars, gatewayVars, refundVars
<1>4. CASE RetryPick(w, o)
  <2>1. job' \in [Workers -> Jobs]
    BY <1>4, JobForms, GotoTyped DEF RetryPick
  <2>q. QED
    BY <1>4, <2>1 DEF RetryPick, TypeOK, orderVars, gatewayVars, refundVars
<1>q. QED
  BY <1>1, <1>2, <1>3, <1>4

LEMMA TypeJobStep ==
    ASSUME TypeOK, NEW w \in Workers, JobStep(w)
    PROVE  TypeOK'
<1> USE JobAtStep
<1>1. CASE CancelCheck(w)
  <2>1. job[w] \in AmountJobs
    BY <1>1 DEF CancelCheck, At
  <2>2. [job[w] EXCEPT !.pc = "write"] \in Jobs
    BY <2>1 DEF AmountJobs, Jobs
  <2>3. job' \in [Workers -> Jobs]
    BY <1>1, <2>2, JobForms, GotoTyped DEF CancelCheck, Done
  <2>q. QED
    BY <1>1, <2>3 DEF CancelCheck, TypeOK, orderVars, gatewayVars, refundVars
<1>2. CASE CancelWrite(w)
  <2>1. job[w].order \in Orders /\ job[w].amount \in Nat
    BY <1>2 DEF CancelWrite, At, AmountJobs
  <2>2. job' \in [Workers -> Jobs]
    BY <1>2, <2>1, JobForms, GotoTyped DEF CancelWrite
  <2>3. status' \in [Orders -> Stages]
    BY <1>2, <2>1 DEF CancelWrite, TypeOK, Stages
  <2>q. QED
    BY <1>2, <2>2, <2>3 DEF CancelWrite, TypeOK, gatewayVars, refundVars
<1>3. CASE FullRead(w)
  <2>1. job[w].order \in Orders /\ job[w].amount \in Nat
    BY <1>3 DEF FullRead, At, AmountJobs
  <2>2. {<<job[w].order, Full>>} \in SUBSET Keys
    BY <2>1, FullKeyIsKey
  <2>3. job' \in [Workers -> Jobs]
    BY <1>3, <2>1, <2>2, JobForms, GotoTyped DEF FullRead, Done
  <2>q. QED
    BY <1>3, <2>3 DEF FullRead, TypeOK, orderVars, gatewayVars, refundVars
<1>4. CASE FullInsert(w)
  <2>1. job[w].order \in Orders /\ job[w].amount \in Nat
    BY <1>4 DEF FullInsert, At, AmountJobs
  <2>2. {<<job[w].order, Full>>} \in SUBSET Keys
    BY <2>1, FullKeyIsKey
  <2>3. job' \in [Workers -> Jobs]
    BY <1>4, <2>1, <2>2, JobForms, GotoTyped DEF FullInsert, Done
  <2>4. row' \in [Keys -> [st : RowStates, amount : Nat]]
    <3>1. [st |-> "PENDING", amount |-> job[w].amount] \in [st : RowStates, amount : Nat]
      BY <2>1 DEF RowStates
    <3>2. \/ row' = row
          \/ row' = [row EXCEPT ![<<job[w].order, Full>>] =
                                    [st |-> "PENDING", amount |-> job[w].amount]]
      BY <1>4 DEF FullInsert
    <3>3. row \in [Keys -> [st : RowStates, amount : Nat]]
      BY DEF TypeOK
    <3>q. QED
      BY <3>1, <3>2, <3>3
  <2>q. QED
    BY <1>4, <2>3, <2>4 DEF FullInsert, TypeOK, orderVars, gatewayVars
<1>5. CASE LinesRead(w)
  <2>1. Unsent(job[w].order) \in SUBSET Keys
    BY <1>5, KeysOfAreKeys DEF LinesRead, At, LinesJobs, Unsent
  <2>2. job' \in [Workers -> Jobs]
    BY <1>5, <2>1, ContinueTyped DEF LinesRead
  <2>q. QED
    BY <1>5, <2>2 DEF LinesRead, TypeOK, orderVars, gatewayVars, refundVars
<1>6. ASSUME NEW k \in Keys, SubmitSkip(w, k) \/ SubmitRow(w, k)
      PROVE  TypeOK'
  <2>1. job[w].keys \ {k} \in SUBSET Keys
    BY <1>6 DEF SubmitSkip, SubmitRow, At, SendJobs
  <2>2. job' \in [Workers -> Jobs]
    BY <1>6, <2>1, JobForms, GotoTyped, ContinueTyped DEF SubmitSkip, SubmitRow
  <2>q. QED
    BY <1>6, <2>2
    DEF SubmitSkip, SubmitRow, TypeOK, orderVars, gatewayVars, refundVars
<1>7. CASE SubmitRefused(w) \/ SubmitSend(w) \/ AnswerError(w)
           \/ \E k \in Keys : AnswerOk(w, k)
  <2>1. job[w] \in CallJobs
    BY <1>7 DEF SubmitRefused, SubmitSend, AnswerError, AnswerOk, At
  <2>2. /\ [job[w] EXCEPT !.pc = "fail"] \in Jobs
        /\ [job[w] EXCEPT !.pc = "wait"] \in Jobs
        /\ [job[w] EXCEPT !.pc = "book"] \in Jobs
    BY <2>1, CallMoves DEF Jobs
  <2>3. job' \in [Workers -> Jobs]
    BY <1>7, <2>2, GotoTyped DEF SubmitRefused, SubmitSend, AnswerError, AnswerOk
  <2>4. requests' \subseteq Keys
    BY <1>7, <2>1
    DEF SubmitRefused, SubmitSend, AnswerError, AnswerOk, TypeOK, CallJobs, gatewayVars
  <2>q. QED
    BY <1>7, <2>3, <2>4
    DEF SubmitRefused, SubmitSend, AnswerError, AnswerOk, TypeOK, orderVars,
        gatewayVars, refundVars
<1>8. CASE MarkFailed(w) \/ MarkSubmitted(w) \/ MarkPaymentRefunded(w)
  <2>1. job[w] \in CallJobs /\ job[w].keys \in SUBSET Keys /\ job[w].key \in Keys
    BY <1>8 DEF MarkFailed, MarkSubmitted, MarkPaymentRefunded, At, CallJobs
  <2>2. [job[w] EXCEPT !.pc = "close"] \in Jobs
    BY <2>1, CallMoves DEF Jobs
  <2>3. job' \in [Workers -> Jobs]
    BY <1>8, <2>1, <2>2, GotoTyped, ContinueTyped
    DEF MarkFailed, MarkSubmitted, MarkPaymentRefunded
  <2>4. job[w].key[1] \in Orders
    BY <2>1 DEF Keys
  <2>5. row[job[w].key] \in [st : RowStates, amount : Nat]
    BY <2>1 DEF TypeOK
  <2>6. CASE MarkFailed(w)
    <3>1. row' \in [Keys -> [st : RowStates, amount : Nat]]
      BY <2>1, <2>5, <2>6 DEF MarkFailed, TypeOK, RowStates
    <3>q. QED
      BY <2>3, <2>6, <3>1 DEF MarkFailed, TypeOK, orderVars, gatewayVars
  <2>7. CASE MarkSubmitted(w)
    <3>1. row' \in [Keys -> [st : RowStates, amount : Nat]]
      BY <2>1, <2>5, <2>7 DEF MarkSubmitted, TypeOK, RowStates
    <3>q. QED
      BY <2>3, <2>7, <3>1 DEF MarkSubmitted, TypeOK, orderVars, gatewayVars
  <2>8. CASE MarkPaymentRefunded(w)
    <3>1. ptx' \in [Orders -> {"none", "SUCCESS", "REFUNDED"}]
      BY <2>4, <2>8 DEF MarkPaymentRefunded, TypeOK
    <3>q. QED
      BY <2>3, <2>8, <3>1 DEF MarkPaymentRefunded, TypeOK, orderVars, gatewayVars
  <2>q. QED
    BY <1>8, <2>6, <2>7, <2>8
<1>q. QED
  BY <1>1, <1>2, <1>3, <1>4, <1>5, <1>6, <1>7, <1>8 DEF JobStep

LEMMA TypeStep == TypeOK /\ [Next]_vars => TypeOK'
<1> SUFFICES ASSUME TypeOK, [Next]_vars
             PROVE  TypeOK'
  OBVIOUS
<1>1. ASSUME NEW o \in Orders, MarkPacked(o) \/ DeliveryFails(o)
      PROVE  TypeOK'
  BY <1>1 DEF MarkPacked, DeliveryFails, TypeOK, Stages, gatewayVars, refundVars
<1>2. ASSUME NEW k \in Keys, GatewayPays(k)
      PROVE  TypeOK'
  <2>1. gw' \in [Keys -> Nat]
    <3>1. row[k].amount \in Nat
      BY DEF TypeOK
    <3>q. QED
      BY <1>2, <3>1 DEF GatewayPays, TypeOK
  <2>q. QED
    BY <1>2, <2>1 DEF GatewayPays, TypeOK, orderVars, refundVars
<1>3. ASSUME NEW k \in Keys, Age(k)
      PROVE  TypeOK'
  BY <1>3 DEF Age, TypeOK, orderVars, gatewayVars
<1>4. CASE Restart
  <2>1. job' \in [Workers -> Jobs]
    BY <1>4, JobForms DEF Restart
  <2>2. restarts' \in Nat
    BY <1>4 DEF Restart, TypeOK
  <2>q. QED
    BY <1>4, <2>1, <2>2 DEF Restart, TypeOK, orderVars, gatewayVars, refundVars
<1>5. CASE UNCHANGED vars
  BY <1>5 DEF vars, TypeOK, orderVars, gatewayVars, refundVars
<1>q. QED
  BY <1>1, <1>2, <1>3, <1>4, <1>5, TypeRequestStep, TypeJobStep DEF Next

\* Every reachable state is well typed: what is left to pay never falls below
\* zero, whatever the lines come short by.
THEOREM TypeCorrect == Spec => []TypeOK
  BY TypeInit, TypeStep, PTL DEF Spec

------------------------------------------------------------------------------
\* The invariant behind the safety properties.

RowsHaveAmounts == \A k \in Keys : Recorded(k) <=> row[k].amount > 0

\* Packing, the only step that records refunds of lines, happens once.
LinesOpenUntilWeighed ==
    \A o \in Orders : ~weighed[o] => \A i \in Items : ~Recorded(<<o, i>>)

PayoutsRecorded ==
    /\ \A k \in requests : Recorded(k)
    /\ \A k \in Keys : gw[k] > 0 => gw[k] = row[k].amount

BookedArePaid == \A k \in Keys : Submitted(k) => gw[k] > 0

ClosedAreBooked == \A o \in Orders : ptx[o] = "REFUNDED" => Submitted(<<o, Full>>)

\* What a job knows about its rows still holds when it comes to use it.
JobSafe(w) ==
    /\ At(w, "insert") => job[w].amount > 0
    /\ At(w, "send") => \A k \in job[w].keys : Recorded(k)
    /\ job[w].pc \in {"check", "wait", "book", "fail", "close"} =>
            /\ Recorded(job[w].key)
            /\ \A k \in job[w].keys : Recorded(k)
    /\ At(w, "book") => gw[job[w].key] > 0
    /\ At(w, "close") => job[w].key[2] = Full /\ Submitted(job[w].key)

RefundInvariant ==
    /\ TypeOK
    /\ RowsHaveAmounts
    /\ LinesOpenUntilWeighed
    /\ PayoutsRecorded
    /\ BookedArePaid
    /\ ClosedAreBooked
    /\ \A w \in Workers : JobSafe(w)

\* The conjuncts that speak of rows, payouts and payments only.
Books ==
    RowsHaveAmounts /\ LinesOpenUntilWeighed /\ PayoutsRecorded /\ BookedArePaid
    /\ ClosedAreBooked

\* No step takes back a row, its amount, a payout or the booking of one.
Grow ==
    \A k \in Keys :
        /\ Recorded(k) => Recorded(k)' /\ row'[k].amount = row[k].amount
        /\ Submitted(k) => Submitted(k)'
        /\ gw[k] > 0 => gw'[k] = gw[k]

bookVars == <<weighed, ptx, row, requests, gw>>

LEMMA BooksUntouched ==
    ASSUME Books, UNCHANGED bookVars
    PROVE  Books' /\ Grow
  BY DEF Books, bookVars, Grow, RowsHaveAmounts, LinesOpenUntilWeighed,
         PayoutsRecorded, BookedArePaid, ClosedAreBooked, Recorded, Submitted

LEMMA BooksPack ==
    ASSUME TypeOK, Books, NEW w \in Workers, NEW o \in Orders,
           NEW short \in Shortfalls, Pack(w, o, short)
    PROVE  Books' /\ Grow
<1>1. short \in [Items -> Nat]
  BY RefundsAssumption DEF RefundsAssumption
<1>2. /\ ~weighed[o]
      /\ weighed' = [weighed EXCEPT ![o] = TRUE]
      /\ UNCHANGED <<ptx, requests, gw>>
  BY DEF Pack, gatewayVars
<1>3. row' = [k \in Keys |->
                IF k[1] = o /\ k[2] \in Items /\ short[k[2]] > 0
                THEN [st |-> IF Online(o) THEN "PENDING" ELSE "RECORDED",
                      amount |-> short[k[2]]]
                ELSE row[k]]
  BY DEF Pack
<1>4. ASSUME NEW k \in Keys, k[1] = o, k[2] \in Items
      PROVE  ~Recorded(k)
  <2>1. k = <<o, k[2]>>
    BY <1>4 DEF Keys
  <2>q. QED
    BY <1>2, <1>4, <2>1 DEF Books, LinesOpenUntilWeighed
<1>5. ASSUME NEW k \in Keys, k[1] = o, k[2] \in Items, short[k[2]] > 0
      PROVE  /\ ~Recorded(k) /\ ~Submitted(k) /\ k \notin requests /\ ~(gw[k] > 0)
             /\ row'[k].st # "none" /\ row'[k].st # "SUBMITTED"
             /\ row'[k].amount > 0
  <2>1. ~Recorded(k)
    BY <1>4, <1>5
  <2>2. row[k].amount \in Nat /\ ~(row[k].amount > 0) /\ gw[k] \in Nat
    BY <2>1 DEF Books, RowsHaveAmounts, TypeOK
  <2>3. k \notin requests /\ ~(gw[k] > 0)
    BY <2>1, <2>2 DEF Books, PayoutsRecorded
  <2>4. /\ row'[k].st = IF Online(o) THEN "PENDING" ELSE "RECORDED"
        /\ row'[k].amount = short[k[2]]
    BY <1>3, <1>5
  <2>q. QED
    BY <1>5, <2>1, <2>3, <2>4 DEF Recorded, Submitted
<1>6. ASSUME NEW k \in Keys, ~(k[1] = o /\ k[2] \in Items /\ short[k[2]] > 0)
      PROVE  row'[k] = row[k]
  BY <1>3, <1>6
<1>7. Grow
  BY <1>2, <1>5, <1>6 DEF Grow, Recorded, Submitted
<1>8. RowsHaveAmounts'
  BY <1>5, <1>6 DEF Books, RowsHaveAmounts, Recorded
<1>9. LinesOpenUntilWeighed'
  <2> SUFFICES ASSUME NEW p \in Orders, ~weighed'[p], NEW i \in Items
               PROVE  ~(row'[<<p, i>>].st # "none")
    BY DEF LinesOpenUntilWeighed, Recorded
  <2>1. p # o /\ ~weighed[p]
    BY <1>2 DEF TypeOK
  <2>2. <<p, i>> \in Keys
    BY DEF Keys, Lines
  <2>3. row'[<<p, i>>] = row[<<p, i>>]
    BY <1>6, <2>1, <2>2
  <2>q. QED
    BY <2>1, <2>3 DEF Books, LinesOpenUntilWeighed, Recorded
<1>10. PayoutsRecorded'
  BY <1>2, <1>5, <1>6 DEF Books, PayoutsRecorded, Recorded, TypeOK
<1>11. BookedArePaid'
  BY <1>2, <1>5, <1>6 DEF Books, BookedArePaid, Submitted
<1>12. ClosedAreBooked'
  BY <1>2, <1>5, <1>6, FullKeyIsKey DEF Books, ClosedAreBooked, Submitted
<1>q. QED
  BY <1>7, <1>8, <1>9, <1>10, <1>11, <1>12 DEF Books

LEMMA BooksFullInsert ==
    ASSUME TypeOK, Books, NEW w \in Workers, JobSafe(w), FullInsert(w)
    PROVE  Books' /\ Grow
<1> DEFINE f == <<job[w].order, Full>>
<1>1. /\ job[w].order \in Orders /\ job[w].amount \in Nat /\ job[w].amount > 0
      /\ UNCHANGED <<weighed, ptx, requests, gw>>
  BY JobAtStep DEF FullInsert, At, AmountJobs, JobSafe, gatewayVars, orderVars
<1>2. f \in Keys
  BY <1>1, FullKeyIsKey
<1>3. CASE Recorded(f)
  <2>1. UNCHANGED bookVars
    BY <1>1, <1>3 DEF FullInsert, bookVars
  <2>q. QED
    BY <2>1, BooksUntouched
<1>4. CASE ~Recorded(f)
  <2>1. row' = [row EXCEPT ![f] = [st |-> "PENDING", amount |-> job[w].amount]]
    BY <1>4 DEF FullInsert
  <2>2. /\ row'[f] = [st |-> "PENDING", amount |-> job[w].amount]
        /\ \A k \in Keys : k # f => row'[k] = row[k]
    BY <1>2, <2>1 DEF TypeOK
  <2>3. f \notin requests /\ ~(gw[f] > 0) /\ ~Submitted(f)
    BY <1>2, <1>4
    DEF Books, PayoutsRecorded, RowsHaveAmounts, Recorded, Submitted, TypeOK
  <2> HIDE DEF f
  <2>4. Grow
    BY <1>1, <1>4, <2>2, <2>3 DEF Grow, Recorded, Submitted
  <2>5. RowsHaveAmounts'
    BY <1>1, <2>2 DEF Books, RowsHaveAmounts, Recorded
  <2>6. LinesOpenUntilWeighed'
    <3>1. \A p \in Orders, i \in Items : <<p, i>> \in Keys /\ <<p, i>> # f
      BY RefundsAssumption DEF RefundsAssumption, f, Keys, Lines
    <3>q. QED
      BY <1>1, <2>2, <3>1 DEF Books, LinesOpenUntilWeighed, Recorded
  <2>7. PayoutsRecorded'
    BY <1>1, <2>2, <2>3 DEF Books, PayoutsRecorded, Recorded, TypeOK
  <2>8. BookedArePaid'
    BY <1>1, <2>2 DEF Books, BookedArePaid, Submitted
  <2>9. ClosedAreBooked'
    BY <1>1, <2>2, <2>3, FullKeyIsKey DEF Books, ClosedAreBooked, Submitted
  <2>q. QED
    BY <2>4, <2>5, <2>6, <2>7, <2>8, <2>9 DEF Books
<1>q. QED
  BY <1>3, <1>4

\* A recorded row changes its status, not its amount.
LEMMA BooksMark ==
    ASSUME TypeOK, Books, NEW w \in Workers, JobSafe(w),
           MarkFailed(w) \/ MarkSubmitted(w)
    PROVE  Books' /\ Grow
<1> DEFINE c == job[w].key
<1>1. c \in Keys /\ Recorded(c) /\ UNCHANGED <<weighed, ptx, requests, gw>>
  BY JobAtStep
  DEF MarkFailed, MarkSubmitted, At, CallJobs, JobSafe, gatewayVars, orderVars
<1>2. /\ row'[c].amount = row[c].amount
      /\ row'[c].st # "none"
      /\ row'[c].st = "SUBMITTED" => gw[c] > 0
      /\ Submitted(c) => row'[c].st = "SUBMITTED"
      /\ \A k \in Keys : k # c => row'[k] = row[k]
  <2>0. row \in [Keys -> [st : RowStates, amount : Nat]]
    BY DEF TypeOK
  <2>1. CASE MarkFailed(w)
    <3>1. row' = [row EXCEPT ![c].st = IF @ = "SUBMITTED" THEN @ ELSE "FAILED"]
      BY <2>1 DEF MarkFailed
    <3>2. Submitted(c) => gw[c] > 0
      BY <1>1 DEF Books, BookedArePaid
    <3>q. QED
      BY <1>1, <2>0, <3>1, <3>2 DEF Submitted
  <2>2. CASE MarkSubmitted(w)
    <3>1. row' = [row EXCEPT ![c].st = "SUBMITTED"]
      BY <2>2 DEF MarkSubmitted
    <3>2. gw[c] > 0
      BY <2>2 DEF MarkSubmitted, At, JobSafe
    <3>q. QED
      BY <1>1, <2>0, <3>1, <3>2
  <2>q. QED
    BY <2>1, <2>2
<1> HIDE DEF c
<1>3. Grow
  BY <1>1, <1>2 DEF Grow, Recorded, Submitted
<1>4. RowsHaveAmounts'
  BY <1>1, <1>2 DEF Books, RowsHaveAmounts, Recorded
<1>5. LinesOpenUntilWeighed'
  <2>1. \A p \in Orders, i \in Items : <<p, i>> \in Keys
    BY DEF Keys, Lines
  <2>q. QED
    BY <1>1, <1>2, <2>1 DEF Books, LinesOpenUntilWeighed, Recorded
<1>6. PayoutsRecorded'
  BY <1>1, <1>2 DEF Books, PayoutsRecorded, Recorded, TypeOK
<1>7. BookedArePaid'
  BY <1>1, <1>2 DEF Books, BookedArePaid, Submitted
<1>8. ClosedAreBooked'
  BY <1>1, <1>2, FullKeyIsKey DEF Books, ClosedAreBooked, Submitted
<1>q. QED
  BY <1>3, <1>4, <1>5, <1>6, <1>7, <1>8 DEF Books

LEMMA BooksClose ==
    ASSUME TypeOK, Books, NEW w \in Workers, JobSafe(w), MarkPaymentRefunded(w)
    PROVE  Books' /\ Grow
<1>1. /\ job[w].key \in Keys /\ job[w].key[2] = Full /\ Submitted(job[w].key)
      /\ UNCHANGED <<weighed, row, requests, gw>>
  BY JobAtStep
  DEF MarkPaymentRefunded, At, CallJobs, JobSafe, gatewayVars, orderVars
<1>2. job[w].key[1] \in Orders /\ job[w].key = <<job[w].key[1], Full>>
  BY <1>1 DEF Keys
<1>3. \A p \in Orders : p # job[w].key[1] => ptx'[p] = ptx[p]
  BY <1>2 DEF MarkPaymentRefunded, TypeOK
<1>4. ClosedAreBooked'
  BY <1>1, <1>2, <1>3 DEF Books, ClosedAreBooked, Submitted
<1>q. QED
  BY <1>1, <1>4
  DEF Books, Grow, RowsHaveAmounts, LinesOpenUntilWeighed, PayoutsRecorded,
      BookedArePaid, Recorded, Submitted

LEMMA BooksSend ==
    ASSUME TypeOK, Books, NEW w \in Workers, JobSafe(w), SubmitSend(w)
    PROVE  Books' /\ Grow
<1>1. /\ Recorded(job[w].key)
      /\ requests' = requests \cup {job[w].key}
      /\ UNCHANGED <<weighed, ptx, row, gw>>
  BY DEF SubmitSend, At, JobSafe, orderVars, refundVars
<1>q. QED
  BY <1>1
  DEF Books, Grow, RowsHaveAmounts, LinesOpenUntilWeighed, PayoutsRecorded,
      BookedArePaid, ClosedAreBooked, Recorded, Submitted

LEMMA BooksPayout ==
    ASSUME TypeOK, Books, NEW k \in Keys, GatewayPays(k)
    PROVE  Books' /\ Grow
<1>1. /\ gw[k] = 0
      /\ gw' = [gw EXCEPT ![k] = row[k].amount]
      /\ UNCHANGED <<weighed, ptx, row, requests>>
  BY DEF GatewayPays, orderVars, refundVars
<1>2. row[k].amount \in Nat /\ row[k].amount > 0
  BY DEF GatewayPays, Books, PayoutsRecorded, RowsHaveAmounts, TypeOK
<1>3. gw'[k] = row[k].amount /\ \A l \in Keys : l # k => gw'[l] = gw[l]
  BY <1>1 DEF TypeOK
<1>q. QED
  BY <1>1, <1>2, <1>3
  DEF Books, Grow, RowsHaveAmounts, LinesOpenUntilWeighed, PayoutsRecorded,
      BookedArePaid, ClosedAreBooked, Recorded, Submitted

LEMMA BooksStep ==
    ASSUME TypeOK, Books, \A w \in Workers : JobSafe(w), [Next]_vars
    PROVE  Books' /\ Grow
<1>1. ASSUME NEW w \in Workers, JobStep(w)
      PROVE  Books' /\ Grow
  <2>1. CASE UNCHANGED bookVars
    BY <2>1, BooksUntouched
  <2>2. ASSUME ~UNCHANGED bookVars
        PROVE  \/ FullInsert(w) \/ MarkFailed(w) \/ MarkSubmitted(w)
               \/ MarkPaymentRefunded(w) \/ SubmitSend(w)
    BY <1>1, <2>2
    DEF JobStep, CancelCheck, CancelWrite, FullRead, LinesRead, SubmitSkip, SubmitRow,
        SubmitRefused, AnswerError, AnswerOk, bookVars, orderVars, refundVars,
        gatewayVars
  <2>q. QED
    BY <2>1, <2>2, BooksFullInsert, BooksMark, BooksClose, BooksSend
<1>2. ASSUME NEW w \in Workers, NEW o \in Orders,
             \/ \E res \in {"REDELIVER", "REFUND", "DISCARD"} : Resolve(w, o, res)
             \/ CancelRead(w, o)
             \/ RetryPick(w, o)
      PROVE  Books' /\ Grow
  <2>1. UNCHANGED bookVars
    BY <1>2
    DEF Resolve, CancelRead, RetryPick, bookVars, orderVars, refundVars, gatewayVars
  <2>q. QED
    BY <2>1, BooksUntouched
<1>3. ASSUME NEW o \in Orders, MarkPacked(o) \/ DeliveryFails(o)
      PROVE  Books' /\ Grow
  <2>1. UNCHANGED bookVars
    BY <1>3 DEF MarkPacked, DeliveryFails, bookVars, refundVars, gatewayVars
  <2>q. QED
    BY <2>1, BooksUntouched
<1>4. CASE Restart \/ UNCHANGED vars \/ \E k \in Keys : Age(k)
  <2>1. UNCHANGED bookVars
    BY <1>4 DEF Restart, Age, vars, bookVars, orderVars, refundVars, gatewayVars
  <2>q. QED
    BY <2>1, BooksUntouched
<1>q. QED
  BY <1>1, <1>2, <1>3, <1>4, BooksPack, BooksPayout DEF Next

------------------------------------------------------------------------------
\* What jobs know.

\* A job that stands still keeps what it knows while others work.
LEMMA JobStandsStill ==
    ASSUME TypeOK, Grow, NEW w \in Workers, JobSafe(w), job'[w] = job[w]
    PROVE  JobSafe(w)'
<1>1. /\ At(w, "send") => job[w].keys \subseteq Keys
      /\ job[w].pc \in {"check", "wait", "book", "fail", "close"} =>
            job[w].keys \subseteq Keys /\ job[w].key \in Keys
  BY JobAtStep DEF SendJobs, CallJobs
<1>q. QED
  BY <1>1 DEF JobSafe, Grow, At, Recorded, Submitted, TypeOK

\* A step moves at most the job of one worker.
LEMMA OthersStandStill ==
    ASSUME TypeOK, Grow, \A v \in Workers : JobSafe(v),
           NEW w \in Workers, NEW j, Goto(w, j), JobSafe(w)'
    PROVE  \A v \in Workers : JobSafe(v)'
<1> SUFFICES ASSUME NEW v \in Workers, v # w
             PROVE  JobSafe(v)'
  OBVIOUS
<1>1. job'[v] = job[v]
  BY DEF Goto, TypeOK
<1>q. QED
  BY <1>1, JobStandsStill

\* Jobs that need to know nothing.
LEMMA NewJobSafe ==
    ASSUME TypeOK, NEW w \in Workers, NEW j, Goto(w, j),
           j.pc \in {"idle", "cancel", "write", "full", "lines"}
    PROVE  JobSafe(w)'
<1>1. job'[w] = j
  BY DEF Goto, TypeOK
<1>q. QED
  BY <1>1 DEF JobSafe, At

\* A job that goes on with recorded rows, or ends.
LEMMA SendSafe ==
    ASSUME TypeOK, NEW w \in Workers, NEW ks \in SUBSET Keys,
           Goto(w, SendJob(ks)) \/ Continue(w, ks),
           \A k \in ks : Recorded(k)'
    PROVE  JobSafe(w)' /\ \E j : Goto(w, j)
<1>1. CASE Goto(w, SendJob(ks))
  <2>1. job'[w] = SendJob(ks)
    BY <1>1 DEF Goto, TypeOK
  <2>q. QED
    BY <1>1, <2>1 DEF JobSafe, At, SendJob, Recorded
<1>2. CASE Goto(w, Idle)
  BY <1>2, NewJobSafe DEF Idle
<1>q. QED
  BY <1>1, <1>2 DEF Continue, Done

LEMMA JobStepSafe ==
    ASSUME TypeOK, Books, Grow, Books', NEW w \in Workers, JobSafe(w), JobStep(w)
    PROVE  JobSafe(w)' /\ \E j : Goto(w, j)
<1> USE JobAtStep
<1>1. CASE CancelCheck(w) \/ CancelWrite(w)
  <2>1. job[w] \in AmountJobs
    BY <1>1 DEF CancelCheck, CancelWrite, At
  <2>2. [job[w] EXCEPT !.pc = "write"].pc = "write"
    BY <2>1 DEF AmountJobs
  <2>q. QED
    BY <1>1, <2>2, NewJobSafe DEF CancelCheck, CancelWrite, Done, Idle, FullJob
<1>2. CASE FullRead(w)
  <2> DEFINE f == <<job[w].order, Full>>
  <2>1. /\ job[w].order \in Orders /\ job[w].amount \in Nat /\ {f} \in SUBSET Keys
        /\ row' = row
    BY <1>2, FullKeyIsKey DEF FullRead, At, AmountJobs, refundVars
  <2>2. CASE Goto(w, Idle)
    BY <2>2, NewJobSafe DEF Idle
  <2>3. CASE Recorded(f) /\ Goto(w, SendJob({f}))
    BY <2>1, <2>3, SendSafe DEF Recorded
  <2>4. CASE job[w].amount > 0 /\ Goto(w, InsertJob(job[w].order, job[w].amount))
    <3>1. job'[w] = InsertJob(job[w].order, job[w].amount)
      BY <2>4 DEF Goto, TypeOK
    <3>q. QED
      BY <2>4, <3>1 DEF JobSafe, At, InsertJob
  <2>q. QED
    BY <1>2, <2>1, <2>2, <2>3, <2>4 DEF FullRead, Done
<1>3. CASE FullInsert(w)
  <2> DEFINE f == <<job[w].order, Full>>
  <2>1. job[w].order \in Orders /\ {f} \in SUBSET Keys /\ f \in Keys
    BY <1>3, FullKeyIsKey DEF FullInsert, At, AmountJobs
  <2>2. CASE Goto(w, Idle)
    BY <2>2, NewJobSafe DEF Idle
  <2>3. CASE /\ row' = [row EXCEPT ![f] = [st |-> "PENDING", amount |-> job[w].amount]]
             /\ Goto(w, SendJob({f}))
    <3>1. row'[f].st = "PENDING"
      BY <2>1, <2>3 DEF TypeOK
    <3>q. QED
      BY <2>1, <2>3, <3>1, SendSafe DEF Recorded
  <2>q. QED
    BY <1>3, <2>2, <2>3 DEF FullInsert, Done
<1>4. CASE LinesRead(w)
  <2>1. job[w].order \in Orders
    BY <1>4 DEF LinesRead, At, LinesJobs
  <2>2. /\ Unsent(job[w].order) \in SUBSET Keys
        /\ \A k \in Unsent(job[w].order) : Recorded(k)
    BY <2>1, KeysOfAreKeys DEF Unsent, Recorded
  <2>3. \A k \in Unsent(job[w].order) : Recorded(k)'
    BY <2>2 DEF Grow
  <2>q. QED
    BY <1>4, <2>2, <2>3, SendSafe DEF LinesRead
<1>5. ASSUME NEW k \in Keys, SubmitSkip(w, k) \/ SubmitRow(w, k)
      PROVE  JobSafe(w)' /\ \E j : Goto(w, j)
  <2>1. /\ job[w].keys \in SUBSET Keys
        /\ \A l \in job[w].keys : Recorded(l)
        /\ k \in job[w].keys
    BY <1>5 DEF SubmitSkip, SubmitRow, At, SendJobs, JobSafe
  <2>2. \A l \in job[w].keys : Recorded(l)'
    BY <2>1 DEF Grow
  <2>3. CASE SubmitSkip(w, k)
    BY <2>1, <2>2, <2>3, SendSafe DEF SubmitSkip
  <2>4. CASE SubmitRow(w, k)
    <3>1. job'[w] = CallJob("check", job[w].keys \ {k}, k)
      BY <2>4 DEF SubmitRow, Goto, TypeOK
    <3>q. QED
      BY <2>1, <2>2, <2>4, <3>1 DEF SubmitRow, JobSafe, At, CallJob, Recorded
  <2>q. QED
    BY <1>5, <2>3, <2>4
<1>6. CASE SubmitRefused(w) \/ SubmitSend(w) \/ AnswerError(w)
           \/ (\E k \in Keys : AnswerOk(w, k)) \/ MarkFailed(w) \/ MarkSubmitted(w)
           \/ MarkPaymentRefunded(w)
  <2>1. /\ job[w] \in CallJobs
        /\ job[w].keys \in SUBSET Keys
        /\ job[w].key \in Keys
        /\ row'[job[w].key].st # "none"
        /\ \A l \in job[w].keys : Recorded(l)'
    <3>1. job[w].pc \in {"check", "wait", "book", "fail", "close"}
      BY <1>6
      DEF SubmitRefused, SubmitSend, AnswerError, AnswerOk, MarkFailed, MarkSubmitted,
          MarkPaymentRefunded, At
    <3>2. /\ job[w] \in CallJobs
          /\ job[w].keys \in SUBSET Keys
          /\ job[w].key \in Keys
      BY <3>1 DEF CallJobs
    <3>3. Recorded(job[w].key) /\ \A l \in job[w].keys : Recorded(l)
      BY <3>1 DEF JobSafe
    <3>4. ASSUME NEW l \in Keys, Recorded(l)
          PROVE  row'[l].st # "none"
      BY <3>4 DEF Grow, Recorded
    <3>q. QED
      BY <3>2, <3>3, <3>4 DEF Recorded
  <2>2. CASE Continue(w, job[w].keys)
    BY <2>1, <2>2, SendSafe
  <2>3. ASSUME NEW pc \in {"wait", "book", "fail", "close"},
               Goto(w, [job[w] EXCEPT !.pc = pc]),
               pc = "book" => gw'[job[w].key] > 0,
               pc = "close" => /\ job[w].key[2] = Full
                               /\ row'[job[w].key].st = "SUBMITTED"
        PROVE  JobSafe(w)' /\ \E j : Goto(w, j)
    <3>1. /\ job'[w] = [job[w] EXCEPT !.pc = pc]
          /\ job'[w].pc = pc /\ job'[w].key = job[w].key /\ job'[w].keys = job[w].keys
      BY <2>1, <2>3 DEF Goto, TypeOK, CallJobs
    <3>q. QED
      BY <2>1, <2>3, <3>1 DEF JobSafe, At, Recorded, Submitted
  <2>4. CASE SubmitRefused(w) \/ SubmitSend(w) \/ AnswerError(w)
    BY <2>3, <2>4 DEF SubmitRefused, SubmitSend, AnswerError
  <2>5. CASE \E k \in Keys : AnswerOk(w, k)
    <3>1. gw'[job[w].key] > 0 /\ Goto(w, [job[w] EXCEPT !.pc = "book"])
      BY <2>5 DEF AnswerOk, gatewayVars
    <3>q. QED
      BY <2>3, <3>1
  <2>6. CASE MarkSubmitted(w)
    <3>1. row'[job[w].key].st = "SUBMITTED"
      <4>1. row[job[w].key] \in [st : RowStates, amount : Nat]
        BY <2>1 DEF TypeOK
      <4>q. QED
        BY <2>1, <2>6, <4>1 DEF MarkSubmitted, TypeOK
    <3>2. CASE job[w].key[2] = Full
      BY <2>3, <2>6, <3>1, <3>2 DEF MarkSubmitted
    <3>3. CASE job[w].key[2] # Full
      BY <2>2, <2>6, <3>3 DEF MarkSubmitted
    <3>q. QED
      BY <3>2, <3>3
  <2>q. QED
    BY <1>6, <2>2, <2>4, <2>5, <2>6 DEF MarkFailed, MarkPaymentRefunded
<1>q. QED
  BY <1>1, <1>2, <1>3, <1>4, <1>5, <1>6 DEF JobStep

LEMMA RequestsSafe ==
    ASSUME TypeOK, Grow, \A v \in Workers : JobSafe(v),
           NEW w \in Workers, NEW o \in Orders,
           \/ \E short \in Shortfalls : Pack(w, o, short)
           \/ \E res \in {"REDELIVER", "REFUND", "DISCARD"} : Resolve(w, o, res)
           \/ CancelRead(w, o)
           \/ RetryPick(w, o)
    PROVE  \A v \in Workers : JobSafe(v)'
<1>1. PICK j : Goto(w, j) /\ j.pc \in {"idle", "cancel", "write", "full", "lines"}
  BY DEF Pack, Resolve, CancelRead, RetryPick, LinesJob, FullJob, CancelJob, Idle
<1>q. QED
  BY <1>1, NewJobSafe, OthersStandStill

LEMMA JobsStep ==
    ASSUME TypeOK, Books, \A w \in Workers : JobSafe(w), [Next]_vars
    PROVE  \A w \in Workers : JobSafe(w)'
<1>1. Books' /\ Grow
  BY BooksStep
<1>2. ASSUME NEW w \in Workers, JobStep(w)
      PROVE  \A v \in Workers : JobSafe(v)'
  <2>1. JobSafe(w)' /\ \E j : Goto(w, j)
    BY <1>1, <1>2, JobStepSafe
  <2>q. QED
    BY <1>1, <2>1, OthersStandStill
<1>3. CASE job' = job
  BY <1>1, <1>3, JobStandsStill
<1>4. CASE Restart
  BY <1>4 DEF Restart, JobSafe, At, Idle
<1>5. CASE \/ \E o \in Orders : MarkPacked(o) \/ DeliveryFails(o)
           \/ \E k \in Keys : GatewayPays(k) \/ Age(k)
           \/ UNCHANGED vars
  BY <1>3, <1>5 DEF MarkPacked, DeliveryFails, GatewayPays, Age, vars
<1>q. QED
  BY <1>1, <1>2, <1>4, <1>5, RequestsSafe DEF Next

LEMMA InvariantInit == Init => RefundInvariant
<1> SUFFICES ASSUME Init
             PROVE  RefundInvariant
  OBVIOUS
<1>1. \A k \in Keys : row[k] = NoRow /\ gw[k] = 0
  BY DEF Init
<1>2. RowsHaveAmounts /\ PayoutsRecorded /\ BookedArePaid
  BY <1>1
  DEF Init, RowsHaveAmounts, PayoutsRecorded, BookedArePaid, Recorded, Submitted, NoRow
<1>3. LinesOpenUntilWeighed
  <2>1. \A o \in Orders, i \in Items : <<o, i>> \in Keys
    BY DEF Keys, Lines
  <2>q. QED
    BY <1>1, <2>1 DEF LinesOpenUntilWeighed, Recorded, NoRow
<1>4. ClosedAreBooked
  BY DEF Init, ClosedAreBooked
<1>5. \A w \in Workers : JobSafe(w)
  BY DEF Init, JobSafe, At, Idle
<1>q. QED
  BY <1>2, <1>3, <1>4, <1>5, TypeInit DEF RefundInvariant

LEMMA InvariantStep == RefundInvariant /\ [Next]_vars => RefundInvariant'
<1> SUFFICES ASSUME RefundInvariant, [Next]_vars
             PROVE  RefundInvariant'
  OBVIOUS
<1>1. TypeOK /\ Books /\ \A w \in Workers : JobSafe(w)
  BY DEF RefundInvariant, Books
<1>2. TypeOK'
  BY <1>1, TypeStep
<1>3. Books'
  BY <1>1, BooksStep
<1>4. \A w \in Workers : JobSafe(w)'
  BY <1>1, JobsStep
<1>q. QED
  BY <1>2, <1>3, <1>4 DEF RefundInvariant, Books

\* The invariant holds in every reachable state: rows, payouts, closed payments
\* and what each job remembers of them agree.
THEOREM Invariance == Spec => []RefundInvariant
  BY InvariantInit, InvariantStep, PTL DEF Spec

\* A payment row is closed as REFUNDED only after the gateway paid out the full
\* refund and its row was booked, in every interleaving of the jobs.
THEOREM ClosedPaymentsArePaidOut == Spec => []RefundedPaymentPaidOut
<1>1. RefundInvariant => RefundedPaymentPaidOut
  BY FullKeyIsKey
  DEF RefundInvariant, RefundedPaymentPaidOut, ClosedAreBooked, BookedArePaid
<1>q. QED
  BY <1>1, Invariance, PTL

------------------------------------------------------------------------------
\* The refinement of RefundLedger.

owedNow   == [k \in Keys |-> row[k].amount]
bookedNow == {k \in Keys : Submitted(k)}

\* A step changes what is owed, paid and booked as the ledger allows.
LEMMA LedgerStutters ==
    ASSUME UNCHANGED <<row, gw>>
    PROVE  UNCHANGED Ledger!ledger
  BY DEF Ledger!ledger, Submitted

LEMMA LedgerOwes ==
    ASSUME TypeOK, TypeOK', Books, Grow, gw' = gw,
           \A k \in Keys : Submitted(k)' => Submitted(k)
    PROVE  Ledger!Owe
<1>1. owedNow' \in [Keys -> Nat]
  BY DEF owedNow, TypeOK
<1>2. \A k \in Keys : owedNow[k] > 0 => owedNow'[k] = owedNow[k]
  BY DEF owedNow, Grow, Books, RowsHaveAmounts
<1>3. bookedNow' = bookedNow
  BY DEF bookedNow, Grow
<1>q. QED
  BY <1>1, <1>2, <1>3 DEF Ledger!Owe, owedNow, bookedNow

LEMMA LedgerPays ==
    ASSUME TypeOK, Books, NEW k \in Keys, GatewayPays(k)
    PROVE  Ledger!PayOut(k)
<1>1. /\ gw[k] = 0
      /\ gw' = [gw EXCEPT ![k] = owedNow[k]]
      /\ owedNow' = owedNow
      /\ bookedNow' = bookedNow
  BY DEF GatewayPays, refundVars, owedNow, bookedNow, Submitted
<1>2. owedNow[k] > 0
  BY DEF GatewayPays, Books, PayoutsRecorded, RowsHaveAmounts, owedNow
<1>q. QED
  BY <1>1, <1>2 DEF Ledger!PayOut, owedNow, bookedNow

LEMMA LedgerBooks ==
    ASSUME TypeOK, NEW w \in Workers, JobSafe(w), MarkSubmitted(w)
    PROVE  Ledger!Book(job[w].key)
<1>1. job[w].key \in Keys /\ gw[job[w].key] > 0 /\ gw' = gw
  BY JobAtStep DEF MarkSubmitted, At, CallJobs, JobSafe, gatewayVars
<1>2. row' = [row EXCEPT ![job[w].key].st = "SUBMITTED"]
  BY DEF MarkSubmitted
<1>3. /\ row'[job[w].key].st = "SUBMITTED"
      /\ row'[job[w].key].amount = row[job[w].key].amount
      /\ \A k \in Keys : k # job[w].key => row'[k] = row[k]
  <2>1. row[job[w].key] \in [st : RowStates, amount : Nat]
    BY <1>1 DEF TypeOK
  <2>q. QED
    BY <1>1, <1>2, <2>1 DEF TypeOK
<1>4. owedNow' = owedNow
  BY <1>3 DEF owedNow
<1>5. bookedNow' = bookedNow \cup {job[w].key}
  BY <1>1, <1>3 DEF bookedNow, Submitted
<1>q. QED
  BY <1>1, <1>4, <1>5 DEF Ledger!Book, owedNow, bookedNow

LEMMA LedgerStep ==
    ASSUME RefundInvariant, RefundInvariant', [Next]_vars
    PROVE  [Ledger!Next]_(Ledger!ledger)
<1>1. /\ TypeOK /\ TypeOK' /\ Books /\ Grow
      /\ \A w \in Workers : JobSafe(w)
  <2>1. TypeOK /\ TypeOK' /\ Books /\ \A w \in Workers : JobSafe(w)
    BY DEF RefundInvariant, Books
  <2>q. QED
    BY <2>1, BooksStep
<1>2. CASE UNCHANGED <<row, gw>>
  BY <1>2, LedgerStutters
<1>3. ASSUME NEW w \in Workers, MarkSubmitted(w)
      PROVE  Ledger!Next
  <2>1. job[w].key \in Keys
    BY <1>1, <1>3, JobAtStep DEF MarkSubmitted, At, CallJobs
  <2>q. QED
    BY <1>1, <1>3, <2>1, LedgerBooks DEF Ledger!Next
<1>4. ASSUME NEW k \in Keys, GatewayPays(k)
      PROVE  Ledger!Next
  BY <1>1, <1>4, LedgerPays DEF Ledger!Next
<1>5. ASSUME NEW w \in Workers, NEW o \in Orders, NEW short \in Shortfalls,
             Pack(w, o, short)
      PROVE  Ledger!Next
  <2>1. gw' = gw
    BY <1>5 DEF Pack, gatewayVars
  <2>2. \A k \in Keys : Submitted(k)' => Submitted(k)
    <3>1. \A k \in Keys : row'[k].st \in {"PENDING", "RECORDED"} \/ row'[k] = row[k]
      BY <1>5 DEF Pack
    <3>q. QED
      BY <3>1 DEF Submitted
  <2>q. QED
    BY <1>1, <2>1, <2>2, LedgerOwes DEF Ledger!Next
<1>6. ASSUME NEW w \in Workers, FullInsert(w) \/ MarkFailed(w)
      PROVE  Ledger!Next
  <2>1. gw' = gw
    BY <1>6 DEF FullInsert, MarkFailed, gatewayVars
  <2>2. \A k \in Keys : Submitted(k)' => Submitted(k)
    <3>1. row \in [Keys -> [st : RowStates, amount : Nat]]
      BY <1>1 DEF TypeOK
    <3>2. CASE FullInsert(w)
      BY <3>1, <3>2 DEF FullInsert, Submitted
    <3>3. CASE MarkFailed(w)
      BY <3>1, <3>3 DEF MarkFailed, Submitted
    <3>q. QED
      BY <1>6, <3>2, <3>3
  <2>q. QED
    BY <1>1, <2>1, <2>2, LedgerOwes DEF Ledger!Next
<1>7. ASSUME NEW w \in Workers, JobStep(w)
      PROVE  \/ UNCHANGED <<row, gw>>
             \/ FullInsert(w) \/ MarkFailed(w) \/ MarkSubmitted(w)
  BY <1>7
  DEF JobStep, CancelCheck, CancelWrite, FullRead, LinesRead, SubmitSkip, SubmitRow,
      SubmitRefused, SubmitSend, AnswerError, AnswerOk, MarkPaymentRefunded,
      orderVars, refundVars, gatewayVars
<1>8. ASSUME NEW w \in Workers, NEW o \in Orders,
             \/ \E res \in {"REDELIVER", "REFUND", "DISCARD"} : Resolve(w, o, res)
             \/ CancelRead(w, o)
             \/ RetryPick(w, o)
      PROVE  UNCHANGED <<row, gw>>
  BY <1>8 DEF Resolve, CancelRead, RetryPick, refundVars, gatewayVars
<1>9. ASSUME \/ \E o \in Orders : MarkPacked(o) \/ DeliveryFails(o)
             \/ \E k \in Keys : Age(k)
             \/ Restart
             \/ UNCHANGED vars
      PROVE  UNCHANGED <<row, gw>>
  BY <1>9 DEF MarkPacked, DeliveryFails, Age, Restart, vars, refundVars, gatewayVars
<1>q. QED
  BY <1>2, <1>3, <1>4, <1>5, <1>6, <1>7, <1>8, <1>9 DEF Next

LEMMA LedgerInit == Init => Ledger!Init
  BY DEF Init, Ledger!Init, NoRow, Submitted

\* The refund service keeps the promise of the ledger: each refund id is paid
\* out at most once, in the amount that was recorded for it and not before, and
\* is booked only then, with requests that time out and are paid out later,
\* with retries of rows that others submit meanwhile, and across restarts.
THEOREM ImplementsLedger == Spec => KeepsLedger
<1>1. RefundInvariant /\ RefundInvariant' /\ [Next]_vars =>
            [Ledger!Next]_(Ledger!ledger)
  BY LedgerStep
<1>q. QED
  BY <1>1, LedgerInit, Invariance, PTL DEF Spec, KeepsLedger, Ledger!Spec
==============================================================================
