------------------------- MODULE CapacitySuggestion -------------------------
(***************************************************************************)
(* Advice to the admin to take fewer orders, or all of them again          *)
(* (capacitySuggestion.service.js): the load of the store is evaluated     *)
(* after events, debounced, and every minute; what comes out becomes a row *)
(* of capacity_suggestions unless the newest row says the same or its      *)
(* advice has been dismissed for a while.                                  *)
(*                                                                         *)
(* The counts are whatever the queries return.  A Redis snapshot of the    *)
(* queue tells whether it grew.  Wording is left out.                      *)
(***************************************************************************)
EXTENDS Naturals, FiniteSets

CONSTANTS
    Checks,         \* bound: evaluations in flight at once
    PeakBacklog,    \* CAPACITY_SUGGESTION.peakReadyBacklog
    PeakConfirmed,  \* CAPACITY_SUGGESTION.peakConfirmedOrders
    ClearQueue,     \* CAPACITY_SUGGESTION.clearQueueThreshold
    ClearConfirmed, \* CAPACITY_SUGGESTION.clearConfirmedThreshold
    MaxCount,       \* bound: every count
    MaxRows         \* bound: rows inserted

ASSUME CapacityAssumption ==
    /\ {PeakBacklog, PeakConfirmed, ClearQueue, ClearConfirmed, MaxCount, MaxRows} \subseteq Nat
    /\ ClearQueue <= PeakBacklog /\ ClearConfirmed <= PeakConfirmed

VARIABLES
    storeMode,   \* the acceptance mode in force
    snapshot,    \* Redis capacity:queue:snapshot: the queue it holds, if any
    latest,      \* the newest row of capacity_suggestions
    debounce,    \* debounceTimer is not null
    due,         \* the timer runs
    check,       \* what each evaluation in flight is doing
    unseen       \* history: an event that no evaluation has tried to look at

capacityVars == <<storeMode, snapshot, latest, debounce, due, check, unseen>>

AllModes    == {"accepting", "limited_capacity", "not_accepting"}
Suggestable == {"accepting", "limited_capacity"}
Reasons     == {"dispatch_queue_high", "confirmed_orders_high",
                "all_riders_at_capacity", "no_rider_queue_growing"}

Counts  == 0..MaxCount
Signals == {s \in [queue : Counts, confirmed : Counts, active : Counts, available : Counts] :
                s.available <= s.active}

Severities == {"info", "warning", "critical"}

\* An advice: no mode is suggested when there is nothing to say.
Advices  == [mode : Suggestable \cup {"none"}, why : SUBSET Reasons, severity : Severities]
Nothing  == [mode |-> "none", why |-> {}, severity |-> "info"]
NoAdvice == [id |-> 0, advice |-> Nothing, dismissed |-> FALSE]

\* The reasons to take fewer orders.
LimitedTriggers(s, growing) ==
    {r \in Reasons :
        \/ r = "dispatch_queue_high" /\ s.queue > PeakBacklog
        \/ r = "confirmed_orders_high" /\ s.confirmed > PeakConfirmed
        \/ r = "all_riders_at_capacity" /\ s.active > 0 /\ s.available = 0
        \/ r = "no_rider_queue_growing" /\ s.available = 0 /\ growing /\ s.queue > 0}

\* resolveLimitedCapacitySeverity
Severity(triggers, s) ==
    IF Cardinality(triggers) >= 3 \/ s.queue > 2 * PeakBacklog \/ s.confirmed > 2 * PeakConfirmed
    THEN "critical"
    ELSE IF Cardinality(triggers) = 2 THEN "warning" ELSE "info"

ClearConditionsMet(s) ==
    /\ s.queue <= ClearQueue
    /\ s.confirmed <= ClearConfirmed
    /\ s.available >= 1

\* evaluateCapacitySuggestion: with no mode to leave, nothing is suggested.
Evaluate(s, growing, m) ==
    LET triggers == LimitedTriggers(s, growing)
    IN  IF m = "accepting" /\ triggers # {}
        THEN [mode |-> "limited_capacity", why |-> triggers, severity |-> Severity(triggers, s)]
        ELSE IF m = "limited_capacity" /\ ClearConditionsMet(s)
        THEN [mode |-> "accepting", why |-> {}, severity |-> "info"]
        ELSE Nothing

\* isQueueGrowing: without a young snapshot it does not.
QueueGrowing(s) == \E q \in snapshot : s.queue > q

IdleCheck == [at |-> "idle", advice |-> Nothing, crossed |-> FALSE]

\* Check w moves on; all that are in flight beside it are noted as crossed.
CheckMoves(w, c) ==
    LET others == {v \in Checks \ {w} : check[v].at # "idle"}
    IN  check' = [v \in Checks |->
            IF v = w THEN IF c.at = "idle" THEN IdleCheck
                          ELSE [c EXCEPT !.crossed = c.crossed \/ others # {}]
            ELSE IF v \in others THEN [check[v] EXCEPT !.crossed = TRUE] ELSE check[v]]

-----------------------------------------------------------------------------
\* When the load is evaluated.

\* An order moved or an assignment changed, and so may the mode of the store:
\* scheduleCapacitySuggestionCheck.
CapacityEvent(m) ==
    /\ storeMode' = m
    /\ unseen' = TRUE
    /\ debounce' = TRUE
    /\ due' = (due \/ ~debounce)
    /\ UNCHANGED <<snapshot, latest, check>>

\* Mutant: debounceTimer is not reset when it fires.
DebounceStuck(w) ==
    /\ due
    /\ check[w].at = "idle"
    /\ due' = FALSE
    /\ CheckMoves(w, [IdleCheck EXCEPT !.at = "collect"])
    /\ UNCHANGED <<storeMode, snapshot, latest, debounce, unseen>>

DebounceFires(w) ==
    /\ due
    /\ check[w].at = "idle"
    /\ due' = FALSE
    /\ debounce' = FALSE
    /\ CheckMoves(w, [IdleCheck EXCEPT !.at = "collect"])
    /\ UNCHANGED <<storeMode, snapshot, latest, unseen>>

\* The monitor's interval, whatever the timer is doing.
MonitorTick(w) ==
    /\ check[w].at = "idle"
    /\ CheckMoves(w, [IdleCheck EXCEPT !.at = "collect"])
    /\ UNCHANGED <<storeMode, snapshot, latest, debounce, due, unseen>>

-----------------------------------------------------------------------------
\* evaluateAndPersistSuggestion.

\* collectOperationalSignals: it leaves the queue it saw for the next one.
CollectSignals(w, s) ==
    /\ check[w].at = "collect"
    /\ snapshot' = {s.queue}
    /\ unseen' = FALSE
    /\ LET advice == Evaluate(s, QueueGrowing(s), storeMode)
       IN  CheckMoves(w, IF advice = Nothing THEN IdleCheck
                         ELSE [check[w] EXCEPT !.at = "latest", !.advice = advice])
    /\ UNCHANGED <<storeMode, latest, debounce, due>>

\* The admin's page evaluates as well, and leaves a snapshot of the queue too.
GetActiveSuggestion(queue) ==
    /\ latest # NoAdvice
    /\ ~latest.dismissed
    /\ snapshot' = {queue}
    /\ UNCHANGED <<storeMode, latest, debounce, due, check, unseen>>

Suppressed(row, advice) == row.dismissed /\ row.advice.mode = advice.mode

\* Mutant: anything is worth a row.
PersistAlways(row, advice) == row.id <= MaxRows /\ advice # Nothing

\* shouldPersistNewSuggestion.
ShouldPersist(row, advice) ==
    row = NoAdvice \/ row.dismissed \/ row.advice # advice

ReadLatest(w) ==
    /\ check[w].at = "latest"
    /\ IF ~Suppressed(latest, check[w].advice) /\ ShouldPersist(latest, check[w].advice)
       THEN CheckMoves(w, [check[w] EXCEPT !.at = "insert"])
       ELSE CheckMoves(w, IdleCheck)
    /\ UNCHANGED <<storeMode, snapshot, latest, debounce, due, unseen>>

PersistSuggestion(w) ==
    /\ check[w].at = "insert"
    /\ latest.id < MaxRows
    /\ latest' = [id |-> latest.id + 1, advice |-> check[w].advice, dismissed |-> FALSE]
    /\ CheckMoves(w, IdleCheck)
    /\ UNCHANGED <<storeMode, snapshot, debounce, due, unseen>>

\* dismissCapacitySuggestion, and the end of the dismissal.  A dismissal that is
\* overtaken by a new row is of a row nobody reads any more.
Dismiss ==
    /\ latest # NoAdvice
    /\ latest' = [latest EXCEPT !.dismissed = TRUE]
    /\ UNCHANGED <<storeMode, snapshot, debounce, due, check, unseen>>

DismissalEnds ==
    /\ latest.dismissed
    /\ latest' = [latest EXCEPT !.dismissed = FALSE]
    /\ UNCHANGED <<storeMode, snapshot, debounce, due, check, unseen>>

\* The snapshot outlives its use: queueGrowthLookbackSeconds.
SnapshotExpires ==
    /\ snapshot # {}
    /\ snapshot' = {}
    /\ UNCHANGED <<storeMode, latest, debounce, due, check, unseen>>

\* A query of the evaluation fails: what it was about is left to the monitor.
CheckFails(w) ==
    /\ check[w].at # "idle"
    /\ unseen' = (unseen /\ check[w].at # "collect")
    /\ CheckMoves(w, IdleCheck)
    /\ UNCHANGED <<storeMode, snapshot, latest, debounce, due>>

CapacityInit ==
    /\ storeMode = "accepting"
    /\ snapshot = {}
    /\ latest = NoAdvice
    /\ debounce = FALSE
    /\ due = FALSE
    /\ check = [w \in Checks |-> IdleCheck]
    /\ unseen = FALSE

CheckStep(w) ==
    \/ DebounceFires(w) \/ MonitorTick(w)
    \/ \E s \in Signals : CollectSignals(w, s)
    \/ ReadLatest(w) \/ PersistSuggestion(w) \/ CheckFails(w)

CapacityNext ==
    \/ \E m \in AllModes : CapacityEvent(m)
    \/ \E w \in Checks : CheckStep(w)
    \/ \E queue \in Counts : GetActiveSuggestion(queue)
    \/ Dismiss \/ DismissalEnds \/ SnapshotExpires

CapacitySpec == CapacityInit /\ [][CapacityNext]_capacityVars

-----------------------------------------------------------------------------
Rows == [id : 0..MaxRows, advice : Advices, dismissed : BOOLEAN]

\* Every variable of the capacity advice keeps its type.
CapacityTypeOK ==
    /\ storeMode \in AllModes
    /\ snapshot \subseteq Counts
    /\ latest \in Rows
    /\ debounce \in BOOLEAN /\ due \in BOOLEAN
    /\ check \in [Checks -> [at : {"idle", "collect", "latest", "insert"},
                             advice : Advices, crossed : BOOLEAN]]
    /\ unseen \in BOOLEAN

\* No event is missed: until an evaluation looks at the store after it, the
\* timer is set or an evaluation that has not looked yet is on its way, however
\* events, timer and monitor interleave (scheduleCapacitySuggestionCheck).
EventIsLookedAt ==
    unseen => due \/ \E w \in Checks : check[w].at = "collect"

\* Two rows that follow one another never give the same advice, unless two
\* evaluations were in flight at once (shouldPersistNewSuggestion).
NoRepeatedAdvice ==
    [][latest'.id # latest.id =>
        \/ latest'.advice # latest.advice
        \/ \E w \in Checks : check[w].at = "insert" /\ check[w].crossed]_capacityVars
=============================================================================
