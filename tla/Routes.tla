-------------------------------- MODULE Routes --------------------------------
(***************************************************************************)
(* The routes the store plans (route-optimizer.js, zone-splitter.js): a    *)
(* greedy tour from the store, and a plan that deals the orders nobody has *)
(* taken yet to several riders.                                            *)
(*                                                                         *)
(* The town is a line, and a place a number of kilometres on it: the code  *)
(* asks nothing of a distance but which of two is smaller.  K-means is     *)
(* random and its averages are floating point; it returns one cluster for  *)
(* every order, and any of them is possible here.                          *)
(***************************************************************************)
EXTENDS Integers, SequencesExt

CONSTANTS
    MaxWaiting,   \* bound: orders on the planning screen
    MaxSlots,     \* bound: riders of a plan (numRiders, 1 to 50 in the code)
    Door          \* where each order goes, by its number

ASSUME RoutesAssumption ==
    /\ MaxWaiting \in Nat /\ MaxSlots \in Nat \ {0}
    /\ \A o \in 1..MaxWaiting : Door[o] \in Nat

VARIABLES
    waiting,   \* how many orders wait without a rider, numbered by age
    plan       \* the last answer of assignMultiRiderRoutes

routesVars == <<waiting, plan>>

Store == 0

Kilometres(x, y) == IF x < y THEN y - x ELSE x - y

-----------------------------------------------------------------------------
\* optimizeRoute, resolveBatchQueueContext and calculateReturnToStoreETA all
\* go to the nearest stop that is left, and to the older one of two.
NearestStop(here, stops) ==
    CHOOSE o \in stops : \A p \in stops :
        \/ Kilometres(here, Door[o]) < Kilometres(here, Door[p])
        \/ Kilometres(here, Door[o]) = Kilometres(here, Door[p]) /\ o <= p

GoOn(from, stops, route) ==
    LET here == IF route = <<>> THEN from ELSE Door[Last(route)]
    IN  Append(route, NearestStop(here, stops \ ToSet(route)))

Greedy(from, stops) ==
    LET tour[n \in 0..Cardinality(stops)] ==
            IF n = 0 THEN <<>> ELSE GoOn(from, stops, tour[n - 1])
    IN  tour[Cardinality(stops)]

\* The kilometres to the n-th stop of a route.
KilometresTo(from, route, n) ==
    LET Leg(i) == Kilometres(IF i = 1 THEN from ELSE Door[route[i - 1]], Door[route[i]])
        km[i \in 0..Len(route)] == IF i = 0 THEN 0 ELSE km[i - 1] + Leg(i)
    IN  km[n]

-----------------------------------------------------------------------------
\* balanceZones first leaves the empty zones out.
Filled(zones) ==
    LET kept[i \in 0..Len(zones)] ==
            IF i = 0 THEN <<>>
            ELSE IF zones[i] = <<>> THEN kept[i - 1] ELSE Append(kept[i - 1], zones[i])
    IN  kept[Len(zones)]

\* Then it splits the largest zone and evens the zones out.  The sort is stable: of equally long zones the first comes
\* first, of equally short ones the last comes last.
Longest(zones) ==
    CHOOSE i \in DOMAIN zones : \A j \in DOMAIN zones :
        Len(zones[j]) < Len(zones[i]) \/ (Len(zones[j]) = Len(zones[i]) /\ i <= j)

Shortest(zones) ==
    CHOOSE i \in DOMAIN zones : \A j \in DOMAIN zones :
        Len(zones[j]) > Len(zones[i]) \/ (Len(zones[j]) = Len(zones[i]) /\ i >= j)

\* Mutant: the new zone is sliced from the largest one, not spliced out of it.
SliceLargest(zones) ==
    LET zone == zones[Longest(zones)]
    IN  IF Len(zone) <= 1 THEN zones
        ELSE Append(zones, SubSeq(zone, (Len(zone) \div 2) + 1, Len(zone)))

SplitLargest(zones) ==
    LET i    == Longest(zones)
        zone == zones[i]
        half == Len(zone) \div 2
    IN  IF Len(zone) <= 1 THEN zones
        ELSE Append([zones EXCEPT ![i] = SubSeq(zone, 1, half)],
                    SubSeq(zone, half + 1, Len(zone)))

\* One round of the loop that evens the zones out.  A round that moves nothing
\* is its break.  The targets are 20% above and below the average.
EvenOut(zones) ==
    LET big   == Longest(zones)
        small == Shortest(zones)
        most  == Len(zones[big])
        least == Len(zones[small])
        all   == FoldFunction(+, 0, [i \in DOMAIN zones |-> Len(zones[i])])
        high  == (6 * all + 5 * Len(zones) - 1) \div (5 * Len(zones))
        low   == (4 * all) \div (5 * Len(zones))
        moved == Min({most - high, low - least, (most - least) \div 2})
    IN  IF most <= 2 * least \/ most <= 2 \/ most <= high \/ least >= low \/ moved <= 0 \/ most <= moved
        THEN zones
        ELSE [zones EXCEPT ![big] = SubSeq(zones[big], 1, most - moved),
                           ![small] = @ \o SubSeq(zones[big], most - moved + 1, most)]

BalanceRounds == 10

\* Both loops, of which the first ends when there is a zone for every rider.
SplitUp(zones, missing) ==
    LET split[k \in 0..missing] == IF k = 0 THEN zones ELSE SplitLargest(split[k - 1])
    IN  split[missing]

EvenOutAll(zones) ==
    LET even[k \in 0..BalanceRounds] == IF k = 0 THEN zones ELSE EvenOut(even[k - 1])
    IN  even[BalanceRounds]

BalanceZones(zones, slots) ==
    LET filled == Filled(zones)
    IN  IF filled = <<>> \/ Len(filled) >= slots THEN zones
        ELSE EvenOutAll(SplitUp(filled, slots - Len(filled)))

\* What K-means may return for n orders: the orders of a cluster keep their
\* order, and nothing after it looks at which order is where, so that it is
\* enough to give each cluster a run of the list.
Clusterings(n, slots) ==
    LET Ends == {e \in [1..slots -> 0..n] : e[slots] = n /\ \A i \in 2..slots : e[i - 1] <= e[i]}
        Shares(e) == [i \in 1..slots |->
                       LET first == IF i = 1 THEN 1 ELSE e[i - 1] + 1
                       IN  [k \in 1..(e[i] - first + 1) |-> first + k - 1]]
    IN  {Shares(e) : e \in Ends}

\* splitOrdersIntoZones
Zonings(n, slots) ==
    IF n <= slots THEN {[i \in 1..n |-> <<i>>]}
    ELSE {BalanceZones(zones, slots) : zones \in Clusterings(n, slots)}

-----------------------------------------------------------------------------
RoutesInit == waiting = 0 /\ plan = [orders |-> 0, slots |-> 0, routes |-> <<>>]

OrderJoins  == waiting < MaxWaiting /\ waiting' = waiting + 1 /\ UNCHANGED plan
OrderLeaves == waiting > 0 /\ waiting' = waiting - 1 /\ UNCHANGED plan

\* assignMultiRiderRoutes with optimizeMultiRiderRoute: the zones, each of them
\* toured from the store.  With nothing to plan the answer is empty.
AssignRoutes(slots) ==
    /\ \/ waiting = 0 /\ plan' = [orders |-> 0, slots |-> 0, routes |-> <<>>]
       \/ /\ waiting > 0
          /\ \E zones \in Zonings(waiting, slots) :
               plan' = [orders |-> waiting, slots |-> slots,
                        routes |-> [i \in DOMAIN zones |-> Greedy(Store, ToSet(zones[i]))]]
    /\ UNCHANGED waiting

RoutesNext ==
    \/ OrderJoins
    \/ OrderLeaves
    \/ \E slots \in 1..MaxSlots : AssignRoutes(slots)

RoutesSpec == RoutesInit /\ [][RoutesNext]_routesVars

-----------------------------------------------------------------------------
\* Every variable of the planning screen keeps its type.
RoutesTypeOK ==
    /\ waiting \in 0..MaxWaiting
    /\ plan.orders \in 0..MaxWaiting /\ plan.slots \in 0..MaxSlots
    /\ \A i \in DOMAIN plan.routes : plan.routes[i] \in Seq(1..MaxWaiting)

\* A plan sends one rider to every order and every rider somewhere: each order
\* is on exactly one route, and there are as many routes as riders, or as
\* orders when those are fewer, none of them empty - wherever K-means left
\* clusters empty, and whatever splitting and evening out did about it.
PlanServesEveryRider ==
    LET routes == plan.routes
    IN  /\ \A o \in 1..plan.orders : \E i \in DOMAIN routes : o \in ToSet(routes[i])
        /\ \A i \in DOMAIN routes : routes[i] # <<>> /\ ToSet(routes[i]) \subseteq 1..plan.orders
        /\ \A i, j \in DOMAIN routes : \A k \in DOMAIN routes[i], l \in DOMAIN routes[j] :
             routes[i][k] = routes[j][l] => i = j /\ k = l
        /\ Len(routes) = Min({plan.orders, plan.slots})
=============================================================================
