# Meatvo order system: TLA+ specifications and proofs

Meatvo sells fresh meat: a customer places an order (COD or ONLINE through the
Cashfree gateway), the store packs it by weight, a rider delivers it, and the
admin handles what goes wrong. The program is a Node/Express backend
(`backend/src`) over PostgreSQL and Redis, with Socket.io for push messages and
a Flutter client. These specifications are about the backend: the money, the
stock, the coupons, the status of an order and the rider who has it, the
values that are cached, counted or remembered along the way, and how the requests,
webhooks and timers that change them interleave.

## 1. Inventory

| Component | State | Operations | Interacts with |
|---|---|---|---|
| Order placement (`orders.controller.js`) | `orders`, `order_items`, `products.stock`, `coupons.used_count` | `createOrder` | cart (cleared after commit), coupons, stock |
| Payments (`cashfree.controller.js`, `payment-success.js`) | `payment_transactions`, `orders.status`, `orders.payment_status` | initiate, webhook, status poll, verify, abandon | gateway over HTTP and webhooks, stock, coupons |
| Reconciliation (`payment-reconciliation.service.js`) | the same rows, by timer, outside a transaction | `reconcileStalePayments` | gateway, success handler, coupon release |
| Order lifecycle (`orderLifecycle.service.js`, `enhancedOrderStateMachine.js`) | `orders.status` | `transitionOrderState`, `cancelOrderLifecycle` | stock, coupons, refunds, dispatch |
| Refunds (`cashfreeRefund.service.js`) | `order_partial_refunds`, payment rows | full and partial refunds, retry job | gateway |
| Packing (`packingWeightReconciliation.service.js`) | line weights, `weight_reconciliation_status`, stock, partial refunds | reconcile, then move to PACKED | lifecycle, refunds |
| Dispatch (`assignment.service.js`, `order-batcher.js`, `dispatch.service.js`) | `order_assignments`, Redis claims and attempt counters, timers and batch windows in memory | assign, broadcast, claim, time out, batch | rider app, lifecycle, admin tasks |
| Rider app (`delivery.controller.js`) | assignment and order status, rider load, earnings | accept, reject, progress, deliver, go online | dispatch, failed delivery, proof |
| Delivery proof (`deliveryProof.service.js`) | delivery code in two Redis keys, attempts | generate, resend, verify | rider app, earnings |
| Failed delivery (`failedDelivery.service.js`, `adminTask.service.js`) | `failed_delivery_*`, `returned_at`, `admin_tasks` | fail, return to store, resolve | dispatch, stock, refunds |
| Earnings (`earnings.service.js`) | history rows and the rider's totals | credit after a delivery | rider app |
| Cart (`cart.service.js`) | one JSON value in Redis or memory | add, update, remove, clear | order placement |
| Sign-in (`auth.controller.js`) | code, send lock, attempts in Redis; refresh token hash | send, verify, refresh, log out | SMS |
| Store settings and hours (`storeSettings.util.js`, `settings.controller.js`) | two rows, one cached view | read, change | order placement |
| Catalogue (`products.controller.js`, `admin.controller.js`) | products, categories, cached views | CRUD, sweep | cart, orders |
| Addresses (`addresses.controller.js`) | rows with one default | add, edit, delete, set default | order placement |
| Tracking, fleet, ETA, routes (`tracking.service.js`, `eta.service.js`, `route-optimizer.js`) | rider location, nearby flag, fleet board | report, refresh, plan | rider app, dispatch |
| Notifications (`notification.service.js`) | rows and a copy in memory | send, list, mark read, clear | - |
| Operational events and alerts (`operationalEvent.service.js`, `packAge.service.js`) | events, timestamps, alert keys | publish, monitor | every handler after its commit |
| Capacity advice (`capacitySuggestion.service.js`) | `capacity_suggestions`, debounce timer | evaluate, dismiss | events |
| Schema and start (`ensureSchema.js`, `deploy.sh`, `index.js`) | the objects of the database | deploy, start, repair, stop | all |

What is hard about it:

- Nothing serialises the handlers of one order. Some run in one transaction with
  `FOR UPDATE`; others (`transitionOrderState`, `cancelOrderLifecycle`, the
  reconciler, the whole of the assignment) read, await and write in separate
  statements on the pool.
- The gateway reports one payment in four ways: webhook, status poll, verify and
  reconciler, in any order, any number of times, or not at all.
- Acceptance timers, batch windows, debounce timers and cached views live in the
  memory of one process and die with it.
- Redis values (cart, codes, cached views) are read, changed and written back by
  requests that overlap, and move to a Map in memory while Redis is away.
- Errors between two statements leave the first one's effect in place; what is
  done after a commit (earnings, events, cart, timers) may not be done at all.

`PROJECT.json` lists every such hazard at its line under "hazards", with the
properties that cover it.

## 2. Modules

Component modules (`Dispatch`, `Cart`, ...) hold state, actions and properties; `MC*`
modules and their `.cfg` files are instances for TLC; `*Proofs` modules hold theorems.
Everywhere, what a handler does between two awaits is one action, a locked
transaction is one action, and a handler that reads, awaits and then writes is a
job whose record keeps what it read. A definition whose comment begins with
"Mutant" is a plausible mistake, used to show that a property notices it.

### Money

**`OrderStateMachine`** holds the transition table, the actors and the payment
gate, as constant operators.

**`Checkout`** is the core: orders, payment rows, the gateway, webhooks, stock,
the coupon, cancellation and the reconciler.

| Code | Specification |
|---|---|
| `orders.status`, `payment_mode`, `payment_status` | `status`, `mode`, `pay` |
| `coupon_id` and `coupon_released_at` of an order; `coupons.used_count` | `coupon[o]` (none, held, released); `used` |
| `payment_transactions` of an order, oldest first | `rows[o]`, `pt[o][i]` |
| `products.stock` | `stock` (one product; an order takes `Qty[o]` units) |
| `order_partial_refunds` row of a cancelled order | `refund[o]` |
| a handler between two of its statements | `job[w]`: program counter, order and everything it has read and will still use |
| Cashfree's order status, webhooks it has sent | `gw[o]`, `hooks` (external) |

A handler that locks what it decides on and runs in one transaction is one
action (`CreateOrder`, `WebhookSuccess`, `WebhookFailed`, `GetPaymentStatus`,
`VerifyPayment`, `AbandonPayment`, `AbandonDefinitively`). A handler that does not is
a job: `InitiateStart/Finish/Refused`; `ReconcilePick/Success/FailRow/CancelOrder`,
`ReleaseRead/Count/Mark`, `ReconcileSkip`; `TransitionStart/Read/Write`;
`CancelStart/Read/Restore`, then the transition's two steps, then `CancelRefund`.
`JobDies` ends a job between any two steps. `hooks` never shrinks: a webhook may
be delivered late, twice or never.

Abstractions. One product and one coupon. Prices, addresses and messages are
left out. A webhook or an answer with the wrong amount is dropped, which a lost
one covers. The age a payment must have before the reconciler looks at it is
left open. The weight gate of `transitionOrderState` only refuses more, and the
rider's assignment it cancels belongs to dispatch. A refund's submission is one step.
History variables: `restored` counts the restores of an order, `overridden`
the orders an admin moved past the payment gate.

**`Refunds`** takes over where a confirmed order has to give money back.

| Code | Specification |
|---|---|
| `orders.payment_mode`, `status`, `total_amount`, `payment_status`, `weight_reconciliation_status` | `mode`, `status`, `total`, `pay`, `weighed` |
| `order_partial_refunds`, by idempotency key (`wr<order>i<item>`, `fd...` for the full refund) | `row[<<order, line>>]`, `line` an item or `Full` |
| status of the latest Cashfree payment row | `ptx[o]` |
| requests that left for `POST /orders/{id}/refunds`, what the gateway paid out per `refund_id` | `requests`, `gw` (external) |
| rows past the 7 days of the retry query | `old` |
| a handler between two statements | `job[w]` |

Packing and the resolution of a failed delivery are transactions, hence one action
(`Pack`, `Resolve`); both then leave a job behind that nobody waits for. A cancel is
`CancelRead/Check/Write`, the full refund `FullRead/FullInsert`, the retry job
`RetryPick` and `LinesRead`, and one submission `SubmitSkip` or `SubmitRow`, then
`SubmitRefused` or `SubmitSend`, then `AnswerOk` or `AnswerError`, then `MarkSubmitted`
(and `MarkPaymentRefunded` for the full refund) or `MarkFailed`. The gateway may pay
long after we gave up on the answer, and `Restart` forgets every job.

Abstractions. `SUCCESS` of a row is the same as `SUBMITTED`, and a submitted row has
its `gateway_refund_id`. `PACKING_STARTED` is `CONFIRMED`. The way of an order from
PACKED to a failed delivery is one step, the one to PACKED too (`Checkout` has the
transition in two); an unpaid ONLINE order gets there by an admin's override. What a
line comes short by is any amount in `Shortfalls`, also more than was paid: the code
computes it from the product's price, the order may have had a coupon. The gateway
repeats its answer when it gets a `refund_id` again.

**`RefundLedger`** is what this promises: a debt keeps its amount, is paid out at
most once, in full and not before it is recorded, and booked only then. `KeepsLedger`
states that `Refunds` implements it, with `owed` the amounts of the rows, `paid` the
gateway's payouts and `booked` the submitted rows.

`StockLedger`, at the end of `Checkout`, is a sum over the orders (`FoldFunction`).

### The order on its way

**`Dispatch`** models the search for a rider and what riders, customers and admins do to
the order meanwhile.

| Code | Specification |
|---|---|
| `orders.status` from packing on; the one `order_assignments` row of an order | `status`, `row` |
| open `assignment_failed` tasks; Redis attempt counter and broadcast claim | `failed`, `attempts`, `claim` |
| `delivery_partners.is_online` | `online` |
| `pendingAssignmentTimeouts`, `pendingBatchWindows` (Maps of the process) | `timer`, `window` |
| a procedure between two awaits, with what it read | `job[w]` |

`assignOrderToPartner` is `AssignBegin`, then one of `AssignRefused`, `AssignJoins`,
`AssignInTier`, `AssignSmallFleet`, `Broadcast`, `AssignFallback`, `AssignNobody`; a rider
that was chosen leads to the batcher (`BatchNow`, `OpenWindow`, `JoinWindowOfRider`,
`WindowFires`), which writes the rows one by one (`WriteRow`) and arms the timers
(`ArmTimers`). The acceptance timer is `TimerFires`, `AutoRead/AutoAccept`,
`ExpireRead/ExpireWrite`; `ReportFailure/InsertTask` is the admin task. `Restart` forgets
timers, windows and procedures. Distances, scores and road times are left out: any
eligible rider may come first. `alone` (orders only one procedure at a time has
handled) and `kept` (the rider who accepted an order nobody else held) are history:
the code has no lock that keeps two procedures off one order, and what it promises then
is little. Found while modelling, and possible behaviours of the module: the limit of a rider's
orders (`businessRules.js:84`) can be exceeded by two windows or an accept, though the comment there says "Hard cap"; a window
fires for orders accepted or delivered meanwhile; `autoAcceptNearestStoreRider` sends a
cancelled order out again; orders joined beyond the capacity are dropped from the batch;
a small fleet offers the order to the rider who was to be left out; the row that a
rejection leaves keeps every other rider from accepting a broadcast (409);
`bulkAssignZones` arms no timer.

**`Doorstep`**: the delivery code with its two Redis keys, the two requests that
deliver an order against it (`PUT /status`, `POST /complete`) and the rider's earnings,
which are booked after the commit in statements whose errors are swallowed. A hand
is a request; codes are numbered as drawn. `PUT /status` spends the code before it
looks at the photo; both requests may deliver the order, as DELIVERED to
DELIVERED is allowed, and then the history has it twice.

**`FailedDelivery`**: failure, return, resolution and the admin task, beside bare status
changes (`clerk`) that take the order away in between.

**`Packing`**: the weights of the lines, supplements from the next cut, `StartPacking`,
the reconciliation in one transaction and the transition to PACKED in statements of its
own. Once the reconciliation is committed and the transition lost, a retry is
refused (409): the property names that exception.

**`Timeline`**: publications after the commit (`inFlight`), the timestamps they
stamp, the age and peak monitors with their `SET NX` keys, which the memory fallback does
not honour; a claimed alert is lost with the process.

**`Fleet`** (with **`Routes`**): location reports, nearby detection, switches of the
rider and the admin, the fleet board with its refreshes, the times customers are shown.
`Routes` holds the planning screen, with the greedy tour and the dealing of clusters to riders as
recursive functions; the town is a line, and K-means any sizes of its clusters. A step of `FleetSpec` is one
on the road or one on the screen.

### Around the order

**`Cart`**: the JSON value, read and written back as a whole, in Redis or memory;
`createOrder` reads it before the transaction and deletes it after the commit. `PUT
/cart/update` and `DELETE /cart/clear` are shadowed by `/:itemId` and answer 400, so they are
no actions.

**`StoreSettings`**: the rows, found by `ctid`, the merged view that is cached with the time
its read began, opening hours over midnight, the mode; a new theme or
banner (`PutSetting`, `UpdateValue`) moves the row the others look for. **`CapacitySuggestion`**: debounce
flag, timer, monitor and the row that repeats no advice. **`Login`**: code, send lock,
strikes, refresh token, every Redis command a step that may fail. **`Catalogue`**: admin
changes, the sweep key by key, and customers' requests that make a view from what they
read. **`Addresses`**: READ COMMITTED transactions, statement by statement.
**`Notifications`**: rows and memory.

**`Startup`**: the database as a set of objects, every script and section of
`ensureSchema` as a sequence of statements that need, drop and make objects, `deploy.sh`,
the start, kills and outages. Reading it together: `schema.sql` is one
transaction that an older database undoes, because an index names a column that the
ALTERs after it add; addresses made by `create_addresses_table.sql` never get
`label`, `address_line` or a position; the server listens even when steps failed, and its
timers run before `ensureSchema` ends.

### Instances

**`MCCheckout`**, **`MCRefunds`**, **`MCDispatch`**, **`MCDispatchBatch`** and
**`MCFailedDelivery`** are instances of one component. **`MCServices`** holds fourteen: they
share no variable, so it follows one at a time (`focus`, chosen in the initial state) while
the others stand still, and one run covers them all without multiplying their states.

How the models meet. What one component does to a variable of another is an action
of the other's module as well: an order's status is changed by riders in `Dispatch`, by
clerks in `FailedDelivery`, by `OthersMove` in `Doorstep`, by `CancelTray` in `Packing`; stock
by `OthersBuy`; the refund asked for by `Packing`, `FailedDelivery` and `Checkout` is followed in
`Refunds`, which refines `RefundLedger`; all use the table of `OrderStateMachine`.

## 3. What the runs check

| Run | Instance | Shows |
|---|---|---|
| `checkout_one` | one order, 2 payment rows, 2 handlers in flight, 2 units, 1 restore, fair scheduling | types; nothing is booked as paid unless captured; nothing is fulfilled unpaid; a settled payment has confirmed its order; only captured payments are refunded; every unit is accounted for; settled rows are final; the reconciler closes every pending payment the gateway has decided on |
| `checkout_pair` | two orders of one customer, 1 and 2 units of 3, one handler in flight, one row each | the coupon counter is bounded by its holders; one coupon per customer; the stock ledger under competition |
| `coupon_released_twice` | two customers, 2 handlers | violation: a release outside a transaction is not idempotent |
| `cancel_not_atomic` | one order | violation: stock restored on an order that stays alive |
| `paid_cancel_no_refund` | one order | violation: a payment settles during a cancel and is not refunded |
| `refunds_one` | one order that cost 2, one line short by 0, 1 or 3, 2 handlers, 1 restart, fair scheduling | types; a payment is closed only when the full refund was paid out; the ledger's promise is kept; a failed refund goes out in the end |
| `refunds_exceed_payment` | two lines, 2 handlers | violation: a cancel refunds the total it read before packing lowered it |
| `failed_refund_forgotten` | one handler, fair scheduling | violation: closing the payment makes the retry of a line's refund impossible |
| `dispatch_one` | one order, 2 riders, 2 procedures, 1 attempt, any number of requests | types; an order that left has a rider; an accepted order is kept; an offer is watched |
| `dispatch_batch` | two orders, one of them too far to wait, 2 riders, one procedure, 3 requests, 1 restart, fair scheduling | batches and windows stay within the rider's room; an offer ends |
| `services` | fourteen components, one in focus | see below |
| `resolved_before_return` | one order that goes out twice | violation: a second failure inherits `returned_at` and is resolved while the rider has the goods |

The properties of `services`, by component:

| Component | Property |
|---|---|
| `Doorstep` | `EarningsCovered`: credit ≤ history ≤ deliveries committed; `ShownCodeWorks`: the customer's code is the one compared |
| `FailedDelivery` | `PendingHasTask`: a failure is pending exactly while it has an open task |
| `Packing` | `ShortagesSettled`: short lines are made good from stock that was taken; `ReconciledGetsPacked` |
| `StoreSettings` | `ChangeIsSeen`: no stale view outlives a cache life |
| `CapacitySuggestion` | `EventIsLookedAt`: no event falls between timer and evaluation; `NoRepeatedAdvice` |
| `Login` | `SignInWorks`: no lock outlives its request, the newest code works, the device's token is the table's |
| `Catalogue` | `ViewsAreCurrent` between changes |
| `Addresses` | `OneDefault` |
| `Routes`, `Fleet` | `ToursServeAll`: a plan leaves out no order and no rider, times grow along a tour; `NoWayBack`: a report does not put a finished order back on the road |
| `Notifications` | `ClearedStaysCleared` |
| `Startup` | `SchemaIsRepaired`: whatever stopped half-way, an undisturbed start finishes it |
| `Timeline` | `AlertedOnce`, `FirstStampStands` |
| `Cart` | `CartIsWhatWasAsked`: sequential requests do what they answer, an order leaves nothing behind |

Several of these excuse what the code leaves open, and name it with a history variable:
requests that overlapped (`crossed`, `crossedIn`, `overlapped`), or that were cut short
(`cutShort`, `broken`, `missed`). The property then says that nothing else goes wrong.

Why the bounds are enough. In `Checkout` every handler works on one order and the payment
rows of that order, so one order with two rows shows all interactions within an
order: the latest row against an older one, two rows that both settle, a retry
after an abandoned attempt. Two handlers in flight are the least that can
interleave, next to the one-action handlers, which are always enabled; the
races found need two. Orders meet only in the stock and the coupon, for which
two orders that cannot both have all they want are the smallest contest.
`MaxRestores` keeps the stock finite: it stops a new cancel, never one under way.
`checkout_one` has the admin ask for transitions and the customer for cancels, `checkout_pair`
and the violations have the customer ask for both; the proofs cover all of them.

In `Refunds` orders never meet: every row, payment and job belongs to one order. One
line and the full refund are two rows of one job, two handlers are enough for two
submissions of one row, and a restart may come at every step of either.

In `Dispatch` orders meet in a rider's room and in a batch, hence two orders and a batch
size of two in `dispatch_batch`, and procedures meet in one order, hence two of them in
`dispatch_one`. Two riders are one who was asked and another one; with more attempts only
the counter grows. `MaxRequests` counts what comes from outside in `dispatch_batch`:
three are enough to pack both orders and disturb them once. Both together are beyond TLC's time; the
proofs have no such bound.

In `services` two requests at once are the least that can overlap, and the most any of the races
needs; ids and counters are as small as the component's cases allow (two lines that compete for
stock, two addresses, one product, two starts with one fault). The plan of `Routes` has
up to ten orders for three riders, so that clusters are uneven enough for its evening-out loops.

Fairness. `Checkout`'s `LiveSpec` asks that a job runs on (`WF` of `JobStep`): a request
that has started is only stopped by a crash, and `LiveSpec` leaves `JobDies` out,
as no promise outlives a process that crashes in every statement. It asks that
the reconciler picks a row that is pending again and again (`SF`): its
`setInterval` fires for ever and its query takes the oldest rows first; a
request that holds the model's worker may disable the action in between, hence
strong fairness. Nothing is asked of customers, admins or the gateway.

`Refunds`' `LiveSpec` asks that jobs run on, that the retry interval picks an order
that is eligible again and again, that the gateway works off a request, and that not
every submission of a row it has paid out times out (`SF` of `AnswerOk`); without the
last nothing can be promised. The promise ends when the row is 7 days old.

`Dispatch`'s `LiveSpec` asks that a procedure runs on (`WF` of `JobStep`) and that a timer that is
due fires (`SF` of `TimerFires`: in the model a stream of requests may hold every
job record when the timer is due; in Node nothing holds a timer back for ever). Nobody has to
answer an offer. The other modules state no liveness: their promises are about what is there
between requests.

Deadlock is only checked for `Refunds`: elsewhere, with every order settled, every bound used up
and nobody asking for anything, the system is at rest.

## 4. What is proved

`CheckoutProofs` proves, for any finite set of orders and any number of
customers, workers, payment rows and units (`CheckoutAssumption`):

- `TypeCorrect`: `TypeOK` is inductive on its own.
- `PaidIsCaptured`, `FulfilmentPaidFor`, `SuccessAlwaysConfirms`,
  `RefundsAreCaptured`, `SettledRowsAreFinal`, all from `PaymentInvariant`. None of them
  is inductive: a worker that is about to write a status decided on an
  earlier read. `PaymentInv` adds what makes the delay harmless. Per order
  (`OrderInv`): a success webhook exists only for a paid gateway order, unused rows
  are empty, PAID on the order implies a settled row, and a settled row implies a
  captured payment and an order out of the waiting states. Per worker (`JobInv`):
  the order it works on exists, its row exists, a status past the payment gate it is
  about to write is paid for or overridden, and a refund it is going to ask for
  has a captured payment. `Keeps` is the heart of the argument: captured
  payments, settled rows and overrides are stable, so what a worker knew remains
  true.
- `CouponBounded` and `OneCouponPerCustomer`, from `CouponInvariant`. The counter is
  bounded by the holders, but the reconciler gives the use back one statement
  before it marks the order, so the inductive bound leaves out the orders in
  `BeingMarked`; that keeps it under two releases of one coupon and a crash in
  between.
- `StockAddsUp`: with `PaymentInv`, every step changes the units of at most one order, and the stock by as many.

`RefundsProofs` proves, for any orders, lines, prices, shortfalls, workers and
restarts (`RefundsAssumption`):

- `TypeCorrect`, with `RemainingIsNatural` for the total.
- `ClosedPaymentsArePaidOut`, from `RefundInvariant`. The property speaks of a payment
  row; what makes it true is what a job remembers when it comes to close it. `Books`
  relates rows, requests, payouts and payments (a row exists exactly if it has an
  amount; a line has none until it is weighed; payouts have the amount of the row;
  a booked row is paid out), `JobSafe` is what a job knows at each step, and `Grow`,
  that no step takes back a row, its amount, a payout or a booking, keeps it true
  while others work.
- `ImplementsLedger`: `Refunds` refines `RefundLedger`. Initial states map to initial
  states; packing, a full refund's insert and a failure are `Owe` or a stutter, the
  gateway's payment is `PayOut`, `MarkSubmitted` is `Book`, all else stutters.

`DispatchProofs` proves, for any finite set of orders and any riders, limits, number of
procedures and restarts (`DispatchAssumption`):

- `TypeCorrect`, together with `OrdersKnown`: a procedure that is at work knows its order.
- `OutWithRider`, from `RiderInv`: whoever is about to get an order, or just got it (`RiderOfJob`),
  is somebody, as is the rider of a window.
- `BatchesFit`, from `RoomInv`: only a procedure that writes or arms has orders to do or done, and
  one that sizes a batch has room. The counts move by single orders or are sliced to the room
  (`Batches`).
- `AcceptedOrdersAreKept`, from `KeptInv`: a procedure that came to an accepted order later is at a
  place where it will find the order is not to be assigned (`Harmless`), none has it among
  the orders to do or done, and no window holds it. Nothing reaches the dangerous places without
  passing a check of the status or the row, and nothing changes those but the rider.
- `OffersAreWatched`, from `WatchInv`: an order that one procedure at a time has handled has no second
  procedure about it (`Lonely`), and as long as it is offered its timer is set for the rider of its row, or the one
  procedure about it is about to arm the timer or to end the offer (`Offering`) and knows that rider (`Knows`).

`DeliveryProofs`, for any hands, requests, riders and orders on the road:

- `EarningsAreCovered`, from `EarningsLedger`: the rows written plus the hands that still
  owe one never exceed the commits, the credit plus the hands that still owe one never the rows,
  and a balance that was read leaves room for all of them; the hands are counted by cardinalities.
  `ShownCodesWork`, from `CodeLedger` (where the one hand that is about the code leaves the two keys) on
  top of `CodesDrawn` (a code that is handled was drawn).
- `PendingTasks` of the failed delivery, inductive with the types.
- `FleetTypes` and the action property `OverIsOver` (`NoWayBack`): no report, switch or refresh moves an
  order but the mark of a rider nearby, whose UPDATE looks at the status again.
- `ToursServe`: the plan by `RoutesInv`, which a new plan establishes as a whole. Zones deal out the orders when each
  order is in some zone and no two places hold the same one (`Deals`). Whatever way K-means clusters, leaving out
  the empty zones (`FilledDeals`), splitting the largest (`SplitDeals`) and moving the tail of one zone to another
  (`TailMoves`, the step of `EvenOutDeals`) keep that; splitting makes a zone more each time, as long as
  there are fewer zones than orders, since then the longest zone has two (`LongestHasTwo`, by the pigeonhole
  principle); and evening out never takes a zone's last order. A greedy tour visits each stop once (`GreedyVisitsAll`),
  along it the kilometres do not shrink (`KilometresGrow`), and each stop adds its minutes (`LaterIsLater`). Each is a
  recursive function over 0..n, of which `RunsThrough` shows that what each step keeps holds at its end.

`StoreProofs`, for any requests, timers, orders, lines and stock:

- `ChangesAreSeen`, from `BehindIsOld`: what differs from the rows, in the cache or on
  its way there, was read no later than the last change, and so expires. `HoursAreKept`: comparing minutes keeps
  the hours, also past midnight, by remainders.
- `EventsAreLookedAt`, with `TimerRuns` (the flag of the debounce is up exactly while its timer runs), and
  `AdviceIsNotRepeated`, with `AdviceIsNew`: an evaluation about to insert differs from the newest row unless another
  one inserted since it looked.
- `PackTypes`, `ShortagesAreSettled` and `ReconciledIsPacked`, together `PackInv`. That the stock stays above zero and
  covers what is put on top goes by induction over the lines of an order (`StockAfterFalls`, `SupplementsCovered`):
  a line may take what covers `Deduction` units of the stock the lines before it left, and rounding up never asks for more
  units than there are (`RoundedUp`). Over the orders it is a sum of which a transaction changes one term.
- `AlertsOnce`, from `AlertLedger` (a run that is about to ring holds the key alone, and the
  key has not rung); `StampsStand`, with `UnweighedBlank` (before the weighing nothing has stamped or is
  about to stamp its columns).

`CustomerProofs`, for any number of requests of a customer:

- `OneDefaultAddress`, from `AddressInv`: unless something was overlooked, the default rows are
  among those a request saw when its UPDATE began and among those it has locked when it ends
  (`ClearingReaches`), and two requests never insert the same row (`OwnIds`).
- `ClearedIsCleared`, with `WaitingHaveNoRow`: what waits in memory has no row yet, so that marking the rows and the
  memory reaches everything.
- `CartIsAsked`, from `CartInv`: while the customer can know the cart (`Known`), no two requests overlap, the cart
  is what was asked for, and so is the copy a request is about to write or to order.
- `SignInIsSound`, from `LoginInv`: if no request was cut short, a send lock has a request that will release it
  (`LockIsHeld`); if no two overlapped, the code in Redis is the newest SMS's unless the request is about to send or drop it
  (`CodeIsSent`), and the device has the table's token unless the request is about to hand it over or to
  take it away (`TokenIsHeld`).
- `NoStaleView`, from `ViewInv`: as long as no view was being made during a change, what a request made is of the
  tables as they are (`MadeIsFresh`), a sweep has emptied the keys it has passed (`Swept`), and with none under way
  nothing old is left in a store that was not missed (`NothingOld`).

`ServicesProofs` proves of `MCServices`, the composition that the run `services` checks, that each component behaves in
it as its own specification says (`ServicesImplement`: every start of the composition is a start of each component,
`ServicesStart`, and every step is a step of each or leaves it alone, `ServicesStep`). What is proved of a component
therefore holds of the composition: its types (`ServicesTypes`, for which `StartTypes` supplies those of `Startup`) and,
`SchemaIsRepaired` apart, every invariant and action property of the run (`ServicesKeepPromises`).

`SumLemmas` holds what several of them need. The prover cannot instantiate the induction theorems of its library, which
take an operator as a parameter, but the one about well-founded relations speaks of sets: a set of natural
numbers that is not empty has a least element, hence a set with 0 and every successor is all of `Nat` (`SetInduction`), and so
recursive functions over 0..n exist (`RecursionExists`), keep what each of their steps keeps (`RunsThrough`) and sums over finite sets change by what one term changes
(`SumChanges`).

Every theorem holds for all values of the constants that the assumption of its module allows; TLC evaluates these
assumptions in every run.

Only model-checked:

- Everything with fairness (`StalePaymentResolved`, `FailedRefundRetried`, `OfferEnds`): liveness is out of the prover's
  reach. So are the violations, which are counterexamples of small instances.
- `SchemaIsRepaired`: one computation over a fixed list of statements, which TLC carries out from every
  database it starts with.

A leaf whose proof is long names its prover and the time it may take (such as `ZenonT(60)` or `SMTT(60)`), so that a slower
machine proves it as well.

## 5. Not modelled

Left out because no interleaving or sequence of calls changes what they promise:

- Reports, exports, lists and metrics: they read what the tables hold.
- Banners, uploads, profile, preferences, wishlist (`PUT /wishlist` deletes and inserts): independent rows
  or files, last write wins.
- The photo and the signature of a delivery: stored as they come.
- The `security/` modules, MFA and the rate limiters: what is wired in at the start only refuses requests,
  which every handler may meet anyway.
- Sockets and pushes: fire and forget, nothing waits for them.
- Floating point: distances, scores, the rush hours of the ETA, `eta-calculator.js`. The models leave the
  choice open.
- `schema_complete.sql` and the SQL of single reports.
- The pool: PostgreSQL's deadlock detection turns a pair of transactions that lock in different orders
  into one that is refused, which the models have as a request that fails.
- The Flutter client: a source of requests, which the actions take from small sets.

What could follow: that the one-step refund of `Checkout` is what `Refunds` does, stated as a
refinement; `Dispatch` with two
orders and two procedures at once for TLC, which today takes longer than is useful.
