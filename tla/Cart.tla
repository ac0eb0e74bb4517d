-------------------------------- MODULE Cart --------------------------------
(***************************************************************************)
(* One customer's cart (cart.controller.js, cart.service.js) and the order *)
(* that is made of it (createOrder).  The cart is one JSON value in Redis, *)
(* or, while Redis is away, in the memory of the process: a request reads  *)
(* it, changes its copy and writes the whole of it back, and nothing keeps *)
(* two requests apart.  createOrder reads it before its transaction and    *)
(* deletes it after the commit.                                            *)
(*                                                                         *)
(* A line is a quantity and the weight the customer chose (0 when none, in *)
(* units of the product's first weight variant).  Addresses, opening hours *)
(* and coupons only refuse an order or change its total; they are left to  *)
(* Checkout and StoreSettings.                                             *)
(***************************************************************************)
EXTENDS Naturals, Sequences

CONSTANTS
    Goods,       \* ids of products
    Tabs,        \* bound: requests of the customer in flight at once
    Weights,     \* weights a request can name, 0 when it names none
    MaxPerCall,  \* the largest quantity of one request, 10
    MaxQty,      \* bound: the largest quantity of a line
    MaxStock,    \* bound: units of a product in stock
    MaxBought    \* bound: orders placed

ASSUME CartAssumption ==
    /\ 0 \in Weights /\ Weights \subseteq Nat
    /\ MaxPerCall \in Nat /\ MaxQty \in Nat /\ MaxStock \in Nat /\ MaxBought \in Nat
    /\ MaxPerCall <= MaxQty /\ Goods # {}

VARIABLES
    shelf,       \* products: active and stock
    linked,      \* redisReady
    cart,        \* cart:user:<id> in each store
    tab,         \* what each request in flight is doing, and its copy of the cart
    bought,      \* orders placed, with their lines
    asked,       \* history: what the requests answered so far amount to
    muddled      \* history: the customer cannot tell what is in the cart

cartVars == <<shelf, linked, cart, tab, bought, asked, muddled>>

Places == {"redis", "memory"}
Place  == IF linked THEN "redis" ELSE "memory"

NoLine == [qty |-> 0, grams |-> 0]
Line   == [qty : 1..MaxQty, grams : Weights] \cup {NoLine}
Empty  == [g \in Goods |-> NoLine]

Unsent == [at |-> "rest", map |-> Empty, want |-> Empty,
           good |-> CHOOSE g \in Goods : TRUE, line |-> NoLine]

TabAt(t, at) == tab[t].at = at
AllAtRest    == \A t \in Tabs : TabAt(t, "rest")
Overlap      == \E t, u \in Tabs : t # u /\ ~TabAt(t, "rest") /\ ~TabAt(u, "rest")

\* checkStock looks at the units of this request alone.
InStock(g, n) == shelf[g].active /\ shelf[g].stock >= n

\* The weight of a request, else the one the line has.
Chosen(grams, old) == IF grams # 0 THEN grams ELSE old

Added(map, g, l) ==
    [map EXCEPT ![g] = [qty |-> map[g].qty + l.qty, grams |-> Chosen(l.grams, map[g].grams)]]
Updated(map, g, l) ==
    IF l.qty = 0 THEN [map EXCEPT ![g] = NoLine]
                 ELSE [map EXCEPT ![g] = [qty |-> l.qty, grams |-> Chosen(l.grams, map[g].grams)]]

\* What is asked is followed while the customer knows the cart.
Clear(m) == IF muddled THEN Empty ELSE m

-----------------------------------------------------------------------------
\* addToCart: the stock is looked up, then the cart is read.

AddCheck(t, g, l) ==
    /\ TabAt(t, "rest")
    /\ l.qty \in 1..MaxPerCall
    /\ InStock(g, l.qty)
    /\ tab' = [tab EXCEPT ![t] = [Unsent EXCEPT !.at = "add", !.good = g, !.line = l]]
    /\ UNCHANGED <<shelf, linked, cart, bought, asked>>

AddRead(t) ==
    /\ TabAt(t, "add")
    /\ cart[Place][tab[t].good].qty + tab[t].line.qty <= MaxQty
    /\ tab' = [tab EXCEPT ![t].at = "write",
                          ![t].map = Added(cart[Place], tab[t].good, tab[t].line),
                          ![t].want = Clear(Added(asked, tab[t].good, tab[t].line))]
    /\ UNCHANGED <<shelf, linked, cart, bought, asked>>

\* updateCartItem and removeFromCart: the cart is read, then, unless the line
\* goes, the stock is looked up.
UpdateRead(t, g, l) ==
    /\ TabAt(t, "rest")
    /\ l.qty \in 0..MaxPerCall
    /\ tab' = [tab EXCEPT ![t] =
         [at |-> IF l.qty = 0 THEN "write" ELSE "update", good |-> g, line |-> l,
          map |-> Updated(cart[Place], g, l), want |-> Clear(Updated(asked, g, l))]]
    /\ UNCHANGED <<shelf, linked, cart, bought, asked>>

UpdateCheck(t) ==
    /\ TabAt(t, "update")
    /\ tab' = [tab EXCEPT ![t] =
         IF InStock(tab[t].good, tab[t].line.qty) THEN [tab[t] EXCEPT !.at = "write"]
                                                   ELSE Unsent]
    /\ UNCHANGED <<shelf, linked, cart, bought, asked>>

\* writeCartMap stores the whole cart; the answer shows it.
WriteCart(t) ==
    /\ TabAt(t, "write")
    /\ cart' = [cart EXCEPT ![Place] = tab[t].map]
    /\ asked' = tab[t].want
    /\ tab' = [tab EXCEPT ![t] = Unsent]
    /\ UNCHANGED <<shelf, linked, bought>>

\* DELETE /cart is a single command.
ClearCart ==
    /\ cart' = [cart EXCEPT ![Place] = Empty]
    /\ asked' = Empty
    /\ muddled' = (muddled \/ ~AllAtRest)
    /\ UNCHANGED <<shelf, linked, tab, bought>>

-----------------------------------------------------------------------------
\* createOrder.

SameQuantities(m, n) == \A g \in Goods : m[g].qty = n[g].qty

\* The cart must not be empty and, when the client sends what it shows, must
\* have the same quantities (CART_MISMATCH).
OrderRead(t, shown) ==
    /\ TabAt(t, "rest")
    /\ cart[Place] # Empty
    /\ shown = Empty \/ SameQuantities(shown, cart[Place])
    /\ tab' = [tab EXCEPT ![t] = [Unsent EXCEPT !.at = "order", !.map = cart[Place]]]
    /\ UNCHANGED <<shelf, linked, cart, bought, asked>>

InCart(m) == {g \in Goods : m[g].qty > 0}

\* order_items: the price is for the chosen weight, ordered_weight_g is of the
\* first variant (orderedWeightGramsForLine).
OrderLines(m) ==
    [g \in InCart(m) |-> [qty |-> m[g].qty,
                          paidWeight |-> m[g].qty * Chosen(m[g].grams, 1),
                          orderedWeight |-> m[g].qty]]

\* The transaction: the rows of the products are locked, cash on delivery takes
\* the stock, a payment takes it later (Checkout).
PlaceOrder(t, mode) ==
    /\ TabAt(t, "order")
    /\ Len(bought) < MaxBought
    /\ LET m == tab[t].map
       IN  /\ \A g \in InCart(m) : InStock(g, m[g].qty)
           /\ shelf' = IF mode = "COD"
                       THEN [g \in Goods |-> [shelf[g] EXCEPT !.stock = @ - m[g].qty]]
                       ELSE shelf
           /\ bought' = Append(bought, [lines |-> OrderLines(m), sure |-> ~muddled,
                                        asked |-> OrderLines(asked)])
    /\ tab' = [tab EXCEPT ![t].at = "clear"]
    /\ UNCHANGED <<linked, cart, asked>>

OrderRefused(t) ==
    /\ TabAt(t, "order")
    /\ \E g \in InCart(tab[t].map) : ~InStock(g, tab[t].map[g].qty)
    /\ tab' = [tab EXCEPT ![t] = Unsent]
    /\ UNCHANGED <<shelf, linked, cart, bought, asked>>

\* Mutant: the cart of an order stays.
LeaveCart(t) ==
    /\ TabAt(t, "clear")
    /\ asked' = Empty
    /\ tab' = [tab EXCEPT ![t] = Unsent]
    /\ UNCHANGED <<shelf, linked, cart, bought>>

\* clearCart after the commit.
ClearOrdered(t) ==
    /\ TabAt(t, "clear")
    /\ cart' = [cart EXCEPT ![Place] = Empty]
    /\ asked' = Empty
    /\ tab' = [tab EXCEPT ![t] = Unsent]
    /\ UNCHANGED <<shelf, linked, bought>>

-----------------------------------------------------------------------------
\* The rest of the world, and after what the customer no longer knows what is
\* in the cart.

\* A command to Redis fails or times out, in which case it may still have been
\* carried out: the request is answered 500.
CommandFails(t) ==
    /\ tab[t].at \in {"add", "write", "clear"}
    /\ \/ UNCHANGED cart
       \/ TabAt(t, "write") /\ cart' = [cart EXCEPT ![Place] = tab[t].map]
       \/ TabAt(t, "clear") /\ cart' = [cart EXCEPT ![Place] = Empty]
    /\ tab' = [tab EXCEPT ![t] = Unsent]
    /\ muddled' = TRUE
    /\ UNCHANGED <<shelf, linked, bought, asked>>

\* Thirty days pass after the last write.
CartExpires(p) ==
    /\ cart[p] # Empty
    /\ cart' = [cart EXCEPT ![p] = Empty]
    /\ muddled' = (muddled \/ p = Place)
    /\ UNCHANGED <<shelf, linked, tab, bought, asked>>

\* The connection to Redis comes and goes; its contents stay.
LinkTurns ==
    /\ linked' = ~linked
    /\ muddled' = (muddled \/ cart["redis"] # cart["memory"])
    /\ UNCHANGED <<shelf, cart, tab, bought, asked>>

\* The process restarts: requests in flight and its memory are gone.
CartRestart ==
    /\ cart' = [cart EXCEPT !["memory"] = Empty]
    /\ tab' = [t \in Tabs |-> Unsent]
    /\ muddled' = (muddled \/ ~AllAtRest \/ cart'[Place] # cart[Place])
    /\ UNCHANGED <<shelf, linked, bought, asked>>

\* Staff and other customers change a product.
ShelfChanges(g) ==
    /\ \E a \in BOOLEAN, n \in 0..MaxStock : shelf' = [shelf EXCEPT ![g] = [active |-> a, stock |-> n]]
    /\ UNCHANGED <<linked, cart, tab, bought, asked, muddled>>

\* getCart shows the cart, so that the customer knows again.
GetCart ==
    /\ AllAtRest
    /\ asked' = cart[Place]
    /\ muddled' = FALSE
    /\ UNCHANGED <<shelf, linked, cart, tab, bought>>

CartInit ==
    /\ shelf = [g \in Goods |-> [active |-> TRUE, stock |-> MaxStock]]
    /\ linked = TRUE
    /\ cart = [p \in Places |-> Empty]
    /\ tab = [t \in Tabs |-> Unsent]
    /\ bought = <<>>
    /\ asked = Empty
    /\ muddled = FALSE

Requests == [qty : 0..MaxPerCall, grams : Weights]

TabStep(t) ==
    \/ \E g \in Goods, l \in Requests : AddCheck(t, g, l) \/ UpdateRead(t, g, l)
    \/ AddRead(t) \/ UpdateCheck(t) \/ WriteCart(t)
    \/ \E shown \in {Empty, asked} : OrderRead(t, shown)
    \/ \E mode \in {"COD", "ONLINE"} : PlaceOrder(t, mode)
    \/ OrderRefused(t) \/ ClearOrdered(t)

\* Two requests at a time, and the customer cannot tell which wrote last.
CartNext ==
    \/ \E t \in Tabs : TabStep(t) /\ muddled' = (muddled \/ Overlap')
    \/ GetCart \/ ClearCart
    \/ \E t \in Tabs : CommandFails(t)
    \/ \E p \in Places : CartExpires(p)
    \/ LinkTurns \/ CartRestart
    \/ \E g \in Goods : ShelfChanges(g)

CartSpec == CartInit /\ [][CartNext]_cartVars

-----------------------------------------------------------------------------
\* Every variable of the cart keeps its type; an order has at least one line.
CartTypeOK ==
    /\ shelf \in [Goods -> [active : BOOLEAN, stock : 0..MaxStock]]
    /\ linked \in BOOLEAN
    /\ cart \in [Places -> [Goods -> Line]]
    /\ tab \in [Tabs -> [at : {"rest", "add", "update", "write", "order", "clear"},
                         map : [Goods -> Line], want : [Goods -> Line],
                         good : Goods, line : [qty : 0..MaxPerCall, grams : Weights]]]
    /\ \A i \in DOMAIN bought : DOMAIN bought[i].lines \in (SUBSET Goods) \ {{}}
    /\ asked \in [Goods -> Line]
    /\ muddled \in BOOLEAN

\* A customer whose requests were answered one after the other, with Redis
\* there, has the cart those answers amount to, and every order has the lines
\* of that cart and leaves none behind for a second order (addToCart,
\* updateCartItem, removeFromCart, clearCart, createOrder).
CartIsWhatWasAsked ==
    /\ AllAtRest /\ ~muddled => cart[Place] = asked
    /\ \A i \in DOMAIN bought : bought[i].sure => bought[i].lines = bought[i].asked
=============================================================================
