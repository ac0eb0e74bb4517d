------------------------------ MODULE Catalogue ------------------------------
(***************************************************************************)
(* Products and categories (products.controller.js, the catalogue part of  *)
(* admin.controller.js) and the views of them that are kept in Redis, or,  *)
(* while Redis is away, in the memory of the process (redis.js): every     *)
(* change of an admin sweeps the views, every customer's request that      *)
(* finds none makes one.                                                   *)
(*                                                                         *)
(* The contents of both tables are told apart by their edition, which each *)
(* change raises; a view is the edition it was made from.  A product is    *)
(* active or hidden and has a category; names, prices, weights and         *)
(* pictures travel with the row.  Stock that orders take raises no         *)
(* edition: it sweeps nothing.                                             *)
(***************************************************************************)
EXTENDS Naturals, FiniteSets

CONSTANTS
    Products,     \* ids a product can have
    Categories,   \* ids a category can have
    NoCategory,   \* NULL
    ViewKeys,     \* keys of cached views: lists, products, categories, featured
    Stewards,     \* bound: admin requests in flight at once
    Shoppers,     \* bound: customer requests in flight at once
    MaxEdition    \* bound: changes of the tables

ASSUME CatalogueAssumption ==
    NoCategory \notin Categories /\ ViewKeys # {} /\ MaxEdition \in Nat \ {0}

VARIABLES
    products,     \* products: active and category_id, or absent
    categories,   \* ids in the categories table
    edition,      \* history: changes so far
    redisUp,      \* redisReady
    view,         \* the edition of each cached view in each store, 0 when absent
    steward,      \* what each admin request in flight is doing
    shopper,      \* what each customer request in flight is doing
    missed,       \* history: stores the sweep after the last change left out
    overlapped    \* history: a view was being made during a change

tables        == <<products, categories, edition>>
catalogueVars == <<tables, redisUp, view, steward, shopper, missed, overlapped>>

Stores == {"redis", "memory"}

Absent  == [state |-> "absent", cat |-> NoCategory]
AtRest  == [at |-> "rest", cat |-> NoCategory, left |-> {}, store |-> "redis"]
Browsed == [at |-> "done", key |-> CHOOSE k \in ViewKeys : TRUE, made |-> 0]

StewardAt(w, at) == steward[w].at = at

\* withFallback: the store of a command that is given now.
StoreInUse == IF redisUp THEN "redis" ELSE "memory"

\* A view is being made while a change is under way.
Overlapping ==
    /\ \E w \in Stewards : ~StewardAt(w, "rest")
    /\ \E r \in Shoppers : shopper[r].at # "done"

-----------------------------------------------------------------------------
\* Changes.  Each is one statement; the sweep of the views follows.

\* Mutant: the change does not sweep.
ChangedQuietly(w) ==
    /\ edition < MaxEdition
    /\ edition' = edition + 1
    /\ steward' = [steward EXCEPT ![w] = AtRest]
    /\ UNCHANGED <<redisUp, view, shopper, missed>>

\* invalidateCatalogCache, deleteByPattern('products:*'), is called.
Changed(w) ==
    /\ edition < MaxEdition
    /\ edition' = edition + 1
    /\ steward' = [steward EXCEPT ![w] =
         [AtRest EXCEPT !.at = "sweep", !.left = ViewKeys, !.store = StoreInUse]]
    /\ UNCHANGED <<redisUp, view, shopper, missed>>

Exists(p) == products[p].state # "absent"

\* createProduct of both controllers and createProductCompat: the category must
\* be there.
CreateProduct(w, p, c) ==
    /\ StewardAt(w, "rest")
    /\ ~Exists(p)
    /\ c \in categories \cup {NoCategory}
    /\ \E s \in {"active", "hidden"} : products' = [products EXCEPT ![p] = [state |-> s, cat |-> c]]
    /\ Changed(w)
    /\ UNCHANGED categories

\* updateProduct of both controllers; updateStock leaves state and category.
UpdateProduct(w, p, s, c) ==
    /\ StewardAt(w, "rest")
    /\ Exists(p)
    /\ c \in categories \cup {NoCategory}
    /\ products' = [products EXCEPT ![p] = [state |-> s, cat |-> c]]
    /\ Changed(w)
    /\ UNCHANGED categories

UpdateStock(w, p) == UpdateProduct(w, p, products[p].state, products[p].cat)

\* patchProductCompat reads the row first, for the prices.
PatchRead(w, p) ==
    /\ StewardAt(w, "rest")
    /\ Exists(p)
    /\ steward' = [steward EXCEPT ![w] = [AtRest EXCEPT !.at = "patch"]]
    /\ UNCHANGED <<tables, redisUp, view, shopper, missed>>

PatchWrite(w, p, s, c) ==
    /\ StewardAt(w, "patch")
    /\ Exists(p)
    /\ c \in categories \cup {NoCategory}
    /\ products' = [products EXCEPT ![p] = [state |-> s, cat |-> c]]
    /\ Changed(w)
    /\ UNCHANGED categories

\* deleteProduct of both controllers and deleteProductCompat hide the product.
DeleteProduct(w, p) == UpdateProduct(w, p, "hidden", products[p].cat)

\* createCategory, createCategoryCompat.
CreateCategory(w, c) ==
    /\ StewardAt(w, "rest")
    /\ c \notin categories
    /\ categories' = categories \cup {c}
    /\ Changed(w)
    /\ UNCHANGED products

\* updateCategory, patchCategoryCompat.
UpdateCategory(w, c) ==
    /\ StewardAt(w, "rest")
    /\ c \in categories
    /\ Changed(w)
    /\ UNCHANGED <<products, categories>>

InCategory(c) == {p \in Products : products[p].cat = c}

\* deleteCategory counts the active products of the category, then deletes it;
\* the foreign key takes it from products that have it by then.
DeleteCategoryCount(w, c) ==
    /\ StewardAt(w, "rest")
    /\ \A p \in InCategory(c) : products[p].state # "active"
    /\ steward' = [steward EXCEPT ![w] = [AtRest EXCEPT !.at = "delete", !.cat = c]]
    /\ UNCHANGED <<tables, redisUp, view, shopper, missed>>

DeleteCategory(w) ==
    /\ StewardAt(w, "delete")
    /\ LET c == steward[w].cat
       IN  /\ c \in categories
           /\ categories' = categories \ {c}
           /\ products' = [p \in Products |->
                IF p \in InCategory(c) THEN [products[p] EXCEPT !.cat = NoCategory]
                                       ELSE products[p]]
    /\ Changed(w)

\* Another admin has deleted it meanwhile: 404.
CategoryGone(w) ==
    /\ StewardAt(w, "delete")
    /\ steward[w].cat \notin categories
    /\ steward' = [steward EXCEPT ![w] = AtRest]
    /\ UNCHANGED <<tables, redisUp, view, shopper, missed>>

-----------------------------------------------------------------------------
\* The sweep: SCAN gives the keys in any order, each is deleted.

SweepKey(w, k) ==
    /\ StewardAt(w, "sweep")
    /\ k \in steward[w].left
    /\ view' = [view EXCEPT ![steward[w].store][k] = 0]
    /\ steward' = [steward EXCEPT ![w].left = steward[w].left \ {k}]
    /\ UNCHANGED <<tables, redisUp, shopper, missed>>

\* The store that was not in use is not swept.
SweepDone(w) ==
    /\ StewardAt(w, "sweep")
    /\ steward[w].left = {}
    /\ missed' = (missed \ {steward[w].store}) \cup (Stores \ {steward[w].store})
    /\ steward' = [steward EXCEPT ![w] = AtRest]
    /\ UNCHANGED <<tables, redisUp, view, shopper>>

\* redis_pattern_delete_failed is logged, and the admin is told all is well.
SweepFails(w) ==
    /\ StewardAt(w, "sweep")
    /\ missed' = Stores
    /\ steward' = [steward EXCEPT ![w] = AtRest]
    /\ UNCHANGED <<tables, redisUp, view, shopper>>

-----------------------------------------------------------------------------
\* Views: getAllProducts, getProductById, getCategories, getFeaturedProducts.

\* There is none: the tables are read.
MakeView(r, k) ==
    /\ shopper[r].at = "done"
    /\ view[StoreInUse][k] = 0
    /\ shopper' = [shopper EXCEPT ![r] = [at |-> "made", key |-> k, made |-> edition]]
    /\ UNCHANGED <<tables, redisUp, view, steward, missed>>

\* SET key EX ttl, into the store in use by then; the command may fail.
KeepView(r) ==
    /\ shopper[r].at = "made"
    /\ \/ view' = [view EXCEPT ![StoreInUse][shopper[r].key] = shopper[r].made]
       \/ UNCHANGED view
    /\ shopper' = [shopper EXCEPT ![r] = Browsed]
    /\ UNCHANGED <<tables, redisUp, steward, missed>>

ViewExpires(s, k) ==
    /\ view[s][k] # 0
    /\ view' = [view EXCEPT ![s][k] = 0]
    /\ UNCHANGED <<tables, redisUp, steward, shopper, missed>>

\* The connection to Redis comes and goes; its contents stay.
RedisTurns ==
    /\ redisUp' = ~redisUp
    /\ UNCHANGED <<tables, view, steward, shopper, missed>>

\* The process restarts: what was in flight, and its memory, are gone.
CatalogueRestart ==
    /\ missed' = IF \E w \in Stewards : StewardAt(w, "sweep") THEN {"redis"}
                                                              ELSE missed \ {"memory"}
    /\ view' = [view EXCEPT !["memory"] = [k \in ViewKeys |-> 0]]
    /\ steward' = [w \in Stewards |-> AtRest]
    /\ shopper' = [r \in Shoppers |-> Browsed]
    /\ UNCHANGED <<tables, redisUp>>

\* The process starts with the tables of an open shop.
CatalogueInit ==
    /\ categories \in SUBSET Categories
    /\ products \in [Products -> {Absent} \cup
                      [state : {"active", "hidden"}, cat : categories \cup {NoCategory}]]
    /\ edition = 1
    /\ redisUp = TRUE
    /\ view = [s \in Stores |-> [k \in ViewKeys |-> 0]]
    /\ steward = [w \in Stewards |-> AtRest]
    /\ shopper = [r \in Shoppers |-> Browsed]
    /\ missed = {}
    /\ overlapped = FALSE

StewardStep(w) ==
    \/ \E p \in Products, c \in Categories \cup {NoCategory} :
         \/ CreateProduct(w, p, c)
         \/ \E s \in {"active", "hidden"} : UpdateProduct(w, p, s, c) \/ PatchWrite(w, p, s, c)
    \/ \E p \in Products : UpdateStock(w, p) \/ PatchRead(w, p) \/ DeleteProduct(w, p)
    \/ \E c \in Categories : CreateCategory(w, c) \/ UpdateCategory(w, c) \/ DeleteCategoryCount(w, c)
    \/ DeleteCategory(w) \/ CategoryGone(w)
    \/ \E k \in ViewKeys : SweepKey(w, k)
    \/ SweepDone(w) \/ SweepFails(w)

CatalogueStep ==
    \/ \E w \in Stewards : StewardStep(w)
    \/ \E r \in Shoppers : KeepView(r) \/ \E k \in ViewKeys : MakeView(r, k)
    \/ \E s \in Stores, k \in ViewKeys : ViewExpires(s, k)
    \/ RedisTurns
    \/ CatalogueRestart

CatalogueNext == CatalogueStep /\ overlapped' = (overlapped \/ Overlapping')

CatalogueSpec == CatalogueInit /\ [][CatalogueNext]_catalogueVars

-----------------------------------------------------------------------------
\* Every variable of the catalogue keeps its type; a product has a category that
\* is in the table, or none.
CatalogueTypeOK ==
    /\ products \in [Products -> [state : {"absent", "active", "hidden"},
                                  cat : categories \cup {NoCategory}]]
    /\ categories \subseteq Categories
    /\ edition \in 1..MaxEdition
    /\ redisUp \in BOOLEAN
    /\ view \in [Stores -> [ViewKeys -> 0..edition]]
    /\ steward \in [Stewards -> [at : {"rest", "patch", "delete", "sweep"},
                                 cat : Categories \cup {NoCategory},
                                 left : SUBSET ViewKeys, store : Stores]]
    /\ shopper \in [Shoppers -> [at : {"done", "made"}, key : ViewKeys, made : 0..edition]]
    /\ missed \subseteq Stores
    /\ overlapped \in BOOLEAN

\* Between changes customers see what the tables hold, in Redis and in the
\* memory it is replaced with, as long as the sweep of the last change covered
\* that store and no view was ever being made during a change
\* (invalidateCatalogCache, getAllProducts and the other cached reads).
ViewsAreCurrent ==
    ~overlapped /\ (\A w \in Stewards : ~StewardAt(w, "sweep"))
        => \A s \in Stores \ missed, k \in ViewKeys : view[s][k] \in {0, edition}
=============================================================================
