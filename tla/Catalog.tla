------------------------------ MODULE Catalog ------------------------------
(***************************************************************************)
(* The owner's catalog in the database: categories, products, the stalls   *)
(* that sell them and at which price, and the requests of managers who     *)
(* change it at the same time.  A change reads before its transaction, in  *)
(* it under row locks, and writes at its end.  Names, pictures and the     *)
(* audit row of each transaction are left out; the dollar and the riel     *)
(* price change alike and are one price here.                              *)
(***************************************************************************)
EXTENDS Integers, FiniteSets

CONSTANTS
    Categories,
    Products,      \* the product ids there can be
    StallIds,      \* and the stall ids
    Requests,      \* bound: requests that are under way at once
    Updates,       \* bound: the partial updates a client of the API sends
    Menus,         \* bound: the products there are at first
    MaxEvents      \* bound: changes asked for, and failures of other kinds, in all

VARIABLES
    categories,    \* the rows of the categories table
    product,       \* the rows of products with their product_stalls
    request,       \* the requests under way
    events         \* how many of them there were

catalogVars == <<categories, product, request, events>>

\* Rows of products, each with its rows of product_stalls; a foreign key ties the
\* row to a category.
ASSUME MenusAssumption ==
    \A m \in Menus :
        /\ m = [p \in Products |-> m[p]]
        /\ \A p \in Products :
              /\ m[p] = [state |-> m[p].state, category |-> m[p].category,
                         price |-> m[p].price, at |-> m[p].at]
              /\ m[p].state # "absent" => m[p].category \in Categories
-----------------------------------------------------------------------------
Live(p) == product[p].state = "live"

Get(fields, f, otherwise) == IF f \in DOMAIN fields THEN fields[f] ELSE otherwise

\* The first assignment a query lists.
First(at) == at[CHOOSE s \in DOMAIN at : TRUE]

NoRequest == [pc |-> "none"]
Posted(kind, target, asked) ==
    [pc |-> "posted", kind |-> kind, target |-> target, asked |-> asked, read |-> << >>]

Ended(r) == request[r].pc \in {"done", "refused"}
Set(r, pc) == request' = [request EXCEPT ![r].pc = pc]

\* SELECT ... FOR UPDATE of a product with its category and its stalls.
RowsOf(p) == {p, product[p].category} \cup DOMAIN product[p].at

OnProduct(r) == request[r].kind \in {"update", "delete"}

Held(r) ==
    IF request[r].pc \notin {"locked", "read"} \/ request[r].kind = "create" THEN {}
    ELSE IF OnProduct(r) THEN RowsOf(request[r].target) ELSE {request[r].target}

\* The rows the next statement of the request locks: those it selects for
\* update, or the parents of the foreign keys it writes.
Needed(r) ==
    CASE request[r].pc = "checked" -> RowsOf(request[r].target)
      [] request[r].pc = "posted" /\ request[r].kind = "dropCategory" -> {request[r].target}
      [] request[r].pc = "read" ->
            Get(request[r].asked, "stalls", {})
                \cup IF "category" \in DOMAIN request[r].asked
                     THEN {request[r].asked.category} ELSE {}
      [] OTHER -> {}

WaitsFor(r, q) == q # r /\ Needed(r) \cap Held(q) # {}

\* Faulty variant: the rows are read without a lock.
LockFreeUnlocked(r) == TRUE

LockFree(r) == \A q \in Requests : ~WaitsFor(r, q)
-----------------------------------------------------------------------------
CatalogInit ==
    /\ categories = Categories
    /\ product \in Menus
    /\ request = [r \in Requests |-> NoRequest]
    /\ events = 0

\* n more of the bounded events happen.
Spend(n) == events + n <= MaxEvents /\ events' = events + n

Ask(r, kind, target, asked) ==
    /\ request[r].pc = "none"
    /\ Spend(1)
    /\ request' = [request EXCEPT ![r] = Posted(kind, target, asked)]

\* requireOwnedProduct, or validateCategory of a new product: before the
\* transaction.
Check(r) ==
    /\ request[r].pc = "posted"
    /\ \/ OnProduct(r) /\ Set(r, IF Live(request[r].target) THEN "checked" ELSE "refused")
       \/ /\ request[r].kind = "create"
          /\ Set(r, IF request[r].asked.category \in categories THEN "read" ELSE "refused")
    /\ UNCHANGED <<categories, product, events>>

\* findProductById with LOCK.UPDATE
LockProduct(r) ==
    /\ request[r].pc = "checked"
    /\ LockFree(r)
    /\ Set(r, IF Live(request[r].target) THEN "locked" ELSE "refused")
    /\ UNCHANGED <<categories, product, events>>

\* validateCategory, and updateProductById reads the assignments.
ReadAssignments(r) ==
    /\ request[r].pc = "locked" /\ request[r].kind = "update"
    /\ IF Get(request[r].asked, "category", product[request[r].target].category) \in categories
       THEN request' = [request EXCEPT ![r].pc = "read", ![r].read = product[request[r].target].at]
       ELSE Set(r, "refused")
    /\ UNCHANGED <<categories, product, events>>

\* The assignments that replace the ones read, when the update is about any.
Reassigned(asked, read, price) ==
    IF DOMAIN asked \subseteq {"category"} THEN read
    ELSE [s \in Get(asked, "stalls", DOMAIN read) |->
            LET old == IF s \in DOMAIN read THEN read[s]
                       ELSE IF DOMAIN read # {} THEN First(read)
                       ELSE [price |-> price, visible |-> TRUE]
            IN  [price |-> Get(asked, "price", old.price),
                 visible |-> Get(asked, "visible", old.visible)]]

Updated(row, asked, read) ==
    [row EXCEPT !.category = Get(asked, "category", @),
                !.price = Get(asked, "price", @),
                !.at = IF DOMAIN asked \subseteq {"category"} THEN @
                       ELSE Reassigned(asked, read, Get(asked, "price", row.price))]

\* The foreign key refuses a category that is gone.
WriteUpdate(r) ==
    LET req == request[r] IN
    /\ req.pc = "read" /\ req.kind = "update"
    /\ LockFree(r)
    /\ IF Get(req.asked, "category", product[req.target].category) \in categories
       THEN /\ product' = [product EXCEPT ![req.target] = Updated(@, req.asked, req.read)]
            /\ Set(r, "done")
       ELSE Set(r, "refused") /\ UNCHANGED product
    /\ UNCHANGED <<categories, events>>

WriteCreate(r) ==
    LET req == request[r] IN
    /\ req.pc = "read" /\ req.kind = "create"
    /\ LockFree(r)
    /\ \/ /\ req.asked.category \in categories
          /\ \E p \in Products :
                /\ product[p].state = "absent"
                /\ product' = [product EXCEPT ![p] =
                        [state |-> "live", category |-> req.asked.category,
                         price |-> req.asked.price,
                         at |-> Reassigned(req.asked, << >>, req.asked.price)]]
          /\ Set(r, "done")
       \/ req.asked.category \notin categories /\ Set(r, "refused") /\ UNCHANGED product
    /\ UNCHANGED <<categories, events>>

\* deleteProductById keeps the row, its category and its assignments.
WriteDelete(r) ==
    /\ request[r].pc = "locked" /\ request[r].kind = "delete"
    /\ product' = [product EXCEPT ![request[r].target].state = "deleted"]
    /\ Set(r, "done")
    /\ UNCHANGED <<categories, events>>

AddCategory(r) ==
    /\ request[r].pc = "posted" /\ request[r].kind = "addCategory"
    /\ categories' = categories \cup {request[r].target}
    /\ Set(r, "done")
    /\ UNCHANGED <<product, events>>

LockCategory(r) ==
    /\ request[r].pc = "posted" /\ request[r].kind = "dropCategory"
    /\ LockFree(r)
    /\ Set(r, IF request[r].target \in categories THEN "locked" ELSE "refused")
    /\ UNCHANGED <<categories, product, events>>

\* The foreign key of a product, deleted or not, keeps its category.
DropCategory(r) ==
    /\ request[r].pc = "locked" /\ request[r].kind = "dropCategory"
    /\ IF \E p \in Products : product[p].state # "absent"
                                /\ product[p].category = request[r].target
       THEN Set(r, "refused") /\ UNCHANGED categories
       ELSE Set(r, "done") /\ categories' = categories \ {request[r].target}
    /\ UNCHANGED <<product, events>>

\* MySQL ends a deadlock by rolling one of its transactions back.
EndDeadlock(r) ==
    /\ \E q \in Requests : WaitsFor(r, q) /\ WaitsFor(q, r)
    /\ Set(r, "refused")
    /\ UNCHANGED <<categories, product, events>>

Serve(r) ==
    \/ Check(r) \/ LockProduct(r) \/ ReadAssignments(r)
    \/ WriteUpdate(r) \/ WriteCreate(r) \/ WriteDelete(r)
    \/ AddCategory(r) \/ LockCategory(r) \/ DropCategory(r)
    \/ EndDeadlock(r)
-----------------------------------------------------------------------------
Writes(r) == request[r].pc # "done" /\ request'[r].pc = "done"

\* The change leaves as it is what it was not asked to change.
LeavesRest(r) ==
    /\ \A p \in Products \ {request[r].target} :
          product'[p] = product[p] \/ (request[r].kind = "create" /\ ~Live(p))
    /\ \A p \in Products : product'[p].state = "live" => product'[p].category \in categories'
    /\ request[r].kind = "update" =>
        LET old == product[request[r].target]
            new == product'[request[r].target]
            kept(f) == f \notin DOMAIN request[r].asked
        IN  /\ kept("category") => new.category = old.category
            /\ kept("price") => new.price = old.price
            /\ kept("stalls") => DOMAIN new.at = DOMAIN old.at
            /\ \A s \in DOMAIN new.at \cap DOMAIN old.at :
                  /\ kept("price") => new.at[s].price = old.at[s].price
                  /\ kept("visible") => new.at[s].visible = old.at[s].visible

\* Whatever changes run side by side, each leaves as it is what it was not asked
\* to change, as the last change left it: other products, the columns it does
\* not name, and on the stalls that keep the product the price and visibility it
\* does not name.  A new product belongs to a category that exists.
LeavesRestAlone == [][\A r \in Requests : Writes(r) => LeavesRest(r)]_catalogVars
=============================================================================
