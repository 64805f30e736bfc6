------------------------------- MODULE Checkout -------------------------------
(***************************************************************************)
(* The cash checkout of one terminal (CashierPage, useOrders, useCart).    *)
(* The cart and the checkout under way are kept in localStorage too, so    *)
(* that a reload can resume them (cartRecovery, pendingCheckout).  A       *)
(* checkout creates the order under an idempotency key and then confirms   *)
(* the cash; every request or answer may be lost, and a request given up   *)
(* may reach the server later.  The server side is OrderPlacement and      *)
(* CashSettlement, reduced to what the terminal sees.  KHQR is disabled    *)
(* (KHQR_ENABLED), so every order is a cash order and none is cancelled.   *)
(***************************************************************************)
EXTENDS Integers, Sequences, FiniteSets

CONSTANTS
    Baskets,       \* contents a cart may have
    Empty,         \* the empty cart
    PatientUser,   \* the cashier touches nothing while a recovery is under way: nothing
                   \* in the page enforces it
    MaxKeys,       \* bound: idempotency keys drawn
    MaxLoads,      \* bound: times the page is loaded
    MaxFailed,     \* bound: loads whose product list fails
    MaxLost,       \* bound: requests or answers lost
    MaxRefreshes,  \* bound: access tokens renewed while the page is open
    MaxEdits       \* bound: changes of the cart

ASSUME EmptyAssumption == Empty \notin Baskets
ASSUME PatienceAssumption == PatientUser \in BOOLEAN
ASSUME BoundsAssumption ==
    {MaxKeys, MaxLoads, MaxFailed, MaxLost, MaxRefreshes, MaxEdits} \subseteq Nat

VARIABLES
    page,        \* "closed", "loading" (products on their way), "restoring" (the stored
                 \* cart is read, the timer that shows it set) or "open"
    online,      \* useBackendAvailability
    cart, savedCart,         \* the cart, and its copy in localStorage
    restored,    \* the cart the timer is going to show
    pending, savedPending,   \* pendingCheckoutRef, and its copy in localStorage
    dialog,      \* the cash dialog: closed, or open with the order it shows (0: the cart)
    run,         \* the call of handleCheckout under way
    recovery,    \* the recovery request whose answer is waited for
    orders,      \* the server's orders, in order of creation
    stray,       \* requests nobody waits for that may still reach the server
    keys,        \* idempotency keys drawn so far
    budget,
    sale, built, overtaken, acknowledged, begun, touched  \* history, see below

store == <<savedCart, savedPending>>
history == <<sale, built, overtaken, acknowledged, begun, touched>>
vars == <<page, online, cart, restored, pending, store, dialog, run, recovery, orders, stray,
          keys, budget, history>>
-----------------------------------------------------------------------------
\* History: sale counts customers, one ends when the cart is emptied; built is the
\* cart as the cashier made it, or agreed to when paying began; overtaken says that
\* its last change fell before a restored cart was shown over it; acknowledged holds
\* the orders the page took for paid; begun says that a checkout of this sale was
\* begun, and touched holds the sales whose cart became another one after that.

Order == [key : Nat, basket : Baskets, sale : Nat, status : {"pending", "paid"}]
NoPending == [basket |-> Empty, key |-> 0, order |-> 0]
Pending == [basket : Baskets \cup {Empty}, key : Nat, order : Nat]

NoRun == [step |-> "idle", p |-> NoPending, basket |-> Empty,
          sale |-> 0, net |-> "none", result |-> "open", order |-> 0]
Run == [step : {"idle", "create", "fetch", "confirm"}, p : Pending,
        basket : Baskets \cup {Empty}, sale : Nat,
        net : {"none", "sent", "answered"}, result : {"open", "ok", "paid", "error", "lost"},
        order : Nat]

NoRecovery == [net |-> "none", order |-> 0, status |-> "open"]

TypeOK ==
    /\ page \in {"closed", "loading", "restoring", "open"} /\ online \in BOOLEAN
    /\ {cart, savedCart, restored, built} \subseteq Baskets \cup {Empty}
    /\ overtaken \in BOOLEAN
    /\ {pending, savedPending} \subseteq Pending
    /\ dialog \in [open : BOOLEAN, order : 0..Len(orders)]
    /\ run \in Run
    /\ recovery \in [net : {"none", "sent", "answered"}, order : 0..Len(orders),
                     status : {"open", "pending", "paid"}]
    /\ orders \in Seq(Order)
    /\ keys \in Nat /\ sale \in Nat
    /\ acknowledged \subseteq DOMAIN orders /\ begun \in BOOLEAN /\ touched \subseteq 0..sale
    /\ budget \in [{"loads", "failed", "lost", "refreshes", "edits"} -> Nat]

Init ==
    /\ page = "closed" /\ online = FALSE
    /\ cart = Empty /\ savedCart = Empty /\ restored = Empty
    /\ pending = NoPending /\ savedPending = NoPending
    /\ dialog = [open |-> FALSE, order |-> 0]
    /\ run = NoRun /\ recovery = NoRecovery
    /\ orders = << >> /\ stray = {} /\ keys = 0
    /\ budget = [loads |-> MaxLoads, failed |-> MaxFailed, lost |-> MaxLost,
                 refreshes |-> MaxRefreshes, edits |-> MaxEdits]
    /\ sale = 1 /\ built = Empty /\ overtaken = FALSE
    /\ acknowledged = {} /\ begun = FALSE /\ touched = {}
-----------------------------------------------------------------------------
Spend(kind) == budget[kind] > 0 /\ budget' = [budget EXCEPT ![kind] = @ - 1]
Busy == run.step # "idle"
Recovering == recovery.net # "none"
Hands == page # "closed" /\ (PatientUser => ~Recovering)

\* Emptying the cart, in memory and in localStorage, ends the sale (clearCart); a
\* cart that was read before stays with its timer.
EmptyCart ==
    /\ cart' = Empty /\ savedCart' = Empty /\ built' = Empty
    /\ overtaken' = (page = "restoring")
    /\ sale' = sale + 1 /\ begun' = FALSE

\* What of a request under way may still happen on the server.
Afterlife == IF run.net = "sent" /\ run.step \in {"create", "confirm"} THEN stray \cup {run}
             ELSE stray

\* The effect that asks for the order of the pending checkout; it runs anew, and
\* waits no longer for an earlier answer, when the session is applied again.
RecoveryStarted ==
    IF savedPending.order = 0 THEN NoRecovery
    ELSE [net |-> "sent", order |-> savedPending.order, status |-> "open"]

\* The page is loaded: the pending checkout is read, and its order asked for.
Load ==
    /\ page = "closed" /\ Spend("loads")
    /\ page' = "loading"
    /\ pending' = savedPending
    /\ recovery' = RecoveryStarted
    /\ UNCHANGED <<online, cart, restored, store, dialog, run, orders, stray, keys, history>>

\* Faulty variant: the cart starts empty whatever was saved.
RestoresNothing(loaded) == Empty

\* reconcileRecoveredCart keeps what the product list has: all of it here, unless
\* the list could not be loaded and is empty.
Restored(loaded) == IF loaded THEN savedCart ELSE Empty

\* The product request ends, well or not, and the stored cart is read; a list that
\* is refreshed before the timer has fired has it read again.
ReadCart(loaded) ==
    /\ page = "loading" \/ (page = "restoring" /\ loaded)
    /\ IF loaded THEN UNCHANGED budget ELSE Spend("failed")
    /\ page' = "restoring"
    /\ restored' = Restored(loaded)
    /\ UNCHANGED <<online, cart, pending, store, dialog, run, recovery, orders, stray, keys,
                   history>>

\* The timer fires: what was read becomes the cart, whatever happened in between,
\* and is saved again.
ShowCart ==
    /\ page = "restoring"
    /\ page' = "open"
    /\ cart' = restored /\ savedCart' = restored /\ restored' = Empty
    /\ touched' = IF begun /\ restored \notin {built, Empty} THEN touched \cup {sale}
                  ELSE touched
    /\ UNCHANGED <<online, pending, savedPending, dialog, run, recovery, orders, stray, keys,
                   budget, sale, built, overtaken, acknowledged, begun>>

\* A renewed access token applies the session again: pending checkout and, where
\* its timer has not fired, cart are read anew (an empty reading stays empty).
SessionRefreshed ==
    /\ page # "closed" /\ Spend("refreshes")
    /\ pending' = savedPending
    /\ recovery' = RecoveryStarted
    /\ restored' = IF restored # Empty THEN savedCart ELSE Empty
    /\ UNCHANGED <<page, online, cart, store, dialog, run, orders, stray, keys, history>>

\* A reload, a crash or a logout: memory is lost, requests keep travelling.
ClosePage ==
    /\ page # "closed" /\ budget["loads"] > 0
    /\ page' = "closed" /\ online' = FALSE
    /\ cart' = Empty /\ restored' = Empty /\ pending' = NoPending
    /\ dialog' = [open |-> FALSE, order |-> 0]
    /\ run' = NoRun /\ recovery' = NoRecovery
    /\ stray' = Afterlife
    /\ UNCHANGED <<store, orders, keys, budget, history>>

HealthCheck ==
    /\ page # "closed" /\ ~online
    /\ online' = TRUE
    /\ UNCHANGED <<page, restored, cart, pending, store, dialog, run, recovery, orders, stray,
                   keys, budget, history>>

\* Items are added, removed or counted anew; the dialog covers the menu, and nothing
\* is saved before the stored cart was shown.
EditCart(b) ==
    /\ Hands /\ ~Busy /\ ~dialog.open /\ b # cart /\ Spend("edits")
    /\ cart' = b /\ built' = b
    /\ savedCart' = IF page = "open" THEN b ELSE savedCart
    /\ overtaken' = (page # "open")
    /\ touched' = IF begun THEN touched \cup {sale} ELSE touched
    /\ UNCHANGED <<page, online, restored, pending, savedPending, dialog, run, recovery,
                   orders, stray, keys, sale, acknowledged, begun>>

\* Clear: the pending checkout is left alone.
ClearCart ==
    /\ Hands /\ ~Busy /\ ~dialog.open /\ cart # Empty
    /\ EmptyCart
    /\ UNCHANGED <<page, online, restored, pending, savedPending, dialog, run, recovery,
                   orders, stray, keys, budget, acknowledged, touched>>
-----------------------------------------------------------------------------
(* The dialog and handleCheckout. *)

OpenDialog ==
    /\ Hands /\ ~Busy /\ ~dialog.open /\ online /\ cart # Empty
    /\ dialog' = [open |-> TRUE, order |-> 0]
    /\ UNCHANGED <<page, online, restored, cart, pending, store, run, recovery, orders, stray,
                   keys, budget, history>>

CancelDialog ==
    /\ dialog.open /\ ~Busy
    /\ dialog' = [open |-> FALSE, order |-> 0]
    /\ UNCHANGED <<page, online, restored, cart, pending, store, run, recovery, orders, stray,
                   keys, budget, history>>

Remembered == IF pending # NoPending THEN pending ELSE savedPending

\* Faulty variant: every call draws a key of its own, as before recovery was added.
NeverReuse(p) == FALSE

\* Faulty variant: a created order is left behind when the cart differs.
ReusesSameBasket(p) == p # NoPending /\ p.basket = cart

\* A created order is resumed whatever is in the cart now; a key is used again for
\* the same contents (createCheckoutSignature).
Reuses(p) == p.order # 0 \/ (p # NoPending /\ p.basket = cart)

Confirm ==
    /\ Hands /\ dialog.open /\ ~Busy /\ online
    /\ cart # Empty \/ Remembered.order # 0
    /\ LET reuse == Reuses(Remembered)
           p == IF reuse THEN Remembered
                ELSE [basket |-> cart, key |-> keys + 1, order |-> 0]
       IN
       /\ reuse \/ keys < MaxKeys
       /\ keys' = IF reuse THEN keys ELSE keys + 1
       /\ pending' = p
       /\ savedPending' = p
       /\ begun' = TRUE
       /\ built' = IF cart = Empty THEN built ELSE cart
       /\ run' = [step |-> IF p.order # 0 THEN "fetch" ELSE "create", p |-> p,
                  basket |-> cart,
                  sale |-> sale, net |-> "sent", result |-> "open", order |-> p.order]
    /\ UNCHANGED <<page, online, cart, restored, savedCart, dialog, recovery, orders, stray,
                   budget, sale, overtaken, acknowledged, touched>>
-----------------------------------------------------------------------------
(* The server: POST /orders with its idempotency key, GET and confirm-cash. *)

Known(key) == {i \in DOMAIN orders : orders[i].key = key}
Placed(x) == Append(orders, [key |-> x.p.key, basket |-> x.basket, sale |-> x.sale,
                             status |-> "pending"])
PaidOrders(i) == [orders EXCEPT ![i].status = "paid"]

Effect(x) ==
    CASE x.step = "create" /\ Known(x.p.key) = {} -> Placed(x)
      [] x.step = "confirm" /\ orders[x.order].status = "pending" -> PaidOrders(x.order)
      [] OTHER -> orders

\* The answer: the order as it is by then, or an error.
Answer(i) == [result |-> IF orders[i].status = "paid" THEN "paid" ELSE "ok", order |-> i]
Failure(x) == [result |-> "error", order |-> x.order]

Outcome(x) ==
    CASE x.step = "create" /\ Known(x.p.key) = {} -> [result |-> "ok", order |-> Len(orders) + 1]
      [] x.step = "create" /\ Known(x.p.key) # {} ->
            LET i == CHOOSE i \in Known(x.p.key) : TRUE IN
              IF orders[i].basket = x.basket THEN Answer(i) ELSE Failure(x)
      [] x.step = "fetch" -> Answer(x.order)
      [] x.step = "confirm" /\ orders[x.order].status = "pending" ->
            [result |-> "paid", order |-> x.order]
      [] OTHER -> Failure(x)

Serve ==
    /\ run.net = "sent"
    /\ orders' = Effect(run)
    /\ run' = [run EXCEPT !.net = "answered", !.result = Outcome(run).result,
                          !.order = Outcome(run).order]
    /\ UNCHANGED <<page, online, restored, cart, pending, store, dialog, recovery, stray,
                   keys, budget, history>>

\* The request is refused: validation, an underpaid tender, a server error.
Refuse ==
    /\ run.net = "sent"
    /\ run' = [run EXCEPT !.net = "answered", !.result = "error"]
    /\ Spend("lost")
    /\ UNCHANGED <<page, online, restored, cart, pending, store, dialog, recovery, orders,
                   stray, keys, history>>

\* The connection fails (status 0): before, while or after the server works.
Lose ==
    /\ run.net \in {"sent", "answered"} /\ run.result # "lost"
    /\ stray' = Afterlife
    /\ run' = [run EXCEPT !.net = "answered", !.result = "lost"]
    /\ Spend("lost")
    /\ UNCHANGED <<page, online, restored, cart, pending, store, dialog, recovery, orders,
                   keys, history>>

ServeStray(x) ==
    /\ x \in stray
    /\ orders' = Effect(x)
    /\ stray' = stray \ {x}
    /\ UNCHANGED <<page, online, restored, cart, pending, store, dialog, run, recovery, keys,
                   budget, history>>

ServeRecovery ==
    /\ recovery.net = "sent"
    /\ recovery' = [recovery EXCEPT !.net = "answered", !.status = orders[recovery.order].status]
    /\ UNCHANGED <<page, online, restored, cart, pending, store, dialog, run, orders, stray,
                   keys, budget, history>>
-----------------------------------------------------------------------------
(* Continuations of handleCheckout. *)

\* setActiveReceipt
Receipts(i) == acknowledged \cup {i}

\* completeCheckoutWithoutBlocking, and the receipt.
Complete(i) ==
    /\ acknowledged' = Receipts(i)
    /\ pending' = NoPending /\ savedPending' = NoPending
    /\ EmptyCart
    /\ dialog' = [open |-> FALSE, order |-> 0]
    /\ run' = NoRun
    /\ UNCHANGED touched

\* Faulty variant: the order's number is kept in memory only.
NumberNotSaved(p) == savedPending

\* The number of a created order is written down before it is confirmed.
NumberSaved(p) == p

Confirming(p) == [run EXCEPT !.step = "confirm", !.p = p, !.net = "sent", !.result = "open"]

AfterCreate ==
    /\ run.step = "create" /\ run.net = "answered" /\ run.result = "ok"
    /\ LET p == [run.p EXCEPT !.order = run.order] IN
       /\ pending' = p /\ savedPending' = NumberSaved(p)
       /\ run' = Confirming(p)
    /\ UNCHANGED <<page, online, restored, cart, savedCart, dialog, recovery, orders, stray,
                   keys, budget, history>>

AfterFetch ==
    /\ run.step = "fetch" /\ run.net = "answered" /\ run.result = "ok"
    /\ run' = Confirming(run.p)
    /\ UNCHANGED <<page, online, restored, cart, pending, store, dialog, recovery, orders,
                   stray, keys, budget, history>>

\* The cash was confirmed, or the order turned out to be paid already.
AfterPaid ==
    /\ run.net = "answered" /\ run.result = "paid"
    /\ Complete(run.order)
    /\ UNCHANGED <<page, online, restored, recovery, orders, stray, keys, budget>>

\* The error is shown; cart, key and dialog stay for another try.
AfterError ==
    /\ run.net = "answered" /\ run.result \in {"error", "lost"}
    /\ run' = NoRun
    /\ online' = (online /\ run.result # "lost")
    /\ UNCHANGED <<page, restored, cart, pending, store, dialog, recovery, orders, stray,
                   keys, budget, history>>

\* The recovery answers: a paid order ends the checkout, a pending one opens the
\* dialog with its totals.
AfterRecovery ==
    /\ page # "closed" /\ recovery.net = "answered"
    /\ recovery' = NoRecovery
    /\ IF recovery.status = "paid"
       THEN /\ acknowledged' = Receipts(recovery.order)
            /\ pending' = NoPending /\ savedPending' = NoPending
            /\ EmptyCart
            /\ UNCHANGED <<dialog, touched>>
       ELSE /\ dialog' = [open |-> TRUE, order |-> recovery.order]
            /\ UNCHANGED <<cart, pending, store, history>>
    /\ UNCHANGED <<page, online, restored, run, orders, stray, keys, budget>>

\* A recovery that fails leaves everything as it is.
LoseRecovery ==
    /\ Recovering /\ Spend("lost")
    /\ recovery' = NoRecovery
    /\ UNCHANGED <<page, online, restored, cart, pending, store, dialog, run, orders, stray,
                   keys, history>>
-----------------------------------------------------------------------------
Next ==
    \/ Load \/ ClosePage \/ HealthCheck \/ ClearCart \/ OpenDialog \/ CancelDialog
    \/ \E loaded \in BOOLEAN : ReadCart(loaded)
    \/ ShowCart \/ SessionRefreshed
    \/ \E b \in Baskets : EditCart(b)
    \/ Confirm \/ Serve \/ Refuse \/ Lose
    \/ \E x \in stray : ServeStray(x)
    \/ AfterCreate \/ AfterFetch \/ AfterPaid \/ AfterError
    \/ ServeRecovery \/ AfterRecovery \/ LoseRecovery

Spec == Init /\ [][Next]_vars
-----------------------------------------------------------------------------
(* Properties. *)

OrdersOf(n) == {i \in DOMAIN orders : orders[i].sale = n}

\* Whatever is lost, reloaded or refreshed, a customer whose cart does not change once
\* paying has begun has one order (PRODUCTION_READINESS_AUDIT P0-1).
OneOrderPerSale == \A n \in 1..sale : n \notin touched => Cardinality(OrdersOf(n)) <= 1

\* No customer pays two orders, not even after changing the cart between attempts.  A
\* cart that a late timer brings back after its payment is the next customer's.
OnePaidPerSale ==
    \A n \in 1..sale : Cardinality({i \in OrdersOf(n) : orders[i].status = "paid"}) <= 1

\* A paid order the terminal does not know to be paid is still written down in its
\* storage.  It holds of a PatientUser: an impatient one may begin a checkout beside a
\* recovery, whose late answer then forgets the new order.
PaidIsRemembered ==
    \A i \in DOMAIN orders : orders[i].status = "paid" /\ i \notin acknowledged
                                => savedPending.order = i

\* Across reloads and recoveries the cart on the screen is the one the cashier built,
\* and a cart that was paid for is gone.  The one exception is a last change that
\* fell before the timer of a restored cart: a payment recovered in between, or a tap
\* on a menu that shows early, is undone by it.
CartSurvives == page = "open" /\ ~overtaken => cart = built
=============================================================================
