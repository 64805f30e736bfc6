--------------------------- MODULE CheckoutProofs ---------------------------
(***************************************************************************)
(* Proofs about Checkout.  CheckoutInv is inductive without any premise    *)
(* on the cashier or on what fails; PatientInv and CartInv are inductive   *)
(* beside it, each under the premise of the theorem it serves.             *)
(***************************************************************************)
EXTENDS Checkout, FiniteSetTheorems, TLAPS

\* Sale and key of each stored order and of each create request that may still
\* store one.
Claims == {<<orders[i].sale, orders[i].key>> : i \in DOMAIN orders}
            \cup {<<x.sale, x.p.key>> : x \in {y \in stray \cup {run} : y.step = "create"}}

\* A request names what it acts on.
Sound(x) ==
    /\ x \in Run
    /\ x.p.key \in 1..keys /\ x.sale \in 1..sale
    /\ x.step = "create" => x.basket \in Baskets /\ x.p.order = 0
    /\ x.step \in {"fetch", "confirm"} =>
          x.order = x.p.order /\ x.order \in DOMAIN orders /\ orders[x.order].key = x.p.key

\* What the terminal remembers exists.
MemoryInv ==
    /\ pending = IF page = "closed" THEN NoPending ELSE savedPending
    /\ page = "closed" => run = NoRun /\ recovery = NoRecovery
    /\ page = "closed" => cart = Empty
    /\ page = "open" => savedCart = cart
    /\ savedPending = NoPending \/ savedPending.key \in 1..keys
    /\ savedPending.order # 0 => /\ savedPending.order \in DOMAIN orders
                                 /\ orders[savedPending.order].key = savedPending.key
    /\ Recovering => recovery.order \in DOMAIN orders
    /\ recovery.status = "paid" => /\ recovery.order \in DOMAIN orders
                                  /\ orders[recovery.order].status = "paid"

\* Keys are unique, and requests and their answers are about what there is.
RequestInv ==
    /\ 1 <= sale
    /\ \A i \in DOMAIN orders : orders[i].key \in 1..keys /\ orders[i].sale \in 1..sale
    /\ \A i, j \in DOMAIN orders : orders[i].key = orders[j].key => i = j
    /\ \A x \in stray : Sound(x) /\ x.step \in {"create", "confirm"}
    /\ IF Busy THEN Sound(run) ELSE run = NoRun
    /\ run.result \in {"ok", "paid"} => /\ run.order \in DOMAIN orders
                                        /\ orders[run.order].key = run.p.key
    /\ run.result = "paid" => orders[run.order].status = "paid"

\* The sale on the screen and the call under way.
ScreenInv ==
    /\ \A c \in Claims : c[1] = sale => begun
    /\ begun /\ Busy => run.sale = sale
    /\ Busy => run.p = savedPending \/ (savedPending = NoPending /\ ~begun)

\* Until its cart is changed a sale has one key, and resumes what it has begun.
SaleInv ==
    /\ \A c, d \in Claims : c[1] = d[1] /\ c[1] \notin touched => c[2] = d[2]
    /\ \A c \in Claims : c[1] = sale /\ sale \notin touched => c[2] = savedPending.key
    /\ begun /\ sale \notin touched =>
          /\ savedPending # NoPending
          /\ savedPending.order # 0 \/ (built = savedPending.basket
                                         /\ (page # "closed" => cart \in {built, Empty}))

\* Keys whose order is paid or may be paid by a request nobody waits for.
Settling == {orders[i].key : i \in {j \in DOMAIN orders : orders[j].status = "paid"}}
              \cup {x.p.key : x \in {y \in stray : y.step = "confirm"}}

\* Keys whose order is paid or may be.
Hot == Settling \cup {savedPending.key} \cup {run.p.key}

\* A sale has one key at most that ends in a payment.
PaymentInv ==
    /\ \A c, d \in Claims : c[1] = d[1] /\ c[2] \in Hot /\ d[2] \in Hot => c[2] = d[2]
    /\ \A c \in Claims : c[1] = sale /\ c[2] \in Settling => c[2] = savedPending.key
    /\ savedPending.key \in Settling => savedPending.order # 0
    /\ run.step = "create" => run.p.key \notin Settling

\* The invariant of the checkout.
CheckoutInv == TypeOK /\ MemoryInv /\ RequestInv /\ ScreenInv /\ SaleInv /\ PaymentInv

\* Of a patient user: a call or a recovery is under way for what is remembered, or for
\* an order that the other of the two found paid, and nobody else's payment is.
PatientInv ==
    /\ Busy => \/ run.p = savedPending
               \/ /\ savedPending = NoPending /\ run.p.order \in acknowledged
                  /\ run.step \in {"fetch", "confirm"}
    /\ Recovering => \/ recovery.order = savedPending.order
                     \/ savedPending = NoPending /\ recovery.order \in acknowledged
    /\ \A i \in acknowledged : orders[i].status = "paid"
    /\ \A x \in stray : x.step = "confirm" =>
          orders[x.order].status = "paid" \/ x.order = savedPending.order
    /\ PaidIsRemembered

\* No load of the products ever fails.  Unless a restored cart is shown over a later
\* change, the saved cart is the one that was built, what the timer will show is the
\* saved cart, and until it is shown nothing is on the screen.
CartInv ==
    /\ budget["failed"] = 0
    /\ ~overtaken => /\ savedCart = built
                     /\ page = "restoring" => restored = built
                     /\ page \in {"loading", "restoring"} => cart = Empty

-----------------------------------------------------------------------------
(* What single steps do. *)

\* The idle values, field by field.
LEMMA NothingTypes ==
    /\ NoPending \in Pending /\ NoRun \in Run
    /\ NoPending.basket = Empty /\ NoPending.key = 0 /\ NoPending.order = 0
    /\ NoRun.step = "idle" /\ NoRun.p = NoPending /\ NoRun.basket = Empty /\ NoRun.sale = 0
    /\ NoRun.net = "none" /\ NoRun.result = "open" /\ NoRun.order = 0
    /\ NoRecovery.net = "none" /\ NoRecovery.order = 0 /\ NoRecovery.status = "open"
BY DEF NoPending, NoRun, NoRecovery, Pending, Run

\* Spending keeps the budget typed.
LEMMA SpendType ==
    ASSUME TypeOK, NEW kind \in {"loads", "failed", "lost", "refreshes", "edits"}, Spend(kind)
    PROVE  budget' \in [{"loads", "failed", "lost", "refreshes", "edits"} -> Nat]
BY DEF TypeOK, Spend

\* What the server does to the orders: one is appended, or one is paid.
LEMMA EffectIs ==
    ASSUME TypeOK, NEW x, Sound(x), orders' = Effect(x)
    PROVE  /\ orders' \in Seq(Order)
           /\ \/ orders' = orders
              \/ /\ x.step = "create"
                 /\ \A i \in DOMAIN orders : orders[i].key # x.p.key
                 /\ Len(orders') = Len(orders) + 1
                 /\ \A i \in DOMAIN orders : orders'[i] = orders[i]
                 /\ orders'[Len(orders) + 1] = [key |-> x.p.key, basket |-> x.basket,
                                                sale |-> x.sale, status |-> "pending"]
              \/ /\ x.step = "confirm"
                 /\ Len(orders') = Len(orders)
                 /\ \A i \in DOMAIN orders : i # x.order => orders'[i] = orders[i]
                 /\ orders'[x.order].status = "paid"
                 /\ orders'[x.order].key = orders[x.order].key
                 /\ orders'[x.order].sale = orders[x.order].sale
<1>t. orders \in Seq(Order) /\ x \in Run /\ keys \in Nat /\ sale \in Nat
  BY DEF TypeOK, Sound
<1>1. CASE x.step = "create" /\ Known(x.p.key) = {}
  <2> DEFINE w == [key |-> x.p.key, basket |-> x.basket, sale |-> x.sale, status |-> "pending"]
  <2>1. w \in Order
    BY <1>1, <1>t DEF Order, Sound, Run, Pending
  <2>2. orders' = Append(orders, w)
    BY <1>1 DEF Effect, Placed
  <2>3. \A i \in DOMAIN orders : orders[i].key # x.p.key
    BY <1>1 DEF Known
  <2> HIDE DEF w
  <2>4. /\ orders' \in Seq(Order) /\ Len(orders') = Len(orders) + 1
        /\ \A i \in DOMAIN orders : orders'[i] = orders[i]
        /\ orders'[Len(orders) + 1] = w
    BY <2>1, <2>2, <1>t
  <2> QED
    BY <2>3, <2>4, <1>1 DEF w
<1>2. CASE x.step = "confirm" /\ orders[x.order].status = "pending"
  <2>1. orders' = [orders EXCEPT ![x.order].status = "paid"]
    BY <1>2 DEF Effect, PaidOrders
  <2>2. x.order \in DOMAIN orders
    BY <1>2 DEF Sound
  <2>3. orders[x.order] \in Order
    BY <2>2, <1>t
  <2> DEFINE w == [orders[x.order] EXCEPT !.status = "paid"]
  <2>4. /\ w \in Order /\ w.status = "paid" /\ w.key = orders[x.order].key
        /\ w.sale = orders[x.order].sale
    BY <2>3 DEF Order
  <2>5. orders' = [orders EXCEPT ![x.order] = w]
    BY <2>1
  <2> HIDE DEF w
  <2>6. /\ orders' \in Seq(Order) /\ Len(orders') = Len(orders)
        /\ \A i \in DOMAIN orders : i # x.order => orders'[i] = orders[i]
        /\ orders'[x.order] = w
    BY <2>2, <2>4, <2>5, <1>t
  <2> QED
    BY <2>4, <2>6, <1>2
<1>3. CASE ~(x.step = "create" /\ Known(x.p.key) = {})
           /\ ~(x.step = "confirm" /\ orders[x.order].status = "pending")
  <2>1. orders' = orders
    BY <1>3 DEF Effect
  <2> QED
    BY <2>1, <1>t
<1> QED
  BY <1>1, <1>2, <1>3

\* The form the other proofs use.
Grown ==
    /\ orders' \in Seq(Order) /\ Len(orders) <= Len(orders')
    /\ \A i \in DOMAIN orders :
          /\ i \in DOMAIN orders'
          /\ orders'[i].key = orders[i].key /\ orders'[i].sale = orders[i].sale
          /\ orders[i].status = "paid" => orders'[i].status = "paid"

\* No effect takes an order, its key or its payment away.
LEMMA EffectGrows ==
    ASSUME TypeOK, NEW x, Sound(x), orders' = Effect(x)
    PROVE  Grown
<1>t. orders \in Seq(Order)
  BY DEF TypeOK
<1>s. orders' \in Seq(Order)
  BY EffectIs
<1>d. /\ DOMAIN orders = 1..Len(orders) /\ Len(orders) \in Nat
      /\ orders' \in Seq(Order) /\ DOMAIN orders' = 1..Len(orders')
  BY <1>t, <1>s
<1>1. CASE orders' = orders
  BY <1>1, <1>d DEF Grown
<1>2. CASE /\ Len(orders') = Len(orders) + 1
           /\ \A i \in DOMAIN orders : orders'[i] = orders[i]
  BY <1>2, <1>d DEF Grown
<1>3. CASE /\ Len(orders') = Len(orders)
           /\ \A i \in DOMAIN orders : i # x.order => orders'[i] = orders[i]
           /\ orders'[x.order].status = "paid"
           /\ orders'[x.order].key = orders[x.order].key
           /\ orders'[x.order].sale = orders[x.order].sale
  <2> SUFFICES ASSUME NEW i \in DOMAIN orders
               PROVE  /\ i \in DOMAIN orders'
                      /\ orders'[i].key = orders[i].key /\ orders'[i].sale = orders[i].sale
                      /\ orders[i].status = "paid" => orders'[i].status = "paid"
    BY <1>3, <1>d DEF Grown
  <2>1. i \in DOMAIN orders'
    BY <1>3, <1>d
  <2>2. CASE i = x.order
    BY <2>1, <2>2, <1>3
  <2>3. CASE i # x.order
    BY <2>1, <2>3, <1>3
  <2> QED
    BY <2>2, <2>3
<1> QED
  BY <1>1, <1>2, <1>3, EffectIs

Base == TypeOK /\ MemoryInv /\ RequestInv

\* Typing of the parts that follow the orders, when these grow.
LEMMA FollowOrders ==
    ASSUME TypeOK, Grown
    PROVE  /\ dialog \in [open : BOOLEAN, order : 0..Len(orders')]
           /\ recovery \in [net : {"none", "sent", "answered"}, order : 0..Len(orders'),
                            status : {"open", "pending", "paid"}]
           /\ acknowledged \subseteq DOMAIN orders'
<1>1. Len(orders) \in Nat /\ Len(orders') \in Nat /\ Len(orders) <= Len(orders')
  BY DEF TypeOK, Grown
<1>2. 0..Len(orders) \subseteq 0..Len(orders')
  BY <1>1
<1> QED
  BY <1>2 DEF TypeOK, Grown

\* The parts of the state that calls of handleCheckout and requests leave alone.
LEMMA QuietTypes ==
    ASSUME TypeOK, MemoryInv, RequestInv,
           \/ Load \/ HealthCheck \/ OpenDialog \/ CancelDialog
           \/ \E loaded \in BOOLEAN : ReadCart(loaded)
           \/ ShowCart \/ SessionRefreshed
           \/ \E b \in Baskets : EditCart(b)
           \/ ServeRecovery \/ LoseRecovery
    PROVE  TypeOK'
<1> USE DEF TypeOK, store, history
<1>n. NoRecovery \in [net : {"none", "sent", "answered"}, order : 0..Len(orders),
                      status : {"open", "pending", "paid"}]
  BY DEF NoRecovery
<1>1. CASE Load \/ SessionRefreshed
  <2>1. budget' \in [{"loads", "failed", "lost", "refreshes", "edits"} -> Nat]
    BY <1>1, SpendType DEF Load, SessionRefreshed
  <2>2. RecoveryStarted \in [net : {"none", "sent", "answered"}, order : 0..Len(orders),
                             status : {"open", "pending", "paid"}]
    BY <1>n DEF RecoveryStarted, MemoryInv
  <2>3. recovery' = RecoveryStarted
    BY <1>1 DEF Load, SessionRefreshed
  <2> QED
    BY <1>1, <2>1, <2>2, <2>3 DEF Load, SessionRefreshed
<1>2. CASE HealthCheck
  BY <1>2 DEF HealthCheck
<1>d. Len(orders) \in Nat
  OBVIOUS
<1>3. CASE OpenDialog \/ CancelDialog
  <2>1. \E o \in BOOLEAN : dialog' = [open |-> o, order |-> 0]
    BY <1>3 DEF OpenDialog, CancelDialog
  <2>2. dialog' \in [open : BOOLEAN, order : 0..Len(orders)]
    BY <2>1, <1>d
  <2> QED
    BY <1>3, <2>2 DEF OpenDialog, CancelDialog
<1>4. ASSUME NEW loaded \in BOOLEAN, ReadCart(loaded) PROVE TypeOK'
  <2>1. budget' \in [{"loads", "failed", "lost", "refreshes", "edits"} -> Nat]
    <3>1. CASE loaded
      BY <1>4, <3>1 DEF ReadCart
    <3>2. CASE ~loaded
      BY <1>4, <3>2, SpendType DEF ReadCart
    <3> QED
      BY <3>1, <3>2
  <2> QED
    BY <1>4, <2>1 DEF ReadCart, Restored
<1>5. ASSUME NEW b \in Baskets, EditCart(b) PROVE TypeOK'
  <2>1. budget' \in [{"loads", "failed", "lost", "refreshes", "edits"} -> Nat]
    BY <1>5, SpendType DEF EditCart
  <2> QED
    BY <1>5, <2>1 DEF EditCart
<1>6. CASE ServeRecovery
  <2>1. recovery.order \in DOMAIN orders
    BY <1>6 DEF ServeRecovery, MemoryInv, Recovering
  <2>o. orders[recovery.order] \in Order
    BY <2>1
  <2>2. orders[recovery.order].status \in {"pending", "paid"}
    BY <2>o DEF Order
  <2>3. recovery' \in [net : {"none", "sent", "answered"}, order : 0..Len(orders),
                       status : {"open", "pending", "paid"}]
    BY <1>6, <2>2 DEF ServeRecovery
  <2> QED
    BY <1>6, <2>3 DEF ServeRecovery
<1>7. CASE LoseRecovery
  <2>1. budget' \in [{"loads", "failed", "lost", "refreshes", "edits"} -> Nat]
    BY <1>7, SpendType DEF LoseRecovery
  <2> QED
    BY <1>7, <1>n, <2>1 DEF LoseRecovery
<1>8. CASE ShowCart
  <2>1. touched' \subseteq 0..sale
    BY <1>8 DEF ShowCart
  <2> QED
    BY <1>8, <2>1 DEF ShowCart
<1> QED
  BY <1>1, <1>2, <1>3, <1>4, <1>5, <1>6, <1>7, <1>8

\* While the page is there, what is remembered is what was written down.
LEMMA RememberedTypes ==
    ASSUME TypeOK, MemoryInv, page # "closed"
    PROVE  /\ Remembered = savedPending /\ Remembered \in Pending
           /\ Remembered = NoPending \/ Remembered.key \in 1..keys
           /\ Remembered.order # 0 => /\ Remembered # NoPending
                                      /\ Remembered.order \in DOMAIN orders
                                      /\ orders[Remembered.order].key = Remembered.key
BY NothingTypes DEF TypeOK, MemoryInv, Remembered

-----------------------------------------------------------------------------
(* Calls of handleCheckout. *)

\* What Confirm writes down and sends.
LEMMA ConfirmIs ==
    ASSUME TypeOK, MemoryInv, RequestInv, Confirm
    PROVE  /\ page # "closed" /\ ~Busy /\ pending' = savedPending' /\ savedPending' \in Pending
           /\ keys' \in Nat /\ savedPending'.key \in 1..keys'
           /\ \/ /\ keys' = keys /\ savedPending' = savedPending /\ savedPending # NoPending
                 /\ savedPending.order # 0 \/ savedPending.basket = cart
              \/ /\ keys' = keys + 1 /\ savedPending'.key = keys + 1
                 /\ savedPending'.basket = cart /\ savedPending'.order = 0
                 /\ savedPending.order = 0
                 /\ savedPending = NoPending \/ savedPending.basket # cart
           /\ savedPending'.order = 0 => cart \in Baskets
           /\ run' \in Run /\ run'.p = savedPending' /\ run'.sale = sale /\ run'.basket = cart
           /\ run'.step = IF savedPending'.order # 0 THEN "fetch" ELSE "create"
           /\ run'.net = "sent" /\ run'.result = "open" /\ run'.order = savedPending'.order
<1>1. page # "closed" /\ ~Busy /\ (cart # Empty \/ Remembered.order # 0)
  BY DEF Confirm, Hands
<1>r. /\ Remembered = savedPending /\ Remembered \in Pending
      /\ Remembered = NoPending \/ Remembered.key \in 1..keys
      /\ Remembered.order # 0 => Remembered # NoPending
  BY <1>1, RememberedTypes
<1>t. keys \in Nat /\ sale \in Nat /\ cart \in Baskets \cup {Empty}
  BY DEF TypeOK
<1> DEFINE reuse == Reuses(Remembered)
           p == IF reuse THEN Remembered ELSE [basket |-> cart, key |-> keys + 1, order |-> 0]
<1>2. /\ keys' = IF reuse THEN keys ELSE keys + 1
      /\ pending' = p /\ savedPending' = p
      /\ run' = [step |-> IF p.order # 0 THEN "fetch" ELSE "create", p |-> p,
                 basket |-> cart,
                 sale |-> sale, net |-> "sent", result |-> "open", order |-> p.order]
  BY DEF Confirm
<1>3. CASE reuse
  <2>1. p = savedPending /\ keys' = keys /\ savedPending # NoPending
    BY <1>3, <1>2, <1>r DEF Reuses
  <2>2. savedPending.order # 0 \/ savedPending.basket = cart
    BY <1>3, <1>r DEF Reuses
  <2>3. savedPending'.order = 0 => cart \in Baskets
    BY <1>1, <1>2, <1>r, <1>t, <2>1
  <2> HIDE DEF p, reuse
  <2>4. p \in Pending /\ p.key \in 1..keys
    BY <2>1, <1>r
  <2>5. run' \in Run
    BY <1>2, <2>4, <1>t DEF Run, Pending
  <2> QED
    BY <1>1, <1>2, <1>t, <2>1, <2>2, <2>3, <2>4, <2>5
<1>4. CASE ~reuse
  <2>1. p = [basket |-> cart, key |-> keys + 1, order |-> 0] /\ keys' = keys + 1
    BY <1>4, <1>2
  <2>2. /\ p \in Pending /\ p.key = keys + 1 /\ p.basket = cart /\ p.order = 0
    BY <2>1, <1>t DEF Pending
  <2>3. savedPending.order = 0 /\ (savedPending = NoPending \/ savedPending.basket # cart)
    BY <1>4, <1>r DEF Reuses
  <2>4. cart \in Baskets
    BY <1>1, <1>r, <1>t, <2>3
  <2> HIDE DEF p, reuse
  <2>5. run' \in Run
    BY <1>2, <2>2, <1>t DEF Run, Pending
  <2> QED
    BY <1>1, <1>2, <1>t, <2>2, <2>1, <2>3, <2>4, <2>5
<1> QED
  BY <1>3, <1>4

\* The answer tells the truth about the orders as they are then.
LEMMA AnswerIs ==
    ASSUME TypeOK, RequestInv, Serve
    PROVE  /\ Sound(run) /\ Busy /\ Grown
           /\ run' \in Run /\ run'.step = run.step /\ run'.p = run.p /\ run'.basket = run.basket
           /\ run'.sale = run.sale /\ run'.net = "answered"
           /\ run'.result \in {"ok", "paid", "error"}
           /\ run'.result \in {"ok", "paid"} => /\ run'.order \in DOMAIN orders'
                                                /\ orders'[run'.order].key = run.p.key
           /\ run'.result = "paid" => orders'[run'.order].status = "paid"
           /\ run.step \in {"fetch", "confirm"} => run'.order = run.order
<1>s. Sound(run) /\ Busy
  <2>1. run.net = "sent"
    BY DEF Serve
  <2>2. run # NoRun
    BY <2>1, NothingTypes
  <2> QED
    BY <2>2, NothingTypes DEF RequestInv, Busy
<1>o. orders' = Effect(run)
  BY DEF Serve
<1>g. Grown
  BY <1>s, <1>o, EffectGrows
<1>t. run \in Run /\ orders \in Seq(Order) /\ run.step \in {"create", "fetch", "confirm"}
  BY <1>s DEF TypeOK, Busy, Run
<1> DEFINE out == Outcome(run)
<1>r. run' = [run EXCEPT !.net = "answered", !.result = out.result, !.order = out.order]
  BY DEF Serve
<1>c. ASSUME /\ out.result \in {"ok", "paid", "error"} /\ out.order \in Nat
             /\ out.result \in {"ok", "paid"} => /\ out.order \in DOMAIN orders'
                                                 /\ orders'[out.order].key = run.p.key
             /\ out.result = "paid" => orders'[out.order].status = "paid"
             /\ run.step \in {"fetch", "confirm"} => out.order = run.order
      PROVE  /\ run' \in Run /\ run'.step = run.step /\ run'.p = run.p /\ run'.basket = run.basket
             /\ run'.sale = run.sale /\ run'.net = "answered"
             /\ run'.result \in {"ok", "paid", "error"}
             /\ run'.result \in {"ok", "paid"} => /\ run'.order \in DOMAIN orders'
                                                  /\ orders'[run'.order].key = run.p.key
             /\ run'.result = "paid" => orders'[run'.order].status = "paid"
             /\ run.step \in {"fetch", "confirm"} => run'.order = run.order
  <2> HIDE DEF out
  <2>1. run'.result = out.result /\ run'.order = out.order /\ run'.net = "answered"
        /\ run'.step = run.step /\ run'.p = run.p /\ run'.basket = run.basket
        /\ run'.sale = run.sale
    BY <1>r, <1>t DEF Run
  <2>2. run' \in Run
    BY <1>r, <1>t, <1>c DEF Run
  <2> QED
    BY <2>1, <2>2, <1>c
<1>1. CASE run.step = "create" /\ Known(run.p.key) = {}
  <2>1. out = [result |-> "ok", order |-> Len(orders) + 1]
    BY <1>1 DEF Outcome
  <2>2. orders' = Append(orders, [key |-> run.p.key, basket |-> run.basket, sale |-> run.sale,
                                  status |-> "pending"])
    BY <1>1, <1>o DEF Effect, Placed
  <2>3. [key |-> run.p.key, basket |-> run.basket, sale |-> run.sale, status |-> "pending"]
            \in Order
    BY <1>1, <1>t, <1>s DEF Order, Sound, Run, Pending
  <2>4. Len(orders) + 1 \in DOMAIN orders' /\ orders'[Len(orders) + 1].key = run.p.key
    BY <2>2, <2>3, <1>t
  <2>5. Len(orders) + 1 \in Nat
    BY <1>t
  <2> QED
    BY <1>1, <1>c, <1>s, <1>g, <2>1, <2>4, <2>5
<1>2. CASE run.step = "create" /\ Known(run.p.key) # {}
  <2> DEFINE i == CHOOSE i \in Known(run.p.key) : TRUE
  <2>1. i \in Known(run.p.key)
    BY <1>2
  <2>2. out = IF orders[i].basket = run.basket THEN Answer(i) ELSE Failure(run)
    BY <1>2 DEF Outcome
  <2>3. i \in DOMAIN orders /\ orders[i].key = run.p.key
    BY <2>1 DEF Known
  <2>4. orders' = orders
    BY <1>2, <1>o DEF Effect
  <2>5. i \in Nat /\ run.order \in Nat
    BY <2>3, <1>t DEF Run
  <2> HIDE DEF i
  <2>6. CASE orders[i].basket = run.basket
    <3>1. out.order = i /\ out.result = IF orders[i].status = "paid" THEN "paid" ELSE "ok"
      BY <2>2, <2>6 DEF Answer
    <3> QED
      BY <1>2, <1>c, <1>s, <1>g, <2>3, <2>4, <2>5, <3>1
  <2>7. CASE orders[i].basket # run.basket
    <3>1. out.order = run.order /\ out.result = "error"
      BY <2>2, <2>7 DEF Failure
    <3> QED
      BY <1>2, <1>c, <1>s, <1>g, <2>5, <3>1
  <2> QED
    BY <2>6, <2>7
<1>3. CASE run.step = "fetch"
  <2>1. out = Answer(run.order)
    BY <1>3 DEF Outcome
  <2>2. run.order \in DOMAIN orders /\ orders[run.order].key = run.p.key
    BY <1>3, <1>s DEF Sound
  <2>3. orders' = orders
    BY <1>3, <1>o DEF Effect
  <2>4. /\ out.order = run.order
        /\ out.result = IF orders[run.order].status = "paid" THEN "paid" ELSE "ok"
    BY <2>1 DEF Answer
  <2>5. run.order \in Nat
    BY <1>t DEF Run
  <2> QED
    BY <1>c, <1>s, <1>g, <2>2, <2>3, <2>4, <2>5
<1>4. CASE run.step = "confirm" /\ orders[run.order].status = "pending"
  <2>1. out = [result |-> "paid", order |-> run.order]
    BY <1>4 DEF Outcome
  <2>2. run.order \in DOMAIN orders /\ orders[run.order].key = run.p.key
    BY <1>4, <1>s DEF Sound
  <2>3. orders' = [orders EXCEPT ![run.order].status = "paid"]
    BY <1>4, <1>o DEF Effect, PaidOrders
  <2>o. orders[run.order] \in Order
    BY <2>2, <1>t
  <2>4. orders'[run.order].status = "paid"
    BY <2>2, <2>3, <2>o DEF Order
  <2>5. run.order \in Nat
    BY <1>t DEF Run
  <2>6. run.order \in DOMAIN orders' /\ orders'[run.order].key = run.p.key
    BY <1>g, <2>2 DEF Grown
  <2> QED
    BY <1>c, <1>s, <1>g, <2>1, <2>4, <2>5, <2>6
<1>5. CASE run.step = "confirm" /\ orders[run.order].status # "pending"
  <2>1. out = Failure(run)
    BY <1>5 DEF Outcome
  <2>2. out.order = run.order /\ out.result = "error"
    BY <2>1 DEF Failure
  <2>3. run.order \in Nat
    BY <1>t DEF Run
  <2> QED
    BY <1>c, <1>s, <1>g, <2>2, <2>3
<1> QED
  BY <1>1, <1>2, <1>3, <1>4, <1>5, <1>t

\* A call that goes on confirms the order it created or fetched.
LEMMA ConfirmingIs ==
    ASSUME RequestInv, Busy, NEW p \in Pending
    PROVE  LET r == Confirming(p) IN
           /\ r \in Run /\ r.step = "confirm" /\ r.p = p /\ r.basket = run.basket
           /\ r.sale = run.sale /\ r.net = "sent" /\ r.result = "open" /\ r.order = run.order
<1>1. run \in Run
  BY DEF RequestInv, Sound
<1>2. Confirming(p) = [run EXCEPT !.step = "confirm", !.p = p, !.net = "sent", !.result = "open"]
  BY DEF Confirming
<1> QED
  BY <1>1, <1>2 DEF Run

\* A call that is refused or lost keeps what it was about.
LEMMA GivenUpIs ==
    ASSUME RequestInv, Refuse \/ Lose
    PROVE  /\ Sound(run) /\ Busy
           /\ run' \in Run /\ run'.step = run.step /\ run'.p = run.p /\ run'.basket = run.basket
           /\ run'.sale = run.sale /\ run'.net = "answered" /\ run'.result \in {"error", "lost"}
           /\ run'.order = run.order
<1>1. run.net # "none"
  BY DEF Refuse, Lose
<1>2. Busy /\ Sound(run)
  BY <1>1, NothingTypes DEF RequestInv, Busy
<1>3. run \in Run
  BY <1>2 DEF Sound
<1>4. \E r \in {"error", "lost"} : run' = [run EXCEPT !.net = "answered", !.result = r]
  BY DEF Refuse, Lose
<1> QED
  BY <1>2, <1>3, <1>4 DEF Run

\* A call with a trace of work is under way, and sound.
LEMMA BusyIs ==
    ASSUME RequestInv, run.net # "none" \/ run.result # "open" \/ run.step # "idle"
    PROVE  Busy /\ Sound(run) /\ run \in Run /\ run.step \in {"create", "fetch", "confirm"}
<1>1. Busy /\ Sound(run)
  BY NothingTypes DEF RequestInv, Busy
<1> QED
  BY <1>1 DEF Sound, Run, Busy

\* A sale ends with its cart.
LEMMA EmptyCartIs ==
    ASSUME TypeOK, EmptyCart
    PROVE  /\ cart' = Empty /\ savedCart' = Empty /\ built' = Empty /\ begun' = FALSE
           /\ sale' = sale + 1 /\ sale' \in Nat /\ touched \subseteq 0..sale'
           /\ overtaken' \in BOOLEAN
BY DEF TypeOK, EmptyCart

\* The steps of calls and sales keep the types.
LEMMA CallTypes ==
    ASSUME TypeOK, MemoryInv, RequestInv,
           \/ ClosePage \/ ClearCart \/ Confirm \/ Serve \/ Refuse \/ Lose
           \/ \E x \in stray : ServeStray(x)
           \/ AfterCreate \/ AfterFetch \/ AfterPaid \/ AfterError \/ AfterRecovery
    PROVE  TypeOK'
<1>z. Len(orders) \in Nat /\ 0 \in 0..Len(orders)
  BY DEF TypeOK
<1>n. NoRecovery \in [net : {"none", "sent", "answered"}, order : 0..Len(orders),
                      status : {"open", "pending", "paid"}]
  BY <1>z DEF NoRecovery
<1>d. [open |-> FALSE, order |-> 0] \in [open : BOOLEAN, order : 0..Len(orders)]
  BY <1>z
<1> USE DEF store, history
<1>1. CASE ClosePage
  BY <1>1, <1>n, <1>d, NothingTypes DEF TypeOK, ClosePage
<1>2. CASE ClearCart
  BY <1>2, EmptyCartIs DEF TypeOK, ClearCart
<1>3. CASE Confirm
  <2>1. /\ keys' \in Nat /\ savedPending' \in Pending /\ pending' \in Pending /\ run' \in Run
    BY <1>3, ConfirmIs
  <2> QED
    BY <1>3, <2>1 DEF TypeOK, Confirm
<1>4. CASE Serve
  <2>1. run' \in Run /\ Grown
    BY <1>4, AnswerIs
  <2> QED
    BY <1>4, <2>1, FollowOrders DEF TypeOK, Serve, Grown
<1>5. CASE Refuse
  <2>1. run' \in Run /\ budget' \in [{"loads", "failed", "lost", "refreshes", "edits"} -> Nat]
    BY <1>5, GivenUpIs, SpendType DEF Refuse
  <2> QED
    BY <1>5, <2>1 DEF TypeOK, Refuse
<1>6. CASE Lose
  <2>1. run' \in Run /\ budget' \in [{"loads", "failed", "lost", "refreshes", "edits"} -> Nat]
    BY <1>6, GivenUpIs, SpendType DEF Lose
  <2> QED
    BY <1>6, <2>1 DEF TypeOK, Lose
<1>7. ASSUME NEW x \in stray, ServeStray(x) PROVE TypeOK'
  <2>1. Sound(x) /\ orders' = Effect(x)
    BY <1>7 DEF RequestInv, ServeStray
  <2>2. Grown
    BY <2>1, EffectGrows
  <2> QED
    BY <1>7, <2>2, FollowOrders DEF TypeOK, ServeStray, Grown
<1>8. CASE AfterCreate
  <2>1. Busy /\ run \in Run
    BY <1>8, BusyIs DEF AfterCreate
  <2>2. run.order \in Nat /\ run.p \in Pending
    BY <2>1 DEF Run
  <2> DEFINE p == [run.p EXCEPT !.order = run.order]
  <2>3. p \in Pending
    BY <2>2 DEF Pending
  <2>4. pending' = p /\ savedPending' = p /\ run' = Confirming(p)
    BY <1>8 DEF AfterCreate, NumberSaved
  <2> HIDE DEF p
  <2>5. pending' \in Pending /\ savedPending' \in Pending /\ run' \in Run
    BY <2>1, <2>3, <2>4, ConfirmingIs
  <2> QED
    BY <1>8, <2>5 DEF TypeOK, AfterCreate
<1>9. CASE AfterFetch
  <2>1. Busy /\ run \in Run
    BY <1>9, BusyIs DEF AfterFetch
  <2>2. run.p \in Pending
    BY <2>1 DEF Run
  <2>3. run' \in Run
    BY <1>9, <2>1, <2>2, ConfirmingIs DEF AfterFetch
  <2> QED
    BY <1>9, <2>3 DEF TypeOK, AfterFetch
<1>10. CASE AfterPaid
  <2>1. run.order \in DOMAIN orders
    BY <1>10 DEF AfterPaid, RequestInv
  <2>2. acknowledged' = acknowledged \cup {run.order} /\ run' = NoRun /\ EmptyCart
        /\ pending' = NoPending /\ savedPending' = NoPending /\ touched' = touched
        /\ dialog' = [open |-> FALSE, order |-> 0]
    BY <1>10 DEF AfterPaid, Complete, Receipts
  <2> QED
    BY <1>10, <1>d, <2>1, <2>2, EmptyCartIs, NothingTypes DEF TypeOK, AfterPaid
<1>11. CASE AfterError
  BY <1>11, NothingTypes DEF TypeOK, AfterError
<1>12. CASE AfterRecovery
  <2>0. recovery.order \in DOMAIN orders /\ recovery.order \in 0..Len(orders)
    BY <1>12 DEF AfterRecovery, MemoryInv, Recovering, TypeOK
  <2>1. CASE recovery.status = "paid"
    <3>1. acknowledged' = acknowledged \cup {recovery.order} /\ EmptyCart
          /\ pending' = NoPending /\ savedPending' = NoPending /\ touched' = touched
          /\ dialog' = dialog
      BY <1>12, <2>1 DEF AfterRecovery, Receipts
    <3> QED
      BY <1>12, <1>n, <2>0, <3>1, EmptyCartIs, NothingTypes DEF TypeOK, AfterRecovery
  <2>2. CASE recovery.status # "paid"
    <3>0. dialog' = [open |-> TRUE, order |-> recovery.order]
      BY <1>12, <2>2 DEF AfterRecovery
    <3>1. dialog' \in [open : BOOLEAN, order : 0..Len(orders)]
      BY <2>0, <3>0
    <3> QED
      BY <1>12, <1>n, <2>2, <3>1 DEF TypeOK, AfterRecovery
  <2> QED
    BY <2>1, <2>2
<1> QED
  BY <1>1, <1>2, <1>3, <1>4, <1>5, <1>6, <1>7, <1>8, <1>9, <1>10, <1>11, <1>12

\* Every step keeps the types.
LEMMA TypeStep ==
    ASSUME TypeOK, MemoryInv, RequestInv, [Next]_vars
    PROVE  TypeOK'
<1>1. CASE UNCHANGED vars
  BY <1>1 DEF TypeOK, vars, store, history
<1>2. CASE Next
  BY <1>2, QuietTypes, CallTypes DEF Next
<1> QED
  BY <1>1, <1>2

-----------------------------------------------------------------------------
(* The invariant of memory and requests. *)

\* Nothing the requests speak of goes away.
Later == Grown /\ keys <= keys' /\ sale <= sale'

\* Every step keeps what requests speak of.
LEMMA LaterStep ==
    ASSUME TypeOK, MemoryInv, RequestInv, [Next]_vars
    PROVE  Later /\ TypeOK'
<1>p. TypeOK'
  BY TypeStep
<1>k. keys \in Nat /\ sale \in Nat /\ orders \in Seq(Order)
  BY DEF TypeOK
<1>same. ASSUME UNCHANGED orders PROVE Grown
  BY <1>same, <1>k DEF Grown
<1>sell. ASSUME EmptyCart PROVE sale <= sale'
  BY <1>sell, <1>k DEF EmptyCart
<1> USE DEF store, history
<1>1. CASE UNCHANGED vars
  BY <1>1, <1>k, <1>p, <1>same DEF vars, Later
<1>2. CASE \/ Load \/ ClosePage \/ HealthCheck \/ OpenDialog \/ CancelDialog
           \/ \E loaded \in BOOLEAN : ReadCart(loaded)
           \/ ShowCart \/ SessionRefreshed
           \/ \E b \in Baskets : EditCart(b)
           \/ Refuse \/ Lose \/ AfterCreate \/ AfterFetch \/ AfterError
           \/ ServeRecovery \/ LoseRecovery
  <2>1. UNCHANGED <<orders, keys, sale>>
    BY <1>2 DEF Load, ClosePage, HealthCheck, OpenDialog, CancelDialog,
                ReadCart, ShowCart, SessionRefreshed, EditCart, Refuse, Lose, AfterCreate,
                AfterFetch, AfterError, ServeRecovery, LoseRecovery
  <2> QED
    BY <2>1, <1>k, <1>p, <1>same DEF Later
<1>3. CASE ClearCart \/ AfterPaid
  <2>1. UNCHANGED <<orders, keys>> /\ EmptyCart
    BY <1>3 DEF ClearCart, AfterPaid, Complete
  <2> QED
    BY <2>1, <1>k, <1>p, <1>same, <1>sell DEF Later
<1>4. CASE AfterRecovery
  <2>1. UNCHANGED <<orders, keys>> /\ (EmptyCart \/ UNCHANGED sale)
    BY <1>4 DEF AfterRecovery
  <2> QED
    BY <2>1, <1>k, <1>p, <1>same, <1>sell DEF Later
<1>5. CASE Confirm
  <2>1. UNCHANGED <<orders, sale>> /\ (keys' = keys \/ keys' = keys + 1)
    BY <1>5 DEF Confirm
  <2> QED
    BY <2>1, <1>k, <1>p, <1>same DEF Later
<1>6. CASE Serve
  BY <1>6, <1>k, <1>p, AnswerIs DEF Serve, Later
<1>7. ASSUME NEW x \in stray, ServeStray(x) PROVE Later
  <2>1. Sound(x) /\ orders' = Effect(x)
    BY <1>7 DEF RequestInv, ServeStray
  <2> QED
    BY <1>7, <2>1, <1>k, EffectGrows DEF ServeStray, Later
<1> QED
  BY <1>1, <1>2, <1>3, <1>4, <1>5, <1>6, <1>7, <1>p DEF Next

\* A request nobody changes stays sound.
LEMMA SoundKept ==
    ASSUME TypeOK, TypeOK', Later, NEW x, Sound(x)
    PROVE  Sound(x)'
<1>1. /\ keys \in Nat /\ keys' \in Nat /\ keys <= keys'
      /\ sale \in Nat /\ sale' \in Nat /\ sale <= sale'
  BY DEF TypeOK, Later
<1>2. x.p.key \in 1..keys' /\ x.sale \in 1..sale'
  BY <1>1 DEF Sound
<1>3. x.step \in {"fetch", "confirm"} =>
          x.order = x.p.order /\ x.order \in DOMAIN orders' /\ orders'[x.order].key = x.p.key
  BY DEF Sound, Later, Grown
<1> QED
  BY <1>2, <1>3 DEF Sound

\* The call under way stays sound as long as it keeps what it is about.
LEMMA RunKept ==
    ASSUME TypeOK, TypeOK', Later, Sound(run), run'.p.key = run.p.key, run'.sale = run.sale,
           run'.step = "create" =>
              run.step = "create" /\ run'.basket = run.basket /\ run'.p = run.p,
           run'.step \in {"fetch", "confirm"} =>
              run'.order = run'.p.order /\ run'.order \in DOMAIN orders
                /\ orders[run'.order].key = run.p.key
    PROVE  Sound(run)'
<1>1. /\ keys \in Nat /\ keys' \in Nat /\ keys <= keys'
      /\ sale \in Nat /\ sale' \in Nat /\ sale <= sale' /\ run' \in Run
  BY DEF TypeOK, Later
<1>2. run'.p.key \in 1..keys' /\ run'.sale \in 1..sale'
  BY <1>1 DEF Sound
<1>3. run'.step \in {"fetch", "confirm"} =>
          /\ run'.order = run'.p.order /\ run'.order \in DOMAIN orders'
          /\ orders'[run'.order].key = run'.p.key
  BY DEF Later, Grown
<1>4. run'.step = "create" => run'.basket \in Baskets /\ run'.p.order = 0
  BY DEF Sound
<1> QED
  BY <1>1, <1>2, <1>3, <1>4 DEF Sound

OrdersInv ==
    /\ 1 <= sale
    /\ \A i \in DOMAIN orders : orders[i].key \in 1..keys /\ orders[i].sale \in 1..sale
    /\ \A i, j \in DOMAIN orders : orders[i].key = orders[j].key => i = j
StrayInv == \A x \in stray : Sound(x) /\ x.step \in {"create", "confirm"}
CallInv ==
    /\ IF Busy THEN Sound(run) ELSE run = NoRun
    /\ run.result \in {"ok", "paid"} => /\ run.order \in DOMAIN orders
                                        /\ orders[run.order].key = run.p.key
    /\ run.result = "paid" => orders[run.order].status = "paid"

\* RequestInv, part by part.
LEMMA RequestParts == RequestInv <=> OrdersInv /\ StrayInv /\ CallInv
BY DEF RequestInv, OrdersInv, StrayInv, CallInv

\* An effect keeps keys unique and in bounds.
LEMMA EffectOrders ==
    ASSUME TypeOK, OrdersInv, NEW x, Sound(x), orders' = Effect(x), keys' = keys, sale' = sale
    PROVE  OrdersInv'
<1>g. Grown /\ orders \in Seq(Order) /\ orders' \in Seq(Order)
  BY EffectGrows DEF TypeOK, Grown
<1>d. /\ DOMAIN orders = 1..Len(orders) /\ Len(orders) \in Nat
      /\ DOMAIN orders' = 1..Len(orders')
  BY <1>g
<1>1. CASE DOMAIN orders' = DOMAIN orders
  BY <1>1, <1>g DEF OrdersInv, Grown
<1>2. CASE DOMAIN orders' # DOMAIN orders
  <2>1. /\ \A i \in DOMAIN orders : orders[i].key # x.p.key
        /\ Len(orders') = Len(orders) + 1
        /\ orders'[Len(orders) + 1] = [key |-> x.p.key, basket |-> x.basket,
                                       sale |-> x.sale, status |-> "pending"]
    BY <1>2, <1>d, EffectIs
  <2>2. orders'[Len(orders) + 1].key = x.p.key /\ orders'[Len(orders) + 1].sale = x.sale
    BY <2>1
  <2>3. \A i \in DOMAIN orders' : i \in DOMAIN orders \/ i = Len(orders) + 1
    BY <1>d, <2>1
  <2>4. x.p.key \in 1..keys /\ x.sale \in 1..sale
    BY DEF Sound
  <2>5. \A i \in DOMAIN orders' : orders'[i].key \in 1..keys /\ orders'[i].sale \in 1..sale
    BY <1>g, <2>2, <2>3, <2>4 DEF OrdersInv, Grown
  <2>6. ASSUME NEW i \in DOMAIN orders', NEW j \in DOMAIN orders', orders'[i].key = orders'[j].key
        PROVE  i = j
    <3>1. CASE i \in DOMAIN orders /\ j \in DOMAIN orders
      BY <3>1, <2>6, <1>g DEF OrdersInv, Grown
    <3>2. CASE i \in DOMAIN orders /\ j = Len(orders) + 1
      BY <3>2, <2>6, <1>g, <2>1, <2>2 DEF Grown
    <3>3. CASE i = Len(orders) + 1 /\ j \in DOMAIN orders
      BY <3>3, <2>6, <1>g, <2>1, <2>2 DEF Grown
    <3> QED
      BY <3>1, <3>2, <3>3, <2>3
  <2> QED
    BY <2>5, <2>6 DEF OrdersInv
<1> QED
  BY <1>1, <1>2

\* Every step keeps keys unique and in bounds.
LEMMA OrdersStep ==
    ASSUME TypeOK, MemoryInv, RequestInv, [Next]_vars
    PROVE  OrdersInv'
<1>0. OrdersInv /\ StrayInv /\ Later /\ TypeOK'
  BY RequestParts, LaterStep
<1>1. CASE Serve
  <2>1. Sound(run) /\ orders' = Effect(run) /\ keys' = keys /\ sale' = sale
    BY <1>1, AnswerIs DEF Serve, history
  <2> QED
    BY <1>0, <2>1, EffectOrders
<1>2. ASSUME NEW x \in stray, ServeStray(x) PROVE OrdersInv'
  <2>1. Sound(x) /\ orders' = Effect(x) /\ keys' = keys /\ sale' = sale
    BY <1>2, <1>0 DEF ServeStray, history, StrayInv
  <2> QED
    BY <1>0, <2>1, EffectOrders
<1>3. CASE UNCHANGED orders
  <2>1. /\ keys \in Nat /\ keys' \in Nat /\ keys <= keys'
        /\ sale \in Nat /\ sale' \in Nat /\ 1 <= sale /\ sale <= sale'
    BY <1>0 DEF TypeOK, Later, OrdersInv
  <2>2. \A i \in DOMAIN orders : orders[i].key \in 1..keys' /\ orders[i].sale \in 1..sale'
    BY <1>0, <2>1 DEF OrdersInv
  <2> QED
    BY <1>0, <1>3, <2>1, <2>2 DEF OrdersInv
<1>4. UNCHANGED orders \/ Serve \/ \E x \in stray : ServeStray(x)
  BY DEF Next, vars, Load, ClosePage, HealthCheck, OpenDialog, CancelDialog,
         ReadCart, ShowCart, SessionRefreshed, EditCart, Refuse, Lose, AfterCreate, AfterFetch,
         AfterError, ServeRecovery, LoseRecovery,
         ClearCart, AfterPaid, AfterRecovery, Confirm
<1> QED
  BY <1>1, <1>2, <1>3, <1>4

\* Every step leaves sound requests behind.
LEMMA StrayStep ==
    ASSUME TypeOK, MemoryInv, RequestInv, [Next]_vars
    PROVE  StrayInv'
<1>0. StrayInv /\ Later /\ TypeOK'
  BY RequestParts, LaterStep
<1>1. CASE stray' \subseteq stray
  BY <1>0, <1>1, SoundKept DEF StrayInv
<1>2. CASE stray' = Afterlife /\ (run.net = "sent" => UNCHANGED <<orders, keys, sale>>)
  <2>1. CASE run.net = "sent" /\ run.step \in {"create", "confirm"}
    <3>1. Sound(run) /\ stray' = stray \cup {run} /\ UNCHANGED <<orders, keys, sale>>
      BY <1>2, <2>1, BusyIs DEF Afterlife
    <3>2. ASSUME NEW x \in stray' PROVE Sound(x)' /\ x.step \in {"create", "confirm"}
      <4>1. CASE x \in stray
        BY <4>1, <1>0, SoundKept DEF StrayInv
      <4>2. CASE x = run
        BY <4>2, <2>1, <3>1 DEF Sound
      <4> QED
        BY <4>1, <4>2, <3>1
    <3> QED
      BY <3>2 DEF StrayInv
  <2>2. CASE ~(run.net = "sent" /\ run.step \in {"create", "confirm"})
    BY <1>1, <1>2, <2>2 DEF Afterlife
  <2> QED
    BY <2>1, <2>2
<1>3. CASE \E x \in stray : ServeStray(x)
  BY <1>1, <1>3 DEF ServeStray
<1>4. CASE ClosePage \/ Lose
  BY <1>2, <1>4 DEF ClosePage, Lose, history
<1>5. UNCHANGED stray \/ ClosePage \/ Lose \/ \E x \in stray : ServeStray(x)
  BY DEF Next, vars, Load, HealthCheck, OpenDialog, CancelDialog,
         ReadCart, ShowCart, SessionRefreshed, EditCart, Serve, Refuse, AfterCreate,
         AfterFetch, AfterError, ServeRecovery, LoseRecovery,
         ClearCart, AfterPaid, AfterRecovery, Confirm
<1> QED
  BY <1>1, <1>3, <1>4, <1>5

\* Every step keeps the call under way sound and its answer true.
LEMMA CallStep ==
    ASSUME TypeOK, MemoryInv, RequestInv, [Next]_vars
    PROVE  CallInv'
<1>0. CallInv /\ Later /\ TypeOK /\ TypeOK'
  BY RequestParts, LaterStep
<1>n. ASSUME run' = NoRun PROVE CallInv'
  BY <1>n, NothingTypes DEF CallInv, Busy
\* A call that goes on: what its next state must satisfy.
<1>b. ASSUME Busy, Sound(run), run'.step # "idle", run'.p.key = run.p.key, run'.sale = run.sale,
             run'.step = "create" =>
              run.step = "create" /\ run'.basket = run.basket /\ run'.p = run.p,
             run'.step \in {"fetch", "confirm"} =>
                run'.order = run'.p.order /\ run'.order \in DOMAIN orders
                  /\ orders[run'.order].key = run.p.key,
             run'.result \in {"ok", "paid"} => /\ run'.order \in DOMAIN orders'
                                               /\ orders'[run'.order].key = run.p.key,
             run'.result = "paid" => orders'[run'.order].status = "paid"
      PROVE  CallInv'
  <2>1. Sound(run)'
    BY <1>0, <1>b, RunKept
  <2> QED
    BY <1>b, <2>1 DEF CallInv, Busy
<1>1. CASE UNCHANGED run
  <2>1. CASE ~Busy
    BY <1>0, <1>1, <1>n, <2>1 DEF CallInv
  <2>2. CASE Busy
    <3>1. Sound(run)
      BY <1>0, <2>2 DEF CallInv
    <3>2. run.step \in {"fetch", "confirm"} =>
             run.order = run.p.order /\ run.order \in DOMAIN orders
               /\ orders[run.order].key = run.p.key
      BY <3>1 DEF Sound
    <3>3. /\ run.result \in {"ok", "paid"} => /\ run.order \in DOMAIN orders'
                                              /\ orders'[run.order].key = run.p.key
          /\ run.result = "paid" => orders'[run.order].status = "paid"
      BY <1>0 DEF CallInv, Later, Grown
    <3> QED
      BY <1>1, <1>b, <2>2, <3>1, <3>2, <3>3 DEF Busy
  <2> QED
    BY <2>1, <2>2
<1>2. CASE Confirm
  <2>1. /\ savedPending'.key \in 1..keys'
        /\ savedPending'.order = 0 => cart \in Baskets
        /\ run' \in Run /\ run'.p = savedPending' /\ run'.sale = sale /\ run'.basket = cart
        /\ run'.step = IF savedPending'.order # 0 THEN "fetch" ELSE "create"
        /\ run'.result = "open" /\ run'.order = savedPending'.order
        /\ \/ savedPending' = savedPending
           \/ savedPending'.order = 0
    BY <1>2, ConfirmIs
  <2>2. sale' = sale /\ orders' = orders
    BY <1>2 DEF Confirm
  <2>3. sale \in 1..sale
    BY DEF TypeOK, RequestInv
  <2>4. savedPending'.order # 0 => /\ savedPending'.order \in DOMAIN orders
                                   /\ orders[savedPending'.order].key = savedPending'.key
    BY <2>1 DEF MemoryInv
  <2>5. Sound(run)'
    <3>1. CASE savedPending'.order = 0
      <4>1. run'.step = "create" /\ run'.basket \in Baskets /\ run'.p.order = 0
        BY <2>1, <3>1
      <4> QED
        BY <2>1, <2>2, <2>3, <4>1 DEF Sound
    <3>2. CASE savedPending'.order # 0
      <4>1. run'.step = "fetch"
        BY <2>1, <3>2
      <4> QED
        BY <2>1, <2>2, <2>3, <2>4, <3>2, <4>1 DEF Sound
    <3> QED
      BY <3>1, <3>2
  <2> QED
    BY <2>1, <2>5 DEF CallInv, Busy
<1>3. CASE Serve
  <2>1. /\ Sound(run) /\ Busy
        /\ run'.step = run.step /\ run'.p = run.p /\ run'.basket = run.basket
        /\ run'.sale = run.sale
        /\ run'.result \in {"ok", "paid"} => /\ run'.order \in DOMAIN orders'
                                             /\ orders'[run'.order].key = run.p.key
        /\ run'.result = "paid" => orders'[run'.order].status = "paid"
        /\ run.step \in {"fetch", "confirm"} => run'.order = run.order
    BY <1>3, AnswerIs
  <2>2. run'.step \in {"fetch", "confirm"} =>
           run'.order = run'.p.order /\ run'.order \in DOMAIN orders
             /\ orders[run'.order].key = run.p.key
    BY <2>1 DEF Sound
  <2> QED
    BY <1>b, <2>1, <2>2 DEF Busy
<1>4. CASE Refuse \/ Lose
  <2>1. /\ Sound(run) /\ Busy
        /\ run'.step = run.step /\ run'.p = run.p /\ run'.basket = run.basket
        /\ run'.sale = run.sale /\ run'.result \in {"error", "lost"}
        /\ run'.order = run.order
    BY <1>4, GivenUpIs
  <2>2. run'.step \in {"fetch", "confirm"} =>
           run'.order = run'.p.order /\ run'.order \in DOMAIN orders
             /\ orders[run'.order].key = run.p.key
    BY <2>1 DEF Sound
  <2> QED
    BY <1>b, <2>1, <2>2 DEF Busy
<1>5. CASE AfterCreate \/ AfterFetch
  <2>1. run.net = "answered" /\ run.result = "ok" /\ Busy /\ Sound(run)
    BY <1>5, BusyIs DEF AfterCreate, AfterFetch
  <2>2. run.order \in DOMAIN orders /\ orders[run.order].key = run.p.key
    BY <1>0, <2>1 DEF CallInv
  <2>3. run \in Run /\ run.p \in Pending
    BY <2>1 DEF Sound, Run
  <2>p. PICK p \in Pending : run' = Confirming(p) /\ p.key = run.p.key /\ p.order = run.order
    <3>1. CASE AfterCreate
      <4>1. run' = Confirming([run.p EXCEPT !.order = run.order])
        BY <3>1 DEF AfterCreate
      <4>2. run.order \in Nat
        BY <2>3 DEF Run
      <4> QED
        BY <2>3, <4>1, <4>2 DEF Pending
    <3>2. CASE AfterFetch
      <4>1. run' = Confirming(run.p) /\ run.step = "fetch"
        BY <3>2 DEF AfterFetch
      <4> QED
        BY <2>1, <2>3, <4>1 DEF Sound
    <3> QED
      BY <1>5, <3>1, <3>2
  <2>4. /\ run'.step = "confirm" /\ run'.p = p /\ run'.sale = run.sale /\ run'.result = "open"
        /\ run'.order = run.order
    BY <2>1, <2>p, ConfirmingIs
  <2> QED
    BY <1>b, <2>1, <2>2, <2>p, <2>4
<1>6. CASE ClosePage \/ AfterPaid \/ AfterError
  BY <1>6, <1>n DEF ClosePage, AfterPaid, Complete, AfterError
<1>7. \/ UNCHANGED run \/ Confirm \/ Serve \/ Refuse \/ Lose \/ AfterCreate \/ AfterFetch
      \/ ClosePage \/ AfterPaid \/ AfterError
  BY DEF Next, vars, Load, HealthCheck, OpenDialog, CancelDialog,
         ReadCart, ShowCart, SessionRefreshed, EditCart, ServeRecovery, LoseRecovery,
         ClearCart, AfterRecovery, ServeStray
<1> QED
  BY <1>1, <1>2, <1>3, <1>4, <1>5, <1>6, <1>7

\* What the terminal writes down.
SavedInv ==
    /\ savedPending = NoPending \/ savedPending.key \in 1..keys
    /\ savedPending.order # 0 => /\ savedPending.order \in DOMAIN orders
                                 /\ orders[savedPending.order].key = savedPending.key

\* What a recovery learns.
RecoveryInv ==
    /\ Recovering => recovery.order \in DOMAIN orders
    /\ recovery.status = "paid" => recovery.order \in DOMAIN orders
                                     /\ orders[recovery.order].status = "paid"

\* What is on the screen, and where.
PageInv ==
    /\ pending = IF page = "closed" THEN NoPending ELSE savedPending
    /\ page = "closed" => run = NoRun /\ recovery = NoRecovery
    /\ page = "closed" => cart = Empty
    /\ page = "open" => savedCart = cart

\* MemoryInv, part by part.
LEMMA MemoryParts == MemoryInv <=> SavedInv /\ RecoveryInv /\ PageInv
BY NothingTypes DEF MemoryInv, SavedInv, RecoveryInv, PageInv, Recovering

\* How a created order is written down.
LEMMA AfterCreateIs ==
    ASSUME TypeOK, MemoryInv, RequestInv, AfterCreate
    PROVE  /\ Busy /\ page # "closed" /\ run.step = "create" /\ run' \in Run
           /\ run.order \in DOMAIN orders /\ orders[run.order].key = run.p.key
           /\ run.p.key \in 1..keys
           /\ savedPending' \in Pending /\ pending' = savedPending'
           /\ savedPending'.order = run.order /\ savedPending'.key = run.p.key
           /\ savedPending'.basket = run.p.basket
           /\ run'.p = savedPending' /\ run'.step = "confirm" /\ run'.sale = run.sale
           /\ run'.net = "sent" /\ run'.result = "open" /\ run'.order = run.order
<1>1. run.step = "create" /\ run.result = "ok"
  BY DEF AfterCreate
<1>2. Busy /\ Sound(run)
  BY <1>1, BusyIs
<1>3. page # "closed"
  BY <1>2, NothingTypes DEF MemoryInv, Busy
<1>4. /\ run.order \in DOMAIN orders /\ orders[run.order].key = run.p.key
      /\ run.p.key \in 1..keys /\ run.p \in Pending /\ run.order \in Nat
  BY <1>1, <1>2 DEF RequestInv, Sound, Run
<1> DEFINE p == [run.p EXCEPT !.order = run.order]
<1>5. p \in Pending /\ p.order = run.order /\ p.key = run.p.key /\ p.basket = run.p.basket
  BY <1>4 DEF Pending
<1>6. pending' = p /\ savedPending' = p /\ run' = Confirming(p)
  BY DEF AfterCreate, NumberSaved
<1> HIDE DEF p
<1> QED
  BY <1>1, <1>2, <1>3, <1>4, <1>5, <1>6, ConfirmingIs

\* What AfterPaid and a recovery that finds its order paid have in common.
Ends(i) ==
    /\ i \in DOMAIN orders /\ orders[i].status = "paid"
    /\ acknowledged' = acknowledged \cup {i}
    /\ pending' = NoPending /\ savedPending' = NoPending
    /\ EmptyCart
    /\ UNCHANGED <<page, orders, stray, keys, budget, touched>>

\* What the two ways to end a checkout do.
LEMMA EndsIs ==
    ASSUME TypeOK, MemoryInv, RequestInv
    PROVE  /\ AfterPaid => Ends(run.order) /\ run' = NoRun /\ UNCHANGED recovery
           /\ AfterRecovery /\ recovery.status = "paid" =>
                 Ends(recovery.order) /\ recovery' = NoRecovery /\ UNCHANGED run
           /\ AfterRecovery /\ recovery.status # "paid" =>
                 /\ recovery' = NoRecovery /\ UNCHANGED <<page, orders, stray, keys, budget, run>>
                 /\ UNCHANGED <<cart, pending, store, history>>
<1>1. AfterPaid => Ends(run.order) /\ run' = NoRun /\ UNCHANGED recovery
  BY DEF AfterPaid, RequestInv, Complete, Receipts, Ends
<1>2. AfterRecovery /\ recovery.status = "paid" =>
        Ends(recovery.order) /\ recovery' = NoRecovery /\ UNCHANGED run
  BY DEF AfterRecovery, MemoryInv, Recovering, Receipts, Ends
<1> QED
  BY <1>1, <1>2 DEF AfterRecovery

\* Every step keeps what is written down true.
LEMMA SavedStep ==
    ASSUME TypeOK, MemoryInv, RequestInv, [Next]_vars
    PROVE  SavedInv'
<1>0. SavedInv /\ Later /\ TypeOK'
  BY MemoryParts, LaterStep
<1>1. CASE UNCHANGED savedPending
  <2>1. keys \in Nat /\ keys' \in Nat /\ keys <= keys'
    BY <1>0 DEF TypeOK, Later
  <2>2. savedPending = NoPending \/ savedPending.key \in 1..keys'
    BY <1>0, <2>1 DEF SavedInv
  <2>3. savedPending.order # 0 => /\ savedPending.order \in DOMAIN orders'
                                  /\ orders'[savedPending.order].key = savedPending.key
    BY <1>0 DEF SavedInv, Later, Grown
  <2> QED
    BY <1>1, <2>2, <2>3 DEF SavedInv
<1>2. CASE Confirm
  <2>1. /\ savedPending'.key \in 1..keys'
        /\ savedPending' = savedPending \/ savedPending'.order = 0
    BY <1>2, ConfirmIs
  <2>2. UNCHANGED orders
    BY <1>2 DEF Confirm
  <2> QED
    BY <1>0, <2>1, <2>2 DEF SavedInv
<1>3. CASE AfterCreate
  <2>1. UNCHANGED <<orders, keys>>
    BY <1>3 DEF AfterCreate
  <2>2. /\ run.order \in DOMAIN orders /\ orders[run.order].key = run.p.key
        /\ run.p.key \in 1..keys
        /\ savedPending'.order = run.order /\ savedPending'.key = run.p.key
    BY <1>3, AfterCreateIs
  <2> QED
    BY <2>1, <2>2 DEF SavedInv
<1>4. CASE savedPending' = NoPending
  BY <1>4, NothingTypes DEF SavedInv
<1>5. UNCHANGED savedPending \/ Confirm \/ AfterCreate \/ savedPending' = NoPending
  BY DEF Next, vars, store, Load, HealthCheck, OpenDialog, CancelDialog,
         ReadCart, ShowCart, SessionRefreshed, EditCart, Serve, Refuse, Lose, AfterFetch,
         AfterError, ServeRecovery, LoseRecovery, ClosePage,
         ClearCart, AfterPaid, Complete, AfterRecovery, ServeStray
<1> QED
  BY <1>1, <1>2, <1>3, <1>4, <1>5

\* Every step keeps a recovery about an order that exists.
LEMMA RecoveryStep ==
    ASSUME TypeOK, MemoryInv, RequestInv, [Next]_vars
    PROVE  RecoveryInv'
<1>0. SavedInv /\ RecoveryInv /\ Later /\ TypeOK /\ TypeOK'
  BY MemoryParts, LaterStep
<1>1. CASE UNCHANGED recovery
  BY <1>0, <1>1 DEF RecoveryInv, Recovering, Later, Grown
<1>2. CASE recovery' = NoRecovery
  BY <1>2, NothingTypes DEF RecoveryInv, Recovering
<1>3. CASE Load \/ SessionRefreshed
  <2>1. CASE savedPending.order = 0
    BY <1>2, <1>3, <2>1 DEF Load, SessionRefreshed, RecoveryStarted
  <2>2. CASE savedPending.order # 0
    <3>1. recovery' = [net |-> "sent", order |-> savedPending.order, status |-> "open"]
          /\ orders' = orders
      BY <1>3, <2>2 DEF Load, SessionRefreshed, RecoveryStarted
    <3>2. savedPending.order \in DOMAIN orders
      BY <1>0, <2>2 DEF SavedInv
    <3> QED
      BY <3>1, <3>2 DEF RecoveryInv
  <2> QED
    BY <2>1, <2>2
<1>4. CASE ServeRecovery
  <2>1. recovery' = [recovery EXCEPT !.net = "answered",
                                     !.status = orders[recovery.order].status]
        /\ orders' = orders /\ recovery.net = "sent"
    BY <1>4 DEF ServeRecovery
  <2>2. recovery'.order = recovery.order /\ recovery'.status = orders[recovery.order].status
    BY <1>0, <2>1 DEF TypeOK
  <2>3. recovery.order \in DOMAIN orders
    BY <1>0, <2>1 DEF RecoveryInv, Recovering
  <2> QED
    BY <2>1, <2>2, <2>3 DEF RecoveryInv
<1>5. UNCHANGED recovery \/ recovery' = NoRecovery \/ Load \/ SessionRefreshed \/ ServeRecovery
  BY DEF Next, vars, HealthCheck, OpenDialog, CancelDialog, ReadCart, ShowCart, EditCart,
         Serve, Refuse, Lose, AfterFetch, AfterError, LoseRecovery, ClosePage, Confirm,
         ClearCart, AfterPaid, AfterCreate, AfterRecovery, ServeStray
<1> QED
  BY <1>1, <1>2, <1>3, <1>4, <1>5

\* Every step keeps memory and storage alike.
LEMMA PageStep ==
    ASSUME TypeOK, MemoryInv, RequestInv, [Next]_vars
    PROVE  PageInv'
<1>0. PageInv
  BY MemoryParts
<1> USE <1>0 DEF PageInv, store
<1>1. CASE UNCHANGED vars
  BY <1>1 DEF vars
<1>2. CASE Load
  BY <1>2 DEF Load
<1>3. CASE (\E loaded \in BOOLEAN : ReadCart(loaded)) \/ ShowCart \/ SessionRefreshed
  BY <1>3 DEF ReadCart, ShowCart, SessionRefreshed
<1>4. CASE ClosePage
  BY <1>4 DEF ClosePage
<1>5. CASE HealthCheck \/ OpenDialog \/ CancelDialog
  BY <1>5 DEF HealthCheck, OpenDialog, CancelDialog
<1>6. CASE \E b \in Baskets : EditCart(b)
  BY <1>6 DEF EditCart, Hands
<1>7. CASE ClearCart
  BY <1>7 DEF ClearCart, EmptyCart, Hands
<1>8. CASE Confirm
  <2>1. page # "closed" /\ pending' = savedPending'
    BY <1>8, ConfirmIs
  <2> QED
    BY <1>8, <2>1 DEF Confirm
<1>9. CASE Serve \/ Refuse \/ Lose \/ AfterFetch
  <2>1. run.net # "none"
    BY <1>9 DEF Serve, Refuse, Lose, AfterFetch
  <2>2. page # "closed"
    BY <2>1, NothingTypes
  <2> QED
    BY <1>9, <2>2 DEF Serve, Refuse, Lose, AfterFetch
<1>10. CASE AfterCreate
  <2>1. page # "closed" /\ pending' = savedPending'
    BY <1>10, AfterCreateIs
  <2> QED
    BY <1>10, <2>1 DEF AfterCreate
<1>11. CASE AfterError
  BY <1>11 DEF AfterError
<1>12. CASE AfterPaid
  BY <1>12, EndsIs DEF Ends, EmptyCart
<1>13. CASE AfterRecovery
  BY <1>13, EndsIs DEF Ends, EmptyCart, AfterRecovery
<1>14. CASE (\E x \in stray : ServeStray(x)) \/ LoseRecovery
  BY <1>14 DEF ServeStray, LoseRecovery
<1>15. CASE ServeRecovery
  <2>1. page # "closed"
    BY <1>15, NothingTypes DEF ServeRecovery
  <2> QED
    BY <1>15, <2>1 DEF ServeRecovery
<1> QED
  BY <1>1, <1>2, <1>3, <1>4, <1>5, <1>6, <1>7, <1>8, <1>9, <1>10, <1>11, <1>12, <1>13, <1>14,
     <1>15 DEF Next

\* What is typed, remembered and sent stays so.
LEMMA BaseStep ==
    ASSUME Base, [Next]_vars
    PROVE  Base'
<1>1. TypeOK' /\ OrdersInv' /\ StrayInv' /\ CallInv' /\ SavedInv' /\ RecoveryInv' /\ PageInv'
  BY TypeStep, OrdersStep, StrayStep, CallStep, SavedStep, RecoveryStep, PageStep DEF Base
<1> QED
  BY <1>1, NothingTypes
     DEF Base, RequestInv, OrdersInv, StrayInv, CallInv, MemoryInv, SavedInv, RecoveryInv,
         PageInv, Recovering

-----------------------------------------------------------------------------
(* Claims and payments. *)

\* Members of Claims and Settling, before and after a step.
LEMMA ClaimIs ==
    \A c : c \in Claims <=>
        \/ \E i \in DOMAIN orders : c = <<orders[i].sale, orders[i].key>>
        \/ \E x \in stray : x.step = "create" /\ c = <<x.sale, x.p.key>>
        \/ run.step = "create" /\ c = <<run.sale, run.p.key>>
BY DEF Claims

LEMMA ClaimIsNext ==
    \A c : c \in Claims' <=>
        \/ \E i \in DOMAIN orders' : c = <<orders'[i].sale, orders'[i].key>>
        \/ \E x \in stray' : x.step = "create" /\ c = <<x.sale, x.p.key>>
        \/ run'.step = "create" /\ c = <<run'.sale, run'.p.key>>
BY DEF Claims

LEMMA SettlingIs ==
    \A k : k \in Settling <=>
        \/ \E i \in DOMAIN orders : orders[i].status = "paid" /\ k = orders[i].key
        \/ \E x \in stray : x.step = "confirm" /\ k = x.p.key
BY DEF Settling

LEMMA SettlingIsNext ==
    \A k : k \in Settling' <=>
        \/ \E i \in DOMAIN orders' : orders'[i].status = "paid" /\ k = orders'[i].key
        \/ \E x \in stray' : x.step = "confirm" /\ k = x.p.key
BY DEF Settling

\* An effect stores what its request claimed, and pays what it was to confirm.
LEMMA EffectClaims ==
    ASSUME TypeOK, NEW x, Sound(x), orders' = Effect(x)
    PROVE  \A i \in DOMAIN orders' :
              /\ \/ i \in DOMAIN orders /\ orders'[i].sale = orders[i].sale
                                        /\ orders'[i].key = orders[i].key
                 \/ x.step = "create" /\ orders'[i].sale = x.sale /\ orders'[i].key = x.p.key
              /\ orders'[i].status = "paid" =>
                    \/ i \in DOMAIN orders /\ orders[i].status = "paid"
                    \/ x.step = "confirm" /\ orders'[i].key = x.p.key
<1>g. Grown /\ orders \in Seq(Order) /\ orders' \in Seq(Order)
  BY EffectGrows DEF TypeOK, Grown
<1>d. /\ DOMAIN orders = 1..Len(orders) /\ Len(orders) \in Nat
      /\ DOMAIN orders' = 1..Len(orders')
  BY <1>g
<1>1. CASE orders' = orders
  BY <1>1
<1>2. CASE /\ x.step = "create" /\ Len(orders') = Len(orders) + 1
           /\ \A i \in DOMAIN orders : orders'[i] = orders[i]
           /\ orders'[Len(orders) + 1] = [key |-> x.p.key, basket |-> x.basket,
                                          sale |-> x.sale, status |-> "pending"]
  <2>1. \A i \in DOMAIN orders' : i \in DOMAIN orders \/ i = Len(orders) + 1
    BY <1>d, <1>2
  <2>2. /\ orders'[Len(orders) + 1].key = x.p.key /\ orders'[Len(orders) + 1].sale = x.sale
        /\ orders'[Len(orders) + 1].status = "pending"
    BY <1>2
  <2> QED
    BY <1>2, <2>1, <2>2
<1>3. CASE /\ x.step = "confirm" /\ Len(orders') = Len(orders)
           /\ \A i \in DOMAIN orders : i # x.order => orders'[i] = orders[i]
  <2>1. DOMAIN orders' = DOMAIN orders
    BY <1>3, <1>d
  <2>2. \A i \in DOMAIN orders : i = x.order => orders[i].key = x.p.key
    BY <1>3 DEF Sound
  <2> QED
    BY <1>3, <1>g, <2>1, <2>2 DEF Grown
<1> QED
  BY <1>1, <1>2, <1>3, EffectIs

\* Claims are made when a checkout is confirmed, and nowhere else.
LEMMA ConfirmClaims ==
    ASSUME Base, Confirm
    PROVE  /\ Settling' = Settling
           /\ \A c \in Claims' : c \in Claims \/
                 (savedPending'.order = 0 /\ c = <<sale, savedPending'.key>>)
<1>1. /\ run'.sale = sale /\ run'.p = savedPending'
      /\ run'.step = IF savedPending'.order # 0 THEN "fetch" ELSE "create"
  BY ConfirmIs DEF Base
<1>2. UNCHANGED <<orders, stray>>
  BY DEF Confirm
<1>3. \A c \in Claims' : c \in Claims \/
          (savedPending'.order = 0 /\ c = <<sale, savedPending'.key>>)
  <2>1. CASE savedPending'.order = 0
    BY <1>1, <1>2, <2>1, ClaimIs, ClaimIsNext
  <2>2. CASE savedPending'.order # 0
    <3>1. run'.step # "create"
      BY <1>1, <2>2
    <3> QED
      BY <3>1, <1>2, ClaimIs, ClaimIsNext
  <2> QED
    BY <2>1, <2>2
<1>4. Settling' = Settling
  BY <1>2, SettlingIs, SettlingIsNext
<1> QED
  BY <1>3, <1>4

\* A key settles when the call under way confirms its order.
LEMMA ClaimsStep ==
    ASSUME Base, [Next]_vars, ~Confirm
    PROVE  /\ Claims' \subseteq Claims
           /\ \A k \in Settling' : k \in Settling \/ (run.step = "confirm" /\ k = run.p.key)
<1>0. TypeOK /\ MemoryInv /\ RequestInv
  BY DEF Base
<1> DEFINE Same == UNCHANGED <<orders, stray>>
           Goal == /\ Claims' \subseteq Claims
                   /\ \A k \in Settling' :
                         k \in Settling \/ (run.step = "confirm" /\ k = run.p.key)
<1>1. ASSUME Same, \/ run' = run \/ run'.step # "create"
                   \/ run.step = "create" /\ run'.sale = run.sale /\ run'.p = run.p
      PROVE  Goal
  <2>1. Claims' \subseteq Claims
    BY <1>1, ClaimIs, ClaimIsNext
  <2>2. Settling' = Settling
    BY <1>1, SettlingIs, SettlingIsNext
  <2> QED
    BY <2>1, <2>2
<1>3. CASE Serve
  <2>1. /\ Sound(run) /\ orders' = Effect(run) /\ stray' = stray
        /\ run'.step = run.step /\ run'.sale = run.sale /\ run'.p = run.p
    BY <1>0, <1>3, AnswerIs DEF Serve
  <2>2. \A i \in DOMAIN orders' :
           /\ \/ i \in DOMAIN orders /\ orders'[i].sale = orders[i].sale
                                     /\ orders'[i].key = orders[i].key
              \/ run.step = "create" /\ orders'[i].sale = run.sale /\ orders'[i].key = run.p.key
           /\ orders'[i].status = "paid" =>
                 \/ i \in DOMAIN orders /\ orders[i].status = "paid"
                 \/ run.step = "confirm" /\ orders'[i].key = run.p.key
    BY <1>0, <2>1, EffectClaims
  <2>3. Claims' \subseteq Claims
    BY <2>1, <2>2, ClaimIs, ClaimIsNext
  <2>g. Grown
    BY <1>0, <1>3, AnswerIs
  <2>4. \A k \in Settling' : k \in Settling \/ (run.step = "confirm" /\ k = run.p.key)
    BY <2>1, <2>2, <2>g, SettlingIs, SettlingIsNext DEF Grown
  <2> QED
    BY <2>3, <2>4
<1>4. ASSUME NEW x \in stray, ServeStray(x) PROVE Goal
  <2>1. /\ Sound(x) /\ orders' = Effect(x) /\ stray' = stray \ {x} /\ run' = run
    BY <1>0, <1>4 DEF ServeStray, RequestInv
  <2>2. \A i \in DOMAIN orders' :
           /\ \/ i \in DOMAIN orders /\ orders'[i].sale = orders[i].sale
                                     /\ orders'[i].key = orders[i].key
              \/ x.step = "create" /\ orders'[i].sale = x.sale /\ orders'[i].key = x.p.key
           /\ orders'[i].status = "paid" =>
                 \/ i \in DOMAIN orders /\ orders[i].status = "paid"
                 \/ x.step = "confirm" /\ orders'[i].key = x.p.key
    BY <1>0, <2>1, EffectClaims
  <2>3. Claims' \subseteq Claims
    BY <2>1, <2>2, ClaimIs, ClaimIsNext
  <2>g. Grown
    BY <1>0, <2>1, EffectGrows
  <2>4. Settling' \subseteq Settling
    BY <2>1, <2>2, <2>g, SettlingIs, SettlingIsNext DEF Grown
  <2> QED
    BY <2>3, <2>4
<1>5. CASE ClosePage \/ Lose
  <2>1. orders' = orders /\ stray' = Afterlife
    BY <1>5 DEF ClosePage, Lose
  <2>2. run'.step # "create" \/ (run'.step = run.step /\ run'.sale = run.sale /\ run'.p = run.p)
    BY <1>0, <1>5, GivenUpIs, NothingTypes DEF ClosePage
  <2>3. CASE run.net = "sent" /\ run.step \in {"create", "confirm"}
    <3>1. stray' = stray \cup {run}
      BY <2>1, <2>3 DEF Afterlife
    <3>2. Claims' \subseteq Claims
      BY <2>1, <2>2, <3>1, ClaimIs, ClaimIsNext
    <3>3. \A k \in Settling' : k \in Settling \/ (run.step = "confirm" /\ k = run.p.key)
      BY <2>1, <3>1, SettlingIs, SettlingIsNext
    <3> QED
      BY <3>2, <3>3
  <2>4. CASE ~(run.net = "sent" /\ run.step \in {"create", "confirm"})
    BY <1>1, <2>1, <2>2, <2>4 DEF Afterlife
  <2> QED
    BY <2>3, <2>4
<1>6. CASE Refuse
  BY <1>0, <1>1, <1>6, GivenUpIs DEF Refuse
<1>7. CASE AfterCreate
  BY <1>0, <1>1, <1>7, AfterCreateIs DEF AfterCreate
<1>8. CASE AfterFetch
  <2>1. Busy /\ run.p \in Pending
    BY <1>0, <1>8, BusyIs DEF AfterFetch, Run
  <2>2. run'.step = "confirm"
    BY <1>0, <1>8, <2>1, ConfirmingIs DEF AfterFetch
  <2> QED
    BY <1>1, <1>8, <2>2 DEF AfterFetch
<1>9. CASE AfterPaid \/ AfterError
  BY <1>1, <1>9, NothingTypes DEF AfterPaid, Complete, AfterError
<1>10. CASE UNCHANGED <<orders, stray, run>>
  BY <1>1, <1>10
<1>11. \/ Serve \/ (\E x \in stray : ServeStray(x)) \/ ClosePage \/ Lose \/ Refuse
       \/ AfterCreate \/ AfterFetch \/ AfterPaid \/ AfterError \/ UNCHANGED <<orders, stray, run>>
  BY DEF Next, vars, Load, HealthCheck, OpenDialog, CancelDialog,
         ReadCart, ShowCart, SessionRefreshed, EditCart, ServeRecovery, LoseRecovery,
         ClearCart, AfterRecovery
<1> QED
  BY <1>3, <1>4, <1>5, <1>6, <1>7, <1>8, <1>9, <1>10, <1>11

\* Claims and settling keys are within bounds.
LEMMA ClaimBounds ==
    ASSUME Base
    PROVE  /\ \A c \in Claims : c[1] \in 1..sale /\ c[2] \in 1..keys
           /\ \A k \in Settling : k \in 1..keys
           /\ keys \in Nat /\ sale \in Nat
           /\ Busy => run.p.key \in 1..keys
           /\ savedPending.order # 0 => savedPending # NoPending
<1>1. /\ \A i \in DOMAIN orders : orders[i].key \in 1..keys /\ orders[i].sale \in 1..sale
      /\ \A x \in stray : x.p.key \in 1..keys /\ x.sale \in 1..sale
      /\ Busy => run.p.key \in 1..keys /\ run.sale \in 1..sale
  BY DEF Base, RequestInv, Sound
<1>2. run.step = "create" => Busy
  BY DEF Busy
<1>3. \A c \in Claims : c[1] \in 1..sale /\ c[2] \in 1..keys
  BY <1>1, <1>2, ClaimIs
<1>4. \A k \in Settling : k \in 1..keys
  BY <1>1, SettlingIs
<1> QED
  BY <1>1, <1>3, <1>4, NothingTypes DEF Base, TypeOK

\* What a step does to the sale on the screen and to what is written down.
SaleEnds ==
    /\ sale' = sale + 1 /\ ~begun' /\ touched' = touched
    /\ run' \in {run, NoRun}
    /\ savedPending' = NoPending \/ (savedPending' = savedPending /\ ~Busy)
CartEdited ==
    /\ UNCHANGED <<sale, begun, savedPending, run>>
    /\ touched' = IF begun THEN touched \cup {sale} ELSE touched
Continues ==
    /\ UNCHANGED <<sale, begun, savedPending, touched, built>>
    /\ begun /\ page' # "closed" => cart' \in {built, Empty} \/ (page # "closed" /\ cart' = cart)
    /\ \/ run' = run \/ run' = NoRun
       \/ /\ Busy /\ run'.step # "idle" /\ run'.sale = run.sale /\ run'.p = run.p
          /\ run'.step = "create" => run.step = "create"

\* Every step is of one of five kinds.
LEMMA Kinds ==
    ASSUME Base, [Next]_vars
    PROVE  SaleEnds \/ CartEdited \/ Continues \/ Confirm \/ AfterCreate
<1>0. TypeOK /\ MemoryInv /\ RequestInv
  BY DEF Base
<1> USE DEF store, history
<1>c. page = "closed" => cart = Empty
  BY <1>0 DEF MemoryInv
<1>p. Busy => page # "closed"
  BY <1>0, NothingTypes DEF MemoryInv, Busy
<1>1. CASE ClearCart
  BY <1>1 DEF ClearCart, EmptyCart, SaleEnds
<1>2. CASE AfterPaid
  BY <1>0, <1>2, EndsIs DEF Ends, EmptyCart, SaleEnds
<1>3. CASE AfterRecovery
  <2>1. CASE recovery.status = "paid"
    BY <1>0, <1>3, <2>1, EndsIs DEF Ends, EmptyCart, SaleEnds
  <2>2. CASE recovery.status # "paid"
    BY <1>0, <1>3, <1>c, <2>2, EndsIs DEF Continues
  <2> QED
    BY <2>1, <2>2
<1>4. CASE \E b \in Baskets : EditCart(b)
  BY <1>4 DEF EditCart, CartEdited
<1>5. CASE Serve
  <2>1. /\ Busy /\ Sound(run) /\ run'.step = run.step /\ run'.p = run.p /\ run'.sale = run.sale
    BY <1>0, <1>5, AnswerIs
  <2> QED
    BY <1>5, <1>p, <2>1 DEF Serve, Continues, Busy
<1>6. CASE Refuse \/ Lose
  <2>1. /\ Busy /\ run'.step = run.step /\ run'.p = run.p /\ run'.sale = run.sale
    BY <1>0, <1>6, GivenUpIs
  <2> QED
    BY <1>6, <1>p, <2>1 DEF Refuse, Lose, Continues, Busy
<1>7. CASE AfterFetch
  <2>1. Busy /\ run.p \in Pending
    BY <1>0, <1>7, BusyIs DEF AfterFetch, Run
  <2>2. run'.step = "confirm" /\ run'.p = run.p /\ run'.sale = run.sale
    BY <1>0, <1>7, <2>1, ConfirmingIs DEF AfterFetch
  <2> QED
    BY <1>7, <1>p, <2>1, <2>2 DEF AfterFetch, Continues
<1>8. CASE ShowCart
  <2>1. CASE begun /\ restored \notin {built, Empty}
    BY <1>8, <2>1 DEF ShowCart, CartEdited
  <2>2. CASE ~(begun /\ restored \notin {built, Empty})
    BY <1>8, <2>2 DEF ShowCart, Continues
  <2> QED
    BY <2>1, <2>2
<1>9. CASE ClosePage \/ AfterError
  BY <1>9, <1>c DEF ClosePage, AfterError, Continues
<1>10. CASE UNCHANGED <<sale, begun, savedPending, touched, built, cart, run>>
  BY <1>10, <1>c DEF Continues
<1>11. \/ ClearCart \/ AfterPaid \/ AfterRecovery \/ (\E b \in Baskets : EditCart(b))
       \/ Serve \/ Refuse \/ Lose \/ AfterFetch \/ ShowCart
       \/ ClosePage \/ AfterError \/ Confirm \/ AfterCreate
       \/ UNCHANGED <<sale, begun, savedPending, touched, built, cart, run>>
  BY DEF Next, vars, Load, ReadCart, SessionRefreshed, HealthCheck, OpenDialog, CancelDialog,
         ServeRecovery, LoseRecovery, ServeStray
<1> QED
  BY <1>1, <1>2, <1>3, <1>4, <1>5, <1>6, <1>7, <1>8, <1>9, <1>10, <1>11

\* What Confirm does to the sale on the screen.
LEMMA ConfirmSale ==
    ASSUME Base, Confirm
    PROVE  /\ UNCHANGED <<page, cart, sale, touched>> /\ begun' /\ page # "closed"
           /\ built' = IF cart = Empty THEN built ELSE cart
           /\ savedPending'.key \in 1..keys' /\ savedPending' # NoPending
           /\ savedPending'.order = 0 => cart \in Baskets /\ cart # Empty
           /\ run'.p = savedPending' /\ run'.sale = sale
           /\ run'.step = IF savedPending'.order # 0 THEN "fetch" ELSE "create"
           /\ \/ /\ savedPending' = savedPending
                 /\ savedPending.order # 0 \/ savedPending.basket = cart
              \/ /\ savedPending'.key = keys + 1 /\ savedPending'.basket = cart
                 /\ savedPending'.order = 0 /\ savedPending.order = 0
                 /\ savedPending = NoPending \/ savedPending.basket # cart
<1>0. TypeOK /\ MemoryInv /\ RequestInv
  BY DEF Base
<1>1. /\ UNCHANGED <<page, cart, sale, touched>> /\ begun'
      /\ built' = IF cart = Empty THEN built ELSE cart
  BY DEF Confirm
<1>2. page # "closed"
  BY <1>0, ConfirmIs
<1>4. /\ savedPending'.key \in 1..keys' /\ keys' \in Nat
      /\ savedPending'.order = 0 => cart \in Baskets
      /\ run'.p = savedPending' /\ run'.sale = sale
      /\ run'.step = IF savedPending'.order # 0 THEN "fetch" ELSE "create"
      /\ \/ /\ savedPending' = savedPending
            /\ savedPending.order # 0 \/ savedPending.basket = cart
         \/ /\ savedPending'.key = keys + 1 /\ savedPending'.basket = cart
            /\ savedPending'.order = 0 /\ savedPending.order = 0
            /\ savedPending = NoPending \/ savedPending.basket # cart
  BY <1>0, ConfirmIs
<1>5. savedPending' # NoPending
  BY <1>4, NothingTypes
<1>6. savedPending'.order = 0 => cart # Empty
  BY <1>4, EmptyAssumption
<1> QED
  BY <1>1, <1>2, <1>4, <1>5, <1>6

\* Claims of the sale on the screen appear only once its checkout has begun.
LEMMA ScreenStep ==
    ASSUME Base, ScreenInv, [Next]_vars
    PROVE  ScreenInv'
<1>b. /\ \A c \in Claims : c[1] \in 1..sale /\ c[2] \in 1..keys
      /\ sale \in Nat
  BY ClaimBounds
<1>1. CASE Confirm
  BY <1>1, ConfirmSale DEF ScreenInv, Busy
<1>2. CASE ~Confirm /\ SaleEnds
  <2>1. Claims' \subseteq Claims
    BY <1>2, ClaimsStep
  <2>2. \A c \in Claims' : c[1] # sale'
    BY <1>2, <1>b, <2>1 DEF SaleEnds
  <2> QED
    BY <1>2, <2>2, NothingTypes DEF ScreenInv, SaleEnds, Busy
<1>3. CASE ~Confirm /\ AfterCreate
  <2>1. Claims' \subseteq Claims
    BY <1>3, ClaimsStep
  <2>2. /\ Busy /\ run'.p = savedPending' /\ run'.sale = run.sale /\ UNCHANGED <<sale, begun>>
    BY <1>3, AfterCreateIs DEF AfterCreate, history, Base
  <2> QED
    BY <2>1, <2>2 DEF ScreenInv
<1>4. CASE ~Confirm /\ CartEdited
  <2>1. Claims' \subseteq Claims
    BY <1>4, ClaimsStep
  <2> QED
    BY <1>4, <2>1 DEF ScreenInv, CartEdited, Busy
<1>5. CASE ~Confirm /\ Continues
  <2>1. Claims' \subseteq Claims
    BY <1>5, ClaimsStep
  <2> QED
    BY <1>5, <2>1, NothingTypes DEF ScreenInv, Continues, Busy
<1> QED
  BY <1>1, <1>2, <1>3, <1>4, <1>5, Kinds

\* A sale draws a second key only after its cart was changed.
LEMMA SaleStep ==
    ASSUME Base, ScreenInv, SaleInv, [Next]_vars
    PROVE  SaleInv'
<1>b. /\ \A c \in Claims : c[1] \in 1..sale /\ c[2] \in 1..keys
      /\ sale \in Nat
  BY ClaimBounds
<1>1. CASE Confirm
  <2>1. \A c \in Claims' : c \in Claims \/
            (savedPending'.order = 0 /\ c = <<sale, savedPending'.key>>)
    BY <1>1, ConfirmClaims
  <2>2. UNCHANGED <<page, cart, sale, touched>> /\ page # "closed" /\ savedPending' # NoPending
    BY <1>1, ConfirmSale
  <2>3. ASSUME sale \notin touched, NEW c \in Claims, c[1] = sale
        PROVE  c[2] = savedPending'.key
    <3>1. begun /\ c[2] = savedPending.key
      BY <2>3 DEF ScreenInv, SaleInv
    <3>2. /\ savedPending # NoPending
          /\ savedPending.order # 0 \/ cart \in {savedPending.basket, Empty}
      BY <2>2, <2>3, <3>1 DEF SaleInv
    <3>3. savedPending' = savedPending
      BY <1>1, <2>2, <3>2, ConfirmSale
    <3> QED
      BY <3>1, <3>3
  <2>4. ASSUME NEW c \in Claims', NEW d \in Claims', c[1] = d[1], c[1] \notin touched'
        PROVE  c[2] = d[2]
    <3>1. CASE c \in Claims /\ d \in Claims
      BY <2>2, <2>4, <3>1 DEF SaleInv
    <3>2. CASE c \in Claims /\ d = <<sale, savedPending'.key>>
      BY <2>2, <2>3, <2>4, <3>2
    <3>3. CASE c = <<sale, savedPending'.key>> /\ d \in Claims
      BY <2>2, <2>3, <2>4, <3>3
    <3>4. CASE c = <<sale, savedPending'.key>> /\ d = <<sale, savedPending'.key>>
      BY <3>4
    <3> QED
      BY <2>1, <3>1, <3>2, <3>3, <3>4
  <2>5. \A c \in Claims' : c[1] = sale' /\ sale' \notin touched' => c[2] = savedPending'.key
    BY <2>1, <2>2, <2>3
  <2>6. savedPending'.order # 0 \/ (built' = savedPending'.basket /\ cart' = built')
    <3>1. savedPending'.order = 0 => savedPending'.basket = cart /\ cart # Empty
      BY <1>1, ConfirmSale
    <3> QED
      BY <1>1, <2>2, <3>1, ConfirmSale
  <2> QED
    BY <2>2, <2>4, <2>5, <2>6 DEF SaleInv
<1>2. CASE ~Confirm /\ SaleEnds
  <2>1. Claims' \subseteq Claims
    BY <1>2, ClaimsStep
  <2>2. \A c \in Claims' : c[1] # sale'
    BY <1>2, <1>b, <2>1 DEF SaleEnds
  <2> QED
    BY <1>2, <2>1, <2>2 DEF SaleInv, SaleEnds
<1>3. CASE ~Confirm /\ AfterCreate
  <2>1. Claims' \subseteq Claims
    BY <1>3, ClaimsStep
  <2>2. /\ Busy /\ savedPending'.key = run.p.key /\ savedPending'.order # 0
        /\ UNCHANGED <<sale, begun, touched>>
    <3>1. /\ Busy /\ savedPending'.key = run.p.key
          /\ savedPending'.order = run.order /\ run.order \in DOMAIN orders
      BY <1>3, AfterCreateIs DEF Base
    <3>2. run.order # 0
      BY <3>1 DEF Base, TypeOK
    <3> QED
      BY <1>3, <3>1, <3>2 DEF AfterCreate, history
  <2>3. \A c \in Claims' : c[1] = sale /\ sale \notin touched => c[2] = savedPending'.key
    BY <2>1, <2>2 DEF SaleInv, ScreenInv
  <2> QED
    BY <2>1, <2>2, <2>3, NothingTypes DEF SaleInv
<1>4. CASE ~Confirm /\ CartEdited
  <2>1. Claims' \subseteq Claims
    BY <1>4, ClaimsStep
  <2> QED
    BY <1>4, <2>1 DEF SaleInv, CartEdited
<1>5. CASE ~Confirm /\ Continues
  <2>1. Claims' \subseteq Claims
    BY <1>5, ClaimsStep
  <2> QED
    BY <1>5, <2>1 DEF SaleInv, Continues
<1> QED
  BY <1>1, <1>2, <1>3, <1>4, <1>5, Kinds

\* A checkout that is confirmed resumes a key that may be paid already.
LEMMA PaymentConfirm ==
    ASSUME Base, ScreenInv, PaymentInv, Confirm
    PROVE  PaymentInv'
<1>b. /\ \A c \in Claims : c[1] \in 1..sale /\ c[2] \in 1..keys
      /\ \A k \in Settling : k \in 1..keys
      /\ keys \in Nat
  BY ClaimBounds
<1>1. /\ Settling' = Settling
      /\ \A c \in Claims' : c \in Claims \/
            (savedPending'.order = 0 /\ c = <<sale, savedPending'.key>>)
  BY ConfirmClaims
<1>2. /\ sale' = sale /\ run'.p = savedPending'
      /\ \/ savedPending' = savedPending
         \/ savedPending'.key = keys + 1 /\ savedPending.order = 0
  BY ConfirmSale
<1>3. run'.step = "create" => savedPending'.order = 0
  BY ConfirmSale
<1>h. Hot' = Settling \cup {savedPending'.key}
  BY <1>1, <1>2 DEF Hot
\* A key that settles in this sale is the one written down, and is resumed.
<1>4. ASSUME NEW c \in Claims, c[1] = sale, c[2] \in Settling
      PROVE  c[2] = savedPending'.key /\ savedPending' = savedPending
  <2>1. c[2] = savedPending.key /\ savedPending.order # 0
    BY <1>4 DEF PaymentInv
  <2> QED
    BY <1>2, <2>1
<1>5. ASSUME NEW c \in Claims, c[1] = sale, c[2] \in Hot' PROVE c[2] = savedPending'.key
  BY <1>4, <1>5, <1>h
<1>6. ASSUME NEW c \in Claims', NEW d \in Claims', c[1] = d[1], c[2] \in Hot', d[2] \in Hot'
      PROVE  c[2] = d[2]
  <2>1. CASE c \in Claims /\ d \in Claims
    <3>1. CASE savedPending' = savedPending
      <4>1. c[2] \in Hot /\ d[2] \in Hot
        BY <1>6, <1>h, <3>1 DEF Hot
      <4> QED
        BY <1>6, <2>1, <4>1 DEF PaymentInv
    <3>2. CASE savedPending'.key = keys + 1
      <4>1. c[2] \in Settling /\ d[2] \in Settling
        BY <1>6, <1>h, <1>b, <2>1, <3>2
      <4> QED
        BY <1>6, <2>1, <4>1 DEF PaymentInv, Hot
    <3> QED
      BY <1>2, <3>1, <3>2
  <2>2. CASE c \in Claims /\ d = <<sale, savedPending'.key>>
    BY <1>5, <1>6, <2>2
  <2>3. CASE c = <<sale, savedPending'.key>> /\ d \in Claims
    BY <1>5, <1>6, <2>3
  <2>4. CASE c = <<sale, savedPending'.key>> /\ d = <<sale, savedPending'.key>>
    BY <2>4
  <2> QED
    BY <1>1, <2>1, <2>2, <2>3, <2>4
<1>7. \A c \in Claims' : c[1] = sale' /\ c[2] \in Settling' => c[2] = savedPending'.key
  BY <1>1, <1>2, <1>4
<1>8. savedPending'.key \in Settling' => savedPending' = savedPending /\ savedPending.order # 0
  BY <1>1, <1>2, <1>b DEF PaymentInv
<1>9. run'.step = "create" => run'.p.key \notin Settling'
  BY <1>2, <1>3, <1>8
<1> QED
  BY <1>6, <1>7, <1>8, <1>9 DEF PaymentInv

\* No step lets a second key of a sale become payable.
LEMMA PaymentStep ==
    ASSUME Base, ScreenInv, PaymentInv, [Next]_vars
    PROVE  PaymentInv'
<1>b. /\ \A c \in Claims : c[1] \in 1..sale /\ c[2] \in 1..keys
      /\ \A k \in Settling : k \in 1..keys
      /\ keys \in Nat /\ sale \in Nat
      /\ Busy => run.p.key \in 1..keys
  BY ClaimBounds
<1>z. NoPending.key = 0 /\ NoRun.p = NoPending /\ NoRun.step = "idle"
  BY NothingTypes
<1>1. CASE Confirm
  BY <1>1, PaymentConfirm
<1>2. CASE ~Confirm
  <2>1. /\ Claims' \subseteq Claims
        /\ \A k \in Settling' : k \in Settling \/ (run.step = "confirm" /\ k = run.p.key)
    BY <1>2, ClaimsStep
  <2>2. \A k \in Settling' : k \in 1..keys
    BY <1>b, <2>1 DEF Busy
  \* Nothing becomes hot, except that nothing is remembered.
  <2>3. ASSUME savedPending'.key \in {savedPending.key, run.p.key, 0},
               run'.p.key \in {savedPending'.key, run.p.key, 0}
        PROVE  \A c, d \in Claims' : c[1] = d[1] /\ c[2] \in Hot' /\ d[2] \in Hot'
                                        => c[2] = d[2]
    <3>1. \A k \in Hot' : k \in Hot \/ k = 0
      BY <2>1, <2>3 DEF Hot
    <3>2. \A c \in Claims' : c \in Claims /\ c[2] # 0
      BY <1>b, <2>1
    <3> QED
      BY <3>1, <3>2 DEF PaymentInv
  <2>4. CASE SaleEnds
    <3>1. \A c \in Claims' : c[1] # sale'
      BY <1>b, <2>1, <2>4 DEF SaleEnds
    <3>2. savedPending'.key \in {savedPending.key, run.p.key, 0}
          /\ run'.p.key \in {savedPending'.key, run.p.key, 0}
      BY <1>z, <2>4 DEF SaleEnds
    <3>3. savedPending'.key \in Settling' => savedPending'.order # 0
      <4>1. CASE savedPending' = NoPending
        BY <1>z, <2>2, <4>1
      <4>2. CASE savedPending' = savedPending /\ ~Busy
        BY <2>1, <4>2 DEF PaymentInv, Busy
      <4> QED
        BY <2>4, <4>1, <4>2 DEF SaleEnds
    <3>4. run'.step = "create" => run'.p.key \notin Settling'
      BY <1>z, <2>1, <2>4 DEF PaymentInv, SaleEnds
    <3> QED
      BY <2>3, <3>1, <3>2, <3>3, <3>4 DEF PaymentInv
  <2>5. CASE AfterCreate
    <3>1. /\ Busy /\ savedPending'.key = run.p.key /\ run'.p = savedPending'
          /\ savedPending'.order # 0 /\ run.step = "create" /\ run'.step = "confirm"
          /\ UNCHANGED sale
      <4>1. /\ Busy /\ savedPending'.key = run.p.key /\ run'.p = savedPending'
            /\ run.step = "create" /\ run'.step = "confirm"
            /\ savedPending'.order = run.order /\ run.order \in DOMAIN orders
        BY <2>5, AfterCreateIs DEF Base
      <4>2. run.order # 0
        BY <4>1 DEF Base, TypeOK
      <4> QED
        BY <2>5, <4>1, <4>2 DEF AfterCreate, history
    <3>2. \A c \in Claims' : c[1] = sale' /\ c[2] \in Settling' => c[2] = savedPending'.key
      <4>1. Settling' \subseteq Settling
        BY <2>1, <3>1
      <4> QED
        BY <2>1, <3>1, <4>1 DEF PaymentInv, ScreenInv
    <3> QED
      BY <2>3, <3>1, <3>2 DEF PaymentInv
  <2>6. CASE CartEdited \/ Continues
    <3>1. /\ UNCHANGED <<sale, savedPending, begun>>
          /\ run'.p.key \in {run.p.key, 0}
          /\ run'.step = "create" => run.step = "create" /\ run'.p = run.p
      BY <1>z, <2>6 DEF CartEdited, Continues
    <3>2. \A c \in Claims' : c[1] = sale' /\ c[2] \in Settling' => c[2] = savedPending'.key
      BY <2>1, <3>1 DEF PaymentInv, ScreenInv, Busy
    <3>3. savedPending'.key \in Settling' => savedPending'.order # 0
      <4>1. CASE savedPending.key \in Settling
        BY <3>1, <4>1 DEF PaymentInv
      <4>2. CASE run.step = "confirm" /\ savedPending.key = run.p.key
        <5>1. Busy /\ run.p.key # 0
          BY <1>b, <4>2 DEF Busy
        <5>2. run.p = savedPending
          BY <1>z, <4>2, <5>1 DEF ScreenInv
        <5>3. run.order = run.p.order /\ run.order \in DOMAIN orders
          BY <4>2, <5>1 DEF Base, RequestInv, Sound
        <5>4. run.order # 0
          BY <5>3 DEF Base, TypeOK
        <5> QED
          BY <3>1, <5>2, <5>3, <5>4
      <4> QED
        BY <2>1, <3>1, <4>1, <4>2
    <3>4. run'.step = "create" => run'.p.key \notin Settling'
      BY <2>1, <3>1 DEF PaymentInv
    <3> QED
      BY <2>3, <3>1, <3>2, <3>3, <3>4 DEF PaymentInv
  <2> QED
    BY <1>2, <2>4, <2>5, <2>6, Kinds
<1> QED
  BY <1>1, <1>2

\* The invariant holds at first, and every step keeps it.
LEMMA CheckoutInitially == Init => CheckoutInv
<1> SUFFICES ASSUME Init PROVE CheckoutInv
  OBVIOUS
<1>0. /\ orders = << >> /\ stray = {} /\ run = NoRun /\ recovery = NoRecovery
      /\ page = "closed" /\ cart = Empty /\ savedCart = Empty /\ built = Empty
      /\ pending = NoPending /\ savedPending = NoPending /\ begun = FALSE
      /\ sale = 1 /\ keys = 0
  BY DEF Init
<1>1. TypeOK
  <2>1. budget \in [{"loads", "failed", "lost", "refreshes", "edits"} -> Nat]
    <3>1. /\ MaxLoads \in Nat /\ MaxFailed \in Nat /\ MaxLost \in Nat
          /\ MaxRefreshes \in Nat /\ MaxEdits \in Nat
      BY BoundsAssumption
    <3>2. budget = [loads |-> MaxLoads, failed |-> MaxFailed, lost |-> MaxLost,
                    refreshes |-> MaxRefreshes, edits |-> MaxEdits]
      BY DEF Init
    <3> QED
      BY <3>1, <3>2
  <2>2. Len(orders) = 0 /\ orders \in Seq(Order) /\ DOMAIN orders = {}
    BY <1>0
  <2>3. dialog \in [open : BOOLEAN, order : 0..Len(orders)]
    BY <2>2 DEF Init
  <2>4. recovery \in [net : {"none", "sent", "answered"}, order : 0..Len(orders),
                      status : {"open", "pending", "paid"}]
    BY <1>0, <2>2 DEF NoRecovery
  <2>5. /\ page \in {"closed", "loading", "restoring", "open"} /\ online \in BOOLEAN
        /\ begun \in BOOLEAN /\ overtaken \in BOOLEAN /\ restored = Empty
    BY DEF Init
  <2>6. /\ {cart, savedCart, restored, built} \subseteq Baskets \cup {Empty}
        /\ {pending, savedPending} \subseteq Pending /\ run \in Run
    BY <1>0, <2>5, NothingTypes
  <2>7. keys \in Nat /\ sale \in Nat
    BY <1>0
  <2>8. acknowledged \subseteq DOMAIN orders /\ touched \subseteq 0..sale
    BY DEF Init
  <2> QED
    BY <2>1, <2>2, <2>3, <2>4, <2>5, <2>6, <2>7, <2>8 DEF TypeOK
<1>2. DOMAIN orders = {}
  BY <1>0
<1>3. Claims = {} /\ Settling = {}
  <2>1. \A c : c \notin Claims
    BY <1>0, <1>2, ClaimIs, NothingTypes
  <2>2. \A k : k \notin Settling
    BY <1>0, <1>2, SettlingIs
  <2> QED
    BY <2>1, <2>2
<1>4. MemoryInv /\ RequestInv
  BY <1>0, <1>2, NothingTypes DEF MemoryInv, RequestInv, Recovering, Busy
<1>5. ScreenInv /\ SaleInv /\ PaymentInv
  BY <1>0, <1>3, NothingTypes DEF ScreenInv, SaleInv, PaymentInv, Busy
<1> QED
  BY <1>1, <1>4, <1>5 DEF CheckoutInv

LEMMA CheckoutStep == CheckoutInv /\ [Next]_vars => CheckoutInv'
<1> SUFFICES ASSUME CheckoutInv, [Next]_vars PROVE CheckoutInv'
  OBVIOUS
<1>1. Base
  BY DEF CheckoutInv, Base
<1>2. Base'
  BY <1>1, BaseStep
<1> QED
  BY <1>1, <1>2, ScreenStep, SaleStep, PaymentStep DEF CheckoutInv, Base

-----------------------------------------------------------------------------
(* Theorems. *)

\* Nothing is ever more than one when its members agree.
LEMMA AtMostOne ==
    ASSUME NEW n \in Nat, NEW S \in SUBSET (1..n), \A i, j \in S : i = j
    PROVE  Cardinality(S) <= 1
<1>1. IsFiniteSet(1..n)
  BY FS_Interval
<1>2. IsFiniteSet(S)
  BY <1>1, FS_Subset
<1>3. CASE S = {}
  BY <1>3, FS_EmptySet
<1>4. CASE S # {}
  <2>1. PICK i \in S : TRUE
    BY <1>4
  <2>2. S = {i}
    BY <2>1
  <2> QED
    BY <2>2, FS_Singleton
<1> QED
  BY <1>3, <1>4

\* Every variable keeps its type; a receipt is for an order that exists.
THEOREM TypeCorrect == Spec => []TypeOK
<1>1. CheckoutInv => TypeOK
  BY DEF CheckoutInv
<1> QED
  BY <1>1, CheckoutInitially, CheckoutStep, PTL DEF Spec

\* Every stored order makes its claim, and a sale has one key at a time and at
\* most one that can end in a payment.
LEMMA OrdersCounted == CheckoutInv => OneOrderPerSale /\ OnePaidPerSale
<1> SUFFICES ASSUME CheckoutInv PROVE OneOrderPerSale /\ OnePaidPerSale
  OBVIOUS
<1>1. /\ DOMAIN orders = 1..Len(orders) /\ Len(orders) \in Nat
  BY DEF CheckoutInv, TypeOK
<1>2. \A i \in DOMAIN orders : <<orders[i].sale, orders[i].key>> \in Claims
  BY ClaimIs
<1>3. ASSUME NEW i \in DOMAIN orders, NEW j \in DOMAIN orders,
             orders[i].sale = orders[j].sale, orders[i].sale \notin touched
      PROVE  i = j
  <2>1. orders[i].key = orders[j].key
    <3>1. <<orders[i].sale, orders[i].key>> \in Claims
          /\ <<orders[j].sale, orders[j].key>> \in Claims
      BY <1>2
    <3> QED
      BY <1>3, <3>1 DEF CheckoutInv, SaleInv
  <2> QED
    BY <2>1 DEF CheckoutInv, RequestInv
<1>4. ASSUME NEW i \in DOMAIN orders, NEW j \in DOMAIN orders,
             orders[i].sale = orders[j].sale,
             orders[i].status = "paid", orders[j].status = "paid"
      PROVE  i = j
  <2>1. orders[i].key \in Hot /\ orders[j].key \in Hot
    BY <1>4, SettlingIs DEF Hot
  <2>2. orders[i].key = orders[j].key
    <3>1. <<orders[i].sale, orders[i].key>> \in Claims
          /\ <<orders[j].sale, orders[j].key>> \in Claims
      BY <1>2
    <3> QED
      BY <1>4, <2>1, <3>1 DEF CheckoutInv, PaymentInv
  <2> QED
    BY <2>2 DEF CheckoutInv, RequestInv
<1>5. ASSUME NEW n \in 1..sale, n \notin touched PROVE Cardinality(OrdersOf(n)) <= 1
  <2>1. OrdersOf(n) \subseteq 1..Len(orders) /\ \A i, j \in OrdersOf(n) : i = j
    BY <1>1, <1>3, <1>5 DEF OrdersOf
  <2> HIDE DEF OrdersOf
  <2> QED
    BY <1>1, <2>1, AtMostOne
<1>6. ASSUME NEW n \in 1..sale
      PROVE  Cardinality({i \in OrdersOf(n) : orders[i].status = "paid"}) <= 1
  <2> DEFINE S == {i \in OrdersOf(n) : orders[i].status = "paid"}
  <2>1. S \subseteq 1..Len(orders) /\ \A i, j \in S : i = j
    BY <1>1, <1>4, <1>6 DEF OrdersOf
  <2> HIDE DEF S
  <2>2. Cardinality(S) <= 1
    BY <1>1, <2>1, AtMostOne
  <2> QED
    BY <2>2 DEF S
<1> QED
  BY <1>5, <1>6 DEF OneOrderPerSale, OnePaidPerSale

\* Whatever is lost, reloaded or clicked, a customer whose cart does not change
\* once paying has begun has one order.
THEOREM OneOrderForEachSale == Spec => []OneOrderPerSale
<1> QED
  BY OrdersCounted, CheckoutInitially, CheckoutStep, PTL DEF Spec

\* Nobody pays two orders, even when a changed cart made a second one and when a
\* recovery overlaps a checkout.
THEOREM OnePaymentForEachSale == Spec => []OnePaidPerSale
<1> QED
  BY OrdersCounted, CheckoutInitially, CheckoutStep, PTL DEF Spec

-----------------------------------------------------------------------------
(* What a patient user may rely on. *)

\* A request that takes effect pays no order but the one it was to confirm.
LEMMA EffectPays ==
    ASSUME Base, NEW x, Sound(x), orders' = Effect(x), NEW i \in DOMAIN orders',
           orders'[i].status = "paid"
    PROVE  i \in DOMAIN orders /\ (orders[i].status = "paid"
                                     \/ (x.step = "confirm" /\ i = x.order))
<1>g. Grown /\ orders \in Seq(Order) /\ orders' \in Seq(Order)
  BY EffectGrows DEF Base, TypeOK, Grown
<1>d. /\ DOMAIN orders = 1..Len(orders) /\ Len(orders) \in Nat
      /\ DOMAIN orders' = 1..Len(orders')
  BY <1>g
<1>1. CASE orders' = orders
  BY <1>1
<1>2. CASE /\ x.step = "create" /\ Len(orders') = Len(orders) + 1
           /\ \A j \in DOMAIN orders : orders'[j] = orders[j]
           /\ orders'[Len(orders) + 1] = [key |-> x.p.key, basket |-> x.basket,
                                          sale |-> x.sale, status |-> "pending"]
  <2>1. i \in DOMAIN orders \/ i = Len(orders) + 1
    BY <1>d, <1>2
  <2>2. orders'[Len(orders) + 1].status = "pending"
    BY <1>2
  <2> QED
    BY <1>2, <2>1, <2>2
<1>3. CASE /\ x.step = "confirm" /\ Len(orders') = Len(orders)
           /\ \A j \in DOMAIN orders : j # x.order => orders'[j] = orders[j]
  BY <1>3, <1>d
<1> QED
  BY <1>1, <1>2, <1>3, EffectIs DEF Base

\* The steps that leave alone what PatientInv speaks of, but for an idle screen.
LEMMA PatientQuiet ==
    ASSUME CheckoutInv, PatientInv, UNCHANGED <<orders, stray, savedPending, acknowledged>>,
           \/ ~Busy'
           \/ Busy /\ run'.p = run.p
              /\ (run.step \in {"fetch", "confirm"} => run'.step \in {"fetch", "confirm"}),
           \/ ~Recovering'
           \/ Recovering /\ recovery'.order = recovery.order
           \/ recovery'.order = savedPending.order
    PROVE  PatientInv'
BY DEF PatientInv, PaidIsRemembered

\* With a patient user no step forgets a payment.
LEMMA PatientStep ==
    ASSUME PatientUser = TRUE, CheckoutInv, PatientInv, [Next]_vars
    PROVE  PatientInv'
<1>0. Base /\ TypeOK /\ MemoryInv /\ RequestInv
  BY DEF CheckoutInv, Base
<1>b. Base' /\ Later
  BY <1>0, BaseStep, LaterStep
<1>n. NoRun.step = "idle" /\ NoRecovery.net = "none" /\ NoPending.order = 0
  BY NothingTypes
<1>t. orders \in Seq(Order) /\ DOMAIN orders \subseteq Nat \ {0}
  BY <1>0 DEF TypeOK
<1> USE DEF store, history
<1>1. CASE HealthCheck \/ OpenDialog \/ CancelDialog \/ (\E b \in Baskets : EditCart(b))
           \/ (\E loaded \in BOOLEAN : ReadCart(loaded)) \/ ShowCart \/ ClearCart
           \/ UNCHANGED vars
  <2>1. UNCHANGED <<orders, stray, savedPending, acknowledged, run, recovery>>
    BY <1>1 DEF HealthCheck, OpenDialog, CancelDialog, EditCart, ReadCart, ShowCart, ClearCart,
                vars
  <2> QED
    BY <1>0, <2>1, PatientQuiet DEF Busy, Recovering
<1>2. CASE Load \/ SessionRefreshed
  <2>1. UNCHANGED <<orders, stray, savedPending, acknowledged, run>>
    BY <1>2 DEF Load, SessionRefreshed
  <2>2. recovery' = NoRecovery \/ recovery'.order = savedPending.order
    BY <1>2 DEF Load, SessionRefreshed, RecoveryStarted
  <2> QED
    BY <1>0, <1>n, <2>1, <2>2, PatientQuiet DEF Busy, Recovering
<1>3. CASE AfterError \/ LoseRecovery \/ ServeRecovery
  <2>1. UNCHANGED <<orders, stray, savedPending, acknowledged>>
    BY <1>3 DEF AfterError, LoseRecovery, ServeRecovery
  <2>2. ~Busy' \/ run' = run
    BY <1>3, <1>n DEF AfterError, LoseRecovery, ServeRecovery, Busy
  <2>3. ~Recovering' \/ (Recovering /\ recovery'.order = recovery.order)
    BY <1>0, <1>3, <1>n DEF AfterError, LoseRecovery, ServeRecovery, Recovering, TypeOK
  <2> QED
    BY <2>1, <2>2, <2>3, PatientQuiet DEF Busy
<1>4. CASE Confirm
  <2>1. /\ ~Recovering /\ UNCHANGED <<orders, stray, acknowledged, recovery>>
    BY <1>4 DEF Confirm, Hands
  <2>2. run'.p = savedPending'
    BY <1>0, <1>4, ConfirmIs
  <2>3. savedPending' = savedPending \/ (savedPending.order = 0 /\ savedPending'.order = 0)
    BY <1>0, <1>4, ConfirmIs
  <2> QED
    BY <2>1, <2>2, <2>3 DEF PatientInv, PaidIsRemembered, Recovering
<1>5. CASE Refuse
  <2>1. UNCHANGED <<orders, stray, savedPending, acknowledged, recovery>>
    BY <1>5 DEF Refuse
  <2>2. Busy /\ run'.p = run.p /\ run'.step = run.step
    BY <1>0, <1>5, GivenUpIs
  <2> QED
    BY <2>1, <2>2, PatientQuiet DEF Recovering
<1>6. CASE AfterFetch
  <2>1. UNCHANGED <<orders, stray, savedPending, acknowledged, recovery>>
    BY <1>6 DEF AfterFetch
  <2>2. Busy /\ run.p \in Pending
    BY <1>0, <1>6, BusyIs DEF AfterFetch, Run
  <2>3. run'.p = run.p /\ run'.step = "confirm"
    BY <1>0, <1>6, <2>2, ConfirmingIs DEF AfterFetch
  <2> QED
    BY <2>1, <2>2, <2>3, PatientQuiet DEF Recovering
<1>7. CASE AfterCreate
  <2>1. UNCHANGED <<orders, stray, acknowledged, recovery>>
    BY <1>7 DEF AfterCreate
  <2>2. Busy /\ run.step = "create" /\ run'.p = savedPending'
    BY <1>0, <1>7, AfterCreateIs
  \* No order was remembered yet, so every payment so far is acknowledged.
  <2>3. run.p = savedPending /\ savedPending.order = 0 /\ savedPending # NoPending
    <3>1. run.p = savedPending
      BY <2>2 DEF PatientInv
    <3>2. run.p.order = 0 /\ run.p.key \in 1..keys
      BY <1>0, <2>2 DEF RequestInv, Sound
    <3> QED
      BY <3>1, <3>2, NothingTypes DEF TypeOK
  <2>4. ~Recovering
    <3>1. Recovering => recovery.order \in DOMAIN orders
      BY <1>0 DEF MemoryInv
    <3> QED
      BY <1>t, <2>3, <3>1 DEF PatientInv
  <2>5. \A i \in DOMAIN orders : orders[i].status = "paid" => i \in acknowledged
    BY <1>t, <2>3 DEF PatientInv, PaidIsRemembered
  <2>6. \A x \in stray : x.step = "confirm" => orders[x.order].status = "paid"
    <3>1. \A x \in stray : x.step = "confirm" => x.order \in DOMAIN orders
      BY <1>0 DEF RequestInv, Sound
    <3> QED
      BY <1>t, <2>3, <3>1 DEF PatientInv
  <2> QED
    BY <2>1, <2>2, <2>4, <2>5, <2>6 DEF PatientInv, PaidIsRemembered, Recovering
<1>8. CASE Serve
  <2>1. UNCHANGED <<stray, savedPending, acknowledged, recovery>>
    BY <1>8 DEF Serve
  <2>2. /\ Sound(run) /\ Busy /\ Grown /\ run'.p = run.p /\ run'.step = run.step
        /\ orders' = Effect(run)
    BY <1>0, <1>8, AnswerIs DEF Serve
  <2>3. run.p = savedPending \/ run.p.order \in acknowledged
    BY <2>2 DEF PatientInv
  <2>4. \A x \in stray : x.step = "confirm" =>
            orders'[x.order].status = "paid" \/ x.order = savedPending.order
    BY <1>0, <2>2 DEF PatientInv, RequestInv, Sound, Grown
  <2>5. \A i \in DOMAIN orders' : orders'[i].status = "paid" /\ i \notin acknowledged
                                    => savedPending.order = i
    <3>1. run.step = "confirm" => run.order = savedPending.order \/ run.order \in acknowledged
      BY <2>2, <2>3 DEF Sound
    <3> QED
      BY <1>0, <2>2, <3>1, EffectPays DEF PatientInv, PaidIsRemembered
  <2>6. \A i \in acknowledged : orders'[i].status = "paid"
    BY <1>0, <2>2 DEF PatientInv, Grown, TypeOK
  <2> QED
    BY <2>1, <2>2, <2>4, <2>5, <2>6 DEF PatientInv, PaidIsRemembered, Recovering, Busy
<1>9. ASSUME NEW y \in stray, ServeStray(y) PROVE PatientInv'
  <2>1. UNCHANGED <<savedPending, acknowledged, recovery, run>> /\ stray' \subseteq stray
    BY <1>9 DEF ServeStray
  <2>2. Sound(y) /\ Grown /\ orders' = Effect(y)
    BY <1>0, <1>9, EffectGrows DEF ServeStray, RequestInv
  <2>4. \A x \in stray : x.step = "confirm" =>
            orders'[x.order].status = "paid" \/ x.order = savedPending.order
    BY <1>0, <2>2 DEF PatientInv, RequestInv, Sound, Grown
  <2>5. \A i \in DOMAIN orders' : orders'[i].status = "paid" /\ i \notin acknowledged
                                    => savedPending.order = i
    <3>1. y.step = "confirm" => \/ orders[y.order].status = "paid"
                                \/ y.order = savedPending.order
      BY DEF PatientInv
    <3> QED
      BY <1>0, <2>2, <3>1, EffectPays DEF PatientInv, PaidIsRemembered
  <2>6. \A i \in acknowledged : orders'[i].status = "paid"
    BY <1>0, <2>2 DEF PatientInv, Grown, TypeOK
  <2> QED
    BY <2>1, <2>4, <2>5, <2>6 DEF PatientInv, PaidIsRemembered, Recovering, Busy
<1>10. CASE ClosePage \/ Lose
  <2>1. UNCHANGED <<orders, savedPending, acknowledged>> /\ stray' = Afterlife
    BY <1>10 DEF ClosePage, Lose
  <2>2. \A x \in stray' : x.step = "confirm" =>
            orders[x.order].status = "paid" \/ x.order = savedPending.order
    <3>1. CASE run.net = "sent" /\ run.step \in {"create", "confirm"}
      <4>1. Busy /\ Sound(run) /\ stray' = stray \cup {run}
        BY <1>0, <2>1, <3>1, BusyIs DEF Afterlife
      <4>2. run.step = "confirm" => run.order = savedPending.order
                                      \/ orders[run.order].status = "paid"
        BY <4>1 DEF PatientInv, Sound
      <4> QED
        BY <4>1, <4>2 DEF PatientInv
    <3>2. CASE ~(run.net = "sent" /\ run.step \in {"create", "confirm"})
      BY <2>1, <3>2 DEF Afterlife, PatientInv
    <3> QED
      BY <3>1, <3>2
  <2>3. \/ ~Busy' /\ ~Recovering'
        \/ Busy /\ run'.p = run.p /\ run'.step = run.step /\ UNCHANGED recovery
    <3>1. CASE ClosePage
      BY <1>n, <3>1 DEF ClosePage, Busy, Recovering
    <3>2. CASE Lose
      BY <1>0, <3>2, GivenUpIs DEF Lose
    <3> QED
      BY <1>10, <3>1, <3>2
  <2> QED
    BY <2>1, <2>2, <2>3 DEF PatientInv, PaidIsRemembered, Busy, Recovering
\* The order that ends the sale is the one that was remembered, or one the other
\* of call and recovery has ended already.
<1>11. ASSUME NEW i, Ends(i),
              i = savedPending.order \/ (savedPending = NoPending /\ i \in acknowledged),
              run' \in {run, NoRun}, recovery' \in {recovery, NoRecovery}
       PROVE  PatientInv'
  <2>1. /\ UNCHANGED <<orders, stray>> /\ acknowledged' = acknowledged \cup {i}
        /\ savedPending' = NoPending /\ orders[i].status = "paid" /\ i \in DOMAIN orders
    BY <1>11 DEF Ends
  <2>2. Busy' => Busy /\ run' = run
    BY <1>11, <1>n DEF Busy
  <2>3. Recovering' => Recovering /\ recovery' = recovery
    BY <1>11, <1>n DEF Recovering
  <2>4. CASE savedPending = NoPending /\ i \in acknowledged
    <3>1. acknowledged' = acknowledged /\ savedPending' = savedPending
      BY <2>1, <2>4
    <3> QED
      BY <2>1, <2>2, <2>3, <3>1, PatientQuiet
  <2>5. CASE i = savedPending.order
    <3>1. i # 0 /\ savedPending # NoPending
      BY <1>n, <1>t, <2>1, <2>5
    <3>2. Busy => run.p = savedPending /\ run.step \in {"fetch", "confirm"}
      <4>1. Busy => run.p = savedPending
        BY <3>1 DEF PatientInv
      <4>2. Busy => Sound(run) /\ run.step \in {"create", "fetch", "confirm"}
        BY <1>0, BusyIs DEF Busy
      <4> QED
        BY <2>5, <3>1, <4>1, <4>2 DEF Sound
    <3>3. Recovering => recovery.order = i
      BY <2>5, <3>1 DEF PatientInv
    <3>4. \A x \in stray : x.step = "confirm" => orders[x.order].status = "paid"
      BY <2>1, <2>5 DEF PatientInv
    <3> QED
      BY <1>n, <2>1, <2>2, <2>3, <2>5, <3>2, <3>3, <3>4 DEF PatientInv, PaidIsRemembered
  <2> QED
    BY <1>11, <2>4, <2>5
<1>12. CASE AfterPaid
  <2>1. run.net = "answered" /\ run.result = "paid"
    BY <1>12 DEF AfterPaid
  <2>2. Busy /\ Sound(run) /\ run.step \in {"create", "fetch", "confirm"}
    BY <1>0, <2>1, BusyIs
  <2>3. /\ run.order \in DOMAIN orders /\ orders[run.order].key = run.p.key
        /\ orders[run.order].status = "paid"
    BY <1>0, <2>1 DEF RequestInv
  <2>4. run.step # "create"
    BY <2>3, SettlingIs DEF CheckoutInv, PaymentInv
  <2>5. run.order = savedPending.order
          \/ (savedPending = NoPending /\ run.order \in acknowledged)
    BY <2>2, <2>4 DEF Sound, PatientInv
  <2>6. Ends(run.order) /\ run' = NoRun /\ UNCHANGED recovery
    BY <1>0, <1>12, EndsIs
  <2> QED
    BY <1>11, <2>5, <2>6
<1>13. CASE AfterRecovery
  <2>1. Recovering
    BY <1>13 DEF AfterRecovery, Recovering
  <2>2. recovery.order = savedPending.order
          \/ (savedPending = NoPending /\ recovery.order \in acknowledged)
    BY <2>1 DEF PatientInv
  <2>3. CASE recovery.status = "paid"
    <3>1. Ends(recovery.order) /\ recovery' = NoRecovery /\ UNCHANGED run
      BY <1>0, <1>13, <2>3, EndsIs
    <3> QED
      BY <1>11, <2>2, <3>1
  <2>4. CASE recovery.status # "paid"
    <3>1. UNCHANGED <<orders, stray, savedPending, acknowledged, run>> /\ recovery' = NoRecovery
      BY <1>0, <1>13, <2>4, EndsIs
    <3> QED
      BY <1>n, <3>1, PatientQuiet DEF Busy, Recovering
  <2> QED
    BY <2>3, <2>4
<1> QED
  BY <1>1, <1>2, <1>3, <1>4, <1>5, <1>6, <1>7, <1>8, <1>9, <1>10, <1>12, <1>13 DEF Next

\* While the cashier touches nothing during a recovery, a payment that was lost
\* or came late is found again: its order is the one written down.
THEOREM PaymentsAreRemembered == PatientUser = TRUE => (Spec => []PaidIsRemembered)
<1> SUFFICES ASSUME PatientUser = TRUE PROVE Spec => []PaidIsRemembered
  OBVIOUS
<1>1. Init => PatientInv
  <2> SUFFICES ASSUME Init PROVE PatientInv
    OBVIOUS
  <2>1. orders = << >> /\ stray = {} /\ run = NoRun /\ recovery = NoRecovery
    BY DEF Init
  <2>2. DOMAIN orders = {}
    BY <2>1
  <2> QED
    BY <2>1, <2>2, NothingTypes DEF Init, PatientInv, PaidIsRemembered, Busy, Recovering
<1>2. CheckoutInv /\ PatientInv /\ [Next]_vars => PatientInv'
  BY PatientStep
<1>3. PatientInv => PaidIsRemembered
  BY DEF PatientInv
<1> QED
  BY <1>1, <1>2, <1>3, CheckoutInitially, CheckoutStep, PTL DEF Spec

\* Where no load of the products fails, the cart on the open page is the one the
\* cashier built, over any reloads, recoveries and renewed sessions, until a change
\* falls between the reading of the stored cart and the timer that shows it, or before.
THEOREM CartsSurvive == MaxFailed = 0 => (Spec => []CartSurvives)
<1> SUFFICES ASSUME MaxFailed = 0 PROVE Spec => []CartSurvives
  OBVIOUS
<1>1. Init => CartInv
  BY DEF Init, CartInv
<1>2. CheckoutInv /\ CartInv /\ [Next]_vars => CartInv'
  <2> SUFFICES ASSUME CheckoutInv, CartInv, [Next]_vars PROVE CartInv'
    OBVIOUS
  <2>0. /\ TypeOK /\ MemoryInv /\ RequestInv
        /\ budget \in [{"loads", "failed", "lost", "refreshes", "edits"} -> Nat]
        /\ budget["failed"] = 0
    BY DEF CheckoutInv, TypeOK, CartInv
  <2>m. /\ page = "closed" => cart = Empty
        /\ page = "open" => savedCart = cart
        /\ page \in {"closed", "loading", "restoring", "open"}
    BY <2>0 DEF MemoryInv, TypeOK
  <2>s. ASSUME NEW kind \in {"loads", "failed", "lost", "refreshes", "edits"}, Spend(kind)
        PROVE  kind # "failed" /\ budget'["failed"] = 0
    BY <2>0, <2>s DEF Spend
  <2> USE DEF store, history
  <2>1. CASE \/ LoseRecovery \/ Refuse \/ Lose
    BY <2>1, <2>s DEF LoseRecovery, Refuse, Lose, CartInv
  <2>2. ASSUME NEW loaded \in BOOLEAN, ReadCart(loaded) PROVE CartInv'
    <3>1. loaded
      BY <2>2, <2>s DEF ReadCart
    <3> QED
      BY <2>0, <2>2, <3>1 DEF ReadCart, Restored, CartInv
  <2>3. ASSUME NEW b \in Baskets, EditCart(b) PROVE CartInv'
    BY <2>3, <2>s DEF EditCart, CartInv
  <2>4. CASE ClearCart
    BY <2>0, <2>4 DEF ClearCart, EmptyCart, CartInv
  <2>5. CASE AfterPaid
    BY <2>0, <2>5, EndsIs DEF Ends, EmptyCart, CartInv
  <2>6. CASE AfterRecovery
    <3>1. CASE recovery.status = "paid"
      BY <2>0, <2>6, <3>1, EndsIs DEF Ends, EmptyCart, CartInv
    <3>2. CASE recovery.status # "paid"
      BY <2>6, <3>2 DEF AfterRecovery, CartInv
    <3> QED
      BY <3>1, <3>2
  <2>7. CASE Load
    BY <2>m, <2>7, <2>s DEF Load, CartInv
  <2>8. CASE ShowCart
    BY <2>8 DEF ShowCart, CartInv
  <2>9. CASE SessionRefreshed
    BY <2>9, <2>s DEF SessionRefreshed, CartInv
  <2>10. CASE ClosePage
    BY <2>10 DEF ClosePage, CartInv
  <2>11. CASE Confirm
    <3>1. page # "closed"
      BY <2>0, <2>11, ConfirmIs
    <3> QED
      BY <2>m, <2>11, <3>1 DEF Confirm, CartInv
  <2>12. UNCHANGED <<budget, page, cart, savedCart, restored, built, overtaken>> => CartInv'
    BY DEF CartInv
  <2>13. \/ UNCHANGED <<budget, page, cart, savedCart, restored, built, overtaken>>
         \/ LoseRecovery \/ Refuse \/ Lose \/ (\E loaded \in BOOLEAN : ReadCart(loaded))
         \/ (\E b \in Baskets : EditCart(b)) \/ ClearCart \/ AfterPaid \/ AfterRecovery
         \/ Load \/ ShowCart \/ SessionRefreshed \/ ClosePage \/ Confirm
    BY DEF Next, vars, HealthCheck, OpenDialog, CancelDialog, Serve, ServeStray, AfterCreate,
           AfterFetch, AfterError, ServeRecovery
  <2> QED
    BY <2>1, <2>2, <2>3, <2>4, <2>5, <2>6, <2>7, <2>8, <2>9, <2>10, <2>11, <2>12, <2>13
<1>3. CheckoutInv /\ CartInv => CartSurvives
  BY DEF CheckoutInv, MemoryInv, CartInv, CartSurvives
<1> QED
  BY <1>1, <1>2, <1>3, CheckoutInitially, CheckoutStep, PTL DEF Spec
=============================================================================
