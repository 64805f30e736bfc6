--------------------------- MODULE CashSettlement ---------------------------
(***************************************************************************)
(* Cash payment in two currencies.  The owner sets the business exchange   *)
(* rate; an order takes a snapshot of it together with its USD and KHR     *)
(* totals; confirmCashPayment, under the order's row lock, compares the    *)
(* tender with the total, records it with the change due in either         *)
(* currency, and pays the order.  Amounts are US cents and whole riel;     *)
(* the comparison is made in hundredths of a riel.                         *)
(***************************************************************************)
EXTENDS Integers

CONSTANTS
    Orders,
    MinRate, MaxRate, \* bounds of the exchange rate, riel per dollar
    \* The inputs considered
    OfferedRates, UsdTotals, KhrTotals, UsdTenders, KhrTenders

ASSUME RateAssumption ==
    /\ MinRate \in Nat \ {0}
    /\ MaxRate \in Nat
ASSUME InputsAssumption ==
    /\ OfferedRates \subseteq Nat
    /\ UsdTotals \subseteq Nat \ {0}
    /\ KhrTotals \subseteq Nat \ {0}
    /\ UsdTenders \subseteq Nat  \* 0: cash_received_usd is null
    /\ KhrTenders \subseteq Nat

VARIABLES
    rate,   \* business_financial_settings.exchange_rate_khr_per_usd
    order   \* the rows of orders

vars == <<rate, order>>
-----------------------------------------------------------------------------
RateStep == 100

\* validateExchangeRate
RateAllowed(r) == MinRate <= r /\ r <= MaxRate /\ r % RateStep = 0

Row == [status : {"none", "pending_payment", "paid"}, totalUsd : Nat, totalKhr : Nat,
        currency : {"usd", "khr"}, rate : Nat, receivedUsd : Nat, receivedKhr : Nat,
        changeUsd : Nat, changeKhr : Nat]

NoRow == [status |-> "none", totalUsd |-> 0, totalKhr |-> 0, currency |-> "usd",
          rate |-> 0, receivedUsd |-> 0, receivedKhr |-> 0,
          changeUsd |-> 0, changeKhr |-> 0]

TypeOK ==
    /\ rate \in Nat
    /\ order \in [Orders -> Row]

Init ==
    /\ rate \in {r \in OfferedRates : RateAllowed(r)}
    /\ order = [o \in Orders |-> NoRow]
-----------------------------------------------------------------------------
(* calculateMixedCashSettlement, in hundredths of a riel. *)

Required(row) ==
    IF row.currency = "khr" THEN row.totalKhr * 100 ELSE row.totalUsd * row.rate

Value(usd, khr, r) == usd * r + khr * 100

\* Faulty variant: change in dollars is cut off instead of rounded.
ChangeUsdCutOff(owed, r) == owed \div r

\* Math.floor((owed + rate / 2) / rate)
ChangeUsd(owed, r) == (2 * owed + r) \div (2 * r)

ChangeKhr(owed) == owed \div 100
-----------------------------------------------------------------------------
\* updateFinancialSettings
UpdateRate(r) ==
    /\ RateAllowed(r)
    /\ rate' = r
    /\ UNCHANGED order

\* createOrder: both totals come from the synchronized price lists, the rate is
\* the one of the moment.
PlaceOrder(o, usd, khr, currency) ==
    /\ order[o].status = "none"
    /\ order' = [order EXCEPT ![o] =
           [NoRow EXCEPT !.status = "pending_payment", !.totalUsd = usd, !.totalKhr = khr,
                         !.currency = currency, !.rate = rate]]
    /\ UNCHANGED rate

\* Faulty variant: the status is not tested again under the row lock.
AwaitsPaymentUnchecked(o) == order[o].status # "none"

AwaitsPayment(o) == order[o].status = "pending_payment"

\* Faulty variant: the tender is valued at the rate of the moment.
AppliedRateCurrent(o) == rate

AppliedRate(o) == order[o].rate

Sufficient(o, usd, khr) == Value(usd, khr, AppliedRate(o)) >= Required(order[o])

ConfirmCash(o, usd, khr) ==
    LET owed == Value(usd, khr, AppliedRate(o)) - Required(order[o]) IN
    /\ AwaitsPayment(o)
    /\ usd > 0 \/ khr > 0
    /\ Sufficient(o, usd, khr)
    /\ order' = [order EXCEPT ![o] =
           [@ EXCEPT !.status = "paid", !.receivedUsd = usd, !.receivedKhr = khr,
                     !.changeUsd = ChangeUsd(owed, AppliedRate(o)),
                     !.changeKhr = ChangeKhr(owed)]]
    /\ UNCHANGED rate

Next ==
    \/ \E r \in OfferedRates : UpdateRate(r)
    \/ \E o \in Orders, usd \in UsdTotals, khr \in KhrTotals, c \in {"usd", "khr"} :
          PlaceOrder(o, usd, khr, c)
    \/ \E o \in Orders, usd \in UsdTenders, khr \in KhrTenders : ConfirmCash(o, usd, khr)

Spec == Init /\ [][Next]_vars
-----------------------------------------------------------------------------
Paid(o) == order[o].status = "paid"

\* What the customer gave beyond the total, at the order's own rate.
Overpaid(o) ==
    Value(order[o].receivedUsd, order[o].receivedKhr, order[o].rate) - Required(order[o])

\* The till balances to the riel: tender less change in riel is exactly the
\* total, because rates are whole hundreds ("Owner rates must be whole-hundred
\* KHR values, allowing deterministic conversion", docs/design/payment-flow.md).
RielChangeExact ==
    \A o \in Orders : Paid(o) => 100 * order[o].changeKhr = Overpaid(o)

\* Change in dollars is the nearest cent, ties upwards: it is off by at most
\* half a cent, and half a cent only ever in the customer's favour.
DollarChangeNearest ==
    \A o \in Orders : Paid(o) =>
        /\ 2 * (order[o].changeUsd * order[o].rate - Overpaid(o)) <= order[o].rate
        /\ 2 * (Overpaid(o) - order[o].changeUsd * order[o].rate) < order[o].rate

\* A paid order stays as it was settled, whatever is confirmed again or
\* whichever rate the owner sets later.
SettledOnce ==
    [][\A o \in Orders : Paid(o) => order'[o] = order[o]]_vars
=============================================================================
